------------------------------ MODULE Delivery ------------------------------
(***************************************************************************)
(* From the commit of a bar to its consumers.  Lanes commit the rows of a  *)
(* bar to the transactional outbox and publish the frame live; the         *)
(* dispatcher publishes every outbox row again, to JetStream and to the    *)
(* WebSocket hub, and marks it.  What a lane computes is left to module    *)
(* Lane: here a bar is its number and a candle's trade count.  Lanes are   *)
(* independent actors; the single OHLC reader of the present process only  *)
(* rules some of their interleavings out.                                  *)
(***************************************************************************)
EXTENDS Integers, FiniteSets, FiniteSetsExt, Sequences

CONSTANTS
  Series,            \* configured series, one lane each
  Colours,           \* colours of a forming candle
  None,              \* absent value
  BatchSize,         \* limit of PendingEvents, 250 in the code
  AmbiguousCommits,  \* may a commit succeed although the lane sees an error?
  MaxBars,           \* bound: bars that close per series
  MaxTrades,         \* bound: trades per forming candle
  MaxFaults,         \* bound: broker and store failures, dedupe expiries
  MaxCrashes         \* bound: process crashes

ASSUME DeliveryAssumption ==
  /\ None \notin Series
  /\ BatchSize \in Nat \ {0}
  /\ AmbiguousCommits \in BOOLEAN
  /\ {MaxBars, MaxTrades, MaxFaults, MaxCrashes} \subseteq Nat

VARIABLES
  proc,    \* the process: "off", "flush" (startup barrier) or "run"
  lanes,   \* per series, what its lane goroutine is doing
  trades,  \* trades[s][n]: trades of candle n so far, kept by the OHLC service
  lock,    \* series whose transaction holds outboxAdvisoryLock
  rows,    \* signal_event_outbox; a row's index is its serial cursor
  marked,  \* cursors of rows with a published_at
  disp,    \* the dispatcher
  live,    \* JetStream.live: the last provisional frame per series
  eval,    \* MARKET_EVALUATION, per series
  facts,   \* MARKET_FACTS, as the frames it holds
  window,  \* message ids the broker still remembers
  hub,     \* cursors this process has published to its hub
  spent    \* faults and crashes so far

outbox == <<lock, rows, marked>>
broker == <<eval, facts, window>>
vars == <<proc, lanes, trades, outbox, disp, live, broker, hub, spent>>

-----------------------------------------------------------------------------
(* The outbox table.  A row is "open" until its transaction ends.          *)

Cursors == DOMAIN rows

Durable == {c \in Cursors : rows[c].state = "durable"}

\* The bar on which signal_series_cursors stands.
DurableBar(s) ==
  LET mine == {rows[c].bar : c \in {d \in Durable : rows[d].series = s}}
  IN  IF mine = {} THEN 0 ELSE CHOOSE n \in mine : \A m \in mine : m <= n

\* The rows one closed bar inserts: its EMA point, then its market frame.
NewRows(s, n) ==
  [i \in 1..2 |-> [series |-> s, bar |-> n, state |-> "open",
                   kind |-> IF i = 1 THEN "point" ELSE "frame"]]

\* The transactions of the series in S end: their rows stay or vanish.
Ended(S, state) ==
  [c \in Cursors |-> IF rows[c].series \in S /\ rows[c].state = "open"
                       THEN [rows[c] EXCEPT !.state = state] ELSE rows[c]]

\* PendingEvents: the oldest unpublished rows other transactions can see.  They
\* come in cursor order, so that the next row of a batch is its least.
PendingEvents ==
  LET todo == Durable \ marked
  IN  {c \in todo : Cardinality({d \in todo : d < c}) < BatchSize}

-----------------------------------------------------------------------------
(* JetStream.  An index of eval[s] is a stream sequence: what is purged     *)
(* leaves a gap.  A message id is the event id: series, bar and revision,  *)
(* not whether the frame is confirmed.                                     *)

Message(kind, n, rev, colour) == [kind |-> kind, bar |-> n, rev |-> rev, colour |-> colour]

Confirmed(s, n) == Message("confirmed", n, trades[s][n] + 1, None)

MsgId(stream, s, m) == <<stream, s, m.bar, m.rev>>

Purged == Message("purged", 0, 0, None)

\* A snapshot carries Nats-Rollup and purges the snapshots before it.
Rollup(q, m) ==
  [i \in DOMAIN q |-> IF m.kind = "snapshot" /\ q[i].kind = "snapshot" THEN Purged ELSE q[i]]

StoreEval(s, m) ==
  IF MsgId("eval", s, m) \in window
    THEN UNCHANGED <<eval, window>>
    ELSE /\ eval' = [eval EXCEPT ![s] = Append(Rollup(@, m), m)]
         /\ window' = window \cup {MsgId("eval", s, m)}

StoreFact(s, n) ==
  /\ facts' = facts \cup {<<s, n>>}
  /\ window' = window \cup {MsgId("facts", s, Confirmed(s, n))}

Spend(what, limit) ==
  /\ spent[what] < limit
  /\ spent' = [spent EXCEPT ![what] = @ + 1]

Fault == Spend("faults", MaxFaults)

\* The ten-minute duplicate window of the streams passes.
ForgetIds ==
  /\ window # {}
  /\ Fault
  /\ window' = {}
  /\ UNCHANGED <<proc, lanes, trades, outbox, disp, live, eval, facts, hub>>

-----------------------------------------------------------------------------
(* A lane.  pc is "idle", "tx" (in CommitClosed), "live" (publishing out)  *)
(* or "reseed" (the command failed and the connection is being redone).    *)

Lane(pc, last, forming, out) == [pc |-> pc, last |-> last, forming |-> forming, out |-> out]

\* Mutant: cursors are drawn without outboxAdvisoryLock.
OutboxUnlocked == TRUE

OutboxFree == lock = None

\* CommitClosed up to its COMMIT: the lock, the cursor check and the inserts.
\* A bar the store already has is acknowledged with no events to publish.
Begin(s) ==
  LET l == lanes[s]
      n == l.last + 1
  IN  /\ proc = "run" /\ l.pc \in {"idle", "reseed"}
      /\ n <= MaxBars
      /\ OutboxFree
      /\ IF DurableBar(s) = n
           THEN /\ lanes' = [lanes EXCEPT ![s] = Lane("idle", n, None, None)]
                /\ UNCHANGED <<lock, rows>>
           ELSE /\ lanes' = [lanes EXCEPT ![s].pc = "tx"]
                /\ lock' = s
                /\ rows' = rows \o NewRows(s, n)
      /\ UNCHANGED <<proc, trades, marked, disp, live, broker, hub, spent>>

\* The COMMIT succeeds and the frame is handed to the live publisher, or it
\* fails, and the rows are gone or, unknown to the lane, durable.
Commit(s) ==
  /\ lanes[s].pc = "tx"
  /\ lock' = None
  /\ \/ /\ rows' = Ended({s}, "durable")
        /\ lanes' = [lanes EXCEPT ![s].pc = "live",
                                  ![s].out = Confirmed(s, lanes[s].last + 1)]
        /\ UNCHANGED spent
     \/ /\ \/ rows' = Ended({s}, "gone")
           \/ AmbiguousCommits /\ rows' = Ended({s}, "durable")
        /\ lanes' = [lanes EXCEPT ![s].pc = "reseed"]
        /\ Fault
  /\ UNCHANGED <<proc, trades, marked, disp, live, broker, hub>>

\* Mutant: a change of colour is no transition.
TransitionOnNewCandle(s, n, colour) == live[s] \notin [bar : {n}, colour : Colours]

\* liveDecision: a new candle or a change of colour.
Transition(s, n, colour) == live[s] # [bar |-> n, colour |-> colour]

\* applyForming: a trade moves the forming candle.  Outside a transition the
\* frame is a snapshot, or is coalesced because a second has not passed.
Forming(s) ==
  LET l == lanes[s]
      n == l.last + 1
  IN  /\ proc = "run" /\ l.pc = "idle"
      /\ trades[s][n] < MaxTrades
      /\ trades' = [trades EXCEPT ![s][n] = @ + 1]
      /\ \E colour \in Colours :
           LET here == [bar |-> n, colour |-> colour]
               out(kind) == Message(kind, n, trades[s][n] + 1, colour)
           IN  \/ /\ Transition(s, n, colour)
                  /\ lanes' = [lanes EXCEPT ![s] = Lane("live", l.last, here, out("transition"))]
               \/ /\ ~Transition(s, n, colour)
                  /\ lanes' = [lanes EXCEPT ![s] = Lane("live", l.last, here, out("snapshot"))]
               \/ /\ ~Transition(s, n, colour)
                  /\ lanes' = [lanes EXCEPT ![s] = Lane("idle", l.last, here, None)]
      /\ UNCHANGED <<proc, outbox, disp, live, broker, hub, spent>>

\* The live publish returns: a confirmed frame is installed in memory.
Published(s) ==
  LET l == lanes[s] IN
  lanes' = [lanes EXCEPT ![s] = IF l.out.kind = "confirmed"
                                  THEN Lane("idle", l.out.bar, None, None)
                                  ELSE Lane("idle", l.last, l.forming, None)]

\* evaluationBrokerPublisher around PublishEvaluation: everything but a
\* snapshot is retried until the broker acknowledges it.
PublishLive(s) ==
  LET l == lanes[s]
      m == l.out
  IN  /\ proc = "run" /\ l.pc = "live"
      /\ \/ /\ StoreEval(s, m)
            /\ live' = [live EXCEPT ![s] = IF m.kind = "confirmed" THEN None ELSE l.forming]
            /\ Published(s)
            /\ UNCHANGED spent
         \/ /\ Fault
            /\ StoreEval(s, m) \/ UNCHANGED <<eval, window>>
            /\ IF m.kind = "snapshot" THEN Published(s) ELSE UNCHANGED lanes
            /\ UNCHANGED live
      /\ UNCHANGED <<proc, trades, outbox, disp, facts, hub>>

-----------------------------------------------------------------------------
(* The dispatcher.  pc is "idle" or the call Flush is in: "eval", "facts"  *)
(* and "hub" for the least row of todo, "mark" for the batch.              *)

Waiting == [pc |-> "idle", batch |-> {}, todo |-> {}]

Row == rows[Min(disp.todo)]

\* multiPublisher's first call for a row: only frames go to JetStream.
FirstCall(c) == IF rows[c].kind = "frame" THEN "eval" ELSE "hub"

\* Mutant: Run returns on the first failed Flush.
FlushStops ==
  /\ Fault
  /\ disp' = [Waiting EXCEPT !.pc = "stopped"]
  /\ proc' = IF proc = "flush" THEN "off" ELSE proc

\* Flush returns an error: startup gives up, Run tries again at the next tick.
FlushFails ==
  /\ Fault
  /\ disp' = Waiting
  /\ proc' = IF proc = "flush" THEN "off" ELSE proc

\* PendingEvents.  An empty answer ends Flush, and with it the startup barrier.
Load ==
  /\ proc # "off" /\ disp.pc = "idle"
  /\ \/ /\ PendingEvents # {}
        /\ disp' = [pc |-> FirstCall(Min(PendingEvents)),
                    batch |-> PendingEvents, todo |-> PendingEvents]
        /\ UNCHANGED <<proc, spent>>
     \/ /\ PendingEvents = {}
        /\ proc' = "run"
        /\ UNCHANGED <<disp, spent>>
     \/ FlushFails
  /\ UNCHANGED <<lanes, trades, outbox, live, broker, hub>>

PublishEval ==
  /\ disp.pc = "eval"
  /\ \/ /\ StoreEval(Row.series, Confirmed(Row.series, Row.bar))
        /\ disp' = [disp EXCEPT !.pc = "facts"]
        /\ UNCHANGED <<proc, spent>>
     \/ /\ StoreEval(Row.series, Confirmed(Row.series, Row.bar)) \/ UNCHANGED <<eval, window>>
        /\ FlushFails
  /\ UNCHANGED <<lanes, trades, outbox, live, facts, hub>>

PublishFact ==
  /\ disp.pc = "facts"
  /\ \/ /\ StoreFact(Row.series, Row.bar)
        /\ disp' = [disp EXCEPT !.pc = "hub"]
        /\ UNCHANGED <<proc, spent>>
     \/ /\ StoreFact(Row.series, Row.bar) \/ UNCHANGED <<facts, window>>
        /\ FlushFails
  /\ UNCHANGED <<lanes, trades, outbox, live, eval, hub>>

\* Hub.Publish cannot fail; the loop goes on to the next row.
PublishHub ==
  /\ disp.pc = "hub"
  /\ hub' = hub \cup {Min(disp.todo)}
  /\ LET rest == disp.todo \ {Min(disp.todo)}
     IN  disp' = [disp EXCEPT !.todo = rest,
                    !.pc = IF rest = {} THEN "mark" ELSE FirstCall(Min(rest))]
  /\ UNCHANGED <<proc, lanes, trades, outbox, live, broker, spent>>

\* Mutant: the batch is marked while its last row is on the way to the hub.
MarkEarly ==
  /\ disp.pc = "mark" \/ (disp.pc = "hub" /\ Cardinality(disp.todo) = 1)
  /\ \/ /\ marked' = marked \cup disp.batch
        /\ disp' = Waiting
        /\ proc' = IF Cardinality(disp.batch) < BatchSize THEN "run" ELSE proc
        /\ UNCHANGED spent
     \/ /\ marked' \in {marked, marked \cup disp.batch}
        /\ FlushFails
  /\ UNCHANGED <<lanes, trades, lock, rows, live, broker, hub>>

\* MarkPublished, whose error also leaves open whether it took effect.  A
\* short batch ends Flush.
Mark ==
  /\ disp.pc = "mark"
  /\ \/ /\ marked' = marked \cup disp.batch
        /\ disp' = Waiting
        /\ proc' = IF Cardinality(disp.batch) < BatchSize THEN "run" ELSE proc
        /\ UNCHANGED spent
     \/ /\ marked' \in {marked, marked \cup disp.batch}
        /\ FlushFails
  /\ UNCHANGED <<lanes, trades, lock, rows, live, broker, hub>>

-----------------------------------------------------------------------------
(* The process.                                                            *)

\* Mutant: no Flush before the lanes start.
StartWithoutBarrier ==
  /\ proc = "off"
  /\ proc' = "run"
  /\ lanes' = [s \in Series |-> Lane("idle", DurableBar(s), None, None)]
  /\ UNCHANGED <<trades, outbox, disp, live, broker, hub, spent>>

\* run: the outbox is flushed before the lanes start; they then restore the
\* bar of their durable cursor, which publishes nothing.
Start ==
  /\ proc = "off"
  /\ proc' = "flush"
  /\ lanes' = [s \in Series |-> Lane("idle", DurableBar(s), None, None)]
  /\ hub' = {}
  /\ UNCHANGED <<trades, outbox, disp, live, broker, spent>>

\* The process dies; a COMMIT it had sent may or may not have been executed.
Crash ==
  /\ proc # "off"
  /\ Spend("crashes", MaxCrashes)
  /\ proc' = "off"
  /\ lanes' = [s \in Series |-> Lane("idle", 0, None, None)]
  /\ disp' = Waiting
  /\ live' = [s \in Series |-> None]
  /\ hub' = {}
  /\ lock' = None
  /\ rows' \in {Ended(Series, "gone"), Ended(Series, "durable")}
  /\ UNCHANGED <<trades, marked, broker>>

Init ==
  /\ proc = "off"
  /\ lanes = [s \in Series |-> Lane("idle", 0, None, None)]
  /\ trades = [s \in Series |-> [n \in 1..(MaxBars + 1) |-> 0]]
  /\ lock = None /\ rows = <<>> /\ marked = {}
  /\ disp = Waiting
  /\ live = [s \in Series |-> None]
  /\ eval = [s \in Series |-> <<>>] /\ facts = {} /\ window = {}
  /\ hub = {}
  /\ spent = [faults |-> 0, crashes |-> 0]

LaneStep(s) == Begin(s) \/ Commit(s) \/ Forming(s) \/ PublishLive(s)

Dispatch == Load \/ PublishEval \/ PublishFact \/ PublishHub \/ Mark

Next == (\E s \in Series : LaneStep(s)) \/ Dispatch \/ Start \/ Crash \/ ForgetIds

Spec == Init /\ [][Next]_vars

\* The supervisor restarts the process, the poll ticker fires, a transaction
\* ends and a publish returns.  Bars need not close nor candles move.
Fairness ==
  /\ WF_vars(Start) /\ WF_vars(Dispatch)
  /\ \A s \in Series : WF_vars(Commit(s)) /\ WF_vars(PublishLive(s))

FairSpec == Spec /\ Fairness

-----------------------------------------------------------------------------
(* Properties.                                                             *)

Messages ==
  [kind : {"confirmed", "transition", "snapshot", "purged"}, bar : Nat, rev : Nat,
   colour : Colours \cup {None}]

Candle == [bar : Nat, colour : Colours]

LaneState ==
  [pc : {"idle", "tx", "live", "reseed"}, last : 0..MaxBars,
   forming : Candle \cup {None}, out : Messages \cup {None}]

OutboxRow ==
  [series : Series, bar : 1..MaxBars, state : {"open", "durable", "gone"},
   kind : {"point", "frame"}]

\* The evaluation stream holds the confirmed frame of bar n.
OnEval(s, n) == \E i \in DOMAIN eval[s] : eval[s][i] = Confirmed(s, n)

\* The broker has stored what the row c carries, in both streams.
FrameStored(c) ==
  rows[c].kind = "frame" =>
    /\ <<rows[c].series, rows[c].bar>> \in facts
    /\ OnEval(rows[c].series, rows[c].bar)

\* The frame of a row that is complete is in both streams of the broker.
CompletedRowsAreStored == \A c \in marked : FrameStored(c)

\* A row becomes complete only after the broker has stored its frame in both
\* streams and this process has handed it to the hub's clients, whatever call
\* failed, was cut short or took effect unnoticed before (Flush marks a batch
\* after every publish of it succeeded).
CompletedRowsAreDelivered ==
  [][\A c \in marked' \ marked : FrameStored(c) /\ c \in hub]_vars

\* Rows reach the hub and the facts stream in cursor order without a hole,
\* also when two lanes commit at once or a batch is sent again: what makes
\* resuming after the last cursor seen lossless (outboxAdvisoryLock).
NothingSkipped ==
  /\ \A c \in hub : \A d \in Durable : d < c => d \in hub \cup marked
  /\ \A f \in facts : \A n \in 1..f[2] : <<f[1], n>> \in facts

\* Rows become visible in the order of their cursors, however many lanes
\* commit at once and whatever fails or crashes: a transaction never adds a
\* row below one that a reader may already have passed (outboxAdvisoryLock).
VisibleInOrder ==
  [][\A c \in Durable' \ Durable : \A d \in Durable : d < c]_vars

\* What makes it inductive: the rows of the open transaction, whose lane holds
\* the lock, are the newest of all; the rest is the types this rests on.
OutboxInv ==
  /\ lock \in Series \cup {None} /\ rows \in Seq(OutboxRow)
  /\ lanes \in [Series -> LaneState]
  /\ trades \in [Series -> [1..(MaxBars + 1) -> Nat]]
  /\ \A s \in Series : LET l == lanes[s] IN
       /\ l.pc = "tx" => lock = s /\ l.last < MaxBars
       /\ l.pc = "live" =>
            l.out \in Messages /\ (l.out.kind = "confirmed" => l.out.bar \in 1..MaxBars)
  /\ \A c \in Cursors : rows[c].state = "open" =>
       /\ rows[c].series = lock
       /\ \A d \in Cursors : rows[d].state # "open" => d < c

\* Per series the evaluation stream never shows a candle before every earlier
\* candle has been confirmed on it: frames appear in lane order (comment in
\* applyClosed), and after a crash the startup Flush comes first (run).
ConfirmedPrecedesNextCandle ==
  \A s \in Series : \A i \in DOMAIN eval[s] : \A n \in 1..(eval[s][i].bar - 1) :
    \E j \in 1..(i - 1) : eval[s][j].kind = "confirmed" /\ eval[s][j].bar = n

\* The newest provisional frame of the stream q shows the candle f.
NewestProvisional(q, f) ==
  \E i \in DOMAIN q :
    /\ q[i].kind \in {"transition", "snapshot"}
    /\ [bar |-> q[i].bar, colour |-> q[i].colour] = f
    /\ \A j \in DOMAIN q : j > i => q[j].kind \notin {"transition", "snapshot"}

\* Coalescing loses no colour change or new candle: when a forming update has
\* been handled, the newest provisional frame on the stream has its candle
\* and colour, whatever publishes failed (liveDecision, the retry loop).
TransitionsAreLossless ==
  \A s \in Series : lanes[s].pc = "idle" /\ lanes[s].forming # None =>
    NewestProvisional(eval[s], lanes[s].forming)

\* Every frame of the outbox comes after the durable frames of all earlier bars
\* of its series, open rows are of the bar their lane is committing, and the
\* bar a lane stands on is the durable one but for the command it is in.
HasFrame(s, n, c) ==
  \E d \in Durable : d < c /\ rows[d].kind = "frame" /\ rows[d].series = s /\ rows[d].bar = n

LaneCursor(s) ==
  LET l == lanes[s] IN
  /\ proc # "run" => l.pc = "idle"
  /\ l.pc = "live" =>
       /\ l.out \in Messages /\ l.out.bar = l.last + 1
       /\ IF l.out.kind = "confirmed" THEN l.out = Confirmed(s, l.last + 1)
            ELSE l.out.kind \in {"transition", "snapshot"} /\ l.out.rev = trades[s][l.last + 1]
  /\ proc # "off" =>
       DurableBar(s) = IF l.pc = "live" /\ l.out.kind = "confirmed" THEN l.last + 1
                       ELSE IF l.pc = "reseed" /\ DurableBar(s) # l.last /\ AmbiguousCommits
                              THEN l.last + 1 ELSE l.last

RowsInv ==
  /\ proc \in {"off", "flush", "run"} /\ (proc = "off" => disp.pc = "idle")
  /\ \A c \in Cursors : rows[c].kind = "frame" =>
       \A n \in 1..(rows[c].bar - 1) : HasFrame(rows[c].series, n, c)
  /\ \A s \in Series : \A n \in 1..DurableBar(s) : HasFrame(s, n, Len(rows) + 1)
  /\ \A c \in Cursors : rows[c].state = "open" =>
       lanes[rows[c].series].pc = "tx" /\ rows[c].bar = lanes[rows[c].series].last + 1
  /\ \A s \in Series : lanes[s].pc = "tx" =>
       \E c \in Cursors : /\ rows[c].state = "open" /\ rows[c].kind = "frame"
                          /\ rows[c].series = s
  /\ \A s \in Series : LaneCursor(s)

\* The broker remembers an id of a revision that is still to come only for the
\* confirmed frame it stands for, and confirms no bar that is not durable.
StreamInv ==
  /\ eval \in [Series -> Seq(Messages)]
  /\ window \subseteq {"eval", "facts"} \X Series \X (1..(MaxBars + 1)) \X Nat
  /\ \A w \in window : w[1] = "eval" =>
       \/ w[4] <= trades[w[2]][w[3]]
       \/ w[4] = trades[w[2]][w[3]] + 1 /\ OnEval(w[2], w[3])
  /\ \A s \in Series : \A i \in DOMAIN eval[s] :
       eval[s][i].kind = "confirmed" => eval[s][i].bar <= DurableBar(s)

\* A batch is the oldest unmarked rows; what is no longer todo has been
\* published everywhere, in order.
DispatchInv ==
  /\ disp \in [pc : {"idle", "eval", "facts", "hub", "mark"},
               batch : SUBSET Durable, todo : SUBSET Durable]
  /\ marked \subseteq Durable /\ hub \subseteq Durable
  /\ disp.pc = "idle" => disp = Waiting
  /\ disp.todo \subseteq disp.batch /\ (disp.pc \in {"idle", "mark"} <=> disp.todo = {})
  /\ disp.pc \in {"eval", "facts"} => Row.kind = "frame"
  /\ disp.pc = "facts" => OnEval(Row.series, Row.bar)
  /\ disp.pc = "hub" => FrameStored(Min(disp.todo))
  /\ \A c \in disp.batch \ disp.todo : /\ c \in hub /\ FrameStored(c)
                                       /\ \A d \in disp.todo : c < d
  /\ \A c \in disp.batch : \A d \in Durable : d < c => d \in disp.batch \cup marked
  /\ CompletedRowsAreStored /\ NothingSkipped

\* A lane that runs has every bar it stands on confirmed on the stream, and the
\* startup Flush ends only when nothing durable is left to publish.
OrderInv ==
  /\ proc = "run" => \A s \in Series : \A n \in 1..lanes[s].last : OnEval(s, n)
  /\ proc = "flush" /\ disp.pc # "idle" /\ Cardinality(disp.batch) < BatchSize =>
       Durable \subseteq disp.batch \cup marked
  /\ ConfirmedPrecedesNextCandle

\* What is in flight is the candle in memory, and what was acknowledged last
\* is the newest provisional frame unless a transition is in flight.
TransitionInv ==
  /\ DOMAIN live = Series
  /\ \A s \in Series : LET l == lanes[s] IN
      /\ l.pc = "idle" /\ l.forming # None => NewestProvisional(eval[s], l.forming)
      /\ live[s] # None /\ ~(l.pc = "live" /\ l.out.kind = "transition") =>
           NewestProvisional(eval[s], live[s])
      /\ l.pc = "live" /\ l.out.kind \in {"transition", "snapshot"} =>
           /\ l.forming = [bar |-> l.out.bar, colour |-> l.out.colour]
           /\ l.out.kind = "snapshot" => l.forming = live[s]
           /\ MsgId("eval", s, l.out) \in window => NewestProvisional(eval[s], l.forming)

\* Every committed event is eventually published and marked: failures and
\* crashes delay the outbox but never strand a row (Dispatcher.Run).
OutboxDrains == []<>(Durable = marked)

=============================================================================
