------------------------------ MODULE Protocol ------------------------------
(***************************************************************************)
(* The public protocol, for one series and one WebSocket viewer: how a     *)
(* lane's events and its memory become analysis events, which of them a    *)
(* subscription selects, and what a consumer that follows the algorithm of *)
(* docs/protocol-v1.md (external) makes of snapshot, history, replay and   *)
(* live events that overlap.  Module Hub has the buffers and the faults of *)
(* the connection; here they never fill.  A bar is its number and its      *)
(* trade count, a hash is what goes into it.                               *)
(***************************************************************************)
EXTENDS Integers, Sequences, SequencesExt, TLC

CONSTANTS
  Periods,       \* configured EMA periods
  Filters,       \* subscriptions the viewer may make
  HistoryLimit,  \* history.limit of the subscription
  MaxBars,       \* bound: bars that close
  Trades,        \* bound: trades of every bar
  MaxFaults      \* bound: batches sent again, lost connections

ASSUME ProtocolAssumption ==
  /\ Periods \subseteq Nat \ {0}
  /\ HistoryLimit \in Nat \ {0}
  /\ {MaxBars, Trades, MaxFaults} \subseteq Nat

VARIABLES
  memory,  \* lastBar, lastClosedRevision, formingBar of the lane
  next,    \* what the running command will install, as a sequence of at most one
  rows,    \* the outbox; a row's index is its cursor
  disp,    \* rows the dispatcher has published
  filter,  \* Subscription of the viewer
  client,  \* the viewer's hubClient and its handler
  table,   \* the consumer: computation -> newest result
  resume,  \* the consumer: last cursor applied
  from,    \* the consumer: first bar of its history, per period
  spent    \* faults so far

lane == <<memory, next, rows>>
consumer == <<table, resume, from>>
vars == <<lane, disp, filter, client, consumer, spent>>

-----------------------------------------------------------------------------
(* Identities.                                                             *)

EMAAlgorithm(p) == [name |-> "ema", hash |-> [of |-> "ema", periods |-> {p}]]

\* MarketAlgorithm, as the catalog shows it and the reducer carries it.
MarketAlgorithm == [name |-> "smc.market_state", hash |-> [of |-> "config", periods |-> {}]]

\* marketFactsAlgorithm: the market algorithm together with the EMAs.
MarketFactsAlgorithm(P) == [name |-> "smc.market_state", hash |-> [of |-> "facts", periods |-> P]]

\* SignalEvent; outputs are the EMAs it has values for.
Event(algorithm, parameter, t, rev, status, outputs) ==
  [algorithm |-> algorithm, parameter |-> parameter, t |-> t, rev |-> rev,
   status |-> status, outputs |-> outputs]

\* The logical computation: what analysisEventID hashes, but for the status and
\* the revision.
Computation(e) == <<e.t, e.algorithm.name, e.parameter, e.algorithm.hash>>

Ready(samples) == {p \in Periods : p <= samples}

NewEMAEvent(p, t, rev, status) == Event(EMAAlgorithm(p), p, t, rev, status, {p})

NewMarketEvent(t, rev, samples) ==
  Event(MarketFactsAlgorithm(Periods), 0, t, rev, "confirmed", Ready(samples))

\* The revision of a forming bar is its trade count, that of a closed one is
\* the next.
ClosedRevision(trades) == trades + 1

Ascending(P) == SetToSortSeq(P, <)

EMAEvents(P, t, rev, status) ==
  [i \in DOMAIN Ascending(P) |-> NewEMAEvent(Ascending(P)[i], t, rev, status)]

-----------------------------------------------------------------------------
(* Subscriptions.  No analyses means all; a selector has a name and pins   *)
(* at most one hash.                                                       *)

MatchesAnalysis(f, algorithm) ==
  \/ f.analyses = {}
  \/ \E s \in f.analyses : /\ s.name \in {"*", algorithm.name}
                           /\ s.pin = {} \/ algorithm.hash \in s.pin

Matches(f, e) == e.status \in f.statuses /\ MatchesAnalysis(f, e.algorithm)

\* makeSeriesSnapshot: the confirmed and the projected EMAs and the market.
MakeSeriesSnapshot ==
  [indicators  |-> Periods,
   provisional |-> IF memory.forming = <<>> THEN {} ELSE Ready(memory.last + 1),
   market      |-> {MarketAlgorithm}]

FilteredSnapshot(f) ==
  LET all == MakeSeriesSnapshot
      selected(P) == {p \in P : MatchesAnalysis(f, EMAAlgorithm(p))}
  IN  [indicators  |-> IF "confirmed" \in f.statuses THEN selected(all.indicators) ELSE {},
       provisional |-> IF "provisional" \in f.statuses THEN selected(all.provisional) ELSE {},
       market      |-> IF "confirmed" \in f.statuses
                         THEN {a \in all.market : MatchesAnalysis(f, a)} ELSE {}]

\* snapshotAnalysisEvents of what the filter left.
SnapshotAnalysisEvents(s) ==
  LET confirmed == {Event(EMAAlgorithm(p), p, memory.last, memory.rev, "confirmed",
                          {p} \cap Ready(memory.last)) : p \in s.indicators}
      projected == {NewEMAEvent(p, memory.forming[1].t, memory.forming[1].trades, "provisional") :
                      p \in s.provisional}
      frame     == {Event(MarketFactsAlgorithm(s.indicators), 0, memory.last, memory.rev,
                          "confirmed", s.indicators \cap Ready(memory.last)) : a \in s.market}
  IN  IF memory.last = 0 THEN projected ELSE confirmed \cup projected \cup frame

\* QueryRecentPoints: the newest HistoryLimit points of one EMA.
RecentPoints(p) ==
  LET points == {rows[c] : c \in {d \in DOMAIN rows : rows[d].algorithm = EMAAlgorithm(p)}}
  IN  {q \in points : Cardinality({r \in points : r.t > q.t}) < HistoryLimit}

-----------------------------------------------------------------------------
(* The lane and the dispatcher.                                            *)

NoClient == [phase |-> "gone", queue |-> <<>>, after |-> 0]

Sent(e, cursor) == [event |-> e, cursor |-> cursor]

\* Mutant: what arrives before activation is lost.
EnqueueActiveOnly(k, m) ==
  IF \/ k.phase # "active"
     \/ ~Matches(filter, m.event)
     \/ m.cursor > 0 /\ m.cursor <= k.after
    THEN k
    ELSE [k EXCEPT !.queue = Append(@, m), !.after = IF m.cursor > 0 THEN m.cursor ELSE @]

\* hubClient.enqueue; until activation the queue is the pending list, lastCursor
\* is 0 and after is the handler's.
Enqueue(k, m) ==
  IF \/ k.phase = "gone"
     \/ ~Matches(filter, m.event)
     \/ k.phase = "active" /\ m.cursor > 0 /\ m.cursor <= k.after
    THEN k
    ELSE [k EXCEPT !.queue = Append(@, m),
                   !.after = IF k.phase = "active" /\ m.cursor > 0 THEN m.cursor ELSE @]

\* applyClosed up to the commit: the EMA points in order, then the frame.
Close ==
  /\ next = <<>> /\ memory.last < MaxBars
  /\ LET t   == memory.last + 1
         rev == ClosedRevision(Trades)
     IN  /\ rows' = rows \o EMAEvents(Ready(t), t, rev, "confirmed") \o <<NewMarketEvent(t, rev, t)>>
         /\ next' = <<[last |-> t, rev |-> rev, forming |-> <<>>]>>
  /\ UNCHANGED <<memory, disp, filter, client, consumer, spent>>

\* applyForming up to its publications: a trade of the forming bar, or a late
\* one of the bar just closed.
Tick ==
  /\ next = <<>>
  /\ \E t \in {memory.last, memory.last + 1} \ {0}, trades \in 1..Trades :
       LET f == memory.forming
       IN  /\ f # <<>> => t >= f[1].t /\ (t = f[1].t => trades > f[1].trades)
           /\ next' = <<[memory EXCEPT !.forming = <<[t |-> t, trades |-> trades]>>]>>
           /\ LET events == EMAEvents(Ready(memory.last + 1), t, trades, "provisional")
              IN  client' = FoldLeft(LAMBDA k, e : Enqueue(k, Sent(e, 0)), client, events)
  /\ UNCHANGED <<memory, rows, disp, filter, consumer, spent>>

Install ==
  /\ next # <<>>
  /\ memory' = next[1] /\ next' = <<>>
  /\ UNCHANGED <<rows, disp, filter, client, consumer, spent>>

Fault ==
  /\ spent < MaxFaults
  /\ spent' = spent + 1

\* The dispatcher hands the next row to the hub, or starts a batch again.
Dispatch ==
  \/ /\ disp < Len(rows)
     /\ disp' = disp + 1
     /\ client' = Enqueue(client, Sent(rows[disp'], disp'))
     /\ UNCHANGED <<lane, filter, consumer, spent>>
  \/ /\ disp > 0 /\ Fault
     /\ disp' \in 0..(disp - 1)
     /\ UNCHANGED <<lane, filter, client, consumer>>

-----------------------------------------------------------------------------
(* The consumer, by the algorithm of docs/protocol-v1.md (external).       *)

Supersedes(e, known) ==
  \/ e.rev > known.rev
  \/ e.rev = known.rev /\ e.status = "confirmed" /\ known.status = "provisional"

Apply(e, T) ==
  LET c == Computation(e)
  IN  IF c \in DOMAIN T /\ ~Supersedes(e, T[c]) THEN T
      ELSE (c :> [rev |-> e.rev, status |-> e.status, outputs |-> e.outputs]) @@ T

ApplyAll(events) == table' = FoldSet(Apply, table, events)

-----------------------------------------------------------------------------
(* The WebSocket handler.                                                  *)

\* A viewer without a cursor starts over.
Subscribe ==
  /\ client.phase = "gone"
  /\ client' = [NoClient EXCEPT !.phase = "greet"]
  /\ table' = IF resume > 0 THEN table ELSE <<>>
  /\ UNCHANGED <<lane, disp, filter, resume, from, spent>>

Greet ==
  /\ client.phase = "greet"
  /\ client' = [client EXCEPT !.phase = "history"]
  /\ ApplyAll(SnapshotAnalysisEvents(FilteredSnapshot(filter)))
  /\ UNCHANGED <<lane, disp, filter, resume, from, spent>>

\* The history batch, of the indicators in the filtered snapshot.
History ==
  /\ client.phase = "history"
  /\ client' = [client EXCEPT !.phase = "replay"]
  /\ LET selected == FilteredSnapshot(filter).indicators
     IN  /\ ApplyAll(UNION {RecentPoints(p) : p \in selected})
         /\ from' = IF resume > 0 THEN from
                    ELSE [p \in Periods |-> IF p \in selected /\ RecentPoints(p) # {}
                                              THEN Min({e.t : e \in RecentPoints(p)}) ELSE 0]
  /\ UNCHANGED <<lane, disp, filter, resume, spent>>

\* The replay: every row after the cursor, those that match being sent.
Replay ==
  /\ client.phase = "replay"
  /\ LET again == IF resume > 0 THEN SelectSeq([i \in 1..Len(rows) |-> Sent(rows[i], i)],
                                               LAMBDA m : m.cursor > resume) ELSE <<>>
         sent  == SelectSeq(again, LAMBDA m : Matches(filter, m.event))
     IN  /\ client' = [client EXCEPT !.phase = "activate",
                                     !.after = IF again = <<>> THEN resume ELSE Last(again).cursor]
         /\ ApplyAll({m.event : m \in ToSet(sent)})
         /\ resume' = IF sent = <<>> THEN resume ELSE Last(sent).cursor
  /\ UNCHANGED <<lane, disp, filter, from, spent>>

\* hubClient.activate: pending rows by cursor, then what has none.
Activate ==
  /\ client.phase = "activate"
  /\ LET new   == SelectSeq(client.queue, LAMBDA m : m.cursor > client.after)
         queue == SortSeq(new, LAMBDA m, n : m.cursor < n.cursor)
                    \o SelectSeq(client.queue, LAMBDA m : m.cursor = 0)
     IN  client' = [phase |-> "active", queue |-> queue,
                    after |-> Max({client.after} \cup {m.cursor : m \in ToSet(queue)})]
  /\ UNCHANGED <<lane, disp, filter, consumer, spent>>

\* writeClient: the next message, or a ping.
Write ==
  /\ client.phase = "active"
  /\ IF client.queue = <<>> THEN UNCHANGED <<client, table, resume>>
     ELSE LET m == Head(client.queue)
          IN  /\ client' = [client EXCEPT !.queue = Tail(@)]
              /\ ApplyAll({m.event})
              /\ resume' = IF m.cursor > 0 THEN m.cursor ELSE resume
  /\ UNCHANGED <<lane, disp, filter, from, spent>>

\* The connection breaks, with whatever was queued.
Lose ==
  /\ client.phase # "gone" /\ Fault
  /\ client' = NoClient
  /\ UNCHANGED <<lane, disp, filter, consumer>>

Init ==
  /\ memory = [last |-> 0, rev |-> 0, forming |-> <<>>]
  /\ next = <<>> /\ rows = <<>> /\ disp = 0
  /\ filter \in Filters /\ client = NoClient
  /\ table = <<>> /\ resume = 0 /\ from = [p \in Periods |-> 0]
  /\ spent = 0

Next ==
  \/ Close \/ Tick \/ Install \/ Dispatch
  \/ Subscribe \/ Greet \/ History \/ Replay \/ Activate \/ Write \/ Lose

Spec == Init /\ [][Next]_vars

-----------------------------------------------------------------------------
(* Properties.                                                             *)

Drained == client.phase = "active" /\ client.queue = <<>> /\ disp = Len(rows)

\* Whatever the order in which snapshot, history, replay and live events reach
\* it, with rows sent twice and provisional values computed after the close, a
\* viewer that has caught up has, for every EMA it asked for and every bar from
\* the start of its history on, the confirmed point at the revision that was
\* committed: no hole where the phases meet, and no provisional value in the
\* place of a confirmed one.
ChartIsComplete ==
  Drained =>
    \A c \in DOMAIN rows :
      LET e == rows[c]
      IN  e.parameter # 0 /\ Matches(filter, e) /\ e.t >= from[e.parameter] =>
            /\ Computation(e) \in DOMAIN table
            /\ table[Computation(e)] = [rev |-> e.rev, status |-> e.status, outputs |-> e.outputs]

\* Snapshot, history, replay and live delivery use the same id for the same
\* analytical occurrence (docs/protocol-v1.md:67), although the hash is computed
\* in the lane and again in the API from what the subscription left of a
\* snapshot: two results of one analysis with the same parameter, bar, status
\* and revision are one computation.
SameOccurrenceSameID ==
  \A c, d \in DOMAIN table :
    (SubSeq(c, 1, 3) = SubSeq(d, 1, 3) /\ table[c].rev = table[d].rev
       /\ table[c].status = table[d].status) => c = d

=============================================================================
