------------------------------- MODULE Ingest -------------------------------
(***************************************************************************)
(* How bars reach the lanes, and what /readyz says about it: the OHLC      *)
(* client with its one connection for all series, the mailbox of a lane    *)
(* and the reply the client waits for, the metrics it sets, the startup    *)
(* barrier, the outbox poll, and the readiness handler that reads all of   *)
(* it piece by piece.  What a lane computes is module Lane's business;     *)
(* here a lane is the number of bars it has applied.  Forming bars take    *)
(* the same path and leave that number alone, so they are left out; like a *)
(* closed bar, one may keep lane and client waiting for the broker.        *)
(***************************************************************************)
EXTENDS Integers, Sequences, Functions

CONSTANTS
  Series,     \* the configured series, in the order they are subscribed
  Warmup,     \* bars until every reducer of a lane is ready
  None,       \* absent value
  MaxBars,    \* bound: bars that close per series
  MaxFaults,  \* bound: broken or refused connections, upstream errors, crashes
  MaxOutages  \* bound: outages of the store or the broker

Keys == Range(Series)

ASSUME IngestAssumption ==
  /\ Series \in Seq(Keys) /\ Series # <<>>
  /\ \A i, j \in DOMAIN Series : Series[i] = Series[j] => i = j
  /\ None \notin Keys \cup {"ok", "err"}
  /\ Warmup \in Nat \ {0}
  /\ {MaxBars, MaxFaults, MaxOutages} \subseteq Nat

VARIABLES
  ohlc,       \* ohlc[s]: bars of s the OHLC service has closed
  down,       \* which of "store" and "broker" are unavailable
  proc,       \* the process: "off", "flush" (startup barrier) or "run"
  wire,       \* the connection: subscribed series and messages not yet read
  reader,     \* OHLCClient.Run: where it is, the message it has submitted
  lanes,      \* per series, whether the lane is seeded and the bars it applied
  connected,  \* Metrics.upstreamConnected
  outbox,     \* Metrics.outboxHealthy
  probe,      \* the readiness handler, half way through its reads
  answer,     \* its last status: is it 200?
  spent       \* faults and outages so far

world == <<ohlc, down>>
flags == <<connected, outbox>>
http == <<probe, answer>>
vars == <<world, proc, wire, reader, lanes, flags, http, spent>>

Spend(what, limit) ==
  /\ spent[what] < limit
  /\ spent' = [spent EXCEPT ![what] = @ + 1]

-----------------------------------------------------------------------------
(* The OHLC service and the connection to it.                              *)

Message(type, s, n) == [type |-> type, series |-> s, bar |-> n]

NoWire == [up |-> FALSE, subs |-> {}, queue |-> <<>>]

\* A bar closes and is sent to those who have subscribed to its series.
CloseBar(s) ==
  /\ ohlc[s] < MaxBars
  /\ ohlc' = [ohlc EXCEPT ![s] = @ + 1]
  /\ wire' = IF s \in wire.subs
               THEN [wire EXCEPT !.queue = Append(@, Message("closed", s, ohlc'[s]))]
               ELSE wire
  /\ UNCHANGED <<down, proc, reader, lanes, flags, http, spent>>

\* The connection breaks; what has arrived can still be read.
Break ==
  /\ wire.up
  /\ Spend("faults", MaxFaults)
  /\ \E n \in 0..Len(wire.queue) :
       wire' = [NoWire EXCEPT !.queue = SubSeq(wire.queue, 1, n)]
  /\ UNCHANGED <<world, proc, reader, lanes, flags, http>>

\* OHLC reports an error, or sends what cannot be decoded.
Complain ==
  /\ wire.up /\ wire.subs # {}
  /\ Spend("faults", MaxFaults)
  /\ wire' = [wire EXCEPT !.queue = Append(@, Message("error", None, 0))]
  /\ UNCHANGED <<world, proc, reader, lanes, flags, http>>

\* The store or the broker goes away, and comes back.
Outage(what) ==
  /\ what \notin down
  /\ Spend("outages", MaxOutages)
  /\ down' = down \cup {what}
  /\ UNCHANGED <<ohlc, proc, wire, reader, lanes, flags, http>>

Heal ==
  /\ down # {}
  /\ down' = {}
  /\ UNCHANGED <<ohlc, proc, wire, reader, lanes, flags, http, spent>>

-----------------------------------------------------------------------------
(* The process.                                                            *)

Idle == [pc |-> "off", todo |-> <<>>, cmd |-> None, reply |-> None]

NewLane == [seeded |-> FALSE, last |-> 0]

NoProbe == [at |-> "idle", todo |-> <<>>, ok |-> TRUE]

\* Everything but the store and the outside world starts from nothing.
Off ==
  /\ wire' = NoWire
  /\ reader' = Idle
  /\ lanes' = [s \in Keys |-> NewLane]
  /\ connected' = FALSE /\ outbox' = FALSE
  /\ probe' = NoProbe /\ answer' = FALSE

\* The supervisor starts the process; openStore needs the store and
\* broker.Open the broker.
Boot ==
  /\ proc = "off" /\ down = {}
  /\ proc' = "flush"
  /\ UNCHANGED <<world, wire, reader, lanes, flags, http, spent>>

\* Whether Flush may succeed: it needs the store, and the broker only if there
\* are rows to publish.
FlushResults ==
  IF "store" \in down THEN {FALSE} ELSE IF "broker" \in down THEN BOOLEAN ELSE {TRUE}

\* The outbox is flushed before lanes, client and server start; a failure
\* ends the process.
Barrier ==
  /\ proc = "flush"
  /\ \E ok \in FlushResults :
       /\ proc' = IF ok THEN "run" ELSE "off"
       /\ reader' = IF ok THEN [Idle EXCEPT !.pc = "dial"] ELSE Idle
  /\ UNCHANGED <<world, wire, lanes, flags, http, spent>>

Crash ==
  /\ proc # "off"
  /\ Spend("faults", MaxFaults)
  /\ proc' = "off"
  /\ Off
  /\ UNCHANGED world

\* One round of Dispatcher.Run.
Poll ==
  /\ proc = "run"
  /\ outbox' \in FlushResults
  /\ UNCHANGED <<world, proc, wire, reader, lanes, connected, http, spent>>

-----------------------------------------------------------------------------
(* OHLCClient.                                                             *)

\* runConnection returns an error to Run: the connection and what it still
\* held are gone.
HangUp ==
  /\ wire' = NoWire
  /\ reader' = [Idle EXCEPT !.pc = "backoff"]
  /\ connected' = FALSE

Dial ==
  /\ reader.pc = "dial"
  /\ \/ /\ wire' = [NoWire EXCEPT !.up = TRUE]
        /\ reader' = [reader EXCEPT !.pc = "subscribe", !.todo = Series]
        /\ UNCHANGED <<connected, spent>>
     \/ Spend("faults", MaxFaults) /\ HangUp
  /\ UNCHANGED <<world, proc, lanes, outbox, http>>

\* Mutant: a lane that has its history asks for no seed.
SeedOnce(s) ==
  IF lanes[s].seeded THEN <<>> ELSE <<Message("seed", s, ohlc[s])>>

\* Mutant: the forming bar of the seed counts as closed.
SeedWithForming(s) == <<Message("seed", s, ohlc[s] + 1)>>

\* The first thing a subscription brings.
FirstMessages(s) == <<Message("seed", s, ohlc[s])>>

\* The next series is subscribed; after the last one the client is connected.
Subscribe ==
  /\ reader.pc = "subscribe"
  /\ \/ LET s == Head(reader.todo)
            rest == Tail(reader.todo)
        IN  /\ wire.up
            /\ wire' = [wire EXCEPT !.subs = @ \cup {s},
                                    !.queue = @ \o FirstMessages(s)]
            /\ reader' = [reader EXCEPT !.todo = rest,
                            !.pc = IF rest = <<>> THEN "read" ELSE "subscribe"]
            /\ connected' = (rest = <<>>)
     \/ ~wire.up /\ HangUp
  /\ UNCHANGED <<world, proc, lanes, outbox, http, spent>>

\* ReadMessage, and submit: the command is in the mailbox of its lane.
Read ==
  /\ reader.pc = "read"
  /\ \/ /\ wire.queue # <<>> /\ Head(wire.queue).type # "error"
        /\ reader' = [reader EXCEPT !.pc = "wait", !.cmd = Head(wire.queue)]
        /\ wire' = [wire EXCEPT !.queue = Tail(@)]
        /\ UNCHANGED connected
     \/ /\ IF wire.queue = <<>> THEN ~wire.up ELSE Head(wire.queue).type = "error"
        /\ HangUp
  /\ UNCHANGED <<world, proc, lanes, outbox, http, spent>>

\* Applying a new bar publishes its frame and tries until the broker takes it,
\* before the lane installs the bar and answers; the first seed of a lane may
\* have no frame to publish.
Blocked(k, m) ==
  /\ down = {"broker"}
  /\ IF m.type = "seed" THEN 0 < k.last /\ k.last < m.bar
                        ELSE k.seeded /\ m.bar = k.last + 1

\* What a lane makes of a command: the states it may be in afterwards and
\* the reply, once it is not blocked.  A seed that fails may have applied some
\* of its bars.  A closed bar again is ignored, an older one refused.
Outcomes(k, m) ==
  CASE m.type = "seed" ->
         IF "store" \in down
           THEN {[lane |-> [k EXCEPT !.last = n], reply |-> "err"] :
                   n \in k.last..(IF k.last < m.bar THEN m.bar - 1 ELSE k.last)}
           ELSE {[lane |-> [seeded |-> TRUE, last |-> m.bar], reply |-> "ok"]}
    [] m.type = "closed" /\ k.seeded /\ m.bar = k.last + 1 ->
         IF "store" \in down THEN {[lane |-> k, reply |-> "err"]}
           ELSE {[lane |-> [k EXCEPT !.last = m.bar], reply |-> "ok"]}
    [] m.type = "closed" /\ ~(k.seeded /\ m.bar = k.last + 1) ->
         {[lane |-> k, reply |-> IF k.seeded /\ m.bar = k.last THEN "ok" ELSE "err"]}

\* The lane takes the command and answers on its done channel.
Apply ==
  /\ reader.pc = "wait" /\ reader.reply = None
  /\ ~Blocked(lanes[reader.cmd.series], reader.cmd)
  /\ \E o \in Outcomes(lanes[reader.cmd.series], reader.cmd) :
       /\ lanes' = [lanes EXCEPT ![reader.cmd.series] = o.lane]
       /\ reader' = [reader EXCEPT !.reply = o.reply]
  /\ UNCHANGED <<world, proc, wire, flags, http, spent>>

\* Mutant: a message its lane could not apply is logged and skipped.
ResumeAnyway ==
  /\ reader.reply # None
  /\ reader' = [Idle EXCEPT !.pc = "read"]
  /\ UNCHANGED <<world, proc, wire, lanes, flags, http, spent>>

\* dispatch returns: the next message after "ok", a new connection otherwise.
Resume ==
  /\ reader.reply # None
  /\ \/ /\ reader.reply = "ok"
        /\ reader' = [Idle EXCEPT !.pc = "read"]
        /\ UNCHANGED <<wire, connected>>
     \/ reader.reply = "err" /\ HangUp
  /\ UNCHANGED <<world, proc, lanes, outbox, http, spent>>

\* The backoff timer fires.
Backoff ==
  /\ reader.pc = "backoff"
  /\ reader' = [Idle EXCEPT !.pc = "dial"]
  /\ UNCHANGED <<world, proc, wire, lanes, flags, http, spent>>

-----------------------------------------------------------------------------
(* The readiness handler.                                                  *)

\* Mutant: one closed bar is enough.
LaneReadyEarly(s) == lanes[s].last > 0

\* Ready of a series snapshot, and its LastClosedTime.
LaneReady(s) == lanes[s].last >= Warmup

\* Ping, then one lane after the other, then the two flags.
Ping ==
  /\ proc = "run" /\ probe.at = "idle"
  /\ probe' = [at |-> "lanes", todo |-> Series, ok |-> "store" \notin down]
  /\ UNCHANGED <<world, proc, wire, reader, lanes, flags, answer, spent>>

LookAtLane ==
  /\ probe.at = "lanes"
  /\ LET s == Head(probe.todo)
         rest == Tail(probe.todo)
     IN  probe' = [at |-> IF rest = <<>> THEN "upstream" ELSE "lanes",
                   todo |-> rest, ok |-> probe.ok /\ LaneReady(s)]
  /\ UNCHANGED <<world, proc, wire, reader, lanes, flags, answer, spent>>

LookAtUpstream ==
  /\ probe.at = "upstream"
  /\ probe' = [probe EXCEPT !.at = "outbox", !.ok = @ /\ connected]
  /\ UNCHANGED <<world, proc, wire, reader, lanes, flags, answer, spent>>

Answer ==
  /\ probe.at = "outbox"
  /\ answer' = (probe.ok /\ outbox)
  /\ probe' = NoProbe
  /\ UNCHANGED <<world, proc, wire, reader, lanes, flags, spent>>

-----------------------------------------------------------------------------

Init ==
  /\ ohlc \in [Keys -> 0..1]
  /\ down = {}
  /\ proc = "off"
  /\ wire = NoWire
  /\ reader = Idle
  /\ lanes = [s \in Keys |-> NewLane]
  /\ connected = FALSE /\ outbox = FALSE
  /\ probe = NoProbe /\ answer = FALSE
  /\ spent = [faults |-> 0, outages |-> 0]

Client == Dial \/ Subscribe \/ Read \/ Resume \/ Backoff

Probing == Ping \/ LookAtLane \/ LookAtUpstream \/ Answer

Next ==
  \/ \E s \in Keys : CloseBar(s)
  \/ Break \/ Complain \/ Heal \/ Crash
  \/ \E what \in {"store", "broker"} : Outage(what)
  \/ Boot \/ Barrier \/ Poll \/ Client \/ Apply \/ Probing

Spec == Init /\ [][Next]_vars

\* Outages end, the supervisor restarts the process, its goroutines run and
\* somebody keeps asking for /readyz.  No bar has to close.
FairSpec ==
  /\ Spec
  /\ WF_vars(Heal) /\ WF_vars(Boot) /\ WF_vars(Barrier)
  /\ WF_vars(Poll) /\ WF_vars(Client) /\ WF_vars(Apply) /\ WF_vars(Probing)

-----------------------------------------------------------------------------
(* Properties.                                                             *)

Messages == [type : {"seed", "closed", "error"}, series : Keys \cup {None}, bar : Nat]

Connection == [up : BOOLEAN, subs : SUBSET Keys, queue : Seq(Messages)]
Reader == [pc : {"off", "dial", "subscribe", "read", "wait", "backoff"},
           todo : Seq(Keys), cmd : Messages \cup {None}, reply : {None, "ok", "err"}]
Probe == [at : {"idle", "lanes", "upstream", "outbox"}, todo : Seq(Keys), ok : BOOLEAN]

\* Every variable keeps its type.
TypeOK ==
  /\ ohlc \in [Keys -> Nat]
  /\ down \subseteq {"store", "broker"}
  /\ proc \in {"off", "flush", "run"}
  /\ wire \in Connection /\ reader \in Reader
  /\ lanes \in [Keys -> [seeded : BOOLEAN, last : Nat]]
  /\ connected \in BOOLEAN /\ outbox \in BOOLEAN /\ answer \in BOOLEAN
  /\ probe \in Probe

\* The lane of s has a command in its mailbox.
Pending(s) == reader.pc = "wait" /\ reader.reply = None /\ reader.cmd.series = s

\* Bar n of s, or a later one, is applied, in the mailbox, or in the queue
\* before position i.
HeldBefore(s, n, i) ==
  \/ lanes[s].seeded /\ lanes[s].last >= n
  \/ Pending(s) /\ reader.cmd.bar >= n
  \/ \E j \in 1..(i - 1) : wire.queue[j].series = s /\ wire.queue[j].bar >= n

\* A message of the queue: its bar exists and its series is subscribed; a seed
\* is the first message of its series and not older than the lane; a closed bar
\* comes after the bar before it, unless that one has failed.
InOrder(i) ==
  LET m == wire.queue[i]
      s == m.series
  IN  IF m.type = "error" THEN s = None ELSE
        /\ s \in Keys /\ m.bar <= ohlc[s]
        /\ wire.up => s \in wire.subs
        /\ m.type = "seed" => /\ lanes[s].last <= m.bar /\ ~Pending(s)
                              /\ \A j \in 1..(i - 1) : wire.queue[j].series # s
        /\ m.type = "closed" /\ reader.reply # "err" => HeldBefore(s, m.bar - 1, i)

\* The same of the command a lane has been given.
CommandOK ==
  LET m == reader.cmd
  IN  /\ reader.pc # "wait" => reader.reply = None
      /\ reader.pc = "wait" => /\ m \in Messages /\ m.type # "error"
                               /\ m.series \in Keys /\ m.bar <= ohlc[m.series]
      /\ reader.pc = "wait" /\ reader.reply = None =>
           IF m.type = "seed" THEN lanes[m.series].last <= m.bar
           ELSE lanes[m.series].seeded /\ m.bar <= lanes[m.series].last + 1

\* Only a running client has a connection; a subscription is made once and
\* misses no bar.
SubscriptionsOK ==
  /\ proc # "run" => reader.pc = "off"
  /\ reader.pc \in {"off", "dial", "backoff"} => wire = NoWire
  /\ ~wire.up => wire.subs = {}
  /\ \A s \in wire.subs : reader.reply # "err" => HeldBefore(s, ohlc[s], Len(wire.queue) + 1)
  /\ reader.pc = "subscribe" =>
       /\ reader.todo # <<>>
       /\ \A i, j \in DOMAIN reader.todo : reader.todo[i] = reader.todo[j] => i = j
       /\ \A i \in DOMAIN reader.todo : reader.todo[i] \notin wire.subs

\* What the readiness handler has found is still true.
ProbeOK ==
  /\ probe.at = "lanes" => probe.todo # <<>>
  /\ probe.at \in {"upstream", "outbox"} => probe.todo = <<>>
  /\ probe.at # "idle" /\ probe.ok =>
       \A s \in Keys : s \in Range(probe.todo) \/ lanes[s].last >= Warmup

\* No message about s comes after position i of the queue.
NoneAfter(s, i) == \A j \in DOMAIN wire.queue : i < j => wire.queue[j].series # s

\* While a subscription stands, the newest bar that has closed is the last thing
\* under way to its lane, in the queue or in the mailbox, or the lane has applied
\* it: nothing is dropped between the socket and a lane, and a reply that is not
\* "ok" is followed by a new connection (OHLCClient.dispatch, Lane.submit).
NothingLost ==
  \A s \in wire.subs : reader.reply # "err" =>
    \/ \E i \in DOMAIN wire.queue :
         wire.queue[i].series = s /\ wire.queue[i].bar = ohlc[s] /\ NoneAfter(s, i)
    \/ NoneAfter(s, 0) /\ Pending(s) /\ reader.cmd.bar = ohlc[s]
    \/ NoneAfter(s, 0) /\ ~Pending(s) /\ lanes[s].last = ohlc[s]

\* A lane is never handed a bar it must refuse: none before its first seed and
\* none that skips one, whatever connections came and went before (every
\* subscription begins with a seed and one connection serves it in order).
NoGapReachesALane ==
  reader.pc = "wait" /\ reader.reply = None /\ reader.cmd.type = "closed" =>
    /\ lanes[reader.cmd.series].seeded
    /\ reader.cmd.bar <= lanes[reader.cmd.series].last + 1

\* A 200 of /readyz is earned: although the handler reads the lanes one after
\* the other while they work, and sees connected before any seed of the new
\* connection, all lanes have warm reducers when it answers and for as long as
\* the process lives (Server.ready, Registry.Ready).
ReadyIsEarned == answer => \A s \in Keys : lanes[s].last >= Warmup

\* The way from the socket to the lanes is in order: messages, mailbox and lanes
\* fit together at every step, which is what the two properties above rest on.
\* It is an inductive invariant.
IngestInv ==
  /\ TypeOK
  /\ \A s \in Keys : lanes[s].last <= ohlc[s]
  /\ \A i \in DOMAIN wire.queue : InOrder(i)
  /\ CommandOK /\ SubscriptionsOK /\ ProbeOK /\ ReadyIsEarned

\* What NothingLost needs besides: whatever connections came and went, the bars of
\* a series are under way to its lane in strictly ascending order, none twice, and
\* all but a seed lie ahead of what the lane has applied (OHLCClient.Run hangs up
\* with the queue, and every subscription starts over with a seed).
BarsAscend ==
  /\ \A i, j \in DOMAIN wire.queue :
       i < j /\ wire.queue[i].series \in Keys /\ wire.queue[j].series = wire.queue[i].series =>
         wire.queue[i].bar < wire.queue[j].bar
  /\ \A i \in DOMAIN wire.queue : wire.queue[i].series \in Keys =>
       /\ Pending(wire.queue[i].series) => reader.cmd.bar < wire.queue[i].bar
       /\ wire.queue[i].type = "closed" => lanes[wire.queue[i].series].last < wire.queue[i].bar
  /\ reader.pc = "wait" /\ reader.reply = None /\ reader.cmd.type = "closed" =>
       lanes[reader.cmd.series].last < reader.cmd.bar

\* After the last fault every lane catches up with the bars that have closed,
\* although a failure of one lane takes the connection of all down, and
\* /readyz settles on 200 exactly when there are bars enough (Run's retries).
Recovers ==
  <>[](/\ \A s \in Keys : lanes[s].last = ohlc[s]
       /\ answer = \A s \in Keys : ohlc[s] >= Warmup)

=============================================================================
