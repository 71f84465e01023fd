---------------------------- MODULE IngestProofs ----------------------------
(***************************************************************************)
(* Proofs about Ingest, for any number of series, bars, faults and         *)
(* outages: IngestInv is an inductive invariant, no lane is handed a bar   *)
(* it must refuse, nothing is lost between socket and lane, and a 200 of   *)
(* /readyz is earned.                                                      *)
(***************************************************************************)
EXTENDS Ingest, TLAPS

\* The empty sequence, for the provers.
LEMMA EmptySequence ==
  ASSUME NEW S
  PROVE  <<>> \in Seq(S) /\ Len(<<>>) = 0 /\ DOMAIN <<>> = {}
OBVIOUS

\* The length and the elements of a sequence.
LEMMA SequenceOf ==
  ASSUME NEW S, NEW q \in Seq(S)
  PROVE  Len(q) \in Nat /\ DOMAIN q = 1..Len(q) /\ \A i \in 1..Len(q) : q[i] \in S
OBVIOUS

\* The elements of the tail of a sequence.
LEMMA TailOf ==
  ASSUME NEW S, NEW q \in Seq(S), q # <<>>
  PROVE  /\ Head(q) \in S /\ Head(q) = q[1]
         /\ Tail(q) \in Seq(S) /\ Len(q) \in Nat \ {0}
         /\ Len(Tail(q)) = Len(q) - 1
         /\ \A i \in 1..(Len(q) - 1) : Tail(q)[i] = q[i + 1]
OBVIOUS

\* Where the elements of a longer sequence come from.
LEMMA Appended ==
  ASSUME NEW S, NEW q \in Seq(S), NEW m \in S
  PROVE  /\ Append(q, m) \in Seq(S) /\ q \o <<m>> = Append(q, m)
         /\ Len(q) \in Nat /\ Len(Append(q, m)) = Len(q) + 1
         /\ \A i \in 1..Len(q) : Append(q, m)[i] = q[i]
         /\ Append(q, m)[Len(q) + 1] = m
OBVIOUS

\* The fields of the variables, as TypeOK bounds them.
LEMMA Fields ==
  ASSUME TypeOK
  PROVE  /\ wire.up \in BOOLEAN /\ wire.subs \subseteq Keys /\ wire.queue \in Seq(Messages)
         /\ DOMAIN wire.queue = 1..Len(wire.queue) /\ Len(wire.queue) \in Nat
         /\ reader.todo \in Seq(Keys) /\ reader.reply \in {None, "ok", "err"}
         /\ probe.todo \in Seq(Keys) /\ probe.ok \in BOOLEAN
         /\ \A s \in Keys : /\ ohlc[s] \in Nat /\ lanes[s].last \in Nat
                            /\ lanes[s].seeded \in BOOLEAN
                            /\ lanes[s] \in [seeded : BOOLEAN, last : Nat]
         /\ \A i \in 1..Len(wire.queue) : /\ wire.queue[i] \in Messages
                                          /\ wire.queue[i].bar \in Nat
<1>1. /\ wire.up \in BOOLEAN /\ wire.subs \subseteq Keys /\ wire.queue \in Seq(Messages)
      /\ reader.todo \in Seq(Keys) /\ reader.reply \in {None, "ok", "err"}
      /\ probe.todo \in Seq(Keys) /\ probe.ok \in BOOLEAN
  BY DEF TypeOK, Connection, Reader, Probe
<1>2. DOMAIN wire.queue = 1..Len(wire.queue) /\ Len(wire.queue) \in Nat
  BY <1>1, SequenceOf
<1>3. ASSUME NEW i \in 1..Len(wire.queue)
      PROVE  wire.queue[i] \in Messages /\ wire.queue[i].bar \in Nat
  <2>1. wire.queue[i] \in Messages
    BY <1>1, SequenceOf
  <2> QED
    BY <2>1 DEF Messages
<1>4. ASSUME NEW s \in Keys
      PROVE  /\ ohlc[s] \in Nat /\ lanes[s].last \in Nat /\ lanes[s].seeded \in BOOLEAN
             /\ lanes[s] \in [seeded : BOOLEAN, last : Nat]
  <2>1. ohlc[s] \in Nat /\ lanes[s] \in [seeded : BOOLEAN, last : Nat]
    BY DEF TypeOK
  <2> QED
    BY <2>1
<1> QED
  BY <1>1, <1>2, <1>3, <1>4

\* With nothing on the connection and nothing in a mailbox, only the
\* subscriptions to be made and the probe matter.
LEMMA EmptyConnection ==
  ASSUME TypeOK', wire'.queue = <<>>, wire'.subs = {},
         reader'.pc # "wait", reader'.reply = None,
         proc' # "run" => reader'.pc = "off",
         reader'.pc \in {"off", "dial", "backoff"} => wire' = NoWire,
         reader'.pc = "subscribe" =>
           /\ reader'.todo # <<>>
           /\ \A i, j \in DOMAIN reader'.todo : reader'.todo[i] = reader'.todo[j] => i = j,
         \A s \in Keys : lanes'[s].last <= ohlc'[s],
         ProbeOK', ReadyIsEarned'
  PROVE  IngestInv'
<1>1. DOMAIN wire'.queue = {}
  BY EmptySequence
<1>2. CommandOK'
  BY DEF CommandOK
<1>3. SubscriptionsOK'
  BY DEF SubscriptionsOK
<1> QED
  BY <1>1, <1>2, <1>3 DEF IngestInv

\* Initially.
LEMMA InitKeeps == Init => IngestInv
<1> SUFFICES ASSUME Init PROVE IngestInv
  OBVIOUS
<1>0. <<>> \in Seq(Messages) /\ <<>> \in Seq(Keys) /\ DOMAIN <<>> = {}
  BY EmptySequence
<1>1. TypeOK
  <2>1. wire \in Connection
    BY <1>0 DEF Init, NoWire, Connection
  <2>2. reader \in Reader
    BY <1>0 DEF Init, Idle, Reader
  <2>3. probe \in Probe
    BY <1>0 DEF Init, NoProbe, Probe
  <2>4. ohlc \in [Keys -> Nat] /\ lanes \in [Keys -> [seeded : BOOLEAN, last : Nat]]
    BY DEF Init, NewLane
  <2> QED
    BY <2>1, <2>2, <2>3, <2>4, Zenon DEF Init, TypeOK
<1>2. /\ \A i \in DOMAIN wire.queue : InOrder(i)
      /\ CommandOK /\ SubscriptionsOK
  BY <1>0 DEF Init, NoWire, Idle, CommandOK, SubscriptionsOK
<1>3. ProbeOK /\ ReadyIsEarned /\ \A s \in Keys : lanes[s].last <= ohlc[s]
  BY DEF Init, NoProbe, NewLane, ProbeOK, ReadyIsEarned
<1> QED
  BY <1>1, <1>2, <1>3 DEF IngestInv

\* What the readiness handler has found stays true while lanes only advance.
LEMMA ProbeKeeps ==
  ASSUME TypeOK, TypeOK', ProbeOK, ReadyIsEarned, UNCHANGED http,
         \A s \in Keys : lanes[s].last <= lanes'[s].last
  PROVE  ProbeOK' /\ ReadyIsEarned'
<1>1. \A s \in Keys : /\ lanes[s].last \in Nat /\ lanes'[s].last \in Nat /\ Warmup \in Nat
                      /\ lanes[s].last >= Warmup => lanes'[s].last >= Warmup
  <2>1. ASSUME NEW s \in Keys PROVE lanes[s].last \in Nat /\ lanes'[s].last \in Nat
    BY DEF TypeOK
  <2> QED
    BY <2>1, IngestAssumption
<1>2. ProbeOK'
  BY <1>1 DEF http, ProbeOK
<1>3. ReadyIsEarned'
  BY <1>1 DEF http, ReadyIsEarned
<1> QED
  BY <1>2, <1>3

\* Steps that leave the way from the socket to the lanes alone.
LEMMA PathUnchanged ==
  ASSUME IngestInv, UNCHANGED <<ohlc, wire, reader, lanes>>,
         TypeOK', ProbeOK', ReadyIsEarned', proc' # "run" => reader.pc = "off"
  PROVE  IngestInv'
<1>1. /\ \A s, n, i : HeldBefore(s, n, i)' <=> HeldBefore(s, n, i)
      /\ \A s : Pending(s)' <=> Pending(s)
  BY DEF HeldBefore, Pending
<1>2. \A i \in DOMAIN wire.queue : InOrder(i)'
  BY <1>1 DEF IngestInv, InOrder
<1>3. CommandOK' /\ SubscriptionsOK'
  BY <1>1 DEF IngestInv, CommandOK, SubscriptionsOK
<1> QED
  BY <1>2, <1>3 DEF IngestInv

\* The outside world, the supervisor and the dispatcher.
LEMMA BystandersKeep ==
  ASSUME IngestInv, Heal \/ (\E what \in {"store", "broker"} : Outage(what)) \/ Boot \/ Poll
  PROVE  IngestInv'
<1>1. UNCHANGED <<ohlc, wire, reader, lanes, http>>
  BY DEF Heal, Outage, Boot, Poll, world, flags
<1>2. TypeOK'
  BY <1>1, Zenon DEF IngestInv, TypeOK, Heal, Outage, Boot, Poll, FlushResults, world, flags, http
<1>3. proc' # "run" => reader.pc = "off"
  BY DEF IngestInv, SubscriptionsOK, Heal, Outage, Boot, Poll
<1>4. ProbeOK' /\ ReadyIsEarned'
  <2>1. \A s \in Keys : lanes[s].last <= lanes'[s].last
    BY <1>1, Fields DEF IngestInv
  <2> QED
    BY <1>1, <1>2, <2>1, ProbeKeeps DEF IngestInv
<1> QED
  BY <1>1, <1>2, <1>3, <1>4, PathUnchanged

\* The readiness handler.
LEMMA ProbingKeeps ==
  ASSUME IngestInv, Probing
  PROVE  IngestInv'
<1>1. UNCHANGED <<ohlc, wire, reader, lanes, proc, down, connected, outbox>>
  BY DEF Probing, Ping, LookAtLane, LookAtUpstream, Answer, world, flags
<1>2. SUFFICES TypeOK' /\ ProbeOK' /\ ReadyIsEarned'
  BY <1>1, PathUnchanged DEF IngestInv, SubscriptionsOK
<1>3. /\ TypeOK /\ ProbeOK /\ ReadyIsEarned /\ probe \in Probe
      /\ probe.todo \in Seq(Keys) /\ probe.ok \in BOOLEAN /\ connected \in BOOLEAN
      /\ outbox \in BOOLEAN /\ answer \in BOOLEAN
  BY Fields DEF IngestInv, TypeOK
<1>4. SUFFICES probe' \in Probe /\ answer' \in BOOLEAN /\ ProbeOK' /\ ReadyIsEarned'
  BY <1>1, <1>3 DEF TypeOK
<1>5. CASE Ping
  <2>1. /\ probe' = [at |-> "lanes", todo |-> Series, ok |-> "store" \notin down]
        /\ answer' = answer
    BY <1>5 DEF Ping
  <2>2. Series \in Seq(Keys) /\ Series # <<>>
    BY IngestAssumption
  <2>3. probe' \in Probe
    BY <2>1, <2>2 DEF Probe
  <2>4. probe'.at = "lanes" /\ probe'.todo = Series
    BY <2>1
  <2>5. ProbeOK'
    BY <2>2, <2>4 DEF ProbeOK, Keys
  <2> QED
    BY <1>1, <1>3, <2>1, <2>3, <2>5 DEF ReadyIsEarned
<1>6. CASE LookAtLane
  <2> DEFINE s == Head(probe.todo)
             rest == Tail(probe.todo)
  <2>1. /\ probe.at = "lanes" /\ probe.todo # <<>> /\ answer' = answer
        /\ probe' = [at |-> IF rest = <<>> THEN "upstream" ELSE "lanes",
                     todo |-> rest, ok |-> probe.ok /\ LaneReady(s)]
    BY <1>3, <1>6 DEF LookAtLane, ProbeOK
  <2>2. rest \in Seq(Keys) /\ \A k \in Range(probe.todo) : k = s \/ k \in Range(rest)
    <3>1. /\ rest \in Seq(Keys) /\ s = probe.todo[1] /\ Len(probe.todo) \in Nat \ {0}
          /\ Len(rest) = Len(probe.todo) - 1
          /\ \A i \in 1..(Len(probe.todo) - 1) : rest[i] = probe.todo[i + 1]
      BY <1>3, <2>1, TailOf
    <3>2. ASSUME NEW k \in Range(probe.todo), k # s PROVE k \in Range(rest)
      <4>1. PICK i \in 1..Len(probe.todo) : probe.todo[i] = k
        BY <1>3 DEF Range
      <4>2. i - 1 \in 1..(Len(probe.todo) - 1) /\ rest[i - 1] = k /\ DOMAIN rest = 1..Len(rest)
        BY <3>1, <3>2, <4>1, SequenceOf
      <4> QED
        BY <3>1, <4>2, Zenon DEF Range
    <3> QED
      BY <3>1, <3>2
  <2>3. probe' \in Probe
    BY <2>1, <2>2 DEF Probe, LaneReady
  <2>4. /\ probe'.at = IF rest = <<>> THEN "upstream" ELSE "lanes"
        /\ probe'.todo = rest /\ probe'.ok = (probe.ok /\ LaneReady(s))
    BY <2>1
  <2>5. ProbeOK'
    BY <1>1, <1>3, <2>1, <2>2, <2>4, Zenon DEF ProbeOK, LaneReady
  <2> QED
    BY <1>1, <1>3, <2>1, <2>3, <2>5 DEF ReadyIsEarned
<1>7. CASE LookAtUpstream
  <2>1. /\ probe.at = "upstream" /\ answer' = answer
        /\ probe' = [probe EXCEPT !.at = "outbox", !.ok = @ /\ connected]
    BY <1>7 DEF LookAtUpstream
  <2>2. /\ probe'.at = "outbox" /\ probe'.todo = probe.todo
        /\ probe'.ok = (probe.ok /\ connected) /\ probe' \in Probe
    BY <1>3, <2>1, Zenon DEF Probe
  <2>3. ProbeOK'
    BY <1>1, <1>3, <2>1, <2>2 DEF ProbeOK
  <2> QED
    BY <1>1, <1>3, <2>1, <2>2, <2>3 DEF ReadyIsEarned
<1>8. CASE Answer
  <2>1. /\ probe.at = "outbox" /\ answer' = (probe.ok /\ outbox) /\ probe' = NoProbe
    BY <1>8 DEF Answer
  <2>2. <<>> \in Seq(Keys) /\ Range(<<>>) = {}
    BY EmptySequence DEF Range
  <2>3. probe' \in Probe /\ probe'.at = "idle"
    BY <2>1, <2>2 DEF NoProbe, Probe
  <2>4. ReadyIsEarned'
    BY <1>1, <1>3, <2>1, <2>2 DEF ProbeOK, ReadyIsEarned
  <2> QED
    BY <1>3, <2>1, <2>3, <2>4 DEF ProbeOK
<1> QED
  BY <1>5, <1>6, <1>7, <1>8 DEF Probing

\* A step that moves no lane keeps what the handler found.
LEMMA LanesStay ==
  ASSUME IngestInv, TypeOK', UNCHANGED <<lanes, http>>
  PROVE  ProbeOK' /\ ReadyIsEarned'
<1>1. \A s \in Keys : lanes[s].last <= lanes'[s].last
  BY Fields DEF IngestInv
<1> QED
  BY <1>1, ProbeKeeps DEF IngestInv

\* The client starts, fails or waits: no connection.
LEMMA NoConnection ==
  ASSUME IngestInv, wire' = NoWire, UNCHANGED <<ohlc, lanes, http>>,
         down' = down, proc' \in {"off", "flush", "run"},
         connected' \in BOOLEAN, outbox' \in BOOLEAN,
         NEW pc \in {"off", "dial", "backoff"}, reader' = [Idle EXCEPT !.pc = pc],
         proc' # "run" => pc = "off"
  PROVE  IngestInv'
<1>1. <<>> \in Seq(Messages) /\ <<>> \in Seq(Keys)
  BY EmptySequence
<1>2. wire' \in Connection /\ wire'.queue = <<>> /\ wire'.subs = {}
  BY <1>1 DEF NoWire, Connection
<1>3. reader' \in Reader /\ reader'.pc = pc /\ reader'.reply = None
  BY <1>1, Zenon DEF Idle, Reader
<1>4. TypeOK'
  BY <1>2, <1>3 DEF IngestInv, TypeOK, http
<1>5. ProbeOK' /\ ReadyIsEarned'
  BY <1>4, LanesStay
<1>6. \A s \in Keys : lanes'[s].last <= ohlc'[s]
  BY DEF IngestInv
<1> QED
  BY <1>2, <1>3, <1>4, <1>5, <1>6, EmptyConnection

\* HangUp, wherever it happens.
LEMMA HangUpKeeps ==
  ASSUME IngestInv, HangUp, reader.pc # "off", UNCHANGED <<world, proc, lanes, outbox, http>>
  PROVE  IngestInv'
<1>1. /\ wire' = NoWire /\ reader' = [Idle EXCEPT !.pc = "backoff"] /\ connected' = FALSE
      /\ UNCHANGED <<ohlc, lanes, http>> /\ down' = down /\ proc' = proc /\ outbox' = outbox
  BY DEF HangUp, world
<1>2. proc' \in {"off", "flush", "run"} /\ outbox' \in BOOLEAN /\ proc' = "run"
  BY <1>1 DEF IngestInv, TypeOK, SubscriptionsOK
<1> QED
  BY <1>1, <1>2, NoConnection, Zenon

\* The startup barrier and the backoff timer.
LEMMA BarrierKeeps ==
  ASSUME IngestInv, Barrier \/ Backoff
  PROVE  IngestInv'
<1>0. /\ connected \in BOOLEAN /\ outbox \in BOOLEAN /\ proc \in {"off", "flush", "run"}
      /\ proc # "run" => reader.pc = "off"
      /\ reader.pc \in {"off", "dial", "backoff"} => wire = NoWire
  BY DEF IngestInv, TypeOK, SubscriptionsOK
<1>1. CASE Barrier
  <2>1. PICK ok \in FlushResults :
          /\ wire' = NoWire /\ UNCHANGED <<ohlc, lanes, http, down, connected, outbox>>
          /\ proc' = IF ok THEN "run" ELSE "off"
          /\ reader' = IF ok THEN [Idle EXCEPT !.pc = "dial"] ELSE Idle
    BY <1>0, <1>1 DEF Barrier, world, flags
  <2>2. CASE ok
    BY <1>0, <2>1, <2>2, NoConnection
  <2>3. CASE ~ok
    <3>1. reader' = [Idle EXCEPT !.pc = "off"]
      BY <2>1, <2>3 DEF Idle
    <3> QED
      BY <1>0, <2>1, <2>3, <3>1, NoConnection
  <2> QED
    BY <2>2, <2>3
<1>2. CASE Backoff
  <2>1. /\ wire' = NoWire /\ UNCHANGED <<ohlc, lanes, http, down, connected, outbox, proc>>
        /\ reader' = [Idle EXCEPT !.pc = "dial"] /\ proc = "run"
    BY <1>0, <1>2 DEF Backoff, world, flags
  <2> QED
    BY <1>0, <2>1, NoConnection
<1> QED
  BY <1>1, <1>2

\* A crash leaves the store and the outside world.
LEMMA CrashKeeps ==
  ASSUME IngestInv, Crash
  PROVE  IngestInv'
<1>1. /\ ohlc' = ohlc /\ down' = down /\ proc' = "off"
      /\ wire' = NoWire /\ reader' = Idle /\ lanes' = [s \in Keys |-> NewLane]
      /\ connected' = FALSE /\ outbox' = FALSE /\ probe' = NoProbe /\ answer' = FALSE
  BY DEF Crash, Off, world
<1>2. <<>> \in Seq(Messages) /\ <<>> \in Seq(Keys)
  BY EmptySequence
<1>3. wire' \in Connection /\ wire'.queue = <<>> /\ wire'.subs = {}
  BY <1>1, <1>2 DEF NoWire, Connection
<1>4. reader' \in Reader /\ reader'.pc = "off" /\ reader'.reply = None
  BY <1>1, <1>2 DEF Idle, Reader
<1>5. probe' \in Probe /\ probe'.at = "idle"
  BY <1>1, <1>2 DEF NoProbe, Probe
<1>6. lanes' \in [Keys -> [seeded : BOOLEAN, last : Nat]] /\ \A s \in Keys : lanes'[s].last = 0
  BY <1>1 DEF NewLane
<1>7. TypeOK' /\ ohlc \in [Keys -> Nat]
  BY <1>1, <1>3, <1>4, <1>5, <1>6, Zenon DEF IngestInv, TypeOK
<1>8. ProbeOK' /\ ReadyIsEarned'
  BY <1>1, <1>5 DEF ProbeOK, ReadyIsEarned
<1>9. \A s \in Keys : lanes'[s].last <= ohlc'[s]
  BY <1>1, <1>6, <1>7
<1> QED
  BY <1>1, <1>3, <1>4, <1>7, <1>8, <1>9, EmptyConnection

\* A new connection, with every subscription still to be made.
LEMMA DialKeeps ==
  ASSUME IngestInv, Dial
  PROVE  IngestInv'
<1>0. reader.pc = "dial" /\ UNCHANGED <<world, proc, lanes, outbox, http>>
  BY DEF Dial
<1>1. CASE HangUp
  BY <1>0, <1>1, HangUpKeeps
<1>2. CASE /\ wire' = [NoWire EXCEPT !.up = TRUE]
           /\ reader' = [reader EXCEPT !.pc = "subscribe", !.todo = Series]
           /\ UNCHANGED <<connected, spent>>
  <2>1. <<>> \in Seq(Messages) /\ Series \in Seq(Keys) /\ Series # <<>>
        /\ \A i, j \in DOMAIN Series : Series[i] = Series[j] => i = j
    BY EmptySequence, IngestAssumption
  <2>2. wire' \in Connection /\ wire'.queue = <<>> /\ wire'.subs = {}
    BY <1>2, <2>1, Zenon DEF NoWire, Connection
  <2>3. reader \in Reader /\ reader.reply = None /\ proc = "run"
    BY <1>0 DEF IngestInv, TypeOK, CommandOK, SubscriptionsOK
  <2>4. /\ reader' \in Reader /\ reader'.pc = "subscribe" /\ reader'.reply = None
        /\ reader'.todo = Series
    BY <1>2, <2>1, <2>3, Zenon DEF Reader
  <2>5. TypeOK'
    BY <1>0, <1>2, <2>2, <2>4 DEF IngestInv, TypeOK, world, http
  <2>6. ProbeOK' /\ ReadyIsEarned'
    BY <1>0, <2>5, LanesStay
  <2>7. \A s \in Keys : lanes'[s].last <= ohlc'[s]
    BY <1>0 DEF IngestInv, world
  <2> QED
    BY <1>0, <2>1, <2>2, <2>3, <2>4, <2>5, <2>6, <2>7, EmptyConnection
<1> QED
  BY <1>1, <1>2 DEF Dial

\* Messages keep their order when the queue grows or is cut behind them.
LEMMA SharedPrefix ==
  ASSUME TypeOK, TypeOK', NEW k \in Nat, k <= Len(wire.queue),
         \A i \in 1..k : wire'.queue[i] = wire.queue[i],
         lanes' = lanes, reader'.cmd = reader.cmd, reader'.reply = reader.reply,
         reader'.pc = "wait" <=> reader.pc = "wait",
         \A s \in Keys : ohlc[s] <= ohlc'[s],
         wire'.up => wire.up /\ wire.subs \subseteq wire'.subs
  PROVE  /\ \A s, n : \A i \in 1..(k + 1) : HeldBefore(s, n, i) => HeldBefore(s, n, i)'
         /\ \A i \in 1..k : InOrder(i) => InOrder(i)'
<1>1. \A s : Pending(s)' <=> Pending(s)
  BY DEF Pending
<1>2. ASSUME NEW s, NEW n, NEW i \in 1..(k + 1), HeldBefore(s, n, i)
      PROVE  HeldBefore(s, n, i)'
  <2>1. \A j \in 1..(i - 1) : j \in 1..k
    OBVIOUS
  <2> QED
    BY <1>1, <1>2, <2>1 DEF HeldBefore
<1>3. ASSUME NEW i \in 1..k, InOrder(i)
      PROVE  InOrder(i)'
  <2>0. wire'.queue[i] = wire.queue[i] /\ \A j \in 1..(i - 1) : wire'.queue[j] = wire.queue[j]
    OBVIOUS
  <2>1. SUFFICES ASSUME wire.queue[i].type # "error" PROVE InOrder(i)'
    BY <1>3, <2>0 DEF InOrder
  <2> DEFINE m == wire.queue[i]
             s == m.series
  <2>2. /\ s \in Keys /\ m.bar <= ohlc[s] /\ m.bar \in Nat /\ ohlc[s] \in Nat /\ ohlc'[s] \in Nat
        /\ wire.up => s \in wire.subs
        /\ m.type = "seed" => /\ lanes[s].last <= m.bar /\ ~Pending(s)
                              /\ \A j \in 1..(i - 1) : wire.queue[j].series # s
        /\ m.type = "closed" /\ reader.reply # "err" => HeldBefore(s, m.bar - 1, i)
    <3>1. s \in Keys /\ m.bar <= ohlc[s] /\ m.bar \in Nat /\ ohlc[s] \in Nat
      BY <1>3, <2>1, Fields DEF InOrder
    <3>2. ohlc'[s] \in Nat
      BY <3>1 DEF TypeOK
    <3> QED
      BY <1>3, <2>1, <3>1, <3>2 DEF InOrder
  <2>3. m.bar <= ohlc'[s] /\ (wire'.up => s \in wire'.subs)
    BY <2>2
  <2>4. m.type = "seed" => /\ lanes'[s].last <= m.bar /\ ~Pending(s)'
                           /\ \A j \in 1..(i - 1) : wire'.queue[j].series # s
    BY <1>1, <2>0, <2>2
  <2>5. m.type = "closed" /\ reader'.reply # "err" => HeldBefore(s, m.bar - 1, i)'
    BY <1>2, <2>2
  <2> QED
    BY <2>0, <2>1, <2>2, <2>3, <2>4, <2>5 DEF InOrder
<1> QED
  BY <1>2, <1>3

\* The command in a mailbox is judged by its lane and by the bars there are.
LEMMA CommandStays ==
  ASSUME IngestInv, TypeOK', lanes' = lanes, reader' = reader,
         \A s \in Keys : ohlc[s] <= ohlc'[s]
  PROVE  CommandOK' /\ \A s \in Keys : lanes'[s].last <= ohlc'[s]
<1>1. \A s \in Keys : ohlc[s] \in Nat /\ ohlc'[s] \in Nat /\ lanes[s].last \in Nat
  BY Fields DEF IngestInv, TypeOK
<1>2. \A s \in Keys : lanes'[s].last <= ohlc'[s]
  BY <1>1 DEF IngestInv
<1>3. ASSUME reader.pc = "wait"
      PROVE  /\ reader.cmd \in Messages /\ reader.cmd.type # "error"
             /\ reader.cmd.series \in Keys /\ reader.cmd.bar <= ohlc'[reader.cmd.series]
  <2>1. /\ reader.cmd \in Messages /\ reader.cmd.type # "error"
        /\ reader.cmd.series \in Keys /\ reader.cmd.bar <= ohlc[reader.cmd.series]
    BY <1>3 DEF IngestInv, CommandOK
  <2>2. reader.cmd.bar \in Nat
    BY <2>1 DEF Messages
  <2> QED
    BY <1>1, <2>1, <2>2
<1> QED
  BY <1>2, <1>3 DEF IngestInv, CommandOK

\* The connection breaks, or brings an error.
LEMMA BreakKeeps ==
  ASSUME IngestInv, Break \/ Complain
  PROVE  IngestInv'
<1>0. /\ UNCHANGED <<world, proc, reader, lanes, flags, http>> /\ wire.up
      /\ wire \in Connection /\ wire.queue \in Seq(Messages) /\ Len(wire.queue) \in Nat
      /\ DOMAIN wire.queue = 1..Len(wire.queue) /\ wire.subs \subseteq Keys
  BY Fields DEF IngestInv, TypeOK, Break, Complain
<1>1. \A s \in Keys : ohlc[s] <= ohlc'[s]
  BY <1>0, Fields DEF IngestInv, world
<1>2. CASE Break
  <2>1. PICK n \in 0..Len(wire.queue) : wire' = [NoWire EXCEPT !.queue = SubSeq(wire.queue, 1, n)]
    BY <1>2, Zenon DEF Break
  <2>2. /\ SubSeq(wire.queue, 1, n) \in Seq(Messages) /\ Len(SubSeq(wire.queue, 1, n)) = n
        /\ \A i \in 1..n : SubSeq(wire.queue, 1, n)[i] = wire.queue[i]
    BY <1>0
  <2>3. /\ wire' \in Connection /\ wire'.up = FALSE /\ wire'.subs = {}
        /\ wire'.queue = SubSeq(wire.queue, 1, n)
    BY <2>1, <2>2, Zenon DEF NoWire, Connection
  <2>4. TypeOK'
    BY <1>0, <2>3 DEF IngestInv, TypeOK, world, flags, http
  <2>5. \A i \in DOMAIN wire'.queue : InOrder(i)'
    <3>1. \A i \in 1..n : InOrder(i)
      BY <1>0 DEF IngestInv
    <3>2. \A i \in 1..n : InOrder(i) => InOrder(i)'
      BY <1>0, <1>1, <2>2, <2>3, <2>4, SharedPrefix DEF IngestInv
    <3>3. DOMAIN wire'.queue = 1..n
      BY <2>2, <2>3, SequenceOf
    <3> QED
      BY <3>1, <3>2, <3>3
  <2>6. SubscriptionsOK'
    <3>1. reader.pc \notin {"off", "dial", "backoff"}
      BY <1>0 DEF IngestInv, SubscriptionsOK, NoWire
    <3> QED
      BY <1>0, <2>3, <3>1 DEF IngestInv, SubscriptionsOK
  <2>7. ProbeOK' /\ ReadyIsEarned'
    BY <1>0, <2>4, LanesStay
  <2> QED
    BY <1>0, <1>1, <2>4, <2>5, <2>6, <2>7, CommandStays DEF IngestInv
<1>3. CASE Complain
  <2> DEFINE m == Message("error", None, 0)
  <2>1. wire' = [wire EXCEPT !.queue = Append(@, m)]
    BY <1>3 DEF Complain
  <2>2. m \in Messages /\ m.type = "error" /\ m.series = None
    BY DEF Message, Messages
  <2>3. /\ Append(wire.queue, m) \in Seq(Messages)
        /\ Len(Append(wire.queue, m)) = Len(wire.queue) + 1
        /\ \A i \in 1..Len(wire.queue) : Append(wire.queue, m)[i] = wire.queue[i]
        /\ Append(wire.queue, m)[Len(wire.queue) + 1] = m
    BY <1>0, <2>2, Appended
  <2> HIDE DEF m
  <2>4. /\ wire' \in Connection /\ wire'.up = wire.up /\ wire'.subs = wire.subs
        /\ wire'.queue = Append(wire.queue, m)
    BY <1>0, <2>1, <2>3, Zenon DEF Connection
  <2>5. TypeOK'
    BY <1>0, <2>4 DEF IngestInv, TypeOK, world, flags, http
  <2>6. /\ \A s, n : \A i \in 1..(Len(wire.queue) + 1) : HeldBefore(s, n, i) => HeldBefore(s, n, i)'
        /\ \A i \in 1..Len(wire.queue) : InOrder(i) => InOrder(i)'
    BY <1>0, <1>1, <2>3, <2>4, <2>5, SharedPrefix DEF IngestInv
  <2>k. PICK k \in Nat : k = Len(wire.queue)
    BY <1>0
  <2>7. \A i \in DOMAIN wire'.queue : InOrder(i)'
    <3>1. DOMAIN wire'.queue = 1..(k + 1)
      BY <2>3, <2>4, <2>k, SequenceOf
    <3>2. InOrder(k + 1)'
      BY <2>2, <2>3, <2>4, <2>k DEF InOrder
    <3>3. \A i \in 1..k : InOrder(i)'
      BY <1>0, <2>6, <2>k DEF IngestInv
    <3> QED
      BY <3>1, <3>2, <3>3
  <2>8. SubscriptionsOK'
    <3>1. ASSUME NEW s \in wire'.subs, reader'.reply # "err"
          PROVE  HeldBefore(s, ohlc[s], Len(wire.queue) + 1)'
      <4>1. PICK o \in Nat : o = ohlc[s]
        BY <1>0, <2>4, Fields DEF IngestInv
      <4>2. HeldBefore(s, o, k + 1)
        BY <1>0, <2>4, <2>k, <3>1, <4>1 DEF IngestInv, SubscriptionsOK
      <4>3. HeldBefore(s, o, k + 1)'
        BY <2>6, <2>k, <4>2
      <4>4. HeldBefore(s, o, k + 2)'
        BY <4>3 DEF HeldBefore
      <4>5. ohlc'[s] = o /\ Len(wire'.queue) + 1 = k + 2
        BY <1>0, <2>3, <2>4, <2>k, <4>1 DEF world
      <4> QED
        BY <4>4, <4>5
    <3>3. reader.pc \notin {"off", "dial", "backoff"}
      BY <1>0 DEF IngestInv, SubscriptionsOK, NoWire
    <3> QED
      BY <1>0, <2>4, <3>1, <3>3 DEF IngestInv, SubscriptionsOK
  <2>9. ProbeOK' /\ ReadyIsEarned'
    BY <1>0, <2>5, LanesStay
  <2> QED
    BY <1>0, <1>1, <2>5, <2>7, <2>8, <2>9, CommandStays DEF IngestInv
<1> QED
  BY <1>2, <1>3

\* A bar closes, and follows its predecessor to the subscriber.
LEMMA CloseBarKeeps ==
  ASSUME IngestInv, NEW c \in Keys, CloseBar(c)
  PROVE  IngestInv'
<1>0. /\ UNCHANGED <<down, proc, reader, lanes, flags, http>>
      /\ wire \in Connection /\ wire.queue \in Seq(Messages) /\ Len(wire.queue) \in Nat
      /\ DOMAIN wire.queue = 1..Len(wire.queue) /\ wire.subs \subseteq Keys
      /\ ohlc \in [Keys -> Nat] /\ ohlc' = [ohlc EXCEPT ![c] = @ + 1]
  BY Fields DEF IngestInv, TypeOK, CloseBar
<1>1. /\ \A s \in Keys : ohlc[s] \in Nat /\ ohlc[s] <= ohlc'[s]
      /\ ohlc'[c] = ohlc[c] + 1 /\ ohlc' \in [Keys -> Nat]
      /\ \A s \in Keys : s # c => ohlc'[s] = ohlc[s]
  BY <1>0
<1>2. PICK k \in Nat : k = Len(wire.queue)
  BY <1>0
<1>3. CASE c \notin wire.subs
  <2>1. wire' = wire
    BY <1>3 DEF CloseBar
  <2>2. TypeOK'
    BY <1>0, <1>1, <2>1 DEF IngestInv, TypeOK, flags, http
  <2>3. /\ \A s, n : \A i \in 1..(k + 1) : HeldBefore(s, n, i) => HeldBefore(s, n, i)'
        /\ \A i \in 1..k : InOrder(i) => InOrder(i)'
    BY <1>0, <1>1, <1>2, <2>1, <2>2, SharedPrefix DEF IngestInv
  <2>4. \A i \in DOMAIN wire'.queue : InOrder(i)'
    BY <1>0, <1>2, <2>1, <2>3 DEF IngestInv
  <2>5. SubscriptionsOK'
    <3>1. ASSUME NEW s \in wire'.subs, reader'.reply # "err"
          PROVE  HeldBefore(s, ohlc[s], Len(wire.queue) + 1)'
      <4>1. PICK o \in Nat : o = ohlc[s]
        BY <1>0, <1>1, <2>1
      <4>2. HeldBefore(s, o, k + 1)
        BY <1>0, <1>2, <2>1, <3>1, <4>1 DEF IngestInv, SubscriptionsOK
      <4>3. HeldBefore(s, o, k + 1)'
        BY <2>3, <4>2
      <4>4. ohlc'[s] = o /\ Len(wire'.queue) + 1 = k + 1
        BY <1>0, <1>1, <1>2, <1>3, <2>1, <4>1
      <4> QED
        BY <4>3, <4>4
    <3> QED
      BY <1>0, <2>1, <3>1 DEF IngestInv, SubscriptionsOK
  <2>6. ProbeOK' /\ ReadyIsEarned'
    BY <1>0, <2>2, LanesStay
  <2> QED
    BY <1>0, <1>1, <2>2, <2>4, <2>5, <2>6, CommandStays DEF IngestInv
<1>4. CASE c \in wire.subs
  <2>0. PICK o \in Nat : o = ohlc[c]
    BY <1>1
  <2> DEFINE m == Message("closed", c, o + 1)
  <2>1. wire' = [wire EXCEPT !.queue = Append(@, m)]
    BY <1>1, <1>4, <2>0 DEF CloseBar
  <2>2. m \in Messages /\ m.type = "closed" /\ m.series = c /\ m.bar = o + 1
    BY DEF Message, Messages
  <2>3. /\ Append(wire.queue, m) \in Seq(Messages)
        /\ Len(Append(wire.queue, m)) = Len(wire.queue) + 1
        /\ \A i \in 1..Len(wire.queue) : Append(wire.queue, m)[i] = wire.queue[i]
        /\ Append(wire.queue, m)[Len(wire.queue) + 1] = m
    BY <1>0, <2>2, Appended
  <2> HIDE DEF m
  <2>4. /\ wire' \in Connection /\ wire'.up = wire.up /\ wire'.subs = wire.subs
        /\ wire'.queue = Append(wire.queue, m)
    BY <1>0, <2>1, <2>3, Zenon DEF Connection
  <2>5. TypeOK'
    BY <1>0, <1>1, <2>4 DEF IngestInv, TypeOK, flags, http
  <2>6. /\ \A s, n : \A i \in 1..(k + 1) : HeldBefore(s, n, i) => HeldBefore(s, n, i)'
        /\ \A i \in 1..k : InOrder(i) => InOrder(i)'
    BY <1>0, <1>1, <1>2, <2>3, <2>4, <2>5, SharedPrefix, SMT, SMTT(30) DEF IngestInv
  <2>7. \A s \in wire.subs : reader.reply # "err" => HeldBefore(s, ohlc[s], k + 1)
    BY <1>2 DEF IngestInv, SubscriptionsOK
  <2>8. \A i \in DOMAIN wire'.queue : InOrder(i)'
    <3>1. DOMAIN wire'.queue = 1..(k + 1)
      BY <1>2, <2>3, <2>4, SequenceOf
    <3>2. InOrder(k + 1)'
      <4>1. wire'.queue[k + 1] = m /\ o + 1 = ohlc'[c] /\ (o + 1) - 1 = o
        BY <1>1, <1>2, <2>0, <2>3, <2>4
      <4>2. reader'.reply # "err" => HeldBefore(c, o, k + 1)'
        BY <1>0, <1>4, <2>0, <2>6, <2>7
      <4> QED
        BY <1>4, <2>2, <2>4, <4>1, <4>2, SMT, SMTT(30) DEF InOrder
    <3>3. \A i \in 1..k : InOrder(i)'
      BY <1>0, <1>2, <2>6 DEF IngestInv
    <3> QED
      BY <3>1, <3>2, <3>3
  <2>9. SubscriptionsOK'
    <3>1. ASSUME NEW s \in wire'.subs, reader'.reply # "err"
          PROVE  HeldBefore(s, ohlc[s], Len(wire.queue) + 1)'
      <4>1. Len(wire'.queue) + 1 = k + 2 /\ wire'.queue[k + 1] = m /\ s \in Keys
        BY <1>0, <1>2, <2>3, <2>4
      <4>2. CASE s = c
        <5>1. HeldBefore(c, o + 1, k + 2)'
          BY <2>2, <4>1 DEF HeldBefore
        <5> QED
          BY <1>1, <2>0, <4>1, <4>2, <5>1
      <4>3. CASE s # c
        <5>1. PICK n \in Nat : n = ohlc[s]
          BY <1>1, <4>1
        <5>2. HeldBefore(s, n, k + 1)
          BY <1>0, <2>4, <2>7, <3>1, <5>1
        <5>3. HeldBefore(s, n, k + 1)'
          BY <2>6, <5>2
        <5>4. HeldBefore(s, n, k + 2)'
          BY <5>3 DEF HeldBefore
        <5> QED
          BY <1>1, <4>1, <4>3, <5>1, <5>4
      <4> QED
        BY <4>2, <4>3
    <3>2. reader.pc \notin {"off", "dial", "backoff"}
      BY <1>4 DEF IngestInv, SubscriptionsOK, NoWire
    <3> QED
      BY <1>0, <2>4, <3>1, <3>2 DEF IngestInv, SubscriptionsOK
  <2>10. ProbeOK' /\ ReadyIsEarned'
    BY <1>0, <2>5, LanesStay
  <2> QED
    BY <1>0, <1>1, <2>5, <2>8, <2>9, <2>10, CommandStays DEF IngestInv
<1> QED
  BY <1>3, <1>4

\* The next subscription: its seed is the first message of its series.
LEMMA SubscribeKeeps ==
  ASSUME IngestInv, Subscribe
  PROVE  IngestInv'
<1>0. /\ UNCHANGED <<world, proc, lanes, outbox, http, spent>> /\ reader.pc = "subscribe"
      /\ wire \in Connection /\ wire.queue \in Seq(Messages) /\ Len(wire.queue) \in Nat
      /\ DOMAIN wire.queue = 1..Len(wire.queue) /\ wire.subs \subseteq Keys
      /\ reader \in Reader /\ reader.todo \in Seq(Keys) /\ reader.todo # <<>>
      /\ reader.reply = None /\ None \notin Keys \cup {"ok", "err"}
  BY Fields, IngestAssumption DEF IngestInv, TypeOK, CommandOK, SubscriptionsOK, Subscribe
<1>1. CASE HangUp
  BY <1>0, <1>1, HangUpKeeps
<1>2. CASE ~HangUp
  <2> DEFINE rest == Tail(reader.todo)
  <2>0. /\ Head(reader.todo) \in Keys /\ Head(reader.todo) = reader.todo[1]
        /\ rest \in Seq(Keys) /\ Len(reader.todo) \in Nat \ {0} /\ Len(rest) = Len(reader.todo) - 1
        /\ DOMAIN rest = 1..Len(rest) /\ DOMAIN reader.todo = 1..Len(reader.todo)
        /\ \A i \in 1..Len(rest) : rest[i] = reader.todo[i + 1]
    BY <1>0, TailOf, SequenceOf
  <2>1. PICK c \in Keys : c = Head(reader.todo)
    BY <2>0
  <2>2. PICK o \in Nat : o = ohlc[c]
    BY Fields DEF IngestInv
  <2>3. PICK k \in Nat : k = Len(wire.queue)
    BY <1>0
  <2> DEFINE m == Message("seed", c, o)
  <2>4. /\ wire.up
        /\ wire' = [wire EXCEPT !.subs = @ \cup {c}, !.queue = @ \o <<m>>]
        /\ reader' = [reader EXCEPT !.todo = rest, !.pc = IF rest = <<>> THEN "read" ELSE "subscribe"]
        /\ connected' = (rest = <<>>)
    BY <1>2, <2>1, <2>2 DEF Subscribe, FirstMessages
  <2>5. m \in Messages /\ m.type = "seed" /\ m.series = c /\ m.bar = o
    BY DEF Message, Messages
  <2>6. /\ wire.queue \o <<m>> \in Seq(Messages)
        /\ Len(wire.queue \o <<m>>) = k + 1
        /\ \A i \in 1..k : (wire.queue \o <<m>>)[i] = wire.queue[i]
        /\ (wire.queue \o <<m>>)[k + 1] = m
    BY <1>0, <2>3, <2>5, Appended
  <2> HIDE DEF m, rest
  <2>7. /\ wire' \in Connection /\ wire'.up = wire.up /\ wire'.subs = wire.subs \cup {c}
        /\ wire'.queue = wire.queue \o <<m>>
    BY <1>0, <2>4, <2>6, Zenon DEF Connection
  <2>8. /\ reader' \in Reader /\ reader'.pc = IF rest = <<>> THEN "read" ELSE "subscribe"
        /\ reader'.todo = rest /\ reader'.cmd = reader.cmd /\ reader'.reply = None
    BY <1>0, <2>0, <2>4, Zenon DEF Reader
  <2>9. TypeOK'
    BY <1>0, <2>4, <2>7, <2>8 DEF IngestInv, TypeOK, world, http
  <2>10. \A s \in Keys : ohlc[s] \in Nat /\ ohlc'[s] = ohlc[s] /\ ohlc[s] <= ohlc'[s]
    BY <1>0, Fields DEF IngestInv, world
  <2>11. /\ \A s, n : \A i \in 1..(k + 1) : HeldBefore(s, n, i) => HeldBefore(s, n, i)'
         /\ \A i \in 1..k : InOrder(i) => InOrder(i)'
    <3>1. k <= Len(wire.queue) /\ \A i \in 1..k : wire'.queue[i] = wire.queue[i]
      BY <2>3, <2>6, <2>7
    <3>2. reader'.reply = reader.reply /\ (reader'.pc = "wait" <=> reader.pc = "wait")
      BY <1>0, <2>8
    <3>3. wire'.up => wire.up /\ wire.subs \subseteq wire'.subs
      BY <2>4, <2>7
    <3>4. TypeOK /\ lanes' = lanes
      BY <1>0 DEF IngestInv
    <3> QED
      BY <2>8, <2>9, <2>10, <3>1, <3>2, <3>3, <3>4, SharedPrefix
  <2>12. c \notin wire.subs
    BY <1>0, <2>0, <2>1 DEF IngestInv, SubscriptionsOK
  <2>13. \A i \in DOMAIN wire'.queue : InOrder(i)'
    <3>1. DOMAIN wire'.queue = 1..(k + 1)
      BY <2>6, <2>7, SequenceOf
    <3>2. \A i \in 1..k : InOrder(i) /\ InOrder(i)'
      BY <1>0, <2>3, <2>11 DEF IngestInv
    <3>3. InOrder(k + 1)'
      <4>1. wire'.queue[k + 1] = m /\ ~Pending(c)'
        BY <2>6, <2>7, <2>8 DEF Pending
      <4>2. \A j \in 1..k : wire'.queue[j].series # c
        <5> SUFFICES ASSUME NEW j \in 1..k PROVE wire'.queue[j].series # c
          OBVIOUS
        <5>1. wire'.queue[j] = wire.queue[j]
          BY <2>6, <2>7
        <5>2. wire.queue[j].series = None \/ wire.queue[j].series \in wire.subs
          BY <2>4, <3>2 DEF InOrder
        <5> QED
          BY <1>0, <2>12, <5>1, <5>2
      <4>3. lanes'[c].last <= o /\ o <= ohlc'[c]
        BY <1>0, <2>2, <2>10 DEF IngestInv
      <4>4. (k + 1) - 1 = k /\ c \in wire'.subs
        BY <2>7
      <4>5. /\ m.type # "error" /\ m.type # "closed" /\ m.series = c /\ m.bar = o
        BY <2>5
      <4> QED
        BY <4>1, <4>2, <4>3, <4>4, <4>5 DEF InOrder
    <3> QED
      BY <3>1, <3>2, <3>3
  <2>14. SubscriptionsOK'
    <3>1. ASSUME NEW s \in wire'.subs
          PROVE  HeldBefore(s, ohlc[s], Len(wire.queue) + 1)'
      <4>1. Len(wire'.queue) + 1 = k + 2 /\ wire'.queue[k + 1] = m /\ s \in Keys
        <5>1. Len(wire'.queue) = k + 1 /\ wire'.queue[k + 1] = m
          BY <2>6, <2>7, Zenon
        <5>2. s \in Keys
          BY <1>0, <2>7
        <5> QED
          BY <5>1, <5>2
      <4>2. CASE s = c
        <5>1. HeldBefore(c, o, k + 2)'
          BY <2>5, <4>1 DEF HeldBefore
        <5> QED
          BY <2>2, <2>10, <4>1, <4>2, <5>1
      <4>3. CASE s # c
        <5>1. PICK n \in Nat : n = ohlc[s]
          BY <2>10, <4>1
        <5>2. HeldBefore(s, n, k + 1)
          BY <1>0, <2>3, <2>7, <4>3, <5>1 DEF IngestInv, SubscriptionsOK
        <5>3. HeldBefore(s, n, k + 1)'
          BY <2>11, <5>2
        <5>4. HeldBefore(s, n, k + 2)'
          BY <5>3 DEF HeldBefore
        <5> QED
          BY <2>10, <4>1, <5>1, <5>4
      <4> QED
        BY <4>2, <4>3
    <3>2. ASSUME reader'.pc = "subscribe"
          PROVE  /\ reader'.todo # <<>>
                 /\ \A i, j \in DOMAIN reader'.todo : reader'.todo[i] = reader'.todo[j] => i = j
                 /\ \A i \in DOMAIN reader'.todo : reader'.todo[i] \notin wire'.subs
      <4>1. /\ \A i, j \in 1..Len(reader.todo) : reader.todo[i] = reader.todo[j] => i = j
            /\ \A i \in 1..Len(reader.todo) : reader.todo[i] \notin wire.subs
        BY <1>0, <2>0, Zenon DEF IngestInv, SubscriptionsOK
      <4>2. \A i \in 1..Len(rest) : /\ i + 1 \in 1..Len(reader.todo) /\ i + 1 # 1
                                    /\ rest[i] = reader.todo[i + 1]
        BY <2>0
      <4>3. \A i, j \in 1..Len(rest) : rest[i] = rest[j] => i = j
        BY <4>1, <4>2
      <4>4. 1 \in 1..Len(reader.todo)
        BY <2>0, SMT, SMTT(30)
      <4>5. \A i \in 1..Len(rest) : rest[i] \notin wire.subs \cup {c}
        BY <2>0, <2>1, <4>1, <4>2, <4>4, SMT, SMTT(30)
      <4> QED
        BY <2>0, <2>7, <2>8, <3>2, <4>3, <4>5, Zenon
    <3>3. proc' = "run" /\ reader'.pc \notin {"off", "dial", "backoff"} /\ wire'.up
      BY <1>0, <2>4, <2>7, <2>8, SMTT(20), SMTT(30) DEF IngestInv, SubscriptionsOK
    <3> QED
      BY <3>1, <3>2, <3>3 DEF SubscriptionsOK
  <2>15. CommandOK' /\ \A s \in Keys : lanes'[s].last <= ohlc'[s]
    BY <1>0, <2>8, <2>10, Zenon DEF CommandOK, IngestInv
  <2>16. ProbeOK' /\ ReadyIsEarned'
    BY <1>0, <2>9, LanesStay, Zenon
  <2> QED
    BY <2>9, <2>13, <2>14, <2>15, <2>16 DEF IngestInv
<1> QED
  BY <1>1, <1>2

\* The head of the queue goes into the mailbox of its lane.
LEMMA ReadKeeps ==
  ASSUME IngestInv, Read
  PROVE  IngestInv'
<1>0. /\ UNCHANGED <<world, proc, lanes, outbox, http, spent>> /\ reader.pc = "read"
      /\ wire \in Connection /\ wire.queue \in Seq(Messages) /\ wire.subs \subseteq Keys
      /\ reader \in Reader /\ reader.reply = None /\ None # "err" /\ connected \in BOOLEAN
      /\ proc = "run"
  BY Fields, IngestAssumption, Zenon DEF IngestInv, TypeOK, CommandOK, SubscriptionsOK, Read
<1>1. CASE HangUp
  BY <1>0, <1>1, HangUpKeeps, Zenon
<1>2. CASE ~HangUp
  <2>1. /\ wire.queue # <<>> /\ Head(wire.queue).type # "error"
        /\ reader' = [reader EXCEPT !.pc = "wait", !.cmd = Head(wire.queue)]
        /\ wire' = [wire EXCEPT !.queue = Tail(@)] /\ connected' = connected
    BY <1>2, Zenon DEF Read
  <2>2. /\ Head(wire.queue) \in Messages /\ Head(wire.queue) = wire.queue[1]
        /\ Tail(wire.queue) \in Seq(Messages) /\ Len(wire.queue) \in Nat \ {0}
        /\ Len(Tail(wire.queue)) = Len(wire.queue) - 1
        /\ \A i \in 1..(Len(wire.queue) - 1) : Tail(wire.queue)[i] = wire.queue[i + 1]
        /\ DOMAIN wire.queue = 1..Len(wire.queue)
    BY <1>0, <2>1, TailOf, SequenceOf, Zenon
  <2>3. PICK k \in Nat : Len(wire.queue) = k + 1
    <3>1. Len(wire.queue) - 1 \in Nat /\ Len(wire.queue) = (Len(wire.queue) - 1) + 1
      BY <2>2, SMT, SMTT(30)
    <3> QED
      BY <3>1, Zenon
  <2>4. PICK m \in Messages : m = wire.queue[1]
    BY <2>2, Zenon
  <2>5. m.type # "error" /\ m.bar \in Nat /\ m.type \in {"seed", "closed", "error"}
    BY <2>1, <2>2, <2>4, Zenon DEF Messages
  <2>6. /\ reader' \in Reader /\ reader'.pc = "wait" /\ reader'.cmd = m /\ reader'.reply = None
    BY <1>0, <2>1, <2>2, <2>4, Zenon DEF Reader
  <2>7. /\ wire' \in Connection /\ wire'.up = wire.up /\ wire'.subs = wire.subs
        /\ wire'.queue \in Seq(Messages) /\ Len(wire'.queue) = k /\ DOMAIN wire'.queue = 1..k
        /\ \A i \in 1..k : wire'.queue[i] = wire.queue[i + 1]
    <3>1. wire' \in Connection /\ wire'.up = wire.up /\ wire'.subs = wire.subs
          /\ wire'.queue = Tail(wire.queue)
      BY <1>0, <2>1, <2>2, Zenon DEF Connection
    <3> QED
      BY <2>2, <2>3, <3>1, SequenceOf, SMT, SMTT(30)
  <2>8. TypeOK'
    BY <1>0, <2>1, <2>6, <2>7, Zenon DEF IngestInv, TypeOK, world, http
  <2>9. ~\E s : Pending(s)
    BY <1>0, Zenon DEF Pending
  <2>10. \A s : Pending(s)' <=> m.series = s
    BY <2>6, Zenon DEF Pending
  <2>11. ASSUME NEW s, NEW n, NEW i \in 1..(k + 1), HeldBefore(s, n, i + 1)
         PROVE  HeldBefore(s, n, i)'
    <3>1. CASE lanes[s].seeded /\ lanes[s].last >= n
      BY <1>0, <3>1, Zenon DEF HeldBefore
    <3>2. ASSUME NEW j \in 1..i, wire.queue[j].series = s /\ wire.queue[j].bar >= n
          PROVE  HeldBefore(s, n, i)'
      <4>1. CASE j = 1
        BY <2>4, <2>6, <2>10, <3>2, <4>1, Zenon DEF HeldBefore
      <4>2. CASE j # 1
        <5>1. j - 1 \in 1..(i - 1) /\ j - 1 \in 1..k /\ (j - 1) + 1 = j
          BY <4>2, SMT, SMTT(30)
        <5>2. wire'.queue[j - 1] = wire.queue[j]
          BY <2>7, <5>1, Zenon
        <5> QED
          BY <3>2, <5>1, <5>2, Zenon DEF HeldBefore
      <4> QED
        BY <4>1, <4>2, Zenon
    <3>3. (i + 1) - 1 = i
      BY SMT, SMTT(30)
    <3> QED
      BY <2>9, <2>11, <3>1, <3>2, <3>3, Zenon DEF HeldBefore
  <2>12. \A i \in 1..(k + 1) : InOrder(i)
    BY <2>2, <2>3, Zenon DEF IngestInv
  <2>13. \A i \in DOMAIN wire'.queue : InOrder(i)'
    <3> SUFFICES ASSUME NEW i \in 1..k PROVE InOrder(i)'
      BY <2>7, Zenon
    <3>1. PICK x \in Messages : x = wire.queue[i + 1]
      BY <1>0, <2>3, SequenceOf, SMT, SMTT(30)
    <3>2. x = wire'.queue[i] /\ InOrder(i + 1) /\ (i + 1) - 1 = i
      BY <2>7, <2>12, <3>1, SMTT(20), SMTT(30)
    <3>3. CASE x.type = "error"
      BY <3>1, <3>2, <3>3, Zenon DEF InOrder
    <3>4. CASE x.type # "error"
      <4>1. /\ x.series \in Keys /\ x.bar <= ohlc[x.series]
            /\ wire.up => x.series \in wire.subs
            /\ x.type = "seed" => /\ lanes[x.series].last <= x.bar
                                  /\ \A j \in 1..i : wire.queue[j].series # x.series
            /\ x.type = "closed" => HeldBefore(x.series, x.bar - 1, i + 1)
        BY <1>0, <3>1, <3>2, <3>4, Zenon DEF InOrder
      <4>2. ohlc' = ohlc /\ lanes' = lanes
        BY <1>0, Zenon DEF world
      <4>3. ASSUME x.type = "seed"
            PROVE  ~Pending(x.series)' /\ \A j \in 1..(i - 1) : wire'.queue[j].series # x.series
        <5>1. m.series # x.series
          BY <2>4, <4>1, <4>3, SMT, SMTT(30)
        <5>2. \A j \in 1..(i - 1) : wire'.queue[j] = wire.queue[j + 1] /\ j + 1 \in 1..i
          BY <2>7, SMT, SMTT(30)
        <5> QED
          BY <2>10, <4>1, <4>3, <5>1, <5>2, Zenon
      <4>4. x.type = "closed" => HeldBefore(x.series, x.bar - 1, i)'
        BY <2>11, <4>1, SMT, SMTT(30)
      <4> QED
        BY <2>7, <3>2, <3>4, <4>1, <4>2, <4>3, <4>4, Zenon DEF InOrder
    <3> QED
      BY <3>3, <3>4, Zenon
  <2>14. /\ m.series \in Keys /\ m.bar <= ohlc[m.series]
         /\ m.type = "seed" => lanes[m.series].last <= m.bar
         /\ m.type = "closed" => HeldBefore(m.series, m.bar - 1, 1)
    <3>1. InOrder(1)
      BY <2>12, SMT, SMTT(30)
    <3> QED
      BY <1>0, <2>4, <2>5, <3>1, Zenon DEF InOrder
  <2>15. CommandOK'
    <3>1. m.type = "closed" => lanes[m.series].seeded /\ lanes[m.series].last >= m.bar - 1
      BY <2>9, <2>14, SMT, SMTT(30) DEF HeldBefore
    <3>2. lanes[m.series].last \in Nat
      BY <2>14, Fields, Zenon DEF IngestInv
    <3>3. m.type = "closed" => lanes[m.series].seeded /\ m.bar <= lanes[m.series].last + 1
      BY <2>5, <3>1, <3>2, SMT, SMTT(30)
    <3>4. ohlc' = ohlc /\ lanes' = lanes
      BY <1>0, Zenon DEF world
    <3> QED
      BY <2>5, <2>6, <2>14, <3>3, <3>4, Zenon DEF CommandOK
  <2>16. SubscriptionsOK'
    <3>1. ASSUME NEW s \in wire'.subs
          PROVE  HeldBefore(s, ohlc[s], Len(wire.queue) + 1)'
      <4>1. PICK n \in Nat : n = ohlc[s]
        BY <1>0, <2>7, Fields, Zenon DEF IngestInv
      <4>2. HeldBefore(s, n, (k + 1) + 1)
        BY <1>0, <2>3, <2>7, <4>1, Zenon DEF IngestInv, SubscriptionsOK
      <4>3. HeldBefore(s, n, k + 1)'
        BY <2>11, <4>2, SMT, SMTT(30)
      <4>4. ohlc'[s] = n /\ Len(wire'.queue) + 1 = k + 1
        BY <1>0, <2>7, <4>1, Zenon DEF world
      <4> QED
        BY <4>3, <4>4, Zenon
    <3> QED
      BY <1>0, <2>6, <2>7, <3>1, Zenon DEF IngestInv, SubscriptionsOK
  <2>17. ProbeOK' /\ ReadyIsEarned'
    BY <1>0, <2>8, LanesStay, Zenon
  <2>18. \A s \in Keys : lanes'[s].last <= ohlc'[s]
    BY <1>0, Zenon DEF IngestInv, world
  <2> QED
    BY <2>8, <2>13, <2>15, <2>16, <2>17, <2>18, Zenon DEF IngestInv
<1> QED
  BY <1>1, <1>2, Zenon

\* What a lane makes of a command that CommandOK allows: it never goes back,
\* and "ok" means that the bar is in.
LEMMA OutcomeOf ==
  ASSUME NEW k \in [seeded : BOOLEAN, last : Nat], NEW m \in Messages, m.type # "error",
         IF m.type = "seed" THEN k.last <= m.bar ELSE k.seeded /\ m.bar <= k.last + 1,
         NEW o \in Outcomes(k, m)
  PROVE  /\ o.lane \in [seeded : BOOLEAN, last : Nat] /\ o.reply \in {"ok", "err"}
         /\ k.last <= o.lane.last /\ (k.seeded => o.lane.seeded)
         /\ o.lane.last <= k.last \/ o.lane.last <= m.bar
         /\ o.reply = "ok" => o.lane.seeded /\ m.bar <= o.lane.last
<1>0. /\ m.bar \in Nat /\ m.type \in {"seed", "closed"} /\ k.last \in Nat /\ k.seeded \in BOOLEAN
  BY Zenon DEF Messages
<1>1. CASE m.type = "seed" /\ "store" \in down
  <2>1. PICK n \in k.last..(IF k.last < m.bar THEN m.bar - 1 ELSE k.last) :
          o = [lane |-> [k EXCEPT !.last = n], reply |-> "err"]
    BY <1>1, Zenon DEF Outcomes
  <2>2. n \in Nat /\ k.last <= n /\ (n <= k.last \/ n <= m.bar)
    BY <1>0, <2>1, SMT, SMTT(30)
  <2>3. /\ [k EXCEPT !.last = n] \in [seeded : BOOLEAN, last : Nat]
        /\ [k EXCEPT !.last = n].last = n /\ [k EXCEPT !.last = n].seeded = k.seeded
    BY <2>2, Zenon
  <2> QED
    BY <2>1, <2>2, <2>3, Zenon
<1>2. CASE m.type = "seed" /\ "store" \notin down
  <2>1. o = [lane |-> [seeded |-> TRUE, last |-> m.bar], reply |-> "ok"]
    BY <1>2, Zenon DEF Outcomes
  <2> QED
    BY <1>0, <1>2, <2>1, SMT, SMTT(30)
<1>3. CASE m.type = "closed" /\ m.bar = k.last + 1
  <2>1. k.seeded
    BY <1>3, Zenon
  <2>2. CASE "store" \in down
    <3>1. o = [lane |-> k, reply |-> "err"]
      BY <1>3, <2>1, <2>2, Zenon DEF Outcomes
    <3> QED
      BY <1>0, <3>1, SMT, SMTT(30)
  <2>3. CASE "store" \notin down
    <3>1. o = [lane |-> [k EXCEPT !.last = m.bar], reply |-> "ok"]
      BY <1>3, <2>1, <2>3, Zenon DEF Outcomes
    <3>2. /\ [k EXCEPT !.last = m.bar] \in [seeded : BOOLEAN, last : Nat]
          /\ [k EXCEPT !.last = m.bar].last = m.bar /\ [k EXCEPT !.last = m.bar].seeded = k.seeded
      BY <1>0, Zenon
    <3> QED
      BY <1>0, <1>3, <2>1, <3>1, <3>2, SMT, SMTT(30)
  <2> QED
    BY <2>2, <2>3, Zenon
<1>4. CASE m.type = "closed" /\ m.bar # k.last + 1
  <2>1. k.seeded /\ m.bar <= k.last
    BY <1>0, <1>4, SMT, SMTT(30)
  <2>2. CASE m.bar = k.last
    <3>1. o = [lane |-> k, reply |-> "ok"]
      BY <1>4, <2>1, <2>2, Zenon DEF Outcomes
    <3> QED
      BY <1>0, <2>1, <3>1, SMT, SMTT(30)
  <2>3. CASE m.bar # k.last
    <3>1. o = [lane |-> k, reply |-> "err"]
      BY <1>4, <2>1, <2>3, Zenon DEF Outcomes
    <3> QED
      BY <1>0, <2>1, <3>1, SMT, SMTT(30)
  <2> QED
    BY <2>2, <2>3, Zenon
<1> QED
  BY <1>0, <1>1, <1>2, <1>3, <1>4, Zenon

\* A lane takes its command.
LEMMA ApplyKeeps ==
  ASSUME IngestInv, Apply
  PROVE  IngestInv'
<1>0. /\ UNCHANGED <<world, proc, wire, flags, http, spent>>
      /\ reader.pc = "wait" /\ reader.reply = None /\ reader \in Reader /\ TypeOK
      /\ None \notin {"ok", "err"}
  BY IngestAssumption, Zenon DEF IngestInv, TypeOK, Apply
<1>1. PICK m \in Messages : m = reader.cmd
  BY <1>0, Zenon DEF IngestInv, CommandOK
<1>2. PICK c \in Keys : c = m.series
  BY <1>0, <1>1, Zenon DEF IngestInv, CommandOK
<1>3. /\ m.type # "error" /\ m.bar <= ohlc[c] /\ m.bar \in Nat
      /\ IF m.type = "seed" THEN lanes[c].last <= m.bar
         ELSE lanes[c].seeded /\ m.bar <= lanes[c].last + 1
  BY <1>0, <1>1, <1>2, Zenon DEF IngestInv, CommandOK, Messages
<1>4. PICK o \in Outcomes(lanes[c], m) : /\ lanes' = [lanes EXCEPT ![c] = o.lane]
                                         /\ reader' = [reader EXCEPT !.reply = o.reply]
  BY <1>1, <1>2, Zenon DEF Apply
<1>5. /\ o.lane \in [seeded : BOOLEAN, last : Nat] /\ o.reply \in {"ok", "err"}
      /\ lanes[c].last <= o.lane.last /\ (lanes[c].seeded => o.lane.seeded)
      /\ o.lane.last <= lanes[c].last \/ o.lane.last <= m.bar
      /\ o.reply = "ok" => o.lane.seeded /\ m.bar <= o.lane.last
  <2>1. lanes[c] \in [seeded : BOOLEAN, last : Nat]
    BY <1>0, Fields, Zenon
  <2> QED
    BY <1>3, <2>1, OutcomeOf, Zenon
<1>6. /\ lanes \in [Keys -> [seeded : BOOLEAN, last : Nat]]
      /\ lanes' \in [Keys -> [seeded : BOOLEAN, last : Nat]]
      /\ lanes'[c] = o.lane /\ \A s \in Keys : s # c => lanes'[s] = lanes[s]
  BY <1>0, <1>4, <1>5, Zenon DEF TypeOK
<1>7. /\ reader' \in Reader /\ reader'.pc = "wait" /\ reader'.cmd = m /\ reader'.reply = o.reply
  BY <1>0, <1>1, <1>4, <1>5, Zenon DEF Reader
<1>8. TypeOK'
  BY <1>0, <1>6, <1>7, Zenon DEF TypeOK, world, flags, http
<1>9. ASSUME NEW s \in Keys
      PROVE  /\ lanes[s].last \in Nat /\ lanes'[s].last \in Nat /\ ohlc[s] \in Nat
             /\ lanes[s].last <= lanes'[s].last /\ lanes'[s].last <= ohlc[s]
             /\ lanes[s].seeded => lanes'[s].seeded
  <2>1. lanes[s].last \in Nat /\ ohlc[s] \in Nat /\ lanes[s].last <= ohlc[s]
    BY <1>0, Fields, Zenon DEF IngestInv
  <2>2. CASE s = c
    <3>1. o.lane.last \in Nat
      BY <1>5, Zenon
    <3> QED
      BY <1>3, <1>5, <1>6, <2>1, <2>2, <3>1, SMT, SMTT(30)
  <2>3. CASE s # c
    BY <1>6, <2>1, <2>3, SMTT(20), SMTT(30)
  <2> QED
    BY <2>2, <2>3, Zenon
<1>10. /\ \A s : Pending(s) <=> s = c
       /\ \A s : ~Pending(s)'
  BY <1>0, <1>1, <1>2, <1>5, <1>7, Zenon DEF Pending
<1>11. wire' = wire /\ ohlc' = ohlc /\ proc' = proc
  BY <1>0, Zenon DEF world
<1>12. ASSUME reader'.reply # "err", NEW s \in Keys, NEW n \in Int, NEW i, HeldBefore(s, n, i)
       PROVE  HeldBefore(s, n, i)'
  <2>1. CASE lanes[s].seeded /\ lanes[s].last >= n
    <3>1. lanes'[s].seeded /\ lanes'[s].last >= n
      BY <1>9, <2>1, SMT, SMTT(30)
    <3> QED
      BY <3>1, Zenon DEF HeldBefore
  <2>2. CASE Pending(s) /\ reader.cmd.bar >= n
    <3>1. s = c /\ o.reply = "ok" /\ m.bar >= n
      BY <1>1, <1>5, <1>7, <1>10, <1>12, <2>2, Zenon
    <3>2. lanes'[s].seeded /\ m.bar <= lanes'[s].last
      BY <1>5, <1>6, <3>1, Zenon
    <3>3. lanes'[s].last >= n
      BY <1>3, <1>9, <3>1, <3>2, SMT, SMTT(30)
    <3> QED
      BY <3>2, <3>3, Zenon DEF HeldBefore
  <2>3. CASE \E j \in 1..(i - 1) : wire.queue[j].series = s /\ wire.queue[j].bar >= n
    BY <1>11, <2>3, Zenon DEF HeldBefore
  <2> QED
    BY <1>12, <2>1, <2>2, <2>3, Zenon DEF HeldBefore
<1>13. \A i \in DOMAIN wire'.queue : InOrder(i)'
  <2> SUFFICES ASSUME NEW i \in DOMAIN wire.queue PROVE InOrder(i)'
    BY <1>11, Zenon
  <2>1. PICK x \in Messages : x = wire.queue[i]
    BY <1>0, Fields, Zenon
  <2>2. InOrder(i)
    BY Zenon DEF IngestInv
  <2>3. CASE x.type = "error"
    BY <1>11, <2>1, <2>2, <2>3, ZenonT(30) DEF InOrder
  <2>4. CASE x.type # "error"
    <3>1. /\ x.series \in Keys /\ x.bar <= ohlc[x.series]
          /\ wire.up => x.series \in wire.subs
          /\ x.type = "seed" => /\ lanes[x.series].last <= x.bar /\ ~Pending(x.series)
                                /\ \A j \in 1..(i - 1) : wire.queue[j].series # x.series
          /\ x.type = "closed" => HeldBefore(x.series, x.bar - 1, i)
      BY <1>0, <2>1, <2>2, <2>4, Zenon DEF InOrder
    <3>2. x.type = "seed" => lanes'[x.series].last <= x.bar
      BY <1>6, <1>10, <3>1, Zenon
    <3>3. x.bar - 1 \in Int
      BY <2>1, SMT, SMTT(30) DEF Messages
    <3>4. x.type = "closed" /\ reader'.reply # "err" => HeldBefore(x.series, x.bar - 1, i)'
      BY <1>12, <3>1, <3>3, Zenon
    <3> QED
      BY <1>10, <1>11, <2>1, <2>4, <3>1, <3>2, <3>4, Zenon DEF InOrder
  <2> QED
    BY <2>3, <2>4, Zenon
<1>14. CommandOK'
  <2>1. reader'.reply # None
    BY <1>0, <1>5, <1>7, Zenon
  <2> QED
    BY <1>2, <1>3, <1>7, <1>11, <2>1, Zenon DEF CommandOK
<1>15. SubscriptionsOK'
  <2>1. ASSUME NEW s \in wire.subs, reader'.reply # "err"
        PROVE  HeldBefore(s, ohlc[s], Len(wire.queue) + 1)'
    <3>1. s \in Keys /\ ohlc[s] \in Nat
      BY <1>0, Fields, Zenon
    <3>2. PICK n \in Nat : n = ohlc[s]
      BY <3>1, Zenon
    <3>3. PICK i : i = Len(wire.queue) + 1
      BY Zenon
    <3>4. HeldBefore(s, n, i)
      BY <1>0, <3>2, <3>3, Zenon DEF IngestInv, SubscriptionsOK
    <3>5. HeldBefore(s, n, i)'
      BY <1>12, <2>1, <3>1, <3>4, SMT, SMTT(30)
    <3> QED
      BY <1>11, <3>2, <3>3, <3>5, Zenon
  <2> QED
    BY <1>0, <1>7, <1>11, <2>1, Zenon DEF IngestInv, SubscriptionsOK
<1>16. ProbeOK' /\ ReadyIsEarned'
  BY <1>0, <1>8, <1>9, ProbeKeeps, Zenon DEF IngestInv
<1> QED
  BY <1>8, <1>9, <1>11, <1>13, <1>14, <1>15, <1>16, Zenon DEF IngestInv

\* The client goes on to the next message, or gives the connection up.
LEMMA ResumeKeeps ==
  ASSUME IngestInv, Resume
  PROVE  IngestInv'
<1>0. /\ UNCHANGED <<world, proc, lanes, outbox, http, spent>> /\ reader.reply # None
      /\ reader.pc = "wait" /\ TypeOK /\ None \notin {"ok", "err"}
  BY IngestAssumption, Zenon DEF IngestInv, CommandOK, Resume
<1>1. CASE HangUp
  BY <1>0, <1>1, HangUpKeeps, Zenon
<1>2. CASE ~HangUp
  <2>1. /\ reader.reply = "ok" /\ reader' = [Idle EXCEPT !.pc = "read"]
        /\ wire' = wire /\ connected' = connected /\ ohlc' = ohlc /\ lanes' = lanes /\ proc' = proc
    BY <1>0, <1>2, Zenon DEF Resume, world
  <2>2. <<>> \in Seq(Keys)
    BY EmptySequence, Zenon
  <2>3. reader' \in Reader /\ reader'.pc = "read" /\ reader'.reply = None
    BY <2>1, <2>2, Zenon DEF Idle, Reader
  <2>4. TypeOK'
    BY <1>0, <2>1, <2>3, Zenon DEF TypeOK, world, http
  <2>5. (\A s : ~Pending(s)) /\ (\A s : ~Pending(s)')
    BY <1>0, <2>3, Zenon DEF Pending
  <2>6. \A s, n, i : HeldBefore(s, n, i) => HeldBefore(s, n, i)'
    BY <2>1, <2>5, Zenon DEF HeldBefore
  <2>7. \A i \in DOMAIN wire'.queue : InOrder(i)'
    <3> SUFFICES ASSUME NEW i \in DOMAIN wire.queue PROVE InOrder(i)'
      BY <2>1, Zenon
    <3>1. InOrder(i)
      BY Zenon DEF IngestInv
    <3>2. PICK x \in Messages : x = wire.queue[i]
      BY <1>0, Fields, Zenon
    <3>3. x.type = "closed" /\ x.type # "error" => HeldBefore(x.series, x.bar - 1, i)'
      BY <1>0, <2>1, <2>6, <3>1, <3>2, Zenon DEF InOrder
    <3> QED
      BY <2>1, <2>5, <3>1, <3>2, <3>3, Zenon DEF InOrder
  <2>8. SubscriptionsOK'
    <3>1. ASSUME NEW s \in wire.subs PROVE HeldBefore(s, ohlc[s], Len(wire.queue) + 1)'
      <4>1. PICK n : n = ohlc[s]
        BY Zenon
      <4>2. PICK i : i = Len(wire.queue) + 1
        BY Zenon
      <4>3. HeldBefore(s, n, i)
        BY <2>1, <4>1, <4>2, Zenon DEF IngestInv, SubscriptionsOK
      <4>4. HeldBefore(s, n, i)'
        BY <2>6, <4>3, Zenon
      <4> QED
        BY <2>1, <4>1, <4>2, <4>4, Zenon
    <3> QED
      BY <1>0, <2>1, <2>3, <3>1, Zenon DEF IngestInv, SubscriptionsOK
  <2>9. CommandOK' /\ \A s \in Keys : lanes'[s].last <= ohlc'[s]
    BY <2>1, <2>3, Zenon DEF IngestInv, CommandOK
  <2>10. ProbeOK' /\ ReadyIsEarned'
    BY <1>0, <2>4, LanesStay, Zenon
  <2> QED
    BY <2>4, <2>7, <2>8, <2>9, <2>10, Zenon DEF IngestInv
<1> QED
  BY <1>1, <1>2, Zenon

\* Every step keeps the way from the socket to the lanes in order.
LEMMA StepKeeps == IngestInv /\ [Next]_vars => IngestInv'
<1> SUFFICES ASSUME IngestInv, [Next]_vars PROVE IngestInv'
  BY Zenon
<1>1. CASE UNCHANGED vars
  <2>1. /\ UNCHANGED <<ohlc, wire, reader, lanes, http>> /\ UNCHANGED <<down, proc, connected, outbox>>
    BY <1>1, Zenon DEF vars, world, flags
  <2>2. TypeOK'
    BY <2>1, Zenon DEF IngestInv, TypeOK, http
  <2>3. ProbeOK' /\ ReadyIsEarned'
    BY <2>1, <2>2, LanesStay, Zenon
  <2> QED
    BY <2>1, <2>2, <2>3, PathUnchanged, Zenon DEF IngestInv, SubscriptionsOK
<1>2. CASE \E s \in Keys : CloseBar(s)
  BY <1>2, CloseBarKeeps, Zenon
<1>3. CASE Break \/ Complain
  BY <1>3, BreakKeeps, Zenon
<1>4. CASE Heal \/ (\E what \in {"store", "broker"} : Outage(what)) \/ Boot \/ Poll
  BY <1>4, BystandersKeep, Zenon
<1>5. CASE Crash
  BY <1>5, CrashKeeps, Zenon
<1>6. CASE Barrier \/ Backoff
  BY <1>6, BarrierKeeps, Zenon
<1>7. CASE Dial \/ Subscribe \/ Read \/ Resume
  BY <1>7, DialKeeps, SubscribeKeeps, ReadKeeps, ResumeKeeps, Zenon
<1>8. CASE Apply
  BY <1>8, ApplyKeeps, Zenon
<1>9. CASE Probing
  BY <1>9, ProbingKeeps, Zenon
<1> QED
  BY <1>1, <1>2, <1>3, <1>4, <1>5, <1>6, <1>7, <1>8, <1>9, Zenon DEF Next, Client

\* OHLCClient and Lane.submit: messages, mailboxes and lanes fit together at
\* every step, for any number of series on the one connection.
THEOREM PathInvariant == Spec => []IngestInv
BY InitKeeps, StepKeeps, PTL DEF Spec

\* A lane is never handed a bar it must refuse (OHLCClient.dispatch).
THEOREM NoGapEver == Spec => []NoGapReachesALane
<1>1. IngestInv => NoGapReachesALane
  <2> SUFFICES ASSUME IngestInv, reader.pc = "wait", reader.reply = None,
                      reader.cmd.type = "closed"
               PROVE  /\ lanes[reader.cmd.series].seeded
                      /\ reader.cmd.bar <= lanes[reader.cmd.series].last + 1
    BY Zenon DEF NoGapReachesALane
  <2> QED
    BY Zenon DEF IngestInv, CommandOK
<1> QED
  BY <1>1, PathInvariant, PTL

\* A 200 of /readyz is earned when it is given and as long as the process lives
\* (Server.ready), however its reads interleave with the lanes.
THEOREM ReadyIsAlwaysEarned == Spec => []ReadyIsEarned
<1>1. IngestInv => ReadyIsEarned
  BY Zenon DEF IngestInv
<1> QED
  BY <1>1, PathInvariant, PTL

-----------------------------------------------------------------------------
(* Bars under way ascend, so the newest one is the last.                   *)

\* Nothing is under way.
LEMMA QuietAscends ==
  ASSUME wire'.queue = <<>>, reader'.pc # "wait"
  PROVE  BarsAscend'
<1>1. DOMAIN wire'.queue = {}
  BY EmptySequence, Zenon
<1> QED
  BY <1>1, Zenon DEF BarsAscend

\* The queue is left alone or cut, and so is what the reader waits for.
LEMMA CutAscends ==
  ASSUME BarsAscend, lanes' = lanes, DOMAIN wire'.queue \subseteq DOMAIN wire.queue,
         \A i \in DOMAIN wire'.queue : wire'.queue[i] = wire.queue[i],
         reader'.pc # "wait" \/ reader' = reader
  PROVE  BarsAscend'
<1>1. \A s : Pending(s)' => Pending(s) /\ reader'.cmd = reader.cmd
  BY Zenon DEF Pending
<1>2. \A i, j \in DOMAIN wire'.queue :
        i < j /\ wire'.queue[i].series \in Keys /\ wire'.queue[j].series = wire'.queue[i].series =>
          wire'.queue[i].bar < wire'.queue[j].bar
  BY Zenon DEF BarsAscend
<1>3. ASSUME NEW i \in DOMAIN wire'.queue, wire'.queue[i].series \in Keys
      PROVE  /\ Pending(wire.queue[i].series)' => reader'.cmd.bar < wire'.queue[i].bar
             /\ wire'.queue[i].type = "closed" =>
                  lanes'[wire'.queue[i].series].last < wire'.queue[i].bar
  <2>1. PICK m : m = wire.queue[i] /\ m = wire'.queue[i]
    BY Zenon
  <2>2. /\ Pending(m.series) => reader.cmd.bar < m.bar
        /\ m.type = "closed" => lanes[m.series].last < m.bar
    BY <1>3, <2>1, Zenon DEF BarsAscend
  <2> QED
    BY <1>1, <2>1, <2>2, Zenon
<1>4. reader'.pc = "wait" /\ reader'.reply = None /\ reader'.cmd.type = "closed" =>
        lanes'[reader'.cmd.series].last < reader'.cmd.bar
  BY Zenon DEF BarsAscend
<1> QED
  BY <1>2, <1>3, <1>4, Zenon DEF BarsAscend

\* One more message, with a bar beyond all that are under way.
LEMMA GrowthAscends ==
  ASSUME BarsAscend, lanes' = lanes, wire.queue \in Seq(Messages), NEW m \in Messages,
         wire'.queue = Append(wire.queue, m), reader'.pc # "wait" \/ reader' = reader,
         m.series \in Keys =>
           /\ \A i \in DOMAIN wire.queue : wire.queue[i].series = m.series => wire.queue[i].bar < m.bar
           /\ Pending(m.series) => reader.cmd.bar < m.bar
           /\ m.type = "closed" => lanes[m.series].last < m.bar
  PROVE  BarsAscend'
<1>1. \A s : Pending(s)' => Pending(s) /\ reader'.cmd = reader.cmd
  BY Zenon DEF Pending
<1>2. PICK k \in Nat : k = Len(wire.queue)
  BY SequenceOf, Zenon
<1>3. /\ DOMAIN wire.queue = 1..k /\ DOMAIN wire'.queue = 1..(k + 1)
      /\ \A i \in 1..k : wire'.queue[i] = wire.queue[i]
      /\ wire'.queue[k + 1] = m
  <2>1. /\ Append(wire.queue, m) \in Seq(Messages) /\ Len(Append(wire.queue, m)) = k + 1
        /\ \A i \in 1..k : Append(wire.queue, m)[i] = wire.queue[i]
        /\ Append(wire.queue, m)[k + 1] = m
    BY <1>2, Appended, SMT, SMTT(30)
  <2> QED
    BY <1>2, <2>1, SequenceOf, Zenon
<1>4. ASSUME NEW i \in DOMAIN wire'.queue, NEW j \in DOMAIN wire'.queue, i < j,
             wire'.queue[i].series \in Keys, wire'.queue[j].series = wire'.queue[i].series
      PROVE  wire'.queue[i].bar < wire'.queue[j].bar
  <2>1. i \in 1..k /\ (j \in 1..k \/ j = k + 1)
    BY <1>3, <1>4, SMTT(20), SMTT(30)
  <2>2. CASE j \in 1..k
    BY <1>3, <1>4, <2>1, <2>2, Zenon DEF BarsAscend
  <2>3. CASE j = k + 1
    BY <1>3, <1>4, <2>1, <2>3, Zenon
  <2> QED
    BY <2>1, <2>2, <2>3, Zenon
<1>5. ASSUME NEW i \in DOMAIN wire'.queue, wire'.queue[i].series \in Keys
      PROVE  /\ Pending(wire.queue[i].series)' => reader'.cmd.bar < wire'.queue[i].bar
             /\ wire'.queue[i].type = "closed" =>
                  lanes'[wire'.queue[i].series].last < wire'.queue[i].bar
  <2>1. PICK x : x = wire'.queue[i]
    BY Zenon
  <2>2. /\ Pending(x.series) => reader.cmd.bar < x.bar
        /\ x.type = "closed" => lanes[x.series].last < x.bar
    <3>1. CASE i \in 1..k
      BY <1>3, <1>5, <2>1, <3>1, Zenon DEF BarsAscend
    <3>2. CASE i = k + 1
      BY <1>3, <1>5, <2>1, <3>2, Zenon
    <3> QED
      BY <1>3, <3>1, <3>2, SMTT(20), SMTT(30)
  <2> QED
    BY <1>1, <2>1, <2>2, Zenon
<1>6. reader'.pc = "wait" /\ reader'.reply = None /\ reader'.cmd.type = "closed" =>
        lanes'[reader'.cmd.series].last < reader'.cmd.bar
  BY Zenon DEF BarsAscend
<1> QED
  BY <1>4, <1>5, <1>6, Zenon DEF BarsAscend

\* A message of the queue that names a series names one that exists, and its bar
\* has closed.
LEMMA QueuedBar ==
  ASSUME IngestInv, NEW i \in DOMAIN wire.queue, wire.queue[i].series \in Keys
  PROVE  /\ wire.queue[i].type \in {"seed", "closed"} /\ wire.queue[i].bar \in Nat
         /\ wire.queue[i].bar <= ohlc[wire.queue[i].series]
         /\ wire.up => wire.queue[i].series \in wire.subs
<1>1. PICK m \in Messages : m = wire.queue[i]
  BY Fields, Zenon DEF IngestInv
<1>2. m.type \in {"seed", "closed", "error"} /\ m.bar \in Nat
  BY Zenon DEF Messages
<1>3. m.type # "error"
  BY <1>1, IngestAssumption, Zenon DEF IngestInv, InOrder
<1> QED
  BY <1>1, <1>2, <1>3, Zenon DEF IngestInv, InOrder

\* A bar closes, beyond every bar that is queued, submitted or applied.
LEMMA CloseBarAscends ==
  ASSUME IngestInv, BarsAscend, NEW c \in Keys, CloseBar(c)
  PROVE  BarsAscend'
<1>0. /\ lanes' = lanes /\ reader' = reader /\ wire.queue \in Seq(Messages) /\ wire \in Connection
      /\ ohlc \in [Keys -> Nat] /\ ohlc' = [ohlc EXCEPT ![c] = @ + 1]
  BY Fields, Zenon DEF IngestInv, TypeOK, CloseBar
<1>1. PICK o \in Nat : o = ohlc[c] /\ ohlc'[c] = o + 1
  BY <1>0, Zenon
<1>2. CASE c \notin wire.subs
  <2>1. wire' = wire
    BY <1>2, Zenon DEF CloseBar
  <2> QED
    BY <1>0, <2>1, CutAscends, Zenon
<1>3. CASE c \in wire.subs
  <2> DEFINE m == Message("closed", c, o + 1)
  <2>1. wire' = [wire EXCEPT !.queue = Append(@, m)]
    BY <1>1, <1>3, Zenon DEF CloseBar
  <2>2. m \in Messages /\ m.series = c /\ m.bar = o + 1
    BY SMT, SMTT(30) DEF Message, Messages
  <2> HIDE DEF m
  <2>3. wire'.queue = Append(wire.queue, m)
    BY <1>0, <2>1, Zenon DEF Connection
  <2>4. ASSUME NEW i \in DOMAIN wire.queue, wire.queue[i].series = c
        PROVE  wire.queue[i].bar < m.bar
    BY <1>1, <2>2, <2>4, QueuedBar, SMT, SMTT(30)
  <2>5. Pending(c) => reader.cmd.bar < m.bar
    <3>1. ASSUME Pending(c)
          PROVE  reader.cmd.bar \in Nat /\ reader.cmd.bar <= o
      BY <1>1, <3>1, Zenon DEF IngestInv, CommandOK, Pending, Messages
    <3> QED
      BY <2>2, <3>1, SMT, SMTT(30)
  <2>6. lanes[c].last < m.bar
    BY <1>1, <2>2, Fields, SMT, SMTT(30) DEF IngestInv
  <2> QED
    BY <1>0, <2>2, <2>3, <2>4, <2>5, <2>6, GrowthAscends, Zenon
<1> QED
  BY <1>2, <1>3, Zenon

\* The connection breaks, or brings an error.
LEMMA BreakAscends ==
  ASSUME IngestInv, BarsAscend, Break \/ Complain
  PROVE  BarsAscend'
<1>0. /\ lanes' = lanes /\ reader' = reader /\ wire.queue \in Seq(Messages) /\ wire \in Connection
      /\ DOMAIN wire.queue = 1..Len(wire.queue) /\ Len(wire.queue) \in Nat
  BY Fields, Zenon DEF IngestInv, TypeOK, Break, Complain
<1>1. CASE Break
  <2>1. PICK n \in 0..Len(wire.queue) : wire' = [NoWire EXCEPT !.queue = SubSeq(wire.queue, 1, n)]
    BY <1>1, Zenon DEF Break
  <2>2. wire'.queue = SubSeq(wire.queue, 1, n)
    BY <2>1, Zenon DEF NoWire
  <2>3. /\ DOMAIN SubSeq(wire.queue, 1, n) = 1..n
        /\ \A i \in 1..n : SubSeq(wire.queue, 1, n)[i] = wire.queue[i]
    BY <1>0, SMT, SMTT(30)
  <2>4. /\ DOMAIN wire'.queue \subseteq DOMAIN wire.queue
        /\ \A i \in DOMAIN wire'.queue : wire'.queue[i] = wire.queue[i]
    BY <1>0, <2>2, <2>3, SMT, SMTT(30)
  <2> QED
    BY <1>0, <2>4, CutAscends, Zenon
<1>2. CASE Complain
  <2> DEFINE m == Message("error", None, 0)
  <2>1. wire' = [wire EXCEPT !.queue = Append(@, m)]
    BY <1>2, Zenon DEF Complain
  <2>2. m \in Messages /\ m.series \notin Keys
    BY IngestAssumption, Zenon DEF Message, Messages
  <2> HIDE DEF m
  <2>3. wire'.queue = Append(wire.queue, m)
    BY <1>0, <2>1, Zenon DEF Connection
  <2> QED
    BY <1>0, <2>2, <2>3, GrowthAscends, Zenon
<1> QED
  BY <1>1, <1>2, Zenon

\* The seed of a new subscription has the queue and the mailbox to itself.
LEMMA SubscribeAscends ==
  ASSUME IngestInv, BarsAscend, Subscribe
  PROVE  BarsAscend'
<1>0. /\ lanes' = lanes /\ reader.pc = "subscribe" /\ wire \in Connection /\ reader \in Reader
      /\ wire.queue \in Seq(Messages) /\ reader.todo \in Seq(Keys) /\ reader.todo # <<>>
      /\ \A i \in DOMAIN reader.todo : reader.todo[i] \notin wire.subs
  BY Fields, Zenon DEF IngestInv, TypeOK, SubscriptionsOK, Subscribe
<1>1. CASE HangUp
  <2>1. wire'.queue = <<>> /\ reader'.pc # "wait"
    BY <1>1, Zenon DEF HangUp, NoWire, Idle
  <2> QED
    BY <2>1, QuietAscends, Zenon
<1>2. CASE ~HangUp
  <2>1. PICK c \in Keys : c = Head(reader.todo) /\ c \notin wire.subs
    <3>1. /\ Head(reader.todo) \in Keys /\ Head(reader.todo) = reader.todo[1]
          /\ 1 \in DOMAIN reader.todo
      BY <1>0, TailOf, SequenceOf, SMT, SMTT(30)
    <3> QED
      BY <1>0, <3>1, Zenon
  <2>2. PICK o \in Nat : o = ohlc[c]
    BY Fields, Zenon DEF IngestInv
  <2> DEFINE m == Message("seed", c, o)
  <2>3. /\ wire.up
        /\ wire' = [wire EXCEPT !.subs = @ \cup {c}, !.queue = @ \o <<m>>]
        /\ reader' = [reader EXCEPT !.todo = Tail(reader.todo),
                        !.pc = IF Tail(reader.todo) = <<>> THEN "read" ELSE "subscribe"]
    BY <1>2, <2>1, <2>2, Zenon DEF Subscribe, FirstMessages
  <2>4. m \in Messages /\ m.series = c /\ m.type = "seed"
    BY Zenon DEF Message, Messages
  <2>5. wire.queue \o <<m>> = Append(wire.queue, m)
    BY <1>0, <2>4, Appended, SMT, SMTT(30)
  <2> HIDE DEF m
  <2>6. wire'.queue = Append(wire.queue, m)
    BY <1>0, <2>3, <2>5, Zenon DEF Connection
  <2>7. reader'.pc # "wait"
    BY <1>0, <2>3, Zenon DEF Reader
  <2>8. \A i \in DOMAIN wire.queue : wire.queue[i].series # c
    BY <2>1, <2>3, QueuedBar, Zenon
  <2>9. ~Pending(c)
    BY <1>0, Zenon DEF Pending
  <2> QED
    BY <1>0, <2>4, <2>6, <2>7, <2>8, <2>9, GrowthAscends, Zenon
<1> QED
  BY <1>1, <1>2, Zenon

\* The head of the queue becomes the command: what follows it lies beyond.
LEMMA ReadAscends ==
  ASSUME IngestInv, BarsAscend, Read
  PROVE  BarsAscend'
<1>0. /\ lanes' = lanes /\ reader.pc = "read" /\ wire \in Connection /\ reader \in Reader
      /\ wire.queue \in Seq(Messages)
  BY Fields, Zenon DEF IngestInv, TypeOK, Read
<1>1. CASE HangUp
  <2>1. wire'.queue = <<>> /\ reader'.pc # "wait"
    BY <1>1, Zenon DEF HangUp, NoWire, Idle
  <2> QED
    BY <2>1, QuietAscends, Zenon
<1>2. CASE ~HangUp
  <2>1. /\ wire.queue # <<>> /\ Head(wire.queue).type # "error"
        /\ reader' = [reader EXCEPT !.pc = "wait", !.cmd = Head(wire.queue)]
        /\ wire' = [wire EXCEPT !.queue = Tail(@)]
    BY <1>2, Zenon DEF Read
  <2>2. /\ Head(wire.queue) \in Messages /\ Head(wire.queue) = wire.queue[1]
        /\ Tail(wire.queue) \in Seq(Messages) /\ Len(wire.queue) \in Nat \ {0}
        /\ Len(Tail(wire.queue)) = Len(wire.queue) - 1
        /\ \A i \in 1..(Len(wire.queue) - 1) : Tail(wire.queue)[i] = wire.queue[i + 1]
        /\ DOMAIN wire.queue = 1..Len(wire.queue)
        /\ DOMAIN Tail(wire.queue) = 1..Len(Tail(wire.queue))
    BY <1>0, <2>1, TailOf, SequenceOf, Zenon
  <2>3. PICK m \in Messages : m = wire.queue[1]
    BY <2>2, Zenon
  <2>4. reader'.cmd = m
    BY <1>0, <2>1, <2>2, <2>3, Zenon DEF Reader
  <2>5. wire'.queue = Tail(wire.queue)
    BY <1>0, <2>1, Zenon DEF Connection
  <2>6. \A i \in DOMAIN wire'.queue : /\ i + 1 \in DOMAIN wire.queue /\ i \in Nat /\ 1 < i + 1
                                      /\ wire'.queue[i] = wire.queue[i + 1]
    BY <2>2, <2>5, SMT, SMTT(30)
  <2>7. 1 \in DOMAIN wire.queue
    BY <2>2, SMT, SMTT(30)
  <2>8. m.series \in Keys
    <3>1. InOrder(1)
      BY <2>7, Zenon DEF IngestInv
    <3> QED
      BY <2>1, <2>2, <2>3, <3>1, Zenon DEF InOrder
  <2>9. ASSUME NEW i \in DOMAIN wire'.queue, NEW j \in DOMAIN wire'.queue, i < j,
               wire'.queue[i].series \in Keys, wire'.queue[j].series = wire'.queue[i].series
        PROVE  wire'.queue[i].bar < wire'.queue[j].bar
    <3>1. i + 1 < j + 1
      BY <2>6, <2>9, SMT, SMTT(30)
    <3> QED
      BY <2>6, <2>9, <3>1, Zenon DEF BarsAscend
  <2>10. ASSUME NEW i \in DOMAIN wire'.queue, wire'.queue[i].series \in Keys
         PROVE  /\ Pending(wire.queue[i].series)' => reader'.cmd.bar < wire'.queue[i].bar
                /\ wire'.queue[i].type = "closed" =>
                     lanes'[wire'.queue[i].series].last < wire'.queue[i].bar
    <3>1. Pending(wire.queue[i].series)' => wire'.queue[i].series = m.series
      BY <2>4, Zenon DEF Pending
    <3>2. wire'.queue[i].series = m.series => m.bar < wire'.queue[i].bar
      BY <2>3, <2>6, <2>7, <2>8, Zenon DEF BarsAscend
    <3>3. wire'.queue[i].type = "closed" =>
            lanes'[wire'.queue[i].series].last < wire'.queue[i].bar
      BY <1>0, <2>6, <2>10, Zenon DEF BarsAscend
    <3> QED
      BY <2>4, <3>1, <3>2, <3>3, Zenon
  <2>11. reader'.cmd.type = "closed" => lanes'[reader'.cmd.series].last < reader'.cmd.bar
    BY <1>0, <2>3, <2>4, <2>7, <2>8, Zenon DEF BarsAscend
  <2> QED
    BY <2>9, <2>10, <2>11, Zenon DEF BarsAscend
<1> QED
  BY <1>1, <1>2, Zenon

\* A lane applies no more than its command, which the queued bars lie beyond.
LEMMA ApplyAscends ==
  ASSUME IngestInv, BarsAscend, Apply
  PROVE  BarsAscend'
<1>0. /\ wire' = wire /\ reader.pc = "wait" /\ reader.reply = None /\ reader \in Reader
      /\ lanes \in [Keys -> [seeded : BOOLEAN, last : Nat]] /\ None \notin {"ok", "err"}
  BY IngestAssumption, Zenon DEF IngestInv, TypeOK, Apply
<1>1. PICK m \in Messages : m = reader.cmd
  BY <1>0, Zenon DEF IngestInv, CommandOK
<1>2. PICK c \in Keys : c = m.series
  BY <1>0, <1>1, Zenon DEF IngestInv, CommandOK
<1>3. /\ m.type # "error" /\ m.bar \in Nat /\ lanes[c] \in [seeded : BOOLEAN, last : Nat]
      /\ IF m.type = "seed" THEN lanes[c].last <= m.bar
         ELSE lanes[c].seeded /\ m.bar <= lanes[c].last + 1
  BY <1>0, <1>1, <1>2, Zenon DEF IngestInv, CommandOK, Messages
<1>4. PICK o \in Outcomes(lanes[c], m) : /\ lanes' = [lanes EXCEPT ![c] = o.lane]
                                         /\ reader' = [reader EXCEPT !.reply = o.reply]
  BY <1>1, <1>2, Zenon DEF Apply
<1>5. /\ o.lane \in [seeded : BOOLEAN, last : Nat] /\ o.reply \in {"ok", "err"}
      /\ o.lane.last <= lanes[c].last \/ o.lane.last <= m.bar
  BY <1>3, OutcomeOf, Zenon
<1>6. lanes'[c] = o.lane /\ \A s \in Keys : s # c => lanes'[s] = lanes[s]
  BY <1>0, <1>4, Zenon
<1>7. reader'.reply # None
  BY <1>0, <1>4, <1>5, Zenon DEF Reader
<1>8. \A s : ~Pending(s)'
  BY <1>7, Zenon DEF Pending
<1>9. ASSUME NEW i \in DOMAIN wire.queue, wire.queue[i].series \in Keys, wire.queue[i].type = "closed"
      PROVE  lanes'[wire.queue[i].series].last < wire.queue[i].bar
  <2>1. PICK x : x = wire.queue[i] /\ x.bar \in Nat
    BY <1>9, QueuedBar, Zenon
  <2>2. lanes[x.series].last < x.bar
    BY <1>9, <2>1, Zenon DEF BarsAscend
  <2>3. CASE x.series = c
    <3>1. m.bar < x.bar
      BY <1>0, <1>1, <1>2, <1>9, <2>1, <2>3, Zenon DEF BarsAscend, Pending
    <3>2. o.lane.last \in Nat /\ lanes[c].last \in Nat
      BY <1>3, <1>5, Zenon
    <3> QED
      BY <1>3, <1>5, <1>6, <2>1, <2>2, <2>3, <3>1, <3>2, SMTT(20), SMTT(30)
  <2>4. CASE x.series # c
    BY <1>6, <1>9, <2>1, <2>2, <2>4, Zenon
  <2> QED
    BY <2>3, <2>4, Zenon
<1>10. \A i, j \in DOMAIN wire.queue :
         i < j /\ wire.queue[i].series \in Keys /\ wire.queue[j].series = wire.queue[i].series =>
           wire.queue[i].bar < wire.queue[j].bar
  BY Zenon DEF BarsAscend
<1> QED
  BY <1>0, <1>7, <1>8, <1>9, <1>10, Zenon DEF BarsAscend

\* The client goes on to the next message, or gives the connection up.
LEMMA ResumeAscends ==
  ASSUME IngestInv, BarsAscend, Resume
  PROVE  BarsAscend'
<1>1. CASE HangUp
  <2>1. wire'.queue = <<>> /\ reader'.pc # "wait"
    BY <1>1, Zenon DEF HangUp, NoWire, Idle
  <2> QED
    BY <2>1, QuietAscends, Zenon
<1>2. CASE ~HangUp
  <2>1. wire' = wire /\ lanes' = lanes /\ reader'.pc # "wait"
    BY <1>2, Zenon DEF Resume, Idle
  <2> QED
    BY <2>1, CutAscends, Zenon
<1> QED
  BY <1>1, <1>2, Zenon

\* Without a connection nothing is under way.
LEMMA OfflineAscends ==
  ASSUME IngestInv, Crash \/ Barrier \/ Backoff \/ Dial
  PROVE  BarsAscend'
<1>0. reader.pc \in {"off", "dial", "backoff"} => wire.queue = <<>>
  BY SMT, SMTT(30) DEF IngestInv, SubscriptionsOK, NoWire
<1>1. reader'.pc # "wait"
  <2>1. CASE Crash \/ Barrier \/ Backoff
    BY <2>1, SMT, SMTT(30) DEF Crash, Off, Barrier, Backoff, Idle
  <2>2. CASE Dial
    <3>1. reader \in Reader
      BY Zenon DEF IngestInv, TypeOK
    <3>2. CASE HangUp
      BY <3>2, Zenon DEF HangUp, Idle
    <3>3. CASE ~HangUp
      <4>1. reader' = [reader EXCEPT !.pc = "subscribe", !.todo = Series]
        BY <2>2, <3>3, Zenon DEF Dial
      <4> QED
        BY <3>1, <4>1, Zenon DEF Reader
    <3> QED
      BY <3>2, <3>3, Zenon
  <2> QED
    BY <2>1, <2>2, Zenon
<1>2. wire'.queue = <<>>
  <2>1. CASE Crash
    BY <2>1, Zenon DEF Crash, Off, NoWire
  <2>2. CASE Barrier \/ Backoff
    BY <1>0, <2>2, Zenon DEF Barrier, Backoff, IngestInv, SubscriptionsOK
  <2>3. CASE Dial
    BY <2>3, SMT, SMTT(30) DEF Dial, HangUp, NoWire
  <2> QED
    BY <2>1, <2>2, <2>3, Zenon
<1> QED
  BY <1>1, <1>2, QuietAscends, Zenon

\* Every step keeps the bars under way in ascending order.
LEMMA StepAscends == IngestInv /\ BarsAscend /\ [Next]_vars => BarsAscend'
<1> SUFFICES ASSUME IngestInv, BarsAscend, [Next]_vars PROVE BarsAscend'
  BY Zenon
<1>1. CASE UNCHANGED <<wire, reader, lanes>>
  BY <1>1, CutAscends, Zenon
<1>2. CASE UNCHANGED vars
  BY <1>1, <1>2, Zenon DEF vars
<1>3. CASE \E s \in Keys : CloseBar(s)
  BY <1>3, CloseBarAscends, Zenon
<1>4. CASE Break \/ Complain
  BY <1>4, BreakAscends, Zenon
<1>5. CASE Heal \/ (\E what \in {"store", "broker"} : Outage(what)) \/ Boot \/ Poll \/ Probing
  BY <1>1, <1>5, Zenon DEF Heal, Outage, Boot, Poll, Probing, Ping, LookAtLane, LookAtUpstream, Answer
<1>6. CASE Crash \/ Barrier \/ Backoff \/ Dial
  BY <1>6, OfflineAscends, Zenon
<1>7. CASE Subscribe \/ Read \/ Resume \/ Apply
  BY <1>7, SubscribeAscends, ReadAscends, ResumeAscends, ApplyAscends, Zenon
<1> QED
  BY <1>2, <1>3, <1>4, <1>5, <1>6, <1>7, Zenon DEF Next, Client

\* With its bars ascending, the newest bar of a subscription is the last thing
\* under way.
LEMMA NewestIsLast == IngestInv /\ BarsAscend => NothingLost
<1> SUFFICES ASSUME IngestInv, BarsAscend, NEW s \in wire.subs, reader.reply # "err"
             PROVE  \/ \E i \in DOMAIN wire.queue :
                         wire.queue[i].series = s /\ wire.queue[i].bar = ohlc[s] /\ NoneAfter(s, i)
                    \/ NoneAfter(s, 0) /\ Pending(s) /\ reader.cmd.bar = ohlc[s]
                    \/ NoneAfter(s, 0) /\ ~Pending(s) /\ lanes[s].last = ohlc[s]
  BY Zenon DEF NothingLost
<1>0. /\ s \in Keys /\ ohlc[s] \in Nat /\ lanes[s].last \in Nat /\ lanes[s].last <= ohlc[s]
      /\ DOMAIN wire.queue = 1..Len(wire.queue) /\ Len(wire.queue) \in Nat
  BY Fields, Zenon DEF IngestInv
<1>1. HeldBefore(s, ohlc[s], Len(wire.queue) + 1)
  BY Zenon DEF IngestInv, SubscriptionsOK
\* A queued message with the newest bar is the last one of its series.
<1>2. ASSUME NEW i \in DOMAIN wire.queue, wire.queue[i].series = s, wire.queue[i].bar >= ohlc[s]
      PROVE  wire.queue[i].bar = ohlc[s] /\ NoneAfter(s, i)
  <2>1. wire.queue[i].bar = ohlc[s]
    BY <1>0, <1>2, QueuedBar, SMT, SMTT(30)
  <2>2. ASSUME NEW j \in DOMAIN wire.queue, i < j, wire.queue[j].series = s
        PROVE  FALSE
    <3>1. wire.queue[j].bar \in Nat /\ wire.queue[j].bar <= ohlc[s]
      BY <1>0, <2>2, QueuedBar, Zenon
    <3>2. wire.queue[i].bar < wire.queue[j].bar
      BY <1>0, <1>2, <2>2, Zenon DEF BarsAscend
    <3> QED
      BY <1>0, <2>1, <3>1, <3>2, SMT, SMTT(30)
  <2> QED
    BY <2>1, <2>2, Zenon DEF NoneAfter
\* So is the command, and nothing of its series is queued.
<1>3. ASSUME Pending(s), reader.cmd.bar >= ohlc[s]
      PROVE  reader.cmd.bar = ohlc[s] /\ NoneAfter(s, 0)
  <2>1. reader.cmd.bar \in Nat /\ reader.cmd.bar <= ohlc[s]
    BY <1>3, Zenon DEF IngestInv, CommandOK, Pending, Messages
  <2>2. ASSUME NEW j \in DOMAIN wire.queue, wire.queue[j].series = s
        PROVE  FALSE
    <3>1. wire.queue[j].bar \in Nat /\ wire.queue[j].bar <= ohlc[s]
      BY <1>0, <2>2, QueuedBar, Zenon
    <3>2. reader.cmd.bar < wire.queue[j].bar
      BY <1>0, <1>3, <2>2, Zenon DEF BarsAscend
    <3> QED
      BY <1>0, <1>3, <2>1, <3>1, <3>2, SMT, SMTT(30)
  <2> QED
    BY <1>0, <1>3, <2>1, <2>2, SMT, SMTT(30) DEF NoneAfter
<1>4. CASE \E j \in 1..Len(wire.queue) : wire.queue[j].series = s /\ wire.queue[j].bar >= ohlc[s]
  BY <1>0, <1>2, <1>4, Zenon
<1>5. CASE Pending(s) /\ reader.cmd.bar >= ohlc[s]
  BY <1>3, <1>5, Zenon
\* A lane that is up to date has at most its seed still to come.
<1>6. CASE lanes[s].last >= ohlc[s]
  <2>1. lanes[s].last = ohlc[s]
    BY <1>0, <1>6, SMT, SMTT(30)
  <2>2. ASSUME NEW j \in DOMAIN wire.queue, wire.queue[j].series = s
        PROVE  wire.queue[j].bar >= ohlc[s]
    <3>1. wire.queue[j].type \in {"seed", "closed"} /\ wire.queue[j].bar \in Nat
      BY <1>0, <2>2, QueuedBar, Zenon
    <3>2. CASE wire.queue[j].type = "seed"
      <4>1. lanes[s].last <= wire.queue[j].bar
        BY <2>2, <3>2, Zenon DEF IngestInv, InOrder
      <4> QED
        BY <1>0, <2>1, <3>1, <4>1, Zenon
    <3>3. CASE wire.queue[j].type = "closed"
      <4>1. lanes[s].last < wire.queue[j].bar
        BY <1>0, <2>2, <3>3, Zenon DEF BarsAscend
      <4> QED
        BY <1>0, <2>1, <3>1, <4>1, SMTT(20), SMTT(30)
    <3> QED
      BY <3>1, <3>2, <3>3, Zenon
  <2>3. ASSUME Pending(s)
        PROVE  reader.cmd.bar >= ohlc[s]
    <3>1. /\ reader.cmd.bar \in Nat /\ reader.cmd.type \in {"seed", "closed"}
          /\ reader.cmd.type = "seed" => lanes[s].last <= reader.cmd.bar
      BY <2>3, Zenon DEF IngestInv, CommandOK, Pending, Messages
    <3>2. reader.cmd.type = "closed" => lanes[s].last < reader.cmd.bar
      BY <2>3, Zenon DEF BarsAscend, Pending
    <3> QED
      BY <1>0, <2>1, <3>1, <3>2, SMT, SMTT(30)
  <2>4. (\A j \in DOMAIN wire.queue : wire.queue[j].series # s) => NoneAfter(s, 0)
    BY Zenon DEF NoneAfter
  <2> QED
    BY <1>2, <1>3, <2>1, <2>2, <2>3, <2>4, Zenon
<1>7. PICK n : n = Len(wire.queue) /\ (n + 1) - 1 = n
  BY <1>0, SMT, SMTT(30)
<1>8. \/ lanes[s].last >= ohlc[s]
      \/ Pending(s) /\ reader.cmd.bar >= ohlc[s]
      \/ \E j \in 1..n : wire.queue[j].series = s /\ wire.queue[j].bar >= ohlc[s]
  BY <1>1, <1>7, Zenon DEF HeldBefore
<1> QED
  BY <1>4, <1>5, <1>6, <1>7, <1>8, Zenon

\* OHLCClient: the bars of a series reach its lane in strictly ascending order,
\* one connection after the other, for any number of series and faults.
THEOREM BarsAlwaysAscend == Spec => []BarsAscend
<1>1. Init => BarsAscend
  <2>1. Init => DOMAIN wire.queue = {} /\ reader.pc = "off"
    BY EmptySequence, SMT, SMTT(30) DEF Init, NoWire, Idle
  <2> QED
    BY <2>1, Zenon DEF BarsAscend
<1>2. IngestInv /\ BarsAscend /\ [Next]_vars => BarsAscend'
  BY StepAscends, Zenon
<1> QED
  BY <1>1, <1>2, PathInvariant, PTL DEF Spec

\* Between the socket and a lane nothing is dropped: while a subscription stands
\* and no lane has failed, the newest bar is in the queue, in the mailbox or
\* applied, with nothing of its series behind it (OHLCClient.dispatch, Lane.submit).
THEOREM NothingEverLost == Spec => []NothingLost
BY NewestIsLast, PathInvariant, BarsAlwaysAscend, PTL

=============================================================================
