---------------------------- MODULE CandleProofs ----------------------------
(***************************************************************************)
(* Proofs about the order of a candle's messages on the evaluation stream, *)
(* for any number of lanes, bars, trades, failures and crashes: coalescing *)
(* loses no transition, and no candle appears before its predecessor is    *)
(* confirmed.                                                              *)
(***************************************************************************)
EXTENDS DispatchProofs

-----------------------------------------------------------------------------
(* Transitions.                                                            *)

\* A confirmed frame leaves the newest provisional one what it was.
LEMMA ConfirmedKeepsNewest ==
  ASSUME NEW q \in Seq(Messages), NEW m \in Messages, m.kind = "confirmed", NEW f,
         NewestProvisional(q, f)
  PROVE  NewestProvisional(Stored(q, m), f)
<1>1. PICK p : p = Stored(q, m)
  OBVIOUS
<1>2. /\ Len(q) \in Nat /\ DOMAIN q = 1..Len(q) /\ DOMAIN p = 1..(Len(q) + 1) /\ p[Len(q) + 1] = m
      /\ \A i \in 1..Len(q) : p[i] = q[i]
  BY <1>1, StoredStream, Zenon
<1>3. PICK i \in DOMAIN q :
        /\ q[i].kind \in {"transition", "snapshot"} /\ [bar |-> q[i].bar, colour |-> q[i].colour] = f
        /\ \A j \in DOMAIN q : j > i => q[j].kind \notin {"transition", "snapshot"}
  BY DEF NewestProvisional
<1>4. ASSUME NEW j \in DOMAIN p, j > i PROVE p[j].kind \notin {"transition", "snapshot"}
  <2>1. CASE j = Len(q) + 1
    BY <1>2, <2>1
  <2>2. CASE j # Len(q) + 1
    <3>1. j \in 1..Len(q)
      BY <1>2, <2>2
    <3> QED
      BY <1>2, <1>3, <1>4, <3>1
  <2> QED
    BY <2>1, <2>2
<1>5. i \in DOMAIN p /\ p[i] = q[i]
  BY <1>2, <1>3
<1>6. NewestProvisional(p, f)
  BY <1>3, <1>4, <1>5, Zenon DEF NewestProvisional
<1> QED
  BY <1>1, <1>6

\* A provisional frame that is stored is the newest.
LEMMA ProvisionalIsNewest ==
  ASSUME NEW q \in Seq(Messages), NEW m \in Messages, m.kind \in {"transition", "snapshot"}
  PROVE  NewestProvisional(Stored(q, m), [bar |-> m.bar, colour |-> m.colour])
<1>1. PICK p : p = Stored(q, m)
  OBVIOUS
<1>2. Len(q) \in Nat /\ DOMAIN p = 1..(Len(q) + 1) /\ p[Len(q) + 1] = m
  BY <1>1, StoredStream, Zenon
<1>3. Len(q) + 1 \in DOMAIN p /\ \A j \in DOMAIN p : ~(j > Len(q) + 1)
  BY <1>2
<1>4. NewestProvisional(p, [bar |-> m.bar, colour |-> m.colour])
  BY <1>2, <1>3, Zenon DEF NewestProvisional
<1> QED
  BY <1>1, <1>4

\* TransitionInv for one series.
Shown(s) ==
  LET l == lanes[s] IN
    /\ l.pc = "idle" /\ l.forming # None => NewestProvisional(eval[s], l.forming)
    /\ live[s] # None /\ ~(l.pc = "live" /\ l.out.kind = "transition") =>
         NewestProvisional(eval[s], live[s])
    /\ l.pc = "live" /\ l.out.kind \in {"transition", "snapshot"} =>
         /\ l.forming = [bar |-> l.out.bar, colour |-> l.out.colour]
         /\ l.out.kind = "snapshot" => l.forming = live[s]
         /\ MsgId("eval", s, l.out) \in window => NewestProvisional(eval[s], l.forming)

\* The invariant of liveDecision and its retry loop, series by series.
LEMMA ShownParts ==
  /\ TransitionInv <=> DOMAIN live = Series /\ \A s \in Series : Shown(s)
  /\ TransitionInv' <=> DOMAIN live' = Series /\ \A s \in Series : Shown(s)'
BY Zenon DEF TransitionInv, Shown

\* A step that touches neither the lane of a series nor its stream.
LEMMA ShownElsewhere ==
  ASSUME NEW s \in Series, Shown(s), lanes'[s] = lanes[s], live'[s] = live[s], eval'[s] = eval[s],
         \A w \in window' : w[1] = "eval" /\ w[2] = s => w \in window
  PROVE  Shown(s)'
<1>1. ASSUME MsgId("eval", s, lanes[s].out)' \in window' PROVE MsgId("eval", s, lanes[s].out) \in window
  BY <1>1 DEF MsgId
<1> QED
  BY <1>1 DEF Shown

\* The dispatcher stores confirmed frames, whose ids no provisional one has.
LEMMA ShownPublishEval ==
  ASSUME OutboxInv, RowsInv, DispatchInv, StreamInv, TransitionInv, PublishEval, NEW s \in Series
  PROVE  Shown(s)'
<1>1. /\ UNCHANGED <<lanes, live, trades>> /\ Shown(s) /\ LaneCursor(s) /\ disp.todo # {}
      /\ eval \in [Series -> Seq(Messages)] /\ lanes \in [Series -> LaneState]
  BY ShownParts, RowsInvParts DEF PublishEval, DispatchInv, StreamInv, OutboxInv
<1>2. CASE UNCHANGED <<eval, window>>
  BY <1>1, <1>2, ShownElsewhere
<1>3. CASE ~UNCHANGED <<eval, window>>
  <2>1. PICK r, n : r = Row.series /\ n = Row.bar
    OBVIOUS
  <2>2. PICK m : m = Confirmed(r, n)
    OBVIOUS
  <2>3. /\ r \in Series /\ n \in 1..MaxBars /\ MaxBars \in Nat /\ m \in Messages /\ m.kind = "confirmed"
        /\ m.rev = trades[r][n] + 1 /\ m.bar = n /\ trades[r][n] \in Nat
    <3>1. r \in Series /\ n \in 1..MaxBars /\ MaxBars \in Nat /\ MayStore(r, m)
      BY <1>1, <2>1, <2>2, RowFacts, RowMayStore, DeliveryAssumption
    <3>2. trades[r][n] \in Nat
      BY <3>1 DEF OutboxInv
    <3> QED
      BY <2>2, <3>1, <3>2 DEF MayStore, Confirmed, Message
  <2>4. eval' = [eval EXCEPT ![r] = Stored(eval[r], m)] /\ window' = window \cup {MsgId("eval", r, m)}
    BY <1>3, <2>1, <2>2 DEF PublishEval, StoreEval, Stored
  <2>5. CASE s # r
    BY <1>1, <2>4, <2>5, ShownElsewhere DEF MsgId
  <2>6. CASE s = r
    <3>1. eval'[s] = Stored(eval[s], m) /\ eval[s] \in Seq(Messages)
      BY <1>1, <2>4, <2>6
    <3>2. \A f : NewestProvisional(eval[s], f) => NewestProvisional(eval'[s], f)
      BY <2>3, <3>1, ConfirmedKeepsNewest
    <3>3. ASSUME lanes[s].pc = "live", lanes[s].out.kind \in {"transition", "snapshot"},
                 MsgId("eval", s, lanes[s].out)' \in window'
          PROVE  MsgId("eval", s, lanes[s].out) \in window
      <4>1. lanes[s].out.rev = trades[s][lanes[s].last + 1] /\ lanes[s].out.bar = lanes[s].last + 1
        BY <1>1, <3>3, Zenon DEF LaneCursor
      <4>2. MsgId("eval", s, lanes[s].out) # MsgId("eval", r, m)
        BY <2>3, <2>6, <4>1, SMT, SMTT(30) DEF MsgId
      <4>3. MsgId("eval", s, lanes[s].out)' = MsgId("eval", s, lanes[s].out)
        BY <1>1, Zenon DEF MsgId
      <4> QED
        BY <2>4, <3>3, <4>2, <4>3
    <3> QED
      BY <1>1, <3>2, <3>3 DEF Shown
  <2> QED
    BY <2>5, <2>6
<1> QED
  BY <1>2, <1>3

\* A trade moves the candle in memory: what is coalesced shows nothing new,
\* and what is sent has an id of its own.
LEMMA ShownForming ==
  ASSUME OutboxInv, RowsInv, DispatchInv, StreamInv, TransitionInv, NEW s \in Series, Forming(s)
  PROVE  Shown(s)'
<1> DEFINE n == lanes[s].last + 1
<1>1. /\ UNCHANGED <<eval, window, live>> /\ proc = "run" /\ lanes[s].pc = "idle"
      /\ Shown(s) /\ LaneCursor(s) /\ lanes \in [Series -> LaneState] /\ MaxBars \in Nat
  BY ShownParts, RowsInvParts, DeliveryAssumption, Zenon DEF Forming, broker, OutboxInv
<1>2. n \in 1..(MaxBars + 1) /\ DurableBar(s) = lanes[s].last /\ lanes[s].last \in 0..MaxBars
  BY <1>1, SMT, SMTT(30) DEF LaneCursor, LaneState
<1>3. trades[s][n] \in Nat
  BY <1>2, Zenon DEF OutboxInv
<1>4. <<"eval", s, n, trades[s][n] + 1>> \notin window
  <2> SUFFICES ASSUME <<"eval", s, n, trades[s][n] + 1>> \in window PROVE FALSE
    BY Zenon
  <2>1. OnEval(s, n)
    BY <1>3, SMTT(20), SMTT(30) DEF StreamInv
  <2>2. PICK i \in DOMAIN eval[s] : eval[s][i].kind = "confirmed" /\ eval[s][i].bar = n
    BY <2>1, SMT, SMTT(30) DEF OnEval, Confirmed, Message
  <2>3. n <= DurableBar(s)
    BY <2>2, Zenon DEF StreamInv
  <2> QED
    BY <1>2, <2>3, SMT, SMTT(30)
<1>5. PICK colour, pc, kind, here, out :
        /\ colour \in Colours /\ pc \in {"live", "idle"} /\ kind \in {"transition", "snapshot"}
        /\ here = [bar |-> n, colour |-> colour]
        /\ lanes' = [lanes EXCEPT ![s] = Lane(pc, lanes[s].last, here, out)]
        /\ pc = "live" => out = Message(kind, n, trades[s][n] + 1, colour)
        /\ live[s] = here \/ (pc = "live" /\ kind = "transition")
  <2>1. PICK colour \in Colours, pc \in {"live", "idle"}, kind \in {"transition", "snapshot"} :
          \E out : /\ lanes' = [lanes EXCEPT ![s] = Lane(pc, lanes[s].last, [bar |-> n, colour |-> colour], out)]
                   /\ pc = "live" => out = Message(kind, n, trades[s][n] + 1, colour)
                   /\ live[s] = [bar |-> n, colour |-> colour] \/ (pc = "live" /\ kind = "transition")
    BY Zenon DEF Forming, Transition
  <2>2. PICK here : here = [bar |-> n, colour |-> colour]
    BY Zenon
  <2> QED
    BY <2>1, <2>2, Zenon
<1>6. lanes'[s].pc = pc /\ lanes'[s].forming = here /\ lanes'[s].out = out
  BY <1>1, <1>5, Zenon DEF Lane
<1>7. pc = "live" => /\ out.kind = kind /\ out.bar = n /\ out.colour = colour
                     /\ MsgId("eval", s, out) = <<"eval", s, n, trades[s][n] + 1>>
  BY <1>5, SMT, SMTT(30) DEF Message, MsgId
<1>8. live[s] # None => NewestProvisional(eval'[s], live[s])
  BY <1>1, Zenon DEF Shown
<1>9. pc = "live" => MsgId("eval", s, lanes[s].out)' = MsgId("eval", s, out)
  BY <1>6, Zenon DEF MsgId
<1>10. CASE pc = "idle"
  BY <1>1, <1>5, <1>6, <1>8, <1>10, Zenon DEF Shown
<1>11. CASE pc = "live"
  BY <1>1, <1>4, <1>5, <1>6, <1>7, <1>8, <1>9, <1>11, Zenon DEF Shown
<1> QED
  BY <1>5, <1>10, <1>11, Zenon

\* A live publish that is acknowledged shows the candle in memory; one that
\* fails is retried, or was a snapshot of what is already shown.
LEMMA ShownPublishLive ==
  ASSUME OutboxInv, RowsInv, DispatchInv, StreamInv, TransitionInv, NEW s \in Series, PublishLive(s)
  PROVE  Shown(s)'
<1> DEFINE l == lanes[s]
           m == lanes[s].out
<1>1. /\ Shown(s) /\ LaneCursor(s) /\ lanes \in [Series -> LaneState] /\ l.pc = "live" /\ m \in Messages
      /\ eval \in [Series -> Seq(Messages)] /\ eval[s] \in Seq(Messages)
  BY ShownParts, RowsInvParts, Zenon DEF PublishLive, StreamInv, OutboxInv, LaneCursor
<1>2. StoreEval(s, m) => \/ UNCHANGED <<eval, window>> /\ MsgId("eval", s, m) \in window
                         \/ eval'[s] = Stored(eval[s], m)
  BY <1>1, Zenon DEF StoreEval, Stored
<1>3. CASE m.kind = "confirmed"
  <2>1. \A f : NewestProvisional(eval[s], f) => NewestProvisional(eval'[s], f)
    <3>1. UNCHANGED eval \/ eval'[s] = Stored(eval[s], m)
      BY <1>2, Zenon DEF PublishLive
    <3> QED
      BY <1>1, <1>3, <3>1, ConfirmedKeepsNewest, Zenon
  <2>2. CASE Published(s) /\ live' = [live EXCEPT ![s] = IF m.kind = "confirmed" THEN None ELSE l.forming]
    <3>1. lanes'[s].pc = "idle" /\ lanes'[s].forming = None
      BY <1>1, <1>3, <2>2, Zenon DEF Published, Lane
    <3>2. live'[s] = None
      BY <1>3, <2>2, Zenon DEF TransitionInv
    <3> QED
      BY <1>1, <1>3, <2>1, <3>1, <3>2, Zenon DEF Shown
  <2>3. CASE UNCHANGED <<lanes, live>>
    BY <1>1, <1>3, <2>1, <2>3, Zenon DEF Shown
  <2> QED
    BY <1>3, <2>2, <2>3, Zenon DEF PublishLive
<1>4. CASE m.kind # "confirmed"
  <2>1. /\ m.kind \in {"transition", "snapshot"} /\ l.forming = [bar |-> m.bar, colour |-> m.colour]
        /\ m.kind = "snapshot" => l.forming = live[s]
        /\ MsgId("eval", s, m) \in window => NewestProvisional(eval[s], l.forming)
    BY <1>1, <1>4, Zenon DEF LaneCursor, Shown
  <2>2. StoreEval(s, m) => NewestProvisional(eval'[s], l.forming)
    BY <1>1, <1>2, <2>1, ProvisionalIsNewest, Zenon
  <2>3. Published(s) => lanes'[s].pc = "idle" /\ lanes'[s].forming = l.forming
    BY <1>1, <1>4, SMTT(20), SMTT(30) DEF Published, Lane
  <2>4. CASE /\ StoreEval(s, m) /\ Published(s)
             /\ live' = [live EXCEPT ![s] = IF m.kind = "confirmed" THEN None ELSE l.forming]
    <3>1. live'[s] = l.forming
      BY <1>4, <2>4, Zenon DEF TransitionInv
    <3> QED
      BY <2>2, <2>3, <2>4, <3>1, Zenon DEF Shown
  <2>5. CASE /\ StoreEval(s, m) \/ UNCHANGED <<eval, window>>
             /\ m.kind = "snapshot" /\ Published(s) /\ UNCHANGED live
    <3>1. l.forming # None => NewestProvisional(eval'[s], l.forming)
      BY <1>1, <2>1, <2>2, <2>5, Zenon DEF Shown
    <3> QED
      BY <2>1, <2>3, <2>5, <3>1, Zenon DEF Shown
  <2>6. CASE /\ StoreEval(s, m) \/ UNCHANGED <<eval, window>>
             /\ m.kind = "transition" /\ UNCHANGED <<lanes, live>>
    <3>1. MsgId("eval", s, lanes[s].out)' = MsgId("eval", s, m)
      BY <2>6, Zenon DEF MsgId
    <3>2. MsgId("eval", s, m) \in window' => NewestProvisional(eval'[s], l.forming)
      BY <2>1, <2>2, <2>6, Zenon
    <3> QED
      BY <1>1, <2>1, <2>6, <3>1, <3>2, Zenon DEF Shown
  <2> QED
    BY <2>1, <2>4, <2>5, <2>6, Zenon DEF PublishLive
<1> QED
  BY <1>3, <1>4, Zenon

\* CommitClosed and the restart of a process show nothing: they leave the
\* stream alone, and a lane that comes out of them has no candle in memory.
LEMMA ShownQuiet ==
  ASSUME RowsInv, TransitionInv, NEW s \in Series, UNCHANGED <<eval, window>>,
         live'[s] = live[s] \/ live'[s] = None,
         lanes[s].pc # "live",
         lanes'[s].pc = "idle" => lanes'[s].forming = None,
         lanes'[s].pc = "live" => lanes'[s].out.kind = "confirmed"
  PROVE  Shown(s)'
<1>1. Shown(s)
  BY ShownParts, Zenon
<1> QED
  BY <1>1, Zenon DEF Shown

\* A crash also forgets what was acknowledged.
LEMMA ShownCrash ==
  ASSUME Crash, NEW s \in Series
  PROVE  Shown(s)'
<1>1. lanes'[s].pc = "idle" /\ lanes'[s].forming = None /\ live'[s] = None
  BY Zenon DEF Crash, Lane
<1> QED
  BY <1>1, Zenon DEF Shown

\* Every step keeps the newest provisional frame in line with memory.
LEMMA TransitionStep ==
  ASSUME OutboxInv, RowsInv, DispatchInv, StreamInv, TransitionInv, [Next]_vars
  PROVE  TransitionInv'
<1>1. DOMAIN live' = Series
  BY Zenon DEF TransitionInv, Next, LaneStep, Begin, Commit, Forming, PublishLive, Dispatch, Load, PublishEval,
         PublishFact, PublishHub, Mark, Start, Crash, ForgetIds, vars
<1> SUFFICES ASSUME NEW s \in Series PROVE Shown(s)'
  BY <1>1, ShownParts, Zenon
<1>2. /\ Shown(s) /\ LaneCursor(s) /\ lanes \in [Series -> LaneState] /\ Series = DOMAIN live
      /\ eval \in [Series -> Seq(Messages)]
  BY ShownParts, RowsInvParts, Zenon DEF OutboxInv, TransitionInv, StreamInv
<1>3. ASSUME NEW r \in Series, r # s, LaneStep(r) PROVE Shown(s)'
  <2>1. CASE Begin(r)
    <3>1. UNCHANGED <<live, eval, window>> /\ lanes'[s] = lanes[s]
      BY <1>2, <1>3, <2>1, Zenon DEF Begin, broker
    <3> QED
      BY <1>2, <3>1, ShownElsewhere, Zenon
  <2>2. CASE Commit(r)
    <3>1. PICK m : m = Confirmed(r, lanes[r].last + 1)
      BY Zenon
    <3>2. \/ lanes' = [lanes EXCEPT ![r].pc = "live", ![r].out = m]
          \/ lanes' = [lanes EXCEPT ![r].pc = "reseed"]
      BY <2>2, <3>1, Zenon DEF Commit
    <3>3. UNCHANGED <<live, eval, window>> /\ lanes'[s] = lanes[s]
      BY <1>2, <1>3, <2>2, <3>2, Zenon DEF Commit, broker
    <3> QED
      BY <1>2, <3>3, ShownElsewhere, Zenon
  <2>3. CASE Forming(r)
    <3>1. UNCHANGED <<live, eval, window>> /\ lanes'[s] = lanes[s]
      BY <1>2, <1>3, <2>3, Zenon DEF Forming, broker
    <3> QED
      BY <1>2, <3>1, ShownElsewhere, Zenon
  <2>4. CASE PublishLive(r)
    <3>1. StoreEval(r, lanes[r].out) \/ UNCHANGED <<eval, window>>
      BY <2>4, Zenon DEF PublishLive
    <3>2. eval'[s] = eval[s] /\ \A w \in window' : w[1] = "eval" /\ w[2] = s => w \in window
      BY <1>2, <1>3, <3>1, SMT, SMTT(30) DEF StoreEval, MsgId
    <3>3. lanes'[s] = lanes[s] /\ live'[s] = live[s]
      BY <1>2, <1>3, <2>4, Zenon DEF PublishLive, Published
    <3> QED
      BY <1>2, <3>2, <3>3, ShownElsewhere, Zenon
  <2> QED
    BY <1>3, <2>1, <2>2, <2>3, <2>4, Zenon DEF LaneStep
<1>4. CASE Begin(s)
  <2>1. UNCHANGED <<eval, window, live>> /\ lanes[s].pc # "live"
    BY <1>4, Zenon DEF Begin, broker
  <2>2. lanes'[s].pc = "tx" \/ (lanes'[s].pc = "idle" /\ lanes'[s].forming = None)
    BY <1>2, <1>4, SMT, SMTT(30) DEF Begin, Lane, LaneState
  <2> QED
    BY <2>1, <2>2, ShownQuiet, Zenon
<1>5. CASE Commit(s)
  <2>1. UNCHANGED <<eval, window, live>> /\ lanes[s].pc = "tx"
    BY <1>5, Zenon DEF Commit, broker
  <2>2. PICK m : m = Confirmed(s, lanes[s].last + 1)
    BY Zenon
  <2>3. \/ lanes' = [lanes EXCEPT ![s].pc = "live", ![s].out = m]
        \/ lanes' = [lanes EXCEPT ![s].pc = "reseed"]
    BY <1>5, <2>2, Zenon DEF Commit
  <2>4. lanes'[s].pc = "reseed" \/ (lanes'[s].pc = "live" /\ lanes'[s].out = m)
    BY <1>2, <2>3, SMT, SMTT(30) DEF LaneState
  <2>5. m.kind = "confirmed"
    BY <2>2, Zenon DEF Confirmed, Message
  <2> QED
    BY <2>1, <2>4, <2>5, ShownQuiet, Zenon
<1>6. CASE \E r \in Series : LaneStep(r)
  BY <1>3, <1>4, <1>5, <1>6, ShownForming, ShownPublishLive, Zenon DEF LaneStep
<1>7. CASE PublishFact
  <2>1. UNCHANGED <<lanes, live, eval>> /\ \A w \in window' : w[1] = "eval" => w \in window
    BY <1>7, SMT, SMTT(30) DEF PublishFact, StoreFact, MsgId
  <2> QED
    BY <1>2, <2>1, ShownElsewhere, Zenon
<1>8. CASE Load \/ PublishHub \/ Mark \/ ForgetIds \/ UNCHANGED vars
  <2>1. UNCHANGED <<lanes, live, eval>> /\ window' \subseteq window
    BY <1>8, Zenon DEF Load, PublishHub, Mark, ForgetIds, vars, broker
  <2> QED
    BY <1>2, <2>1, ShownElsewhere, Zenon
<1>9. CASE Start
  <2>1. UNCHANGED <<eval, window, live>> /\ lanes'[s].pc = "idle" /\ lanes'[s].forming = None
        /\ proc = "off"
    BY <1>9, Zenon DEF Start, broker, Lane
  <2>2. lanes[s].pc # "live"
    BY <1>2, <2>1, Zenon DEF LaneCursor
  <2> QED
    BY <2>1, <2>2, ShownQuiet, Zenon
<1> QED
  BY <1>6, <1>7, <1>8, <1>9, ShownPublishEval, ShownCrash, Zenon DEF Next, Dispatch

\* Coalescing loses no colour change or new candle, for any number of trades,
\* failed or repeated publishes, forgotten ids and crashes.
THEOREM TransitionsLossless == Spec => []TransitionsAreLossless
<1>1. Init => TransitionInv
  BY SMT, SMTT(30) DEF Init, TransitionInv, Lane
<1>2. OutboxInv /\ RowsInv /\ (StreamInv /\ DispatchInv) /\ TransitionInv /\ [Next]_vars => TransitionInv'
  BY TransitionStep, Zenon
<1>3. TransitionInv => TransitionsAreLossless
  BY Zenon DEF TransitionInv, TransitionsAreLossless
<1> QED
  BY <1>1, <1>2, <1>3, OutboxInvariant, RowsInvariant, DeliveryInvariant, PTL DEF Spec

-----------------------------------------------------------------------------
(* Candle order.                                                           *)

\* Per series, no candle before the confirmed frames of all earlier ones.
InOrder(q) ==
  \A i \in DOMAIN q : \A n \in 1..(q[i].bar - 1) :
    \E j \in 1..(i - 1) : q[j].kind = "confirmed" /\ q[j].bar = n

\* A store keeps the order if every earlier candle is confirmed.
LEMMA StoredInOrder ==
  ASSUME NEW q \in Seq(Messages), NEW m \in Messages, InOrder(q),
         \A n \in 1..(m.bar - 1) : \E j \in DOMAIN q : q[j].kind = "confirmed" /\ q[j].bar = n
  PROVE  InOrder(Stored(q, m))
<1>1. PICK p : p = Stored(q, m)
  BY Zenon
<1>2. /\ Len(q) \in Nat /\ DOMAIN q = 1..Len(q) /\ DOMAIN p = 1..(Len(q) + 1) /\ p[Len(q) + 1] = m
      /\ \A i \in 1..Len(q) : p[i] = IF m.kind = "snapshot" /\ q[i].kind = "snapshot" THEN Purged ELSE q[i]
  BY <1>1, StoredStream, Zenon
<1>3. \A j \in 1..Len(q) : q[j].kind = "confirmed" => p[j] = q[j]
  BY <1>2, Zenon
<1>4. ASSUME NEW i \in DOMAIN p, NEW n \in 1..(p[i].bar - 1)
      PROVE  \E j \in 1..(i - 1) : p[j].kind = "confirmed" /\ p[j].bar = n
  <2>1. CASE i = Len(q) + 1
    <3>1. PICK j \in 1..Len(q) : q[j].kind = "confirmed" /\ q[j].bar = n
      BY <1>2, <1>4, <2>1, Zenon
    <3>2. j \in 1..(i - 1)
      BY <1>2, <2>1, <3>1, SMT, SMTT(30)
    <3> QED
      BY <1>3, <3>1, <3>2, Zenon
  <2>2. CASE i # Len(q) + 1
    <3>1. i \in 1..Len(q)
      BY <1>2, <2>2, SMT, SMTT(30)
    <3>2. Purged.bar = 0
      BY Zenon DEF Purged, Message
    <3>3. p[i] = q[i]
      <4>1. p[i] # Purged
        BY <1>4, <3>2, SMT, SMTT(30)
      <4> QED
        BY <1>2, <3>1, <4>1, Zenon
    <3>4. PICK j \in 1..(i - 1) : q[j].kind = "confirmed" /\ q[j].bar = n
      BY <1>2, <1>4, <3>1, <3>3, SMTT(20), SMTT(30) DEF InOrder
    <3>5. j \in 1..Len(q)
      BY <1>2, <3>1, <3>4, SMT, SMTT(30)
    <3> QED
      BY <1>3, <3>4, <3>5, Zenon
  <2> QED
    BY <2>1, <2>2, Zenon
<1>5. InOrder(p)
  BY <1>4, Zenon DEF InOrder
<1> QED
  BY <1>1, <1>5, Zenon

\* Where the stream stands on a bar, the confirmed frame of it is there.
LEMMA OnEvalShows ==
  ASSUME NEW s, NEW n, OnEval(s, n)
  PROVE  \E j \in DOMAIN eval[s] : eval[s][j].kind = "confirmed" /\ eval[s][j].bar = n
BY SMT, SMTT(30) DEF OnEval, Confirmed, Message

\* Whatever is stored comes after the confirmed frames of all earlier candles.
LEMMA OrderKept ==
  ASSUME OutboxInv, RowsInv, DispatchInv, StreamInv, OrderInv, [Next]_vars
  PROVE  ConfirmedPrecedesNextCandle'
<1>1. /\ eval \in [Series -> Seq(Messages)] /\ \A s \in Series : InOrder(eval[s])
      /\ proc = "run" => \A s \in Series : \A n \in 1..lanes[s].last : OnEval(s, n)
  BY Zenon DEF StreamInv, OrderInv, ConfirmedPrecedesNextCandle, InOrder
<1>2. ASSUME NEW s \in Series, NEW m \in Messages, StoreEval(s, m),
             \A n \in 1..(m.bar - 1) : OnEval(s, n)
      PROVE  \A r \in Series : InOrder(eval'[r])
  <2>1. \A n \in 1..(m.bar - 1) : \E j \in DOMAIN eval[s] : eval[s][j].kind = "confirmed" /\ eval[s][j].bar = n
    BY <1>2, OnEvalShows, Zenon
  <2>2. PICK q, p : q = eval[s] /\ p = Stored(q, m)
    BY Zenon
  <2>3. InOrder(p)
    BY <1>1, <2>1, <2>2, StoredInOrder, Zenon
  <2>4. eval' = eval \/ eval' = [eval EXCEPT ![s] = p]
    BY <1>2, <2>2, Zenon DEF StoreEval, Stored
  <2>5. CASE eval' = eval
    BY <1>1, <2>5, Zenon
  <2>6. CASE eval' = [eval EXCEPT ![s] = p]
    <3>1. eval'[s] = p /\ \A r \in Series : r # s => eval'[r] = eval[r]
      BY <1>1, <2>6, Zenon
    <3> QED
      BY <1>1, <2>3, <3>1, Zenon
  <2> QED
    BY <2>4, <2>5, <2>6, Zenon
<1>3. CASE eval' = eval
  BY <1>1, <1>3, SMTT(20), SMTT(30) DEF ConfirmedPrecedesNextCandle, InOrder
<1>4. CASE \E s \in Series : PublishLive(s) /\ StoreEval(s, lanes[s].out)
  <2>1. PICK s \in Series : PublishLive(s) /\ StoreEval(s, lanes[s].out)
    BY <1>4, Zenon
  <2>2. proc = "run" /\ lanes[s].pc = "live" /\ LaneCursor(s) /\ lanes[s] \in LaneState
    BY <2>1, RowsInvParts, Zenon DEF PublishLive, OutboxInv
  <2>3. lanes[s].out \in Messages /\ lanes[s].out.bar = lanes[s].last + 1 /\ lanes[s].last \in 0..MaxBars
        /\ MaxBars \in Nat
    BY <2>2, DeliveryAssumption, Zenon DEF LaneCursor, LaneState
  <2>4. 1..(lanes[s].out.bar - 1) = 1..lanes[s].last
    BY <2>3, SMTT(20), SMTT(30)
  <2>5. \A n \in 1..(lanes[s].out.bar - 1) : OnEval(s, n)
    BY <1>1, <2>2, <2>4, Zenon
  <2> QED
    BY <1>2, <2>1, <2>3, <2>5, Zenon DEF ConfirmedPrecedesNextCandle, InOrder
<1>5. CASE PublishEval /\ StoreEval(Row.series, Confirmed(Row.series, Row.bar))
  <2>1. disp.todo # {} /\ Row.kind = "frame"
    BY <1>5, Zenon DEF PublishEval, DispatchInv
  <2>2. PICK s, b, m : s = Row.series /\ b = Row.bar /\ m = Confirmed(s, b)
    BY Zenon
  <2>3. s \in Series /\ m \in Messages /\ m.bar = b
    BY <2>1, <2>2, RowFacts, RowMayStore, Zenon DEF MayStore, Confirmed, Message
  <2>4. \A n \in 1..(m.bar - 1) : OnEval(s, n)
    BY <2>1, <2>2, <2>3, EarlierStored, Zenon
  <2>5. \A r \in Series : InOrder(eval'[r])
    BY <1>2, <1>5, <2>2, <2>3, <2>4, Zenon
  <2> QED
    BY <2>5, Zenon DEF ConfirmedPrecedesNextCandle, InOrder
<1>6. \/ eval' = eval \/ (\E s \in Series : PublishLive(s) /\ StoreEval(s, lanes[s].out))
      \/ PublishEval /\ StoreEval(Row.series, Confirmed(Row.series, Row.bar))
  <2>1. CASE \E s \in Series : LaneStep(s)
    BY <2>1, Zenon DEF LaneStep, Begin, Commit, Forming, PublishLive, broker
  <2>2. CASE Dispatch
    BY <2>2, Zenon DEF Dispatch, Load, PublishEval, PublishFact, PublishHub, Mark, broker
  <2>3. CASE Start \/ Crash \/ ForgetIds \/ UNCHANGED vars
    BY <2>3, Zenon DEF Start, Crash, ForgetIds, vars, broker
  <2> QED
    BY <2>1, <2>2, <2>3, Zenon DEF Next
<1> QED
  BY <1>3, <1>4, <1>5, <1>6, Zenon

\* When every durable row is marked or published, so is every durable bar.
LEMMA AllDurableOnEval ==
  ASSUME OutboxInv, RowsInv, DispatchInv, disp.todo = {}, Durable \subseteq disp.batch \cup marked,
         NEW s \in Series, NEW n \in 1..DurableBar(s)
  PROVE  OnEval(s, n)
<1>1. DoneOK /\ CompletedRowsAreStored /\ Ordered(rows)
  BY DispatchParts, RowsInvParts, Zenon
<1>2. FrameIn(rows, s, n, Len(rows) + 1)
  BY <1>1, RowsAsTable, Zenon DEF Ordered
<1>3. PICK d \in Durable : rows[d].kind = "frame" /\ rows[d].series = s /\ rows[d].bar = n
  BY <1>2, Zenon DEF FrameIn, Durable, Cursors
<1>4. FrameStored(d)
  BY <1>1, <1>3, Zenon DEF DoneOK, CompletedRowsAreStored
<1> QED
  BY <1>3, <1>4, Zenon DEF FrameStored

\* The bars a running lane stands on are confirmed on the stream: it starts
\* after a Flush that left nothing behind, and moves on after its own publish.
LEMMA StandsOnConfirmed ==
  ASSUME ~AmbiguousCommits, OutboxInv, RowsInv, DispatchInv, StreamInv, OrderInv, [Next]_vars,
         proc' = "run", NEW s \in Series, NEW n \in 1..lanes'[s].last
  PROVE  OnEval(s, n)'
<1>1. /\ LaneCursor(s) /\ ProcessOK /\ lanes \in [Series -> LaneState] /\ MaxBars \in Nat
      /\ lanes[s].last \in 0..MaxBars /\ DurableBar(s) \in 0..MaxBars
  BY RowsInvParts, DurableGrows, DeliveryAssumption, Zenon DEF OutboxInv, LaneState
<1>2. ASSUME n \in 1..lanes[s].last, OnEval(s, n), proc # "off" PROVE OnEval(s, n)'
  <2>1. lanes[s].last <= DurableBar(s)
    BY <1>1, <1>2, SMT, SMTT(30) DEF LaneCursor
  <2>2. n \in 1..DurableBar(s)
    BY <1>1, <1>2, <2>1, SMTT(20), SMTT(30)
  <2> QED
    BY <1>2, <2>2, DurableOnEvalStays, Zenon
<1>3. CASE proc = "run"
  <2>1. CASE lanes'[s].last = lanes[s].last
    BY <1>2, <1>3, <2>1, Zenon DEF OrderInv
  <2>2. CASE lanes'[s].last # lanes[s].last
    <3>1. CASE Begin(s)
      <4>1. DurableBar(s) = lanes[s].last
        BY <1>1, <3>1, Zenon DEF LaneCursor, Begin
      <4>2. lanes' = [lanes EXCEPT ![s].pc = "tx"]
        BY <1>1, <3>1, <4>1, SMT, SMTT(30) DEF Begin
      <4> QED
        BY <1>1, <2>2, <4>2, Zenon DEF LaneState
    <3>2. CASE PublishLive(s)
      <4>1. /\ lanes[s].out.kind = "confirmed" /\ StoreEval(s, lanes[s].out) /\ trades' = trades
            /\ lanes'[s].last = lanes[s].out.bar /\ lanes[s].pc = "live"
        BY <1>1, <2>2, <3>2, SMTT(20), SMTT(30) DEF PublishLive, Published, Lane
      <4>2. lanes[s].out = Confirmed(s, lanes[s].last + 1) /\ lanes[s].out.bar = lanes[s].last + 1
        BY <1>1, <4>1, Zenon DEF LaneCursor
      <4>3. CASE n = lanes[s].last + 1
        BY <1>1, <4>1, <4>2, <4>3, StoredOrThere, SMTT(20), SMTT(30)
      <4>4. CASE n # lanes[s].last + 1
        <5>1. n \in 1..lanes[s].last
          BY <1>1, <4>1, <4>2, <4>4, SMTT(20), SMTT(30)
        <5> QED
          BY <1>2, <1>3, <5>1, Zenon DEF OrderInv
      <4> QED
        BY <4>3, <4>4, Zenon
    <3>3. Begin(s) \/ PublishLive(s)
      <4>1. CASE Commit(s)
        <5>1. PICK m : m = Confirmed(s, lanes[s].last + 1)
          BY Zenon
        <5>2. \/ lanes' = [lanes EXCEPT ![s].pc = "live", ![s].out = m]
              \/ lanes' = [lanes EXCEPT ![s].pc = "reseed"]
          BY <4>1, <5>1, Zenon DEF Commit
        <5> QED
          BY <1>1, <2>2, <5>2, SMT, SMTT(30) DEF LaneState
      <4>2. CASE Forming(s)
        BY <1>1, <2>2, <4>2, SMT, SMTT(30) DEF Forming, Lane
      <4>3. ASSUME NEW r \in Series, r # s, LaneStep(r) PROVE FALSE
        <5>1. lanes'[s] = lanes[s]
          <6>1. PICK m : m = Confirmed(r, lanes[r].last + 1)
            BY Zenon
          <6>2. CASE Commit(r)
            <7>1. \/ lanes' = [lanes EXCEPT ![r].pc = "live", ![r].out = m]
                  \/ lanes' = [lanes EXCEPT ![r].pc = "reseed"]
              BY <6>1, <6>2, Zenon DEF Commit
            <7> QED
              BY <1>1, <4>3, <7>1, Zenon
          <6>3. CASE Begin(r)
            BY <1>1, <4>3, <6>3, Zenon DEF Begin
          <6>4. CASE Forming(r)
            BY <1>1, <4>3, <6>4, Zenon DEF Forming
          <6>5. CASE PublishLive(r)
            BY <1>1, <4>3, <6>5, Zenon DEF PublishLive, Published
          <6> QED
            BY <4>3, <6>2, <6>3, <6>4, <6>5, Zenon DEF LaneStep
        <5> QED
          BY <2>2, <5>1, Zenon
      <4>4. CASE Dispatch \/ ForgetIds \/ UNCHANGED vars
        BY <2>2, <4>4, Zenon DEF Dispatch, Load, PublishEval, PublishFact, PublishHub, Mark, ForgetIds, vars
      <4>5. ~Start /\ ~Crash
        BY <1>3, Zenon DEF Start, Crash
      <4> QED
        BY <4>1, <4>2, <4>3, <4>4, <4>5, Zenon DEF Next, LaneStep
    <3> QED
      BY <3>1, <3>2, <3>3, Zenon
  <2> QED
    BY <2>1, <2>2, Zenon
<1>4. CASE proc = "flush"
  <2>1. \/ Load /\ PendingEvents = {} /\ disp.pc = "idle"
        \/ Mark /\ Cardinality(disp.batch) < BatchSize
    BY <1>4, Zenon DEF Next, LaneStep, Begin, Commit, Forming, PublishLive, Dispatch, Load, PublishEval,
                PublishFact, PublishHub, Mark, FlushFails, Start, Crash, ForgetIds, vars
  <2>2. lanes' = lanes
    BY <2>1, Zenon DEF Load, Mark
  <2>3. Durable \subseteq disp.batch \cup marked
    <3>1. CASE PendingEvents = {}
      <4>1. Cardinality({}) = 0 /\ BatchSize \in Nat \ {0}
        BY FS_EmptySet, DeliveryAssumption, Zenon
      <4>2. Durable \ marked = {}
        BY <3>1, <4>1, PendingIs, SMTT(20), SMTT(30)
      <4> QED
        BY <4>2, Zenon
    <3>2. CASE Mark /\ Cardinality(disp.batch) < BatchSize
      BY <1>4, <3>2, Zenon DEF OrderInv, Mark
    <3> QED
      BY <2>1, <3>1, <3>2, Zenon
  <2>4. disp.todo = {}
    BY <2>1, Zenon DEF Mark, DispatchInv
  <2>5. DurableBar(s) = lanes[s].last
    BY <1>1, <1>4, Zenon DEF LaneCursor
  <2>6. OnEval(s, n)
    BY <2>2, <2>3, <2>4, <2>5, AllDurableOnEval, Zenon
  <2> QED
    BY <1>2, <1>4, <2>2, <2>6, Zenon
<1>5. CASE proc = "off"
  BY <1>5, RowsInvParts, Zenon DEF ProcessOK, Next, LaneStep, Begin, Commit, Forming, PublishLive, Dispatch, Load,
         PublishEval, PublishFact, PublishHub, Mark, FlushFails, Start, Crash, ForgetIds, vars
<1> QED
  BY <1>1, <1>3, <1>4, <1>5, Zenon DEF ProcessOK

\* A short batch of the startup Flush is all that was left: nothing commits
\* before the barrier is passed.
LEMMA ShortBatchIsLast ==
  ASSUME OutboxInv, RowsInv, DispatchInv, OrderInv, [Next]_vars,
         proc' = "flush", disp'.pc # "idle", Cardinality(disp'.batch) < BatchSize
  PROVE  Durable' \subseteq disp'.batch \cup marked'
<1>1. \A s \in Series : ~LaneStep(s)
  BY RowsInvParts, Zenon DEF LaneCursor, LaneStep, Begin, Commit, Forming, PublishLive
<1>2. ~Start /\ ~Crash /\ ~Mark
  <2>1. ~Crash /\ ~Mark
    BY SMT, SMTT(30) DEF Crash, Mark, Waiting, FlushFails
  <2>2. ~Start
    BY RowsInvParts, Zenon DEF Start, ProcessOK
  <2> QED
    BY <2>1, <2>2, Zenon
<1>3. CASE Load
  <2>1. PendingEvents # {} /\ disp'.batch = PendingEvents /\ UNCHANGED <<rows, marked>>
    BY <1>3, SMT, SMTT(30) DEF Load, FlushFails, Waiting, outbox
  <2>2. PendingEvents = Durable \ marked
    BY <2>1, PendingIs, Zenon
  <2>3. Durable' = Durable
    BY <2>1, Zenon DEF Durable, Cursors
  <2> QED
    BY <2>1, <2>2, <2>3, Zenon
<1>4. CASE PublishEval \/ PublishFact \/ PublishHub \/ ForgetIds \/ UNCHANGED vars
  <2>1. disp \in [pc : {"idle", "eval", "facts", "hub", "mark"}, batch : SUBSET Durable, todo : SUBSET Durable]
    BY Zenon DEF DispatchInv
  <2>2. /\ UNCHANGED <<rows, marked>> /\ proc = "flush" /\ disp.pc # "idle" /\ disp'.batch = disp.batch
    <3>1. CASE PublishEval
      BY <2>1, <3>1, Zenon DEF PublishEval, outbox, FlushFails, Waiting
    <3>2. CASE PublishFact
      BY <2>1, <3>2, Zenon DEF PublishFact, outbox, FlushFails, Waiting
    <3>3. CASE PublishHub
      BY <2>1, <3>3, Zenon DEF PublishHub, outbox
    <3>4. CASE ForgetIds \/ UNCHANGED vars
      BY <3>4, Zenon DEF ForgetIds, vars, outbox
    <3> QED
      BY <1>4, <3>1, <3>2, <3>3, <3>4, Zenon
  <2>3. Durable \subseteq disp.batch \cup marked
    BY <2>2, Zenon DEF OrderInv
  <2>4. Durable' = Durable
    BY <2>2, Zenon DEF Durable, Cursors
  <2> QED
    BY <2>2, <2>3, <2>4, Zenon
<1> QED
  BY <1>1, <1>2, <1>3, <1>4, Zenon DEF Next, Dispatch

\* Where a commit that was reported failed is never durable, no message of a
\* candle reaches the evaluation stream before the confirmed frames of the
\* earlier candles (applyClosed, Flush, run).  An ambiguous commit is
\* acknowledged on the retry without a publish, and the next candle may then
\* pass the dispatcher.
THEOREM CandleOrder == ~AmbiguousCommits => (Spec => []ConfirmedPrecedesNextCandle)
<1> SUFFICES ASSUME ~AmbiguousCommits PROVE Spec => []ConfirmedPrecedesNextCandle
  BY Zenon
<1>1. Init => OrderInv
  BY SMT, SMTT(30) DEF Init, OrderInv, ConfirmedPrecedesNextCandle, Lane, Waiting
<1>2. OutboxInv /\ RowsInv /\ (StreamInv /\ DispatchInv) /\ OrderInv /\ [Next]_vars => OrderInv'
  <2> SUFFICES ASSUME OutboxInv, RowsInv, StreamInv, DispatchInv, OrderInv, [Next]_vars PROVE OrderInv'
    BY Zenon
  <2>1. proc' = "run" => \A s \in Series : \A n \in 1..lanes'[s].last : OnEval(s, n)'
    BY StandsOnConfirmed, Zenon
  <2>2. proc' = "flush" /\ disp'.pc # "idle" /\ Cardinality(disp'.batch) < BatchSize =>
          Durable' \subseteq disp'.batch \cup marked'
    BY ShortBatchIsLast, Zenon
  <2>3. ConfirmedPrecedesNextCandle'
    BY OrderKept, Zenon
  <2> QED
    BY <2>1, <2>2, <2>3, Zenon DEF OrderInv
<1>3. OrderInv => ConfirmedPrecedesNextCandle
  BY Zenon DEF OrderInv
<1> QED
  BY <1>1, <1>2, <1>3, OutboxInvariant, RowsInvariant, DeliveryInvariant, PTL DEF Spec

=============================================================================
