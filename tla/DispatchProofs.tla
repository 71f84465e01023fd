--------------------------- MODULE DispatchProofs ---------------------------
(***************************************************************************)
(* Proofs about what Delivery's dispatcher and lanes put on the streams,   *)
(* for any number of lanes, bars, failures and crashes and any batch size: *)
(* completed rows are stored and nothing is skipped.                       *)
(***************************************************************************)
EXTENDS DeliveryProofs, FiniteSetTheorems

-----------------------------------------------------------------------------
(* Operators of the model.                                                 *)

\* The next row of a batch (ORDER BY cursor) is its least.
LEMMA MinIs ==
  ASSUME NEW T \in SUBSET Nat, T # {}
  PROVE  Min(T) \in T /\ \A y \in T : Min(T) <= y
<1>1. \E x \in T : \A y \in T : x <= y
  BY LeastNatural
<1> QED
  BY <1>1, Zenon DEF Min

\* A stream after the broker stored m on it.
Stored(q, m) == Append(Rollup(q, m), m)

\* A store adds m at the end and purges at most snapshots (Nats-Rollup).
LEMMA StoredStream ==
  ASSUME NEW q \in Seq(Messages), NEW m \in Messages
  PROVE  /\ Stored(q, m) \in Seq(Messages) /\ Len(q) \in Nat /\ DOMAIN q = 1..Len(q)
         /\ DOMAIN Stored(q, m) = 1..(Len(q) + 1)
         /\ Stored(q, m)[Len(q) + 1] = m
         /\ \A i \in 1..Len(q) :
              /\ q[i] \in Messages
              /\ Stored(q, m)[i] = IF m.kind = "snapshot" /\ q[i].kind = "snapshot" THEN Purged ELSE q[i]
<1>1. Len(q) \in Nat /\ DOMAIN q = 1..Len(q) /\ \A i \in 1..Len(q) : q[i] \in Messages
  OBVIOUS
<1>2. Purged \in Messages
  BY DEF Purged, Message, Messages
<1> DEFINE p == Rollup(q, m)
<1>3. p = [i \in 1..Len(q) |-> IF m.kind = "snapshot" /\ q[i].kind = "snapshot" THEN Purged ELSE q[i]]
  BY <1>1 DEF Rollup
<1>4. \A i \in 1..Len(q) : p[i] \in Messages
  BY <1>1, <1>2, <1>3
<1>5. p \in [1..Len(q) -> Messages]
  BY <1>3, <1>4
<1>6. \A i \in 1..Len(q) : p[i] = IF m.kind = "snapshot" /\ q[i].kind = "snapshot" THEN Purged ELSE q[i]
  BY <1>3
<1> HIDE DEF p
<1>7. p \in Seq(Messages) /\ Len(p) = Len(q)
  BY <1>1, <1>5
<1>8. /\ Append(p, m) \in Seq(Messages) /\ Len(Append(p, m)) = Len(q) + 1
      /\ Append(p, m)[Len(q) + 1] = m /\ \A i \in 1..Len(q) : Append(p, m)[i] = p[i]
  BY <1>7
<1>9. DOMAIN Append(p, m) = 1..(Len(q) + 1)
  BY <1>8
<1> QED
  BY <1>1, <1>6, <1>8, <1>9 DEF Stored, p

\* Steps of the process only add rows, and what is durable stays.
LEMMA TableGrows ==
  ASSUME OutboxInv, RowsInv, [Next]_vars
  PROVE  /\ rows \in Seq(OutboxRow) /\ rows' \in Seq(OutboxRow)
         /\ \A c \in Cursors :
              /\ c \in Cursors' /\ rows'[c].series = rows[c].series /\ rows'[c].bar = rows[c].bar
              /\ rows'[c].kind = rows[c].kind
              /\ rows[c].state = "durable" => rows'[c].state = "durable"
<1>1. OutboxInv'
  BY StepKeeps
<1>2. rows \in Seq(OutboxRow) /\ rows' \in Seq(OutboxRow)
  BY <1>1 DEF OutboxInv
<1>3. CASE rows' = rows
  BY <1>2, <1>3 DEF Cursors
<1>4. CASE \E s \in Series : Begin(s) /\ rows' # rows
  <2>1. PICK s \in Series : Begin(s) /\ rows' # rows
    BY <1>4
  <2>2. PICK new : new = NewRows(s, lanes[s].last + 1) /\ rows' = rows \o new
    BY <2>1 DEF Begin
  <2>3. new = [i \in 1..2 |-> new[i]]
    BY <2>2 DEF NewRows
  <2>4. \A c \in Cursors : c \in Cursors' /\ rows'[c] = rows[c]
    BY <1>2, <2>2, <2>3 DEF Cursors
  <2> QED
    BY <1>2, <2>4
<1>5. CASE \E S : \E state \in {"durable", "gone"} : rows' = Ended(S, state)
  <2>0. PICK S : \E state \in {"durable", "gone"} : rows' = Ended(S, state)
    BY <1>5
  <2>1. PICK state \in {"durable", "gone"} : rows' = Ended(S, state)
    BY <2>0
  <2>2. /\ Cursors' = Cursors
        /\ \A c \in Cursors :
             /\ rows'[c].series = rows[c].series
             /\ rows'[c].bar = rows[c].bar /\ rows'[c].kind = rows[c].kind
             /\ rows'[c].state =
                  IF rows[c].series \in S /\ rows[c].state = "open" THEN state ELSE rows[c].state
    BY <1>2, <2>1, EndedRows DEF Cursors
  <2> QED
    BY <1>2, <2>2
<1>6. \/ rows' = rows \/ (\E s \in Series : Begin(s) /\ rows' # rows)
      \/ \E S : \E state \in {"durable", "gone"} : rows' = Ended(S, state)
  <2>1. CASE \E s \in Series : LaneStep(s)
    BY <2>1 DEF LaneStep, Commit, Forming, PublishLive, outbox
  <2>2. CASE Dispatch \/ Start \/ ForgetIds \/ UNCHANGED vars
    BY <2>2 DEF Dispatch, Load, PublishEval, PublishFact, PublishHub, Mark, Start, ForgetIds, vars, outbox
  <2>3. CASE Crash
    BY <2>3 DEF Crash
  <2> QED
    BY <2>1, <2>2, <2>3 DEF Next
<1> QED
  BY <1>3, <1>4, <1>5, <1>6

\* So the durable rows only grow, above those there are, and the durable bar of
\* a series never falls.
LEMMA DurableGrows ==
  ASSUME OutboxInv, RowsInv, [Next]_vars
  PROVE  /\ Durable \subseteq Durable' /\ Durable \subseteq Cursors /\ Cursors \subseteq Nat
         /\ Durable' \subseteq Cursors' /\ Cursors' \subseteq Nat
         /\ \A c \in Durable' \ Durable : \A d \in Durable : d < c
         /\ \A s : /\ DurableBar(s) \in 0..MaxBars /\ DurableBar(s)' \in 0..MaxBars
                   /\ DurableBar(s) <= DurableBar(s)'
         /\ \A c \in Durable : rows[c].bar <= DurableBar(rows[c].series) /\ rows[c] \in OutboxRow
<1>1. /\ rows \in Seq(OutboxRow) /\ rows' \in Seq(OutboxRow)
      /\ \A c \in Cursors :
           /\ c \in Cursors' /\ rows'[c].series = rows[c].series /\ rows'[c].bar = rows[c].bar
           /\ rows[c].state = "durable" => rows'[c].state = "durable"
  BY TableGrows
<1>2. Durable \subseteq Durable' /\ Durable \subseteq Cursors /\ Durable' \subseteq Cursors'
  BY <1>1 DEF Durable
<1>3. Cursors \subseteq Nat /\ Cursors' \subseteq Nat
  BY <1>1 DEF Cursors
<1>4. ASSUME NEW s
      PROVE  /\ TopBar(rows, s) \in 0..MaxBars /\ TopBar(rows', s) \in 0..MaxBars
             /\ TopBar(rows, s) <= TopBar(rows', s)
  <2>1. BarsIn(rows, s) \subseteq BarsIn(rows', s)
    BY <1>1 DEF BarsIn, Cursors
  <2>2. TopBar(rows, s) # 0 => TopBar(rows, s) <= TopBar(rows', s)
    BY <1>1, <2>1, TopBarIs
  <2>3. TopBar(rows, s) \in 0..MaxBars /\ TopBar(rows', s) \in 0..MaxBars
    BY <1>1, TopBarIs
  <2> QED
    BY <2>2, <2>3
<1>5. ASSUME NEW c \in Durable PROVE rows[c].bar <= DurableBar(rows[c].series) /\ rows[c] \in OutboxRow
  <2>1. rows[c].bar \in BarsIn(rows, rows[c].series)
    BY DEF BarsIn, Durable, Cursors
  <2>2. rows[c].bar <= TopBar(rows, rows[c].series)
    BY <1>1, <2>1, TopBarIs
  <2>3. rows[c] \in OutboxRow
    BY <1>1, <1>2 DEF Cursors
  <2> QED
    BY <2>2, <2>3, RowsAsTable
<1> QED
  BY <1>2, <1>3, <1>4, <1>5, StepKeeps, RowsAsTable

\* A candle's trades only grow, and those of a durable bar have been counted.
LEMMA TradesGrow ==
  ASSUME OutboxInv, RowsInv, [Next]_vars, NEW s \in Series, NEW n \in 1..(MaxBars + 1)
  PROVE  /\ trades[s][n] \in Nat /\ trades'[s][n] \in Nat
         /\ trades'[s][n] = trades[s][n] \/ (trades'[s][n] = trades[s][n] + 1 /\ n > DurableBar(s))
<1>1. /\ trades \in [Series -> [1..(MaxBars + 1) -> Nat]] /\ lanes \in [Series -> LaneState]
      /\ \A r \in Series : LaneCursor(r)
  BY RowsInvParts DEF OutboxInv
<1>2. trades[s][n] \in Nat
  BY <1>1, Zenon
<1>3. CASE trades' = trades
  BY <1>2, <1>3
<1>4. CASE \E r \in Series : Forming(r)
  <2>1. PICK r \in Series : Forming(r)
    BY <1>4
  <2>2. /\ trades' = [trades EXCEPT ![r] = [trades[r] EXCEPT ![lanes[r].last + 1] = @ + 1]]
        /\ proc = "run" /\ lanes[r].pc = "idle"
    BY <1>1, <2>1 DEF Forming
  <2>3. DurableBar(r) = lanes[r].last /\ lanes[r].last \in 0..MaxBars /\ MaxBars \in Nat
    BY <1>1, <2>2, DeliveryAssumption DEF LaneCursor, LaneState
  <2>4. CASE r = s /\ n = lanes[r].last + 1
    BY <1>1, <1>2, <2>2, <2>3, <2>4
  <2>5. CASE ~(r = s /\ n = lanes[r].last + 1)
    <3>1. trades'[s][n] = trades[s][n]
      BY <1>1, <2>2, <2>5
    <3> QED
      BY <1>2, <3>1
  <2> QED
    BY <2>4, <2>5
<1>5. trades' = trades \/ \E r \in Series : Forming(r)
  BY Zenon DEF Next, LaneStep, Begin, Commit, PublishLive, Dispatch, Load, PublishEval, PublishFact,
         PublishHub, Mark, Start, Crash, ForgetIds, vars
<1> QED
  BY <1>3, <1>4, <1>5

\* What Flush is publishing is a durable row.
LEMMA RowFacts ==
  ASSUME OutboxInv, RowsInv, DispatchInv, disp.todo # {}
  PROVE  /\ Min(disp.todo) \in disp.todo /\ Min(disp.todo) \in Durable
         /\ \A d \in disp.todo : Min(disp.todo) <= d
         /\ Row \in OutboxRow /\ Row.series \in Series /\ Row.bar \in 1..MaxBars
         /\ Row.bar <= DurableBar(Row.series)
<1>1. rows \in Seq(OutboxRow) /\ Cursors \subseteq Nat /\ disp.todo \subseteq Durable
      /\ Durable \subseteq Cursors
  BY DEF OutboxInv, DispatchInv, Cursors, Durable
<1>2. /\ Min(disp.todo) \in disp.todo /\ Min(disp.todo) \in Durable
      /\ \A d \in disp.todo : Min(disp.todo) <= d
  BY <1>1, MinIs, Zenon
<1>3. Row \in OutboxRow
  BY <1>1, <1>2 DEF Row, Cursors
<1>4. Row.bar \in BarsIn(rows, Row.series)
  BY <1>2 DEF BarsIn, Row, Durable, Cursors
<1>5. Row.bar <= DurableBar(Row.series)
  BY <1>1, <1>4, TopBarIs, RowsAsTable
<1> QED
  BY <1>2, <1>3, <1>5 DEF OutboxRow

\* The message m may be stored for s: the confirmed frame of a durable bar, or
\* the provisional frame of the candle the lane is publishing.
MayStore(s, m) ==
  /\ m \in Messages /\ m.bar \in 1..(MaxBars + 1)
  /\ \/ m = Confirmed(s, m.bar) /\ m.bar <= DurableBar(s)
     \/ /\ proc = "run" /\ lanes[s].pc = "live" /\ m = lanes[s].out /\ m.bar = lanes[s].last + 1
        /\ m.kind \in {"transition", "snapshot"} /\ m.rev = trades[s][m.bar]

\* What a lane publishes may be stored.
LEMMA LaneMayStore ==
  ASSUME OutboxInv, RowsInv, NEW s \in Series, PublishLive(s)
  PROVE  MayStore(s, lanes[s].out)
<1>1. /\ proc = "run" /\ lanes[s].pc = "live" /\ LaneCursor(s) /\ lanes[s] \in LaneState
      /\ MaxBars \in Nat
  BY RowsInvParts, DeliveryAssumption DEF PublishLive, OutboxInv
<1>2. /\ lanes[s].out \in Messages /\ lanes[s].out.bar = lanes[s].last + 1
      /\ lanes[s].last \in 0..MaxBars
  BY <1>1 DEF LaneCursor, LaneState
<1>3. CASE lanes[s].out.kind = "confirmed"
  BY <1>1, <1>2, <1>3 DEF LaneCursor, MayStore
<1>4. CASE lanes[s].out.kind # "confirmed"
  BY <1>1, <1>2, <1>4 DEF LaneCursor, MayStore
<1> QED
  BY <1>3, <1>4

\* What the dispatcher publishes may be stored.
LEMMA RowMayStore ==
  ASSUME OutboxInv, RowsInv, DispatchInv, disp.todo # {}
  PROVE  MayStore(Row.series, Confirmed(Row.series, Row.bar))
<1>1. Row.series \in Series /\ Row.bar \in 1..MaxBars /\ Row.bar <= DurableBar(Row.series)
  BY RowFacts
<1>2. trades[Row.series][Row.bar] \in Nat /\ MaxBars \in Nat
  BY <1>1, DeliveryAssumption DEF OutboxInv
<1> QED
  BY <1>1, <1>2 DEF MayStore, Confirmed, Message, Messages

\* What a step does to the evaluation stream: nothing, or one store.
StoreStep(s, m) ==
  /\ MayStore(s, m)
  /\ MsgId("eval", s, m) \notin window /\ window' = window \cup {MsgId("eval", s, m)}
  /\ eval' = [eval EXCEPT ![s] = Stored(@, m)]
  /\ UNCHANGED <<rows, trades, marked>>

FactId == {<<"facts", s, n, r>> : s \in Series, n \in 1..(MaxBars + 1), r \in Nat}

\* Every step of the process stores at most one message on the evaluation
\* stream (JetStream.Publish, PublishEvaluation).
LEMMA StreamSteps ==
  ASSUME OutboxInv, RowsInv, DispatchInv, [Next]_vars
  PROVE  \/ eval' = eval /\ window' \subseteq window \cup FactId
         \/ \E s \in Series : \E m : StoreStep(s, m)
<1>1. ASSUME NEW s, NEW m, StoreEval(s, m), MayStore(s, m), UNCHANGED <<rows, trades, marked>>
      PROVE  (eval' = eval /\ window' = window) \/ StoreStep(s, m)
  BY <1>1 DEF StoreEval, StoreStep, Stored
<1>2. CASE \E s \in Series : PublishLive(s)
  <2>1. PICK s \in Series : PublishLive(s)
    BY <1>2, Zenon
  <2>2. /\ StoreEval(s, lanes[s].out) \/ UNCHANGED <<eval, window>>
        /\ UNCHANGED <<rows, trades, marked>>
    BY <2>1, Zenon DEF PublishLive, outbox
  <2> QED
    BY <1>1, <2>1, <2>2, LaneMayStore, Zenon
<1>3. CASE PublishEval
  <2>1. /\ StoreEval(Row.series, Confirmed(Row.series, Row.bar)) \/ UNCHANGED <<eval, window>>
        /\ UNCHANGED <<rows, trades, marked>> /\ disp.todo # {}
    BY <1>3, Zenon DEF PublishEval, outbox, DispatchInv
  <2> QED
    BY <1>1, <2>1, RowMayStore, RowFacts, Zenon
<1>4. CASE PublishFact
  <2>1. Row.series \in Series /\ Row.bar \in 1..MaxBars /\ trades[Row.series][Row.bar] \in Nat
        /\ MaxBars \in Nat
    BY <1>4, RowFacts, DeliveryAssumption, SMT, SMTT(30) DEF PublishFact, DispatchInv, OutboxInv
  <2>2. MsgId("facts", Row.series, Confirmed(Row.series, Row.bar)) \in FactId
    BY <2>1, SMT, SMTT(30) DEF MsgId, Confirmed, Message, FactId
  <2> QED
    BY <1>4, <2>2, Zenon DEF PublishFact, StoreFact
<1>5. CASE ForgetIds
  BY <1>5, Zenon DEF ForgetIds
<1>6. CASE (\E s \in Series : Begin(s) \/ Commit(s) \/ Forming(s)) \/ Load \/ PublishHub \/ Mark
           \/ Start \/ Crash \/ UNCHANGED vars
  BY <1>6, Zenon DEF Begin, Commit, Forming, Load, PublishHub, Mark, Start, Crash, vars, broker
<1> QED
  BY <1>2, <1>3, <1>4, <1>5, <1>6 DEF Next, LaneStep, Dispatch

-----------------------------------------------------------------------------
(* The evaluation stream.                                                  *)

\* What a store leaves of a stream.
LEMMA StoredAt ==
  ASSUME eval \in [Series -> Seq(Messages)], NEW s \in Series, NEW m, StoreStep(s, m)
  PROVE  /\ eval' \in [Series -> Seq(Messages)] /\ m \in Messages
         /\ \A r \in Series : r # s => eval'[r] = eval[r]
         /\ Len(eval[s]) \in Nat /\ DOMAIN eval[s] = 1..Len(eval[s])
         /\ DOMAIN eval'[s] = 1..(Len(eval[s]) + 1)
         /\ eval'[s][Len(eval[s]) + 1] = m
         /\ \A i \in 1..Len(eval[s]) : eval'[s][i] =
              IF m.kind = "snapshot" /\ eval[s][i].kind = "snapshot" THEN Purged ELSE eval[s][i]
<1>1. eval[s] \in Seq(Messages) /\ m \in Messages /\ eval' = [eval EXCEPT ![s] = Stored(eval[s], m)]
  BY Zenon DEF StoreStep, MayStore
<1>2. PICK q, p : q = eval[s] /\ p = Stored(q, m)
  BY Zenon
<1>3. /\ p \in Seq(Messages) /\ Len(q) \in Nat /\ DOMAIN q = 1..Len(q)
      /\ DOMAIN p = 1..(Len(q) + 1) /\ p[Len(q) + 1] = m
      /\ \A i \in 1..Len(q) :
           p[i] = IF m.kind = "snapshot" /\ q[i].kind = "snapshot" THEN Purged ELSE q[i]
  <2>1. q \in Seq(Messages)
    BY <1>1, <1>2, Zenon
  <2>2. /\ Stored(q, m) \in Seq(Messages) /\ Len(q) \in Nat /\ DOMAIN q = 1..Len(q)
        /\ DOMAIN Stored(q, m) = 1..(Len(q) + 1)
        /\ Stored(q, m)[Len(q) + 1] = m
        /\ \A i \in 1..Len(q) :
             /\ q[i] \in Messages
             /\ Stored(q, m)[i] = IF m.kind = "snapshot" /\ q[i].kind = "snapshot" THEN Purged ELSE q[i]
    BY <1>1, <2>1, StoredStream, Zenon
  <2> QED
    BY <1>2, <2>2, Zenon
<1>4. /\ eval' \in [Series -> Seq(Messages)] /\ eval'[s] = p
      /\ \A r \in Series : r # s => eval'[r] = eval[r]
  BY <1>1, <1>2, <1>3, Zenon
<1> QED
  BY <1>1, <1>2, <1>3, <1>4, Zenon

\* No step removes a confirmed frame from the stream.
LEMMA ConfirmedStays ==
  ASSUME OutboxInv, RowsInv, DispatchInv, StreamInv, [Next]_vars, NEW r \in Series, NEW m,
         m.kind = "confirmed", \E i \in DOMAIN eval[r] : eval[r][i] = m
  PROVE  \E i \in DOMAIN eval'[r] : eval'[r][i] = m
<1>1. CASE eval' = eval
  BY <1>1, Zenon
<1>2. CASE \E s \in Series : \E e : StoreStep(s, e)
  <2>1. PICK s \in Series : \E e : StoreStep(s, e)
    BY <1>2, Zenon
  <2>2. PICK e : StoreStep(s, e)
    BY <2>1, Zenon
  <2>3. eval \in [Series -> Seq(Messages)]
    BY Zenon DEF StreamInv
  <2>4. CASE r # s
    BY <2>2, <2>3, <2>4, StoredAt, Zenon
  <2>5. CASE r = s
    <3>1. PICK i \in DOMAIN eval[s] : eval[s][i] = m
      BY <2>5, Zenon
    <3>2. i \in 1..Len(eval[s]) /\ DOMAIN eval'[s] = 1..(Len(eval[s]) + 1) /\ Len(eval[s]) \in Nat
      BY <2>2, <2>3, <3>1, StoredAt, Zenon
    <3>3. i \in DOMAIN eval'[s]
      BY <3>2, SMT, SMTT(30)
    <3>4. eval'[s][i] = eval[s][i]
      BY <2>2, <2>3, <3>1, <3>2, StoredAt, Zenon
    <3> QED
      BY <2>5, <3>1, <3>3, <3>4, Zenon
  <2> QED
    BY <2>4, <2>5, Zenon
<1> QED
  BY <1>1, <1>2, StreamSteps, Zenon

\* The confirmed frame of a bar whose trades do not change stays the one.
LEMMA OnEvalStays ==
  ASSUME OutboxInv, RowsInv, DispatchInv, StreamInv, [Next]_vars, NEW s \in Series, NEW n,
         trades'[s][n] = trades[s][n], OnEval(s, n)
  PROVE  OnEval(s, n)'
<1>1. Confirmed(s, n)' = Confirmed(s, n) /\ Confirmed(s, n).kind = "confirmed"
  BY Zenon DEF Confirmed, Message
<1>2. PICK m : m = Confirmed(s, n)
  BY Zenon
<1>3. \E i \in DOMAIN eval[s] : eval[s][i] = m
  BY <1>2, Zenon DEF OnEval
<1>4. \E i \in DOMAIN eval'[s] : eval'[s][i] = m
  BY <1>1, <1>2, <1>3, ConfirmedStays, Zenon
<1> QED
  BY <1>1, <1>2, <1>4, Zenon DEF OnEval

\* In particular that of a durable bar.
LEMMA DurableOnEvalStays ==
  ASSUME OutboxInv, RowsInv, DispatchInv, StreamInv, [Next]_vars, NEW s \in Series,
         NEW n \in 1..DurableBar(s), OnEval(s, n)
  PROVE  OnEval(s, n)'
<1>1. DurableBar(s) \in 0..MaxBars /\ MaxBars \in Nat
  BY DurableGrows, DeliveryAssumption, Zenon
<1>2. n \in 1..(MaxBars + 1) /\ n <= DurableBar(s) /\ n \in Nat /\ DurableBar(s) \in Nat
  BY <1>1, SMT, SMTT(30)
<1>3. trades'[s][n] = trades[s][n]
  BY <1>2, TradesGrow, SMT, SMTT(30)
<1> QED
  BY <1>3, OnEvalStays, Zenon

\* What the broker has just been asked to store as confirmed is on the stream,
\* also when it took the message for a duplicate: no other frame has its id.
LEMMA StoredOrThere ==
  ASSUME OutboxInv, StreamInv, NEW s \in Series, NEW n \in 1..(MaxBars + 1), trades' = trades,
         StoreEval(s, Confirmed(s, n))
  PROVE  OnEval(s, n)'
<1> DEFINE m == Confirmed(s, n)
<1>1. trades[s][n] \in Nat /\ m \in Messages /\ m.bar = n /\ m.rev = trades[s][n] + 1 /\ n \in Nat
  <2>1. trades[s][n] \in Nat /\ n \in Nat
    BY DeliveryAssumption, SMT, SMTT(30) DEF OutboxInv
  <2> QED
    BY <2>1, SMT, SMTT(30) DEF Confirmed, Message, Messages
<1>2. Confirmed(s, n)' = Confirmed(s, n)
  BY Zenon DEF Confirmed
<1>3. CASE MsgId("eval", s, m) \in window
  <2>1. eval' = eval /\ MsgId("eval", s, m) = <<"eval", s, n, trades[s][n] + 1>>
    BY <1>1, <1>3, Zenon DEF StoreEval, MsgId
  <2>2. OnEval(s, n)
    BY <1>1, <1>3, <2>1, SMTT(20), SMTT(30) DEF StreamInv
  <2> QED
    BY <1>2, <2>1, <2>2, Zenon DEF OnEval
<1>4. CASE MsgId("eval", s, m) \notin window
  <2>1. eval' = [eval EXCEPT ![s] = Stored(eval[s], m)] /\ eval \in [Series -> Seq(Messages)]
    BY <1>4, Zenon DEF StoreEval, Stored, StreamInv
  <2> HIDE DEF m
  <2>2. PICK q, p : q = eval[s] /\ p = Stored(q, m) /\ q \in Seq(Messages)
    BY <2>1, Zenon
  <2>3. Len(q) + 1 \in DOMAIN p /\ p[Len(q) + 1] = m
    <3>1. Len(q) \in Nat /\ DOMAIN p = 1..(Len(q) + 1) /\ p[Len(q) + 1] = m
      BY <1>1, <2>2, StoredStream, Zenon
    <3> QED
      BY <3>1, SMT, SMTT(30)
  <2>4. eval'[s] = p
    BY <2>1, <2>2, Zenon
  <2> QED
    BY <1>2, <2>3, <2>4, Zenon DEF OnEval, m
<1> QED
  BY <1>3, <1>4, Zenon

\* Initially the streams are empty.
LEMMA InitStream == Init => StreamInv
BY SMT, SMTT(30) DEF Init, StreamInv

\* Every step keeps what the broker remembers and what the stream confirms
\* in line with the trades and the durable bars.
LEMMA StreamStep ==
  ASSUME OutboxInv, RowsInv, DispatchInv, StreamInv, [Next]_vars
  PROVE  StreamInv'
<1> DEFINE Ids == {"eval", "facts"} \X Series \X (1..(MaxBars + 1)) \X Nat
           Told(w) == \/ w[4] <= trades[w[2]][w[3]]
                      \/ w[4] = trades[w[2]][w[3]] + 1 /\ OnEval(w[2], w[3])
<1>1. /\ eval \in [Series -> Seq(Messages)] /\ window \subseteq Ids
      /\ \A w \in window : w[1] = "eval" => Told(w)
      /\ \A s \in Series : \A i \in DOMAIN eval[s] :
           eval[s][i].kind = "confirmed" => eval[s][i].bar <= DurableBar(s)
  BY Zenon DEF StreamInv
<1>2. FactId \subseteq Ids /\ \A w \in FactId : w[1] = "facts"
  BY SMT, SMTT(30) DEF FactId
<1>3. ASSUME NEW w \in window, w[1] = "eval" PROVE Told(w)'
  <2>1. PICK s \in Series, n \in 1..(MaxBars + 1), v \in Nat : w = <<"eval", s, n, v>>
    BY <1>1, <1>3, SMT, SMTT(30)
  <2>2. v <= trades[s][n] \/ (v = trades[s][n] + 1 /\ OnEval(s, n))
    BY <1>1, <1>3, <2>1, Zenon
  <2>3. /\ trades[s][n] \in Nat /\ trades'[s][n] \in Nat
        /\ trades'[s][n] = trades[s][n] \/ trades'[s][n] = trades[s][n] + 1
    BY TradesGrow, Zenon
  <2>4. trades'[s][n] = trades[s][n] /\ OnEval(s, n) => OnEval(s, n)'
    BY OnEvalStays, Zenon
  <2>5. v <= trades'[s][n] \/ (v = trades'[s][n] + 1 /\ OnEval(s, n)')
    BY <2>2, <2>3, <2>4, SMT, SMTT(30)
  <2> QED
    BY <2>1, <2>5, Zenon
<1>4. \A s : DurableBar(s) \in Nat /\ DurableBar(s)' \in Nat /\ DurableBar(s) <= DurableBar(s)'
  BY DurableGrows, DeliveryAssumption, SMT, SMTT(30)
<1>5. CASE eval' = eval /\ window' \subseteq window \cup FactId
  <2>1. window' \subseteq Ids /\ \A w \in window' : w[1] = "eval" => Told(w)'
    BY <1>1, <1>2, <1>3, <1>5, Zenon
  <2>2. ASSUME NEW s \in Series, NEW i \in DOMAIN eval'[s], eval'[s][i].kind = "confirmed"
        PROVE  eval'[s][i].bar <= DurableBar(s)'
    <3>1. eval[s][i].bar <= DurableBar(s) /\ eval[s][i].bar \in Nat
      <4>1. i \in DOMAIN eval[s] /\ eval[s] \in Seq(Messages)
        BY <1>1, <1>5, Zenon
      <4>2. eval[s][i] \in Messages
        BY <4>1, SMT, SMTT(30)
      <4> QED
        BY <1>1, <1>5, <2>2, <4>1, <4>2, Zenon DEF Messages
    <3> QED
      BY <1>4, <1>5, <3>1, SMT, SMTT(30)
  <2> QED
    BY <1>1, <1>5, <2>1, <2>2, Zenon DEF StreamInv
<1>6. CASE \E s \in Series : \E m : StoreStep(s, m)
  <2>1. PICK s \in Series : \E m : StoreStep(s, m)
    BY <1>6, Zenon
  <2>2. PICK m : StoreStep(s, m)
    BY <2>1, Zenon
  <2>3. /\ m \in Messages /\ m.bar \in 1..(MaxBars + 1) /\ m.rev \in Nat
        /\ trades' = trades /\ rows' = rows
        /\ window' = window \cup {<<"eval", s, m.bar, m.rev>>}
    BY <2>2, Zenon DEF StoreStep, MayStore, MsgId, Messages
  <2>4. Told(<<"eval", s, m.bar, m.rev>>)' /\ (m.kind = "confirmed" => m.bar <= DurableBar(s))
    <3>1. trades[s][m.bar] \in Nat
      BY <2>3, Zenon DEF OutboxInv
    <3>2. CASE m = Confirmed(s, m.bar) /\ m.bar <= DurableBar(s)
      <4>1. m.rev = trades[s][m.bar] + 1
        BY <3>2, SMT, SMTT(30) DEF Confirmed, Message
      <4>2. OnEval(s, m.bar)'
        <5>1. Len(eval[s]) + 1 \in DOMAIN eval'[s] /\ eval'[s][Len(eval[s]) + 1] = m
          BY <1>1, <2>2, StoredAt, SMT, SMTT(30)
        <5>2. Confirmed(s, m.bar)' = m
          BY <2>3, <3>2, Zenon DEF Confirmed
        <5> QED
          BY <5>1, <5>2, Zenon DEF OnEval
      <4> QED
        BY <2>3, <3>2, <4>1, <4>2, Zenon
    <3>3. CASE m.kind \in {"transition", "snapshot"} /\ m.rev = trades[s][m.bar]
      BY <2>3, <3>1, <3>3, SMT, SMTT(30)
    <3> QED
      BY <2>2, <3>2, <3>3, Zenon DEF StoreStep, MayStore
  <2>5. window' \subseteq Ids /\ \A w \in window' : w[1] = "eval" => Told(w)'
    <3>1. <<"eval", s, m.bar, m.rev>> \in Ids
      BY <2>3, Zenon
    <3> QED
      BY <1>1, <1>3, <2>3, <2>4, <3>1, Zenon
  <2>6. ASSUME NEW r \in Series, NEW i \in DOMAIN eval'[r], eval'[r][i].kind = "confirmed"
        PROVE  eval'[r][i].bar <= DurableBar(r)'
    <3>0. DurableBar(r)' = DurableBar(r)
      BY <2>3, RowsAsTable, Zenon
    <3>1. CASE r # s
      BY <1>1, <2>2, <2>6, <3>0, <3>1, StoredAt, SMTT(20), SMTT(30)
    <3>2. CASE r = s /\ i = Len(eval[s]) + 1
      BY <1>1, <2>2, <2>4, <2>6, <3>0, <3>2, StoredAt, SMTT(20), SMTT(30)
    <3>3. CASE r = s /\ i # Len(eval[s]) + 1
      <4>1. i \in DOMAIN eval[s] /\ i \in 1..Len(eval[s])
        BY <1>1, <2>2, <3>3, StoredAt, SMTT(20), SMTT(30)
      <4>2. eval'[s][i] = eval[s][i] \/ eval'[s][i] = Purged
        BY <1>1, <2>2, <4>1, StoredAt, Zenon
      <4>3. Purged.kind = "purged"
        BY Zenon DEF Purged, Message
      <4> QED
        BY <1>1, <2>6, <3>0, <3>3, <4>1, <4>2, <4>3, Zenon
    <3> QED
      BY <3>1, <3>2, <3>3, Zenon
  <2>7. eval' \in [Series -> Seq(Messages)]
    BY <1>1, <2>2, StoredAt, Zenon
  <2> QED
    BY <2>5, <2>6, <2>7, Zenon DEF StreamInv
<1> QED
  BY <1>5, <1>6, StreamSteps, Zenon

-----------------------------------------------------------------------------
(* The dispatcher.                                                         *)

\* DispatchInv in parts: types, the call Flush is in, the rows it has
\* published, the rows below its batch.
BatchTypes ==
  /\ disp \in [pc : {"idle", "eval", "facts", "hub", "mark"},
               batch : SUBSET Durable, todo : SUBSET Durable]
  /\ marked \subseteq Durable /\ hub \subseteq Durable

CallOK ==
  /\ disp.pc = "idle" => disp = Waiting
  /\ disp.todo \subseteq disp.batch /\ (disp.pc \in {"idle", "mark"} <=> disp.todo = {})
  /\ disp.pc \in {"eval", "facts"} => Row.kind = "frame"
  /\ disp.pc = "facts" => OnEval(Row.series, Row.bar)
  /\ disp.pc = "hub" => FrameStored(Min(disp.todo))

DoneOK ==
  \A c \in disp.batch \ disp.todo : /\ c \in hub /\ FrameStored(c)
                                    /\ \A d \in disp.todo : c < d

LowOK == \A c \in disp.batch : \A d \in Durable : d < c => d \in disp.batch \cup marked

\* The invariant of Flush is these parts.
LEMMA DispatchParts ==
  /\ DispatchInv <=> /\ BatchTypes /\ CallOK /\ DoneOK /\ LowOK
                     /\ CompletedRowsAreStored /\ NothingSkipped
  /\ DispatchInv' <=> /\ BatchTypes' /\ CallOK' /\ DoneOK' /\ LowOK'
                      /\ CompletedRowsAreStored' /\ NothingSkipped'
<1>1. DispatchInv <=> /\ BatchTypes /\ CallOK /\ DoneOK /\ LowOK
                      /\ CompletedRowsAreStored /\ NothingSkipped
  BY Zenon DEF DispatchInv, BatchTypes, CallOK, DoneOK, LowOK
<1>2. DispatchInv' <=> /\ BatchTypes' /\ CallOK' /\ DoneOK' /\ LowOK'
                       /\ CompletedRowsAreStored' /\ NothingSkipped'
  BY Zenon DEF DispatchInv, BatchTypes, CallOK, DoneOK, LowOK
<1> QED
  BY <1>1, <1>2, Zenon

\* The next row of the batch in the next state.
LEMMA NextRow ==
  ASSUME NEW c, c = Min(disp'.todo), NEW s, NEW n, s = rows'[c].series, n = rows'[c].bar
  PROVE  /\ Row' = rows'[c]
         /\ FrameStored(Min(disp.todo))' <=> FrameStored(c)'
         /\ OnEval(Row.series, Row.bar)' <=> OnEval(s, n)'
         /\ FrameStored(c)' <=> (rows'[c].kind = "frame" => <<s, n>> \in facts' /\ OnEval(s, n)')
<1>1. Row' = rows'[c]
  BY Zenon DEF Row
<1>2. FrameStored(Min(disp.todo))' <=> FrameStored(c)'
  BY Zenon DEF FrameStored, OnEval, Confirmed
<1>3. OnEval(Row.series, Row.bar)' <=> OnEval(s, n)'
  BY <1>1, Zenon DEF OnEval, Confirmed
<1>4. FrameStored(c)' <=> (rows'[c].kind = "frame" => <<s, n>> \in facts' /\ OnEval(s, n)')
  BY Zenon DEF FrameStored, OnEval, Confirmed
<1> QED
  BY <1>1, <1>2, <1>3, <1>4, Zenon

\* Initially there is nothing to publish.
LEMMA InitDispatch == Init => DispatchInv
<1> SUFFICES ASSUME Init PROVE DispatchInv
  BY Zenon
<1>1. disp = Waiting /\ marked = {} /\ hub = {} /\ facts = {}
  BY Zenon DEF Init
<1>2. BatchTypes /\ CallOK /\ DoneOK /\ LowOK
  BY <1>1, Zenon DEF BatchTypes, CallOK, DoneOK, LowOK, Waiting
<1>3. CompletedRowsAreStored /\ NothingSkipped
  BY <1>1, Zenon DEF CompletedRowsAreStored, NothingSkipped
<1> QED
  BY <1>2, <1>3, DispatchParts, Zenon

\* No fact is ever lost, and a step adds at most that of the row being published.
LEMMA FactsGrow ==
  ASSUME [Next]_vars
  PROVE  \/ facts' = facts
         \/ disp.pc = "facts" /\ facts' = facts \cup {<<Row.series, Row.bar>>}
BY Zenon DEF Next, LaneStep, Begin, Commit, Forming, PublishLive, Dispatch, Load, PublishEval, PublishFact,
       StoreFact, PublishHub, Mark, Start, Crash, ForgetIds, vars, broker

\* What the broker has stored for a durable row it keeps.
LEMMA FrameStays ==
  ASSUME OutboxInv, RowsInv, DispatchInv, StreamInv, [Next]_vars, NEW c \in Durable, FrameStored(c)
  PROVE  FrameStored(c)'
<1>1. /\ c \in Cursors /\ rows[c] \in OutboxRow /\ rows[c].bar <= DurableBar(rows[c].series)
      /\ rows'[c].series = rows[c].series /\ rows'[c].bar = rows[c].bar /\ rows'[c].kind = rows[c].kind
      /\ DurableBar(rows[c].series) \in Nat
  BY DurableGrows, TableGrows, DeliveryAssumption, SMT, SMTT(30)
<1>2. PICK s \in Series, n \in 1..DurableBar(rows[c].series) : s = rows[c].series /\ n = rows[c].bar
  BY <1>1, SMT, SMTT(30) DEF OutboxRow
<1>3. FrameStored(c) <=> (rows[c].kind = "frame" => <<s, n>> \in facts /\ OnEval(s, n))
  BY <1>2, Zenon DEF FrameStored
<1>4. FrameStored(c)' <=> (rows'[c].kind = "frame" => <<s, n>> \in facts' /\ OnEval(s, n)')
  BY <1>1, <1>2, Zenon DEF FrameStored, OnEval, Confirmed
<1>5. OnEval(s, n) => OnEval(s, n)'
  BY <1>2, DurableOnEvalStays, Zenon
<1> QED
  BY <1>1, <1>3, <1>4, <1>5, FactsGrow, Zenon

\* When Flush is at a frame, the frames of all earlier bars of its series have
\* been published.
LEMMA EarlierStored ==
  ASSUME OutboxInv, RowsInv, DispatchInv, disp.todo # {}, Row.kind = "frame",
         NEW n \in 1..(Row.bar - 1)
  PROVE  <<Row.series, n>> \in facts /\ OnEval(Row.series, n)
<1>1. PICK c : c = Min(disp.todo)
  BY Zenon
<1>2. c \in disp.todo /\ c \in Durable /\ (\A d \in disp.todo : c <= d) /\ Row = rows[c]
  BY <1>1, RowFacts, Zenon DEF Row
<1>3. /\ BatchTypes /\ CallOK /\ DoneOK /\ LowOK /\ CompletedRowsAreStored /\ Ordered(rows)
      /\ Durable \subseteq Nat
  BY DispatchParts, RowsInvParts, SMTT(20), SMTT(30) DEF OutboxInv, Durable, Cursors
<1>4. FrameIn(rows, Row.series, n, c)
  BY <1>2, <1>3, Zenon DEF Ordered, Durable, Cursors
<1>5. PICK d \in Durable : d < c /\ rows[d].kind = "frame" /\ rows[d].series = Row.series /\ rows[d].bar = n
  BY <1>4, Zenon DEF FrameIn, Durable, Cursors
<1>6. d \notin disp.todo
  BY <1>2, <1>3, <1>5, SMTT(20), SMTT(30)
<1>7. d \in disp.batch \cup marked
  BY <1>2, <1>3, <1>5, Zenon DEF LowOK, CallOK
<1>8. FrameStored(d)
  BY <1>3, <1>6, <1>7, Zenon DEF DoneOK, CompletedRowsAreStored
<1> QED
  BY <1>5, <1>8, Zenon DEF FrameStored

\* What has been marked, and what has reached the hub, stays without a hole
\* when rows become visible: they come above it.
LEMMA DoneStays ==
  ASSUME OutboxInv, RowsInv, DispatchInv, StreamInv, [Next]_vars,
         marked' = marked \/ (disp.pc = "mark" /\ marked' = marked \cup disp.batch),
         hub' \in {hub, {}}
  PROVE  /\ CompletedRowsAreStored' /\ NothingSkipped'
         /\ marked \subseteq marked' /\ marked' \subseteq Durable' /\ hub' \subseteq Durable'
<1>1. /\ BatchTypes /\ CallOK /\ DoneOK /\ CompletedRowsAreStored /\ NothingSkipped
      /\ Durable \subseteq Durable' /\ Durable \subseteq Nat
      /\ \A c \in Durable' \ Durable : \A d \in Durable : d < c
  BY DispatchParts, DurableGrows, Zenon
<1>2. /\ marked \subseteq marked' /\ marked' \subseteq Durable /\ hub' \subseteq Durable
      /\ \A c \in marked' : FrameStored(c)
  BY <1>1, Zenon DEF BatchTypes, CallOK, DoneOK, CompletedRowsAreStored
<1>3. CompletedRowsAreStored'
  <2>1. \A c \in marked' : FrameStored(c)'
    BY <1>2, FrameStays, Zenon
  <2> QED
    BY <2>1, Zenon DEF CompletedRowsAreStored
<1>4. ASSUME NEW c \in hub', NEW d \in Durable', d < c PROVE d \in hub' \cup marked'
  <2>1. hub' = hub /\ c \in Durable
    BY <1>2, <1>4, Zenon
  <2>2. d \in Durable
    <3>1. d \in Nat /\ c \in Nat
      BY <1>1, <2>1, DurableGrows, Zenon
    <3> QED
      BY <1>1, <1>4, <2>1, <3>1, SMT, SMTT(30)
  <2> QED
    BY <1>1, <1>2, <1>4, <2>1, <2>2, Zenon DEF NothingSkipped
<1>5. ASSUME NEW f \in facts', NEW n \in 1..f[2] PROVE <<f[1], n>> \in facts'
  <2>1. CASE f \in facts
    BY <1>1, <1>5, <2>1, FactsGrow, Zenon DEF NothingSkipped
  <2>2. CASE f \notin facts
    <3>1. /\ disp.pc = "facts" /\ facts' = facts \cup {<<Row.series, Row.bar>>}
          /\ f = <<Row.series, Row.bar>> /\ disp.todo # {} /\ Row.kind = "frame"
      BY <1>1, <2>2, FactsGrow, Zenon DEF CallOK
    <3>2. Row.bar \in Nat /\ n \in 1..Row.bar
      BY <1>5, <3>1, RowFacts, SMT, SMTT(30)
    <3>3. CASE n = Row.bar
      BY <3>1, <3>3, Zenon
    <3>4. CASE n # Row.bar
      <4>1. n \in 1..(Row.bar - 1)
        BY <3>2, <3>4, SMT, SMTT(30)
      <4> QED
        BY <3>1, <4>1, EarlierStored, Zenon
    <3> QED
      BY <3>3, <3>4, Zenon
  <2> QED
    BY <2>1, <2>2, Zenon
<1> QED
  BY <1>1, <1>2, <1>3, <1>4, <1>5, Zenon DEF NothingSkipped

\* A Flush that has ended, or a process that has.
LEMMA WaitingKeeps ==
  ASSUME OutboxInv, RowsInv, DispatchInv, StreamInv, [Next]_vars, disp' = Waiting,
         marked' = marked \/ (disp.pc = "mark" /\ marked' = marked \cup disp.batch),
         hub' \in {hub, {}}
  PROVE  DispatchInv'
<1>1. BatchTypes' /\ CallOK' /\ DoneOK' /\ LowOK'
  BY DoneStays, Zenon DEF BatchTypes, CallOK, DoneOK, LowOK, Waiting
<1> QED
  BY <1>1, DoneStays, DispatchParts, Zenon

\* The rows below a batch are in it or marked, also when rows become visible.
LEMMA LowStays ==
  ASSUME OutboxInv, RowsInv, DispatchInv, [Next]_vars, disp'.batch = disp.batch,
         marked' = marked
  PROVE  LowOK'
<1>1. BatchTypes /\ LowOK
  BY DispatchParts, Zenon
<1>2. ASSUME NEW c \in disp.batch, NEW d \in Durable', d < c PROVE d \in disp.batch \cup marked
  <2>1. c \in Durable
    BY <1>1, Zenon DEF BatchTypes
  <2>2. d \in Durable
    <3>1. d \in Nat /\ c \in Nat
      BY <2>1, DurableGrows, Zenon
    <3> QED
      BY <1>2, <2>1, <3>1, DurableGrows, SMT, SMTT(30)
  <2> QED
    BY <1>1, <1>2, <2>2, Zenon DEF LowOK
<1> QED
  BY <1>2, Zenon DEF LowOK

\* Steps of the others leave the dispatcher where it is.
LEMMA OthersKeepDispatch ==
  ASSUME OutboxInv, RowsInv, DispatchInv, StreamInv, [Next]_vars,
         UNCHANGED <<disp, marked, hub, facts>>
  PROVE  DispatchInv'
<1>1. BatchTypes /\ CallOK /\ DoneOK /\ LowOK
  BY DispatchParts, Zenon
<1>2. BatchTypes'
  BY <1>1, DurableGrows, DoneStays, Zenon DEF BatchTypes
<1>3. DoneOK'
  <2>1. \A c \in disp.batch \ disp.todo : FrameStored(c)'
    BY <1>1, FrameStays, Zenon DEF BatchTypes, DoneOK
  <2> QED
    BY <1>1, <2>1, Zenon DEF DoneOK
<1>4. CallOK'
  <2>1. CASE disp.todo = {}
    BY <1>1, <2>1, Zenon DEF CallOK, Waiting
  <2>2. CASE disp.todo # {}
    <3>1. PICK c, s, n : c = Min(disp'.todo) /\ s = rows'[c].series /\ n = rows'[c].bar
      BY Zenon
    <3>2. c = Min(disp.todo) /\ c \in Durable /\ Row = rows[c] /\ Row.series \in Series
          /\ Row.bar \in 1..DurableBar(Row.series)
      BY <2>2, <3>1, RowFacts, DurableGrows, SMTT(20), SMTT(30) DEF Row
    <3>3. rows'[c].kind = rows[c].kind /\ s = Row.series /\ n = Row.bar
      BY <3>1, <3>2, TableGrows, Zenon DEF Durable
    <3>4. Row' = rows'[c] /\ (FrameStored(Min(disp.todo))' <=> FrameStored(c)')
          /\ (OnEval(Row.series, Row.bar)' <=> OnEval(s, n)')
      BY <3>1, NextRow, Zenon
    <3>5. disp.pc = "facts" => OnEval(s, n)'
      BY <1>1, <3>2, <3>3, DurableOnEvalStays, Zenon DEF CallOK
    <3>6. disp.pc = "hub" => FrameStored(c)'
      BY <1>1, <3>2, FrameStays, Zenon DEF CallOK
    <3> QED
      BY <1>1, <2>2, <3>2, <3>3, <3>4, <3>5, <3>6, Zenon DEF CallOK
  <2> QED
    BY <2>1, <2>2, Zenon
<1> QED
  BY <1>2, <1>3, <1>4, LowStays, DoneStays, DispatchParts, Zenon

\* PendingEvents is the oldest unmarked rows, and all of them when it is short
\* of BatchSize.
LEMMA PendingIs ==
  ASSUME OutboxInv
  PROVE  /\ PendingEvents \subseteq Durable \ marked /\ Durable \subseteq Nat
         /\ \A c \in PendingEvents : \A d \in Durable \ marked : d < c => d \in PendingEvents
         /\ Cardinality(PendingEvents) < BatchSize => PendingEvents = Durable \ marked
<1> DEFINE todo == Durable \ marked
           Below(c) == {d \in todo : d < c}
<1>1. Durable \subseteq Nat /\ IsFiniteSet(todo) /\ BatchSize \in Nat
  <2>1. Durable \subseteq 1..Len(rows) /\ Len(rows) \in Nat
    BY SMT, SMTT(30) DEF OutboxInv, Durable, Cursors
  <2>2. IsFiniteSet(1..Len(rows))
    BY <2>1, FS_Interval, SMT, SMTT(30)
  <2>3. IsFiniteSet(todo)
    <3>1. todo \in SUBSET (1..Len(rows))
      BY <2>1, Zenon
    <3> QED
      BY <2>2, <3>1, FS_Subset, Zenon
  <2> QED
    BY <2>1, <2>3, DeliveryAssumption, SMTT(20), SMTT(30)
<1>2. PendingEvents = {c \in todo : Cardinality(Below(c)) < BatchSize}
  BY Zenon DEF PendingEvents
<1>3. \A S \in SUBSET todo : IsFiniteSet(S) /\ Cardinality(S) \in Nat
  BY <1>1, FS_Subset, FS_CardinalityType, Zenon
<1>4. \A S, T \in SUBSET todo : S \subseteq T => Cardinality(S) <= Cardinality(T)
  BY <1>3, FS_Subset, Zenon
<1>5. ASSUME NEW c \in PendingEvents, NEW d \in todo, d < c PROVE d \in PendingEvents
  <2>0. c \in Nat /\ d \in Nat /\ todo \subseteq Nat
    BY <1>1, <1>2, <1>5, Zenon
  <2>1. Below(d) \subseteq Below(c) /\ Below(c) \subseteq todo /\ Below(d) \subseteq todo
    <3>1. \A e \in todo : e < d => e < c
      BY <1>5, <2>0, SMT, SMTT(30)
    <3> QED
      BY <3>1, Zenon
  <2>2. Cardinality(Below(d)) <= Cardinality(Below(c)) /\ Cardinality(Below(c)) < BatchSize
    BY <1>2, <1>4, <2>1, Zenon
  <2>3. Cardinality(Below(d)) \in Nat /\ Cardinality(Below(c)) \in Nat
    BY <1>3, <2>1, Zenon
  <2>4. Cardinality(Below(d)) < BatchSize
    BY <1>1, <2>2, <2>3, SMT, SMTT(30)
  <2> QED
    BY <1>2, <2>4, Zenon
<1>6. ASSUME Cardinality(PendingEvents) < BatchSize, PendingEvents # todo PROVE FALSE
  <2> DEFINE rest == todo \ PendingEvents
  <2>1. rest \in SUBSET Nat /\ rest # {}
    BY <1>1, <1>2, <1>6, Zenon
  <2>2. PICK c \in rest : \A d \in rest : c <= d
    BY <2>1, LeastNatural, Zenon
  <2>3. Below(c) \subseteq PendingEvents /\ PendingEvents \subseteq todo /\ Below(c) \subseteq todo
    <3>1. ASSUME NEW d \in Below(c) PROVE d \in PendingEvents
      <4>1. d \in Nat /\ c \in Nat /\ d < c /\ d \in todo
        BY <1>1, <2>2, <3>1, Zenon
      <4>2. d \notin rest
        BY <2>2, <4>1, SMT, SMTT(30)
      <4> QED
        BY <4>1, <4>2, Zenon
    <3> QED
      BY <1>2, <3>1, Zenon
  <2>4. Cardinality(Below(c)) <= Cardinality(PendingEvents)
    BY <1>4, <2>3, Zenon
  <2>5. Cardinality(Below(c)) \in Nat /\ Cardinality(PendingEvents) \in Nat
    BY <1>3, <2>3, Zenon
  <2>6. Cardinality(Below(c)) < BatchSize
    BY <1>1, <1>6, <2>4, <2>5, SMT, SMTT(30)
  <2> QED
    BY <1>2, <2>2, <2>6, Zenon
<1> QED
  BY <1>1, <1>2, <1>5, <1>6, Zenon

\* Flush turns to the row at the head of todo: a point goes to the hub only.
LEMMA TurnsTo ==
  ASSUME NEW c, c = Min(disp'.todo), disp'.pc = FirstCall(c), UNCHANGED <<rows>>,
         rows[c] \in OutboxRow, disp'.todo # {}, disp'.todo \subseteq disp'.batch
  PROVE  CallOK'
<1>1. PICK s, n : s = rows'[c].series /\ n = rows'[c].bar
  BY Zenon
<1>2. Row' = rows'[c] /\ (FrameStored(Min(disp.todo))' <=> FrameStored(c)')
      /\ (FrameStored(c)' <=> (rows'[c].kind = "frame" => <<s, n>> \in facts' /\ OnEval(s, n)'))
  BY <1>1, NextRow, Zenon
<1>3. CASE rows[c].kind = "frame"
  BY <1>2, <1>3, Zenon DEF CallOK, FirstCall
<1>4. CASE rows[c].kind # "frame"
  BY <1>2, <1>4, Zenon DEF CallOK, FirstCall
<1> QED
  BY <1>3, <1>4, Zenon

\* PendingEvents answers with a batch.
LEMMA LoadKeeps ==
  ASSUME OutboxInv, RowsInv, DispatchInv, StreamInv, Load
  PROVE  DispatchInv'
<1>1. UNCHANGED <<rows, marked, hub, facts>> /\ [Next]_vars /\ Durable' = Durable
  BY Zenon DEF Load, outbox, broker, Next, Dispatch, Durable, Cursors
<1>2. CASE PendingEvents = {} /\ UNCHANGED disp
  BY <1>1, <1>2, OthersKeepDispatch, Zenon
<1>3. CASE FlushFails
  BY <1>1, <1>3, WaitingKeeps, Zenon DEF FlushFails
<1>4. CASE PendingEvents # {} /\ disp' = [pc |-> FirstCall(Min(PendingEvents)),
                                         batch |-> PendingEvents, todo |-> PendingEvents]
  <2>1. /\ PendingEvents \subseteq Durable \ marked /\ Durable \subseteq Nat
        /\ \A c \in PendingEvents : \A d \in Durable \ marked : d < c => d \in PendingEvents
    BY PendingIs, Zenon
  <2>2. PICK c : c = Min(PendingEvents) /\ c \in PendingEvents
    BY <1>4, <2>1, MinIs, Zenon
  <2>3. disp'.pc = FirstCall(c) /\ disp'.batch = PendingEvents /\ disp'.todo = PendingEvents
    BY <1>4, <2>2, Zenon
  <2>4. rows[c] \in OutboxRow
    BY <2>1, <2>2, SMT, SMTT(30) DEF OutboxInv, Durable, Cursors
  <2>5. CallOK'
    BY <1>1, <1>4, <2>2, <2>3, <2>4, TurnsTo, Zenon
  <2>6. FirstCall(c) \in {"eval", "hub"}
    BY Zenon DEF FirstCall
  <2>7. BatchTypes' /\ DoneOK' /\ LowOK'
    BY <1>1, <1>4, <2>1, <2>2, <2>3, <2>6, DoneStays, Zenon DEF BatchTypes, DoneOK, LowOK
  <2> QED
    BY <1>1, <2>5, <2>7, DoneStays, DispatchParts, Zenon
<1> QED
  BY <1>2, <1>3, <1>4, Zenon DEF Load

\* JetStream.Publish, first stream.
LEMMA PublishEvalKeeps ==
  ASSUME OutboxInv, RowsInv, DispatchInv, StreamInv, PublishEval
  PROVE  DispatchInv'
<1>1. /\ UNCHANGED <<rows, trades, marked, hub, facts>> /\ [Next]_vars /\ Durable' = Durable
      /\ disp.pc = "eval"
  BY Zenon DEF PublishEval, outbox, broker, Next, Dispatch, Durable, Cursors
<1>2. CASE FlushFails
  BY <1>1, <1>2, WaitingKeeps, Zenon DEF FlushFails
<1>3. CASE StoreEval(Row.series, Confirmed(Row.series, Row.bar)) /\ disp' = [disp EXCEPT !.pc = "facts"]
  <2>1. BatchTypes /\ CallOK /\ DoneOK /\ LowOK
    BY DispatchParts, Zenon
  <2>2. /\ disp'.pc = "facts" /\ disp'.batch = disp.batch /\ disp'.todo = disp.todo /\ BatchTypes'
        /\ disp.todo # {} /\ Row.kind = "frame"
    BY <1>1, <1>3, <2>1, DoneStays, Zenon DEF BatchTypes, CallOK
  <2>3. PICK c, s, n : c = Min(disp'.todo) /\ s = rows'[c].series /\ n = rows'[c].bar
    BY Zenon
  <2>4. s = Row.series /\ n = Row.bar /\ s \in Series /\ n \in 1..(MaxBars + 1)
    BY <1>1, <2>2, <2>3, RowFacts, DeliveryAssumption, SMT, SMTT(30) DEF Row
  <2>5. OnEval(s, n)'
    BY <1>1, <1>3, <2>4, StoredOrThere, Zenon
  <2>6. CallOK'
    BY <1>1, <2>1, <2>2, <2>3, <2>5, NextRow, Zenon DEF CallOK, Row
  <2>7. DoneOK'
    <3>1. \A d \in disp.batch \ disp.todo : FrameStored(d)'
      BY <1>1, <2>1, FrameStays, Zenon DEF BatchTypes, DoneOK
    <3> QED
      BY <1>1, <2>1, <2>2, <3>1, Zenon DEF DoneOK
  <2> QED
    BY <1>1, <2>2, <2>6, <2>7, LowStays, DoneStays, DispatchParts, Zenon
<1> QED
  BY <1>2, <1>3, Zenon DEF PublishEval

\* JetStream.Publish, second stream.
LEMMA PublishFactKeeps ==
  ASSUME OutboxInv, RowsInv, DispatchInv, StreamInv, PublishFact
  PROVE  DispatchInv'
<1>1. /\ UNCHANGED <<rows, trades, marked, hub, eval>> /\ [Next]_vars /\ Durable' = Durable
      /\ disp.pc = "facts"
  BY Zenon DEF PublishFact, outbox, broker, Next, Dispatch, Durable, Cursors
<1>2. CASE FlushFails
  BY <1>1, <1>2, WaitingKeeps, Zenon DEF FlushFails
<1>3. CASE StoreFact(Row.series, Row.bar) /\ disp' = [disp EXCEPT !.pc = "hub"]
  <2>1. BatchTypes /\ CallOK /\ DoneOK /\ LowOK
    BY DispatchParts, Zenon
  <2>2. /\ disp'.pc = "hub" /\ disp'.batch = disp.batch /\ disp'.todo = disp.todo /\ BatchTypes'
        /\ disp.todo # {} /\ OnEval(Row.series, Row.bar)
    BY <1>1, <1>3, <2>1, DoneStays, Zenon DEF BatchTypes, CallOK
  <2>3. PICK c, s, n : c = Min(disp'.todo) /\ s = rows'[c].series /\ n = rows'[c].bar
    BY Zenon
  <2>4. s = Row.series /\ n = Row.bar
    BY <1>1, <2>2, <2>3, Zenon DEF Row
  <2>5. <<s, n>> \in facts' /\ OnEval(s, n)'
    BY <1>1, <1>3, <2>2, <2>4, Zenon DEF StoreFact, OnEval, Confirmed
  <2>6. CallOK'
    BY <2>1, <2>2, <2>3, <2>5, NextRow, Zenon DEF CallOK
  <2>7. DoneOK'
    <3>1. \A d \in disp.batch \ disp.todo : FrameStored(d)'
      BY <1>1, <2>1, FrameStays, Zenon DEF BatchTypes, DoneOK
    <3> QED
      BY <1>1, <2>1, <2>2, <3>1, Zenon DEF DoneOK
  <2> QED
    BY <1>1, <2>2, <2>6, <2>7, LowStays, DoneStays, DispatchParts, Zenon
<1> QED
  BY <1>2, <1>3, Zenon DEF PublishFact

\* Hub.Publish and the next row of the loop.
LEMMA PublishHubKeeps ==
  ASSUME OutboxInv, RowsInv, DispatchInv, StreamInv, PublishHub
  PROVE  DispatchInv'
<1> DEFINE rest == disp.todo \ {Min(disp.todo)}
<1>1. /\ UNCHANGED <<rows, trades, marked, eval, facts>> /\ [Next]_vars /\ Durable' = Durable
      /\ disp.pc = "hub" /\ hub' = hub \cup {Min(disp.todo)}
      /\ disp' = [disp EXCEPT !.todo = rest, !.pc = IF rest = {} THEN "mark" ELSE FirstCall(Min(rest))]
  BY Zenon DEF PublishHub, outbox, broker, Next, Dispatch, Durable, Cursors
<1>2. /\ BatchTypes /\ CallOK /\ DoneOK /\ LowOK /\ CompletedRowsAreStored /\ NothingSkipped
      /\ disp.todo # {} /\ FrameStored(Min(disp.todo)) /\ Durable \subseteq Nat
  BY <1>1, DispatchParts, DurableGrows, Zenon DEF CallOK
<1>3. PICK c : c = Min(disp.todo) /\ c \in disp.todo /\ c \in Durable /\ \A d \in disp.todo : c <= d
  BY <1>2, RowFacts, Zenon
<1>4. /\ disp'.batch = disp.batch /\ disp'.todo = rest /\ rest \subseteq disp.todo /\ c \notin rest
      /\ disp'.pc = (IF rest = {} THEN "mark" ELSE FirstCall(Min(rest)))
      /\ disp'.pc \in {"mark", "eval", "hub"}
  BY <1>1, <1>2, <1>3, Zenon DEF BatchTypes, FirstCall
<1>5. hub' \subseteq Durable' /\ marked' \subseteq Durable'
  BY <1>1, <1>2, <1>3, Zenon DEF BatchTypes
<1>6. BatchTypes'
  BY <1>1, <1>2, <1>4, <1>5, Zenon DEF BatchTypes
<1>7. CallOK'
  <2>1. CASE rest = {}
    BY <1>2, <1>4, <2>1, Zenon DEF CallOK
  <2>2. CASE rest # {}
    <3>1. rest \in SUBSET Nat /\ rest \subseteq Durable /\ rest \subseteq disp.batch
      BY <1>2, <1>4, Zenon DEF BatchTypes, CallOK
    <3> HIDE DEF rest
    <3>2. PICK d : d = Min(rest) /\ d \in rest
      BY <2>2, <3>1, MinIs, Zenon
    <3>3. rows[d] \in OutboxRow
      BY <3>1, <3>2, SMT, SMTT(30) DEF OutboxInv, Durable, Cursors
    <3> QED
      BY <1>1, <1>4, <2>2, <3>1, <3>2, <3>3, TurnsTo, Zenon
  <2> QED
    BY <2>1, <2>2, Zenon
<1>8. DoneOK'
  <2>1. \A d \in disp.batch \ rest : d \in disp.batch \ disp.todo \/ d = c
    BY <1>3, Zenon
  <2>2. \A d \in disp.batch \ rest : d \in hub' /\ d \in Durable /\ FrameStored(d)
    BY <1>1, <1>2, <1>3, <2>1, Zenon DEF DoneOK, BatchTypes
  <2>3. \A d \in disp.batch \ rest : FrameStored(d)'
    BY <1>1, <2>2, FrameStays, Zenon
  <2>4. \A d \in disp.batch \ rest, e \in rest : d < e
    <3>1. \A e \in rest : c < e
      BY <1>2, <1>3, SMT, SMTT(30) DEF BatchTypes
    <3> QED
      BY <1>2, <2>1, <3>1, Zenon DEF DoneOK
  <2> QED
    BY <1>4, <2>2, <2>3, <2>4, Zenon DEF DoneOK
<1>9. CompletedRowsAreStored'
  <2>1. \A d \in marked : FrameStored(d)'
    BY <1>1, <1>2, FrameStays, Zenon DEF CompletedRowsAreStored, BatchTypes
  <2> QED
    BY <1>1, <2>1, Zenon DEF CompletedRowsAreStored
<1>10. NothingSkipped'
  <2>1. ASSUME NEW d \in Durable, d < c PROVE d \in hub \cup marked
    <3>1. d \in disp.batch \cup marked
      BY <1>2, <1>3, <2>1, Zenon DEF LowOK, CallOK
    <3>2. d \notin disp.todo
      BY <1>2, <1>3, <2>1, SMT, SMTT(30)
    <3> QED
      BY <1>2, <3>1, <3>2, Zenon DEF DoneOK
  <2> QED
    BY <1>1, <1>2, <1>3, <2>1, Zenon DEF NothingSkipped
<1> QED
  BY <1>1, <1>4, <1>6, <1>7, <1>8, <1>9, <1>10, LowStays, DispatchParts, Zenon

\* Every step keeps the dispatcher's invariant.
LEMMA DispatchStep ==
  ASSUME OutboxInv, RowsInv, DispatchInv, StreamInv, [Next]_vars
  PROVE  DispatchInv'
<1>1. CASE Dispatch
  <2>1. CASE Mark
    <3>1. /\ disp' = Waiting /\ hub' = hub /\ disp.pc = "mark"
          /\ marked' = marked \/ marked' = marked \cup disp.batch
      BY <2>1, Zenon DEF Mark, FlushFails
    <3> QED
      BY <3>1, WaitingKeeps, Zenon
  <2> QED
    BY <1>1, <2>1, LoadKeeps, PublishEvalKeeps, PublishFactKeeps, PublishHubKeeps, Zenon DEF Dispatch
<1>2. CASE (\E s \in Series : LaneStep(s)) \/ ForgetIds \/ UNCHANGED vars
  <2>1. UNCHANGED <<disp, marked, hub, facts>>
    BY <1>2, Zenon DEF LaneStep, Begin, Commit, Forming, PublishLive, ForgetIds, vars, outbox, broker
  <2> QED
    BY <2>1, OthersKeepDispatch, Zenon
<1>3. CASE Start
  <2>1. UNCHANGED <<disp, marked>> /\ hub' = {} /\ proc = "off"
    BY <1>3, Zenon DEF Start, outbox
  <2>2. disp = Waiting
    BY <2>1, DispatchParts, RowsInvParts, Zenon DEF ProcessOK, CallOK
  <2> QED
    BY <2>1, <2>2, WaitingKeeps, Zenon
<1>4. CASE Crash
  <2>1. disp' = Waiting /\ hub' = {} /\ marked' = marked
    BY <1>4, Zenon DEF Crash
  <2> QED
    BY <2>1, WaitingKeeps, Zenon
<1> QED
  BY <1>1, <1>2, <1>3, <1>4, Zenon DEF Next

\* The invariants of streams and dispatcher hold together: what a stream
\* stores depends on the rows Flush reads, and what Flush has done on the streams.
THEOREM DeliveryInvariant == Spec => [](StreamInv /\ DispatchInv)
<1>1. Init => StreamInv /\ DispatchInv
  BY InitStream, InitDispatch, Zenon
<1>2. OutboxInv /\ RowsInv /\ StreamInv /\ DispatchInv /\ [Next]_vars => (StreamInv /\ DispatchInv)'
  BY StreamStep, DispatchStep, Zenon
<1> QED
  BY <1>1, <1>2, OutboxInvariant, RowsInvariant, PTL DEF Spec

\* The frame of a complete row stays in both streams of the broker.
THEOREM CompletedRowsStored == Spec => []CompletedRowsAreStored
<1>1. StreamInv /\ DispatchInv => CompletedRowsAreStored
  BY Zenon DEF DispatchInv
<1> QED
  BY <1>1, DeliveryInvariant, PTL

\* A row is marked only after the broker stored its frame in both streams and
\* this process handed it to the hub, whatever failed or was cut short (Flush).
THEOREM CompletedRowsDelivered == Spec => CompletedRowsAreDelivered
<1> DEFINE Delivered == \A c \in marked' \ marked : FrameStored(c) /\ c \in hub
<1>1. ASSUME DispatchInv, Next PROVE Delivered
  <2>1. CASE Mark
    <3>1. disp.pc = "mark" /\ marked' \subseteq marked \cup disp.batch
      BY <2>1, Zenon DEF Mark
    <3>2. disp.todo = {} /\ DoneOK
      BY <1>1, <3>1, DispatchParts, Zenon DEF CallOK
    <3> QED
      BY <3>1, <3>2, Zenon DEF DoneOK
  <2>2. CASE ~Mark
    <3>1. marked' = marked
      BY <1>1, <2>2, Zenon DEF Next, LaneStep, Begin, Commit, Forming, PublishLive, Dispatch,
         Load, PublishEval, PublishFact, PublishHub, ForgetIds, Start, Crash, FlushFails, outbox
    <3> QED
      BY <3>1, Zenon
  <2> QED
    BY <2>1, <2>2, Zenon
<1>2. StreamInv /\ DispatchInv /\ [Next]_vars => [Delivered]_vars
  BY <1>1, Zenon
<1> QED
  BY <1>2, DeliveryInvariant, PTL DEF Spec, CompletedRowsAreDelivered

\* Hub and facts stream receive the rows in cursor order without a hole.
THEOREM NoRowSkipped == Spec => []NothingSkipped
<1>1. StreamInv /\ DispatchInv => NothingSkipped
  BY Zenon DEF DispatchInv
<1> QED
  BY <1>1, DeliveryInvariant, PTL

=============================================================================
