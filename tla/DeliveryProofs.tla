--------------------------- MODULE DeliveryProofs ---------------------------
(***************************************************************************)
(* Proofs about Delivery, for any number of lanes, bars, failures and      *)
(* crashes: OutboxInv is an inductive invariant, and with it the rows of   *)
(* the outbox become visible in cursor order; RowsInv says where the       *)
(* frames of a series and its lane stand.                                  *)
(***************************************************************************)
EXTENDS Delivery, WellFoundedInduction, TLAPS

-----------------------------------------------------------------------------
(* Least and greatest elements of sets of bars and cursors.                *)

\* Every non-empty set of naturals has a least element.
LEMMA LeastNatural ==
  ASSUME NEW T \in SUBSET Nat, T # {}
  PROVE  \E x \in T : \A y \in T : x <= y
<1> DEFINE Smaller == {ss \in Nat \X Nat : ss[1] < ss[2]}
<1>1. IsWellFoundedOn(Smaller, Nat)
  BY NatLessThanWellFounded DEF OpToRel
<1>2. \E x \in T : \A y \in T : ~(<<y, x>> \in Smaller)
  <2> HIDE DEF Smaller
  <2> QED
    BY <1>1, WFMin, Zenon
<1>3. \A x, y \in T : ~(<<y, x>> \in Smaller) => x <= y
  OBVIOUS
<1> QED
  BY <1>2, <1>3, Zenon

\* Every non-empty bounded set of naturals has a greatest element.
LEMMA GreatestNatural ==
  ASSUME NEW T \in SUBSET Nat, T # {}, NEW n \in Nat, \A x \in T : x <= n
  PROVE  \E x \in T : \A y \in T : y <= x
<1> DEFINE U == {n - x : x \in T}
<1>1. U \in SUBSET Nat /\ U # {}
  <2>1. \A x \in T : x \in Nat /\ n - x \in Nat
    OBVIOUS
  <2> QED
    BY <2>1, Zenon
<1>2. PICK u \in U : \A v \in U : u <= v
  BY <1>1, LeastNatural, Zenon
<1>3. PICK x \in T : u = n - x
  BY <1>2
<1>4. \A y \in T : n - x <= n - y
  BY <1>2, <1>3
<1> QED
  BY <1>3, <1>4

-----------------------------------------------------------------------------
(* The outbox.                                                             *)

\* OutboxInv in three parts: types, the lanes, the rows.
Types ==
  /\ lock \in Series \cup {None} /\ rows \in Seq(OutboxRow)
  /\ lanes \in [Series -> LaneState]
  /\ trades \in [Series -> [1..(MaxBars + 1) -> Nat]]

LaneOK(s) ==
  /\ lanes[s].pc = "tx" => lock = s /\ lanes[s].last < MaxBars
  /\ lanes[s].pc = "live" =>
       /\ lanes[s].out \in Messages
       /\ lanes[s].out.kind = "confirmed" => lanes[s].out.bar \in 1..MaxBars

OpenRowsAreLast ==
  \A c \in Cursors : rows[c].state = "open" =>
    /\ rows[c].series = lock
    /\ \A d \in Cursors : rows[d].state # "open" => d < c

\* The inductive invariant of the outbox (CommitClosed, its lock) is these parts.
LEMMA OutboxInvParts ==
  /\ OutboxInv <=> Types /\ (\A s \in Series : LaneOK(s)) /\ OpenRowsAreLast
  /\ OutboxInv' <=> Types' /\ (\A s \in Series : LaneOK(s)') /\ OpenRowsAreLast'
BY DEF OutboxInv, Types, LaneOK, OpenRowsAreLast

\* Where the elements of a concatenation come from.
LEMMA Concatenated ==
  ASSUME NEW S, NEW s \in Seq(S), NEW t \in Seq(S)
  PROVE  /\ s \o t \in Seq(S) /\ Len(s \o t) = Len(s) + Len(t)
         /\ Len(s) \in Nat /\ Len(t) \in Nat
         /\ \A i \in 1..Len(s) : (s \o t)[i] = s[i]
         /\ \A i \in 1..Len(t) : (s \o t)[Len(s) + i] = t[i]
<1>1. Len(s) \in Nat /\ Len(t) \in Nat
  OBVIOUS
<1>2. s \o t \in Seq(S) /\ Len(s \o t) = Len(s) + Len(t)
  OBVIOUS
<1>3. \A i \in 1..Len(s) : (s \o t)[i] = s[i]
  BY <1>1
<1>4. \A i \in 1..Len(t) : (s \o t)[Len(s) + i] = t[i]
  BY <1>1
<1> QED
  BY <1>1, <1>2, <1>3, <1>4

\* A pair of elements is a sequence.
LEMMA Pair ==
  ASSUME NEW S, NEW a \in S, NEW b \in S
  PROVE  <<a, b>> \in Seq(S) /\ Len(<<a, b>>) = 2
OBVIOUS

\* Ending transactions changes the state of open rows and nothing else.
LEMMA EndedRows ==
  ASSUME rows \in Seq(OutboxRow), NEW S, NEW state \in {"durable", "gone"}
  PROVE  /\ Ended(S, state) \in Seq(OutboxRow)
         /\ DOMAIN Ended(S, state) = Cursors
         /\ \A c \in Cursors :
              /\ Ended(S, state)[c].series = rows[c].series
              /\ Ended(S, state)[c].bar = rows[c].bar /\ Ended(S, state)[c].kind = rows[c].kind
              /\ Ended(S, state)[c].state =
                   IF rows[c].series \in S /\ rows[c].state = "open" THEN state ELSE rows[c].state
<1>1. Cursors = 1..Len(rows) /\ Len(rows) \in Nat /\ \A c \in Cursors : rows[c] \in OutboxRow
  BY DEF Cursors
<1>2. \A c \in Cursors : [rows[c] EXCEPT !.state = state] \in OutboxRow
  BY <1>1 DEF OutboxRow
<1>3. Ended(S, state) \in [1..Len(rows) -> OutboxRow]
  BY <1>1, <1>2 DEF Ended
<1> QED
  BY <1>1, <1>3 DEF Ended, OutboxRow

\* Init has no rows and no transaction.
LEMMA InitOutbox == Init => OutboxInv
BY DeliveryAssumption DEF Init, OutboxInv, Lane, LaneState, Cursors

\* The bar a lane restores is one of the bars there may be.
LEMMA DurableBarType ==
  ASSUME rows \in Seq(OutboxRow), NEW s
  PROVE  DurableBar(s) \in 0..MaxBars
<1> DEFINE mine == {rows[c].bar : c \in {d \in Durable : rows[d].series = s}}
<1>0. \A c \in Durable : rows[c].bar \in 1..MaxBars
  <2>1. \A c \in Durable : rows[c] \in OutboxRow
    BY DEF Durable, Cursors
  <2> QED
    BY <2>1 DEF OutboxRow
<1>1. mine \subseteq 1..MaxBars /\ MaxBars \in Nat
  BY <1>0, DeliveryAssumption
<1>2. CASE mine = {}
  BY <1>1, <1>2 DEF DurableBar
<1>3. CASE mine # {}
  <2> HIDE DEF mine
  <2>0. mine \in SUBSET Nat /\ \A m \in mine : m <= MaxBars
    BY <1>1
  <2>1. \E n \in mine : \A m \in mine : m <= n
    BY <1>1, <1>3, <2>0, GreatestNatural, Zenon
  <2>2. (CHOOSE n \in mine : \A m \in mine : m <= n) \in mine
    BY <2>1
  <2>3. DurableBar(s) = CHOOSE n \in mine : \A m \in mine : m <= n
    BY <1>3, Zenon DEF DurableBar, mine
  <2>4. DurableBar(s) \in 1..MaxBars
    BY <1>1, <2>2, <2>3, Zenon
  <2> QED
    BY <1>1, <2>4
<1> QED
  BY <1>2, <1>3, Zenon

-----------------------------------------------------------------------------
(* The actions.                                                            *)

\* Steps that leave table, lock and lanes alone.
LEMMA OthersKeep ==
  ASSUME OutboxInv, UNCHANGED <<lock, rows, lanes, trades>>
  PROVE  OutboxInv'
BY DEF OutboxInv, Cursors

\* CommitClosed draws its cursors while it holds the lock, above all others.
LEMMA BeginKeeps ==
  ASSUME OutboxInv, NEW s \in Series, Begin(s)
  PROVE  OutboxInv'
<1> DEFINE n == lanes[s].last + 1
<1>1. /\ Types /\ OpenRowsAreLast /\ (\A r \in Series : LaneOK(r)) /\ lock = None
      /\ None \notin Series /\ MaxBars \in Nat
  BY OutboxInvParts, DeliveryAssumption DEF Begin, OutboxFree
<1>2. lanes[s] \in LaneState /\ n \in 1..MaxBars
  BY <1>1 DEF Begin, Types, LaneState
<1>3. \A c \in Cursors : rows[c].state # "open"
  <2>1. \A c \in Cursors : rows[c] \in OutboxRow
    BY <1>1 DEF Types, Cursors
  <2> QED
    BY <1>1, <2>1 DEF OpenRowsAreLast, OutboxRow
<1>4. CASE DurableBar(s) = n
  <2>1. UNCHANGED <<lock, rows, trades>> /\ lanes' = [lanes EXCEPT ![s] = Lane("idle", n, None, None)]
    BY <1>4 DEF Begin
  <2>2. Lane("idle", n, None, None) \in LaneState /\ Lane("idle", n, None, None).pc = "idle"
    BY <1>2 DEF Lane, LaneState
  <2>3. Types' /\ \A r \in Series : LaneOK(r)'
    BY <1>1, <2>1, <2>2 DEF Types, LaneOK
  <2>4. OpenRowsAreLast'
    BY <1>1, <2>1 DEF OpenRowsAreLast, Cursors
  <2> QED
    BY <2>3, <2>4, OutboxInvParts
<1>5. CASE DurableBar(s) # n
  <2>1. /\ lanes' = [lanes EXCEPT ![s].pc = "tx"] /\ lock' = s
        /\ rows' = rows \o NewRows(s, n) /\ trades' = trades
    BY <1>5 DEF Begin
  <2>2. NewRows(s, n) \in Seq(OutboxRow) /\ Len(NewRows(s, n)) = 2
    <3> DEFINE row(kind) == [series |-> s, bar |-> n, state |-> "open", kind |-> kind]
    <3>1. row("point") \in OutboxRow /\ row("frame") \in OutboxRow
      BY <1>2 DEF OutboxRow
    <3>2. NewRows(s, n) = <<row("point"), row("frame")>>
      BY DEF NewRows
    <3>3. PICK a, b : a = row("point") /\ b = row("frame")
      BY Zenon
    <3> HIDE DEF row
    <3>4. a \in OutboxRow /\ b \in OutboxRow /\ NewRows(s, n) = <<a, b>>
      BY <3>1, <3>2, <3>3
    <3> QED
      BY <3>4, Pair, Zenon
  <2>3. \A i \in 1..2 : NewRows(s, n)[i].series = s
    BY DEF NewRows
  <2>4. /\ rows' \in Seq(OutboxRow) /\ Cursors' = 1..(Len(rows) + 2) /\ Cursors = 1..Len(rows)
        /\ Len(rows) \in Nat
        /\ \A c \in Cursors : rows'[c] = rows[c]
        /\ \A c \in Cursors' \ Cursors : rows'[c].series = s
    <3> DEFINE new == NewRows(s, n)
    <3>1. rows \in Seq(OutboxRow) /\ new \in Seq(OutboxRow)
      BY <1>1, <2>2 DEF Types
    <3>2. rows' = rows \o new /\ Len(new) = 2 /\ \A i \in 1..2 : new[i].series = s
      BY <2>1, <2>2, <2>3
    <3> HIDE DEF new
    <3>3. /\ rows' \in Seq(OutboxRow) /\ Len(rows') = Len(rows) + 2 /\ Len(rows) \in Nat
          /\ \A i \in 1..Len(rows) : rows'[i] = rows[i]
          /\ \A i \in 1..2 : rows'[Len(rows) + i] = new[i]
      <4>1. /\ rows \o new \in Seq(OutboxRow) /\ Len(rows \o new) = Len(rows) + Len(new)
            /\ Len(rows) \in Nat
            /\ \A i \in 1..Len(rows) : (rows \o new)[i] = rows[i]
            /\ \A i \in 1..Len(new) : (rows \o new)[Len(rows) + i] = new[i]
        BY ONLY <3>1, Concatenated
      <4> QED
        BY <3>2, <4>1, Zenon
    <3>4. Cursors' = 1..(Len(rows) + 2) /\ Cursors = 1..Len(rows)
      BY <3>1, <3>3 DEF Cursors
    <3>5. ASSUME NEW c \in Cursors' \ Cursors PROVE rows'[c].series = s
      <4>1. PICK i \in 1..2 : c = Len(rows) + i
        BY <3>3, <3>4
      <4> QED
        BY <3>2, <3>3, <4>1
    <3> QED
      BY <3>3, <3>4, <3>5
  <2>5. Types'
    BY <1>1, <1>2, <2>1, <2>4, Zenon DEF Types, LaneState
  <2>6. \A r \in Series : LaneOK(r)'
    <3>1. \A r \in Series : r # s => lanes'[r] = lanes[r] /\ lanes[r].pc # "tx"
      BY <1>1, <2>1 DEF LaneOK, Types
    <3>2. lanes'[s].pc = "tx" /\ lanes'[s].last = lanes[s].last
      BY <1>1, <1>2, <2>1 DEF Types, LaneState
    <3>3. lanes[s].last < MaxBars
      BY <1>1, <1>2 DEF LaneState
    <3> QED
      BY <1>1, <2>1, <3>1, <3>2, <3>3 DEF LaneOK
  <2>7. OpenRowsAreLast'
    <3>1. ASSUME NEW c \in Cursors', rows'[c].state = "open"
          PROVE  /\ rows'[c].series = lock'
                 /\ \A d \in Cursors' : rows'[d].state # "open" => d < c
      <4>1. c \in Cursors' \ Cursors /\ rows'[c].series = s
        BY <1>3, <2>4, <3>1
      <4>2. \A d \in Cursors' \ Cursors : rows'[d].state = "open"
        BY <1>1, <2>1, <2>2, <2>4 DEF Types, NewRows, Cursors
      <4>3. c > Len(rows) /\ c \in Nat
        BY <2>4, <4>1
      <4>4. ASSUME NEW d \in Cursors', rows'[d].state # "open" PROVE d <= Len(rows) /\ d \in Nat
        BY <2>4, <4>2, <4>4
      <4>5. ASSUME NEW d \in Cursors', rows'[d].state # "open" PROVE d < c
        BY <2>4, <4>3, <4>4, <4>5
      <4> QED
        BY <2>1, <4>1, <4>5, Zenon
    <3> QED
      BY <3>1 DEF OpenRowsAreLast
  <2> QED
    BY <2>5, <2>6, <2>7, OutboxInvParts
<1> QED
  BY <1>4, <1>5

\* No row is visible because it was inserted.
LEMMA BeginDurable ==
  ASSUME OutboxInv, NEW s \in Series, Begin(s)
  PROVE  \A c \in Durable' : c \in Durable
<1> DEFINE new == NewRows(s, lanes[s].last + 1)
<1>1. rows \in Seq(OutboxRow)
  BY DEF OutboxInv
<1>2. CASE rows' = rows
  BY <1>2 DEF Durable, Cursors
<1>3. CASE rows' = rows \o new
  <2>1. new = [i \in 1..2 |-> new[i]] /\ \A i \in 1..2 : new[i].state = "open"
    BY DEF NewRows
  <2> HIDE DEF new
  <2>2. OutboxInv'
    BY BeginKeeps
  <2> QED
    BY <1>1, <1>3, <2>1 DEF Durable, Cursors
<1> QED
  BY <1>2, <1>3 DEF Begin

\* The transactions of a set of series that includes the lock's holder end.
LEMMA EndKeepsRows ==
  ASSUME OutboxInv, NEW S, NEW state \in {"durable", "gone"}, lock \in S \cup {None},
         rows' = Ended(S, state), lock' = None
  PROVE  /\ rows' \in Seq(OutboxRow) /\ OpenRowsAreLast'
         /\ \A c \in Durable' \ Durable : \A d \in Durable : d < c
<1>1. Types /\ OpenRowsAreLast /\ None \notin Series
  BY OutboxInvParts, DeliveryAssumption
<1>2. /\ rows' \in Seq(OutboxRow) /\ Cursors' = Cursors
      /\ \A c \in Cursors :
           /\ rows'[c].series = rows[c].series
           /\ rows'[c].state =
                IF rows[c].series \in S /\ rows[c].state = "open" THEN state ELSE rows[c].state
  BY <1>1, EndedRows DEF Types, Cursors
<1>3. \A c \in Cursors : rows[c].state = "open" => rows[c].series \in S
  <2>1. \A c \in Cursors : rows[c] \in OutboxRow
    BY <1>1 DEF Types, Cursors
  <2>2. \A c \in Cursors : rows[c].series # None
    BY <1>1, <2>1 DEF OutboxRow
  <2> QED
    BY <1>1, <2>2 DEF OpenRowsAreLast
<1>4. \A c \in Cursors' : rows'[c].state # "open"
  BY <1>2, <1>3
<1>5. ASSUME NEW c \in Durable' \ Durable, NEW d \in Durable PROVE d < c
  <2>1. c \in Cursors /\ rows[c].state = "open" /\ d \in Cursors /\ rows[d].state # "open"
    BY <1>2, <1>5 DEF Durable
  <2> QED
    BY <1>1, <2>1 DEF OpenRowsAreLast
<1> QED
  BY <1>2, <1>4, <1>5 DEF OpenRowsAreLast

\* The COMMIT of a lane succeeds, fails or fails to tell.
LEMMA CommitKeeps ==
  ASSUME OutboxInv, NEW s \in Series, Commit(s)
  PROVE  OutboxInv' /\ \A c \in Durable' \ Durable : \A d \in Durable : d < c
<1>1. /\ Types /\ OpenRowsAreLast /\ (\A r \in Series : LaneOK(r))
      /\ None \notin Series /\ MaxBars \in Nat
  BY OutboxInvParts, DeliveryAssumption
<1>2. /\ lanes[s] \in LaneState /\ lock = s /\ lock' = None /\ trades' = trades
      /\ lanes[s].last + 1 \in 1..MaxBars
  BY <1>1 DEF Commit, Types, LaneOK, LaneState
<1>3. PICK state \in {"durable", "gone"} : rows' = Ended({s}, state)
  BY DEF Commit
<1>4. /\ rows' \in Seq(OutboxRow) /\ OpenRowsAreLast'
      /\ \A c \in Durable' \ Durable : \A d \in Durable : d < c
  BY <1>2, <1>3, EndKeepsRows
<1>5. Confirmed(s, lanes[s].last + 1) \in Messages
  <2>1. trades[s][lanes[s].last + 1] \in Nat
    BY <1>1, <1>2 DEF Types
  <2> QED
    BY <1>2, <2>1 DEF Confirmed, Message, Messages
<1>6. \/ lanes' = [lanes EXCEPT ![s].pc = "live", ![s].out = Confirmed(s, lanes[s].last + 1)]
      \/ lanes' = [lanes EXCEPT ![s].pc = "reseed"]
  BY DEF Commit
<1>7. /\ lanes' \in [Series -> LaneState]
      /\ \A r \in Series : r # s => lanes'[r] = lanes[r] /\ lanes[r].pc # "tx"
      /\ lanes'[s].pc # "tx"
      /\ lanes'[s].pc = "live" => lanes'[s].out = Confirmed(s, lanes[s].last + 1)
  <2>0. PICK m : m = Confirmed(s, lanes[s].last + 1)
    OBVIOUS
  <2>1. lanes \in [Series -> LaneState] /\ \A r \in Series : r # s => lanes[r].pc # "tx"
    BY <1>1, <1>2 DEF Types, LaneOK
  <2>2. CASE lanes' = [lanes EXCEPT ![s].pc = "live", ![s].out = m]
    BY <1>2, <1>5, <2>0, <2>1, <2>2, Zenon DEF LaneState
  <2>3. CASE lanes' = [lanes EXCEPT ![s].pc = "reseed"]
    BY <1>2, <2>1, <2>3 DEF LaneState
  <2> QED
    BY <1>6, <2>0, <2>2, <2>3
<1>8. \A r \in Series : LaneOK(r)'
  BY <1>1, <1>2, <1>5, <1>7 DEF LaneOK, Confirmed, Message
<1> QED
  BY <1>1, <1>2, <1>4, <1>7, <1>8, OutboxInvParts DEF Types

\* A crash ends the open transaction one way or the other.
LEMMA CrashKeeps ==
  ASSUME OutboxInv, Crash
  PROVE  OutboxInv' /\ \A c \in Durable' \ Durable : \A d \in Durable : d < c
<1>1. Types /\ MaxBars \in Nat
  BY OutboxInvParts, DeliveryAssumption
<1>2. PICK state \in {"durable", "gone"} : rows' = Ended(Series, state)
  BY DEF Crash
<1>3. /\ rows' \in Seq(OutboxRow) /\ OpenRowsAreLast'
      /\ \A c \in Durable' \ Durable : \A d \in Durable : d < c
  BY <1>1, <1>2, EndKeepsRows DEF Types, Crash
<1>4. lanes' \in [Series -> LaneState] /\ \A r \in Series : lanes'[r].pc = "idle"
  BY <1>1 DEF Crash, Lane, LaneState
<1>5. Types'
  BY <1>1, <1>3, <1>4 DEF Types, Crash
<1>6. \A r \in Series : LaneOK(r)'
  BY <1>4 DEF LaneOK
<1> QED
  BY <1>3, <1>5, <1>6, OutboxInvParts

\* A lane that is in no transaction changes, and the table does not.
LEMMA LaneMoves ==
  ASSUME OutboxInv, NEW s \in Series, NEW l \in LaneState, l.pc # "tx",
         l.pc = "live" => l.out \in Messages /\ (l.out.kind = "confirmed" => l.out.bar \in 1..MaxBars),
         lanes' = [lanes EXCEPT ![s] = l], UNCHANGED <<lock, rows>>,
         trades' \in [Series -> [1..(MaxBars + 1) -> Nat]]
  PROVE  OutboxInv'
<1>1. Types /\ OpenRowsAreLast /\ \A r \in Series : LaneOK(r)
  BY OutboxInvParts
<1>2. Types' /\ lanes'[s] = l /\ \A r \in Series : r # s => lanes'[r] = lanes[r]
  BY <1>1 DEF Types
<1>3. \A r \in Series : LaneOK(r)'
  BY <1>1, <1>2 DEF LaneOK
<1>4. OpenRowsAreLast'
  BY <1>1 DEF OpenRowsAreLast, Cursors
<1> QED
  BY <1>2, <1>3, <1>4, OutboxInvParts

\* A forming candle.
LEMMA FormingKeeps ==
  ASSUME OutboxInv, NEW s \in Series, Forming(s)
  PROVE  OutboxInv'
<1> DEFINE n == lanes[s].last + 1
<1>1. Types /\ MaxBars \in Nat /\ lanes[s] \in LaneState
  BY OutboxInvParts, DeliveryAssumption DEF Types
<1>2. n \in 1..(MaxBars + 1) /\ lanes[s].last \in 0..MaxBars
  BY <1>1 DEF LaneState
<1>3. /\ trades[s][n] \in Nat
      /\ trades' \in [Series -> [1..(MaxBars + 1) -> Nat]]
  <2>1. trades \in [Series -> [1..(MaxBars + 1) -> Nat]] /\ trades[s] \in [1..(MaxBars + 1) -> Nat]
    BY <1>1 DEF Types
  <2>2. trades[s][n] \in Nat
    BY <1>2, <2>1
  <2>3. [trades[s] EXCEPT ![n] = @ + 1] \in [1..(MaxBars + 1) -> Nat]
    BY <1>2, <2>1, <2>2
  <2>4. trades' = [trades EXCEPT ![s] = [trades[s] EXCEPT ![n] = @ + 1]]
    BY <2>1 DEF Forming
  <2> HIDE DEF n
  <2> QED
    BY <2>1, <2>2, <2>3, <2>4
<1> DEFINE sent(pc, kind, colour) ==
             IF pc = "live" THEN Message(kind, n, trades[s][n] + 1, colour) ELSE None
<1>4. PICK colour \in Colours, pc \in {"live", "idle"}, kind \in {"transition", "snapshot"} :
        lanes' = [lanes EXCEPT ![s] = Lane(pc, lanes[s].last, [bar |-> n, colour |-> colour],
                                           sent(pc, kind, colour))]
  <2>1. PICK colour \in Colours :
          LET l == lanes[s]
              here == [bar |-> n, colour |-> colour]
              o(kind) == Message(kind, n, trades[s][n] + 1, colour)
          IN  \/ lanes' = [lanes EXCEPT ![s] = Lane("live", l.last, here, o("transition"))]
              \/ lanes' = [lanes EXCEPT ![s] = Lane("live", l.last, here, o("snapshot"))]
              \/ lanes' = [lanes EXCEPT ![s] = Lane("idle", l.last, here, None)]
    BY DEF Forming
  <2>2. \A kind \in {"transition", "snapshot"} :
          /\ sent("live", kind, colour) = Message(kind, n, trades[s][n] + 1, colour)
          /\ sent("idle", kind, colour) = None
    OBVIOUS
  <2> HIDE DEF sent
  <2> QED
    BY <2>1, <2>2, Zenon
<1> DEFINE out == sent(pc, kind, colour)
<1>5. pc = "live" => out \in Messages /\ out.kind # "confirmed"
  BY <1>2, <1>3, <1>4 DEF Message, Messages
<1>6. /\ Lane(pc, lanes[s].last, [bar |-> n, colour |-> colour], out) \in LaneState
      /\ Lane(pc, lanes[s].last, [bar |-> n, colour |-> colour], out).pc = pc
      /\ Lane(pc, lanes[s].last, [bar |-> n, colour |-> colour], out).out = out
  BY <1>2, <1>4, <1>5 DEF Lane, LaneState, Candle
<1>7. UNCHANGED <<lock, rows>>
  BY DEF Forming, outbox
<1>8. lanes' = [lanes EXCEPT ![s] = Lane(pc, lanes[s].last, [bar |-> n, colour |-> colour], out)]
  BY <1>4
<1> HIDE DEF n, sent, out
<1> QED
  BY <1>3, <1>5, <1>6, <1>7, <1>8, LaneMoves, Zenon

\* A live publish: the lane moves on, or tries again.
LEMMA PublishLiveKeeps ==
  ASSUME OutboxInv, NEW s \in Series, PublishLive(s)
  PROVE  OutboxInv'
<1>1. Types /\ LaneOK(s) /\ MaxBars \in Nat /\ lanes[s] \in LaneState
  BY OutboxInvParts, DeliveryAssumption DEF Types
<1>0. UNCHANGED <<lock, rows, trades>> /\ lanes[s].pc = "live"
  BY DEF PublishLive, outbox
<1>2. CASE UNCHANGED lanes
  BY <1>0, <1>2, OthersKeep
<1>3. CASE Published(s)
  <2>1. PICK n \in 0..MaxBars, f \in Candle \cup {None} :
          lanes' = [lanes EXCEPT ![s] = Lane("idle", n, f, None)]
    <3>1. /\ lanes[s].last \in 0..MaxBars /\ lanes[s].forming \in Candle \cup {None}
          /\ lanes[s].out.kind = "confirmed" => lanes[s].out.bar \in 0..MaxBars
      BY <1>0, <1>1 DEF LaneOK, LaneState
    <3>2. CASE lanes[s].out.kind = "confirmed"
      BY <1>3, <3>1, <3>2, Zenon DEF Published
    <3>3. CASE lanes[s].out.kind # "confirmed"
      BY <1>3, <3>1, <3>3, Zenon DEF Published
    <3> QED
      BY <3>2, <3>3
  <2>2. Lane("idle", n, f, None) \in LaneState /\ Lane("idle", n, f, None).pc = "idle"
    BY DEF Lane, LaneState
  <2> QED
    BY <1>0, <1>1, <2>1, <2>2, LaneMoves, Zenon DEF Types
<1> QED
  BY <1>2, <1>3 DEF PublishLive

\* The process starts: no lane is in a transaction.
LEMMA StartKeeps ==
  ASSUME OutboxInv, Start
  PROVE  OutboxInv'
<1>1. Types /\ OpenRowsAreLast /\ MaxBars \in Nat
  BY OutboxInvParts, DeliveryAssumption
<1>2. \A s \in Series : DurableBar(s) \in 0..MaxBars
  BY <1>1, DurableBarType DEF Types
<1>3. lanes' \in [Series -> LaneState] /\ \A r \in Series : lanes'[r].pc = "idle"
  BY <1>2 DEF Start, Lane, LaneState
<1>4. Types' /\ (\A r \in Series : LaneOK(r)') /\ OpenRowsAreLast'
  BY <1>1, <1>3 DEF Types, LaneOK, OpenRowsAreLast, Cursors, Start, outbox
<1> QED
  BY <1>4, OutboxInvParts

\* Every step keeps OutboxInv, and what it makes visible comes last.
LEMMA StepKeeps ==
  ASSUME OutboxInv, [Next]_vars
  PROVE  OutboxInv' /\ \A c \in Durable' \ Durable : \A d \in Durable : d < c
<1>1. ASSUME rows' = rows PROVE \A c \in Durable' \ Durable : \A d \in Durable : d < c
  BY <1>1 DEF Durable, Cursors
<1>2. CASE \E s \in Series : LaneStep(s)
  <2>1. PICK s \in Series : LaneStep(s)
    BY <1>2
  <2>2. CASE Begin(s)
    <3>1. \A c \in Durable' : c \in Durable
      BY <2>2, BeginDurable
    <3> QED
      BY <2>2, <3>1, BeginKeeps
  <2>3. CASE Commit(s)
    BY <2>3, CommitKeeps
  <2>4. CASE Forming(s)
    BY <1>1, <2>4, FormingKeeps, Zenon DEF Forming, outbox
  <2>5. CASE PublishLive(s)
    BY <1>1, <2>5, PublishLiveKeeps DEF PublishLive, outbox
  <2> QED
    BY <2>1, <2>2, <2>3, <2>4, <2>5 DEF LaneStep
<1>3. CASE Dispatch \/ ForgetIds \/ UNCHANGED vars
  <2>1. UNCHANGED <<lock, rows, lanes, trades>>
    BY <1>3 DEF Dispatch, Load, PublishEval, PublishFact, PublishHub, Mark, ForgetIds, vars, outbox
  <2> QED
    BY <1>1, <2>1, OthersKeep
<1>4. CASE Start
  BY <1>1, <1>4, StartKeeps DEF Start, outbox
<1>5. CASE Crash
  BY <1>5, CrashKeeps
<1> QED
  BY <1>2, <1>3, <1>4, <1>5 DEF Next

\* OutboxInv is an invariant: the rows of the open transaction belong to the
\* holder of the lock and are the newest.
THEOREM OutboxInvariant == Spec => []OutboxInv
BY InitOutbox, StepKeeps, PTL DEF Spec

\* A reader that follows the outbox by cursor never has to come back: rows
\* become visible in cursor order.
THEOREM RowsVisibleInOrder == Spec => VisibleInOrder
<1>1. OutboxInv /\ [Next]_vars
        => [\A c \in Durable' \ Durable : \A d \in Durable : d < c]_vars
  BY StepKeeps
<1> QED
  BY <1>1, OutboxInvariant, PTL DEF Spec, VisibleInOrder

-----------------------------------------------------------------------------
(* The rows of a series in bar order, and the bar its lane stands on.      *)

\* The durable bars of a series in the table R, and the greatest of them.
BarsIn(R, s) == {R[c].bar : c \in {d \in DOMAIN R : R[d].state = "durable" /\ R[d].series = s}}

Greatest(T) == IF T = {} THEN 0 ELSE CHOOSE n \in T : \A m \in T : m <= n

TopBar(R, s) == Greatest(BarsIn(R, s))

\* A durable frame of bar n of the series s, below the cursor c of the table R.
FrameIn(R, s, n, c) ==
  \E d \in DOMAIN R : /\ R[d].state = "durable" /\ d < c /\ R[d].kind = "frame"
                      /\ R[d].series = s /\ R[d].bar = n

\* DurableBar and HasFrame (signal_series_cursors, the outbox) as functions of
\* the table.
LEMMA RowsAsTable ==
  /\ \A s : DurableBar(s) = TopBar(rows, s)
  /\ \A s : DurableBar(s)' = TopBar(rows', s)
  /\ \A s, n, c : HasFrame(s, n, c) <=> FrameIn(rows, s, n, c)
  /\ \A s, n, c : HasFrame(s, n, c)' <=> FrameIn(rows', s, n, c)
  /\ \A n, c : HasFrame(rows[c].series, n, c)' <=> FrameIn(rows', rows'[c].series, n, c)
  /\ \A s, n : HasFrame(s, n, Len(rows) + 1)' <=> FrameIn(rows', s, n, Len(rows') + 1)
<1>1. \A s : DurableBar(s) = TopBar(rows, s)
  <2> SUFFICES ASSUME NEW s PROVE DurableBar(s) = TopBar(rows, s)
    OBVIOUS
  <2> DEFINE mine == {rows[c].bar : c \in {d \in Durable : rows[d].series = s}}
  <2>1. mine = BarsIn(rows, s)
    BY DEF BarsIn, Durable, Cursors
  <2>2. DurableBar(s) = Greatest(mine)
    BY Zenon DEF DurableBar, Greatest
  <2> HIDE DEF mine
  <2> QED
    BY <2>1, <2>2, Zenon DEF TopBar
<1>2. \A s : DurableBar(s)' = TopBar(rows', s)
  <2> SUFFICES ASSUME NEW s PROVE DurableBar(s)' = TopBar(rows', s)
    OBVIOUS
  <2> DEFINE mine == {rows'[c].bar : c \in {d \in Durable' : rows'[d].series = s}}
  <2>1. mine = BarsIn(rows', s)
    BY DEF BarsIn, Durable, Cursors
  <2>2. DurableBar(s)' = Greatest(mine)
    BY Zenon DEF DurableBar, Greatest
  <2> HIDE DEF mine
  <2> QED
    BY <2>1, <2>2, Zenon DEF TopBar
<1>3. \A s, n, c : HasFrame(s, n, c) <=> FrameIn(rows, s, n, c)
  BY Zenon DEF HasFrame, FrameIn, Durable, Cursors
<1>4. \A s, n, c : HasFrame(s, n, c)' <=> FrameIn(rows', s, n, c)
  BY Zenon DEF HasFrame, FrameIn, Durable, Cursors
<1>5. \A n, c : HasFrame(rows[c].series, n, c)' <=> FrameIn(rows', rows'[c].series, n, c)
  BY Zenon DEF HasFrame, FrameIn, Durable, Cursors
<1>6. \A s, n : HasFrame(s, n, Len(rows) + 1)' <=> FrameIn(rows', s, n, Len(rows') + 1)
  BY Zenon DEF HasFrame, FrameIn, Durable, Cursors
<1> QED
  BY <1>1, <1>2, <1>3, <1>4, <1>5, <1>6

\* The greatest durable bar is one, and the only one that bounds them all.
LEMMA TopBarIs ==
  ASSUME NEW R \in Seq(OutboxRow), NEW s
  PROVE  /\ TopBar(R, s) \in 0..MaxBars
         /\ \A m \in BarsIn(R, s) : m <= TopBar(R, s)
         /\ TopBar(R, s) # 0 => TopBar(R, s) \in BarsIn(R, s)
         /\ \A n \in BarsIn(R, s) : (\A m \in BarsIn(R, s) : m <= n) => TopBar(R, s) = n
         /\ BarsIn(R, s) \subseteq 1..MaxBars
<1> DEFINE B == BarsIn(R, s)
<1>1. B \subseteq 1..MaxBars /\ MaxBars \in Nat
  <2>1. \A c \in DOMAIN R : R[c] \in OutboxRow
    BY SMT, SMTT(30)
  <2>2. \A c \in DOMAIN R : R[c].bar \in 1..MaxBars
    BY <2>1, Zenon DEF OutboxRow
  <2> QED
    BY <2>2, DeliveryAssumption, Zenon DEF BarsIn
<1>2. TopBar(R, s) = IF B = {} THEN 0 ELSE CHOOSE n \in B : \A m \in B : m <= n
  BY Zenon DEF TopBar, Greatest
<1> HIDE DEF B
<1>3. CASE B = {}
  BY <1>1, <1>2, <1>3, SMT, SMTT(30) DEF B
<1>4. CASE B # {}
  <2>1. B \in SUBSET Nat /\ \A m \in B : m <= MaxBars
    BY <1>1, SMT, SMTT(30)
  <2>2. \E n \in B : \A m \in B : m <= n
    BY <1>1, <1>4, <2>1, GreatestNatural, Zenon
  <2>3. TopBar(R, s) \in B /\ \A m \in B : m <= TopBar(R, s)
    BY <1>2, <1>4, <2>2, Zenon
  <2>4. ASSUME NEW n \in B, \A m \in B : m <= n PROVE TopBar(R, s) = n
    <3>1. n <= TopBar(R, s) /\ TopBar(R, s) <= n /\ n \in Nat /\ TopBar(R, s) \in Nat
      BY <2>1, <2>3, <2>4, Zenon
    <3> QED
      BY <3>1, SMT, SMTT(30)
  <2> QED
    BY <1>1, <2>3, <2>4, SMT, SMTT(30) DEF B
<1> QED
  BY <1>3, <1>4, Zenon

\* Tables with the same durable rows stand on the same bar.
LEMMA SameBars ==
  ASSUME NEW R, NEW Q, NEW s, BarsIn(R, s) = BarsIn(Q, s)
  PROVE  TopBar(R, s) = TopBar(Q, s)
BY Zenon DEF TopBar

\* RowsInv in four parts: the process, the table, the open rows, the lanes.
ProcessOK == proc \in {"off", "flush", "run"} /\ (proc = "off" => disp.pc = "idle")

Ordered(R) ==
  /\ \A c \in DOMAIN R : R[c].kind = "frame" =>
       \A n \in 1..(R[c].bar - 1) : FrameIn(R, R[c].series, n, c)
  /\ \A s \in Series : \A n \in 1..TopBar(R, s) : FrameIn(R, s, n, Len(R) + 1)

OpenRows ==
  /\ \A c \in Cursors : rows[c].state = "open" =>
       lanes[rows[c].series].pc = "tx" /\ rows[c].bar = lanes[rows[c].series].last + 1
  /\ \A s \in Series : lanes[s].pc = "tx" =>
       \E c \in Cursors : /\ rows[c].state = "open" /\ rows[c].kind = "frame"
                          /\ rows[c].series = s

\* The invariant about rows and lane cursors (CommitClosed) is these parts.
LEMMA RowsInvParts ==
  /\ RowsInv <=> ProcessOK /\ Ordered(rows) /\ OpenRows /\ \A s \in Series : LaneCursor(s)
  /\ RowsInv' <=> ProcessOK' /\ Ordered(rows') /\ OpenRows' /\ \A s \in Series : LaneCursor(s)'
<1>1. Ordered(rows) <=>
        /\ \A c \in Cursors : rows[c].kind = "frame" =>
             \A n \in 1..(rows[c].bar - 1) : HasFrame(rows[c].series, n, c)
        /\ \A s \in Series : \A n \in 1..DurableBar(s) : HasFrame(s, n, Len(rows) + 1)
  BY RowsAsTable, Zenon DEF Ordered, Cursors
<1>2. Ordered(rows') <=>
        /\ \A c \in Cursors' : rows'[c].kind = "frame" =>
             \A n \in 1..(rows'[c].bar - 1) : HasFrame(rows[c].series, n, c)'
        /\ \A s \in Series : \A n \in 1..DurableBar(s)' : HasFrame(s, n, Len(rows) + 1)'
  BY RowsAsTable, Zenon DEF Ordered, Cursors
<1>3. RowsInv <=> ProcessOK /\ Ordered(rows) /\ OpenRows /\ \A s \in Series : LaneCursor(s)
  BY <1>1, Zenon DEF RowsInv, OpenRows, ProcessOK
<1>4. RowsInv' <=> ProcessOK' /\ Ordered(rows') /\ OpenRows' /\ \A s \in Series : LaneCursor(s)'
  BY <1>2, Zenon DEF RowsInv, OpenRows, ProcessOK
<1> QED
  BY <1>3, <1>4, Zenon

\* Initially there are no rows, and every lane stands before the first bar.
LEMMA InitRows == Init => RowsInv
<1> SUFFICES ASSUME Init PROVE RowsInv
  BY Zenon
<1>1. /\ rows = <<>> /\ proc = "off" /\ DOMAIN rows = {}
      /\ \A s \in Series : lanes[s].pc = "idle"
  BY SMT, SMTT(30) DEF Init, Lane
<1>2. \A s : TopBar(rows, s) = 0
  <2>1. \A s : BarsIn(rows, s) = {}
    BY <1>1, Zenon DEF BarsIn
  <2> QED
    BY <2>1, Zenon DEF TopBar, Greatest
<1>3. Ordered(rows)
  BY <1>1, <1>2, SMT, SMTT(30) DEF Ordered
<1>4. OpenRows /\ \A s \in Series : LaneCursor(s)
  BY <1>1, Zenon DEF OpenRows, LaneCursor, Cursors
<1>5. ProcessOK
  BY Zenon DEF Init, ProcessOK, Waiting
<1> QED
  BY <1>3, <1>4, <1>5, RowsInvParts, Zenon

\* Steps that leave table, lanes and candles alone.
LEMMA OthersKeepRows ==
  ASSUME RowsInv, UNCHANGED <<rows, lanes, trades>>,
         ProcessOK', proc' = proc \/ (proc = "flush" /\ proc' \in {"off", "run"})
  PROVE  RowsInv'
<1>1. Ordered(rows) /\ OpenRows /\ \A s \in Series : LaneCursor(s)
  BY RowsInvParts, Zenon
<1>2. OpenRows' /\ Ordered(rows')
  BY <1>1, Zenon DEF OpenRows, Cursors
<1>3. ASSUME NEW s \in Series PROVE LaneCursor(s)'
  <2>1. DurableBar(s)' = DurableBar(s)
    BY RowsAsTable, Zenon
  <2>2. Confirmed(s, lanes[s].last + 1)' = Confirmed(s, lanes[s].last + 1)
    BY Zenon DEF Confirmed
  <2> QED
    BY <1>1, <2>1, <2>2, Zenon DEF LaneCursor
<1> QED
  BY <1>2, <1>3, RowsInvParts, Zenon

\* All transactions end: if they become durable, the lane in one has made the
\* bar it was committing the durable one.
LEMMA EndOrders ==
  ASSUME OutboxInv, RowsInv, NEW S, NEW state \in {"durable", "gone"}, lock \in S \cup {None},
         rows' = Ended(S, state)
  PROVE  /\ Ordered(rows') /\ \A c \in Cursors' : rows'[c].state # "open"
         /\ \A r \in Series : DurableBar(r)' =
              IF state = "durable" /\ lanes[r].pc = "tx" THEN lanes[r].last + 1 ELSE DurableBar(r)
<1>1. /\ Types /\ OpenRowsAreLast /\ None \notin Series /\ Ordered(rows) /\ OpenRows
      /\ \A s \in Series : LaneCursor(s)
  BY OutboxInvParts, RowsInvParts, DeliveryAssumption, Zenon
<1>2. /\ rows \in Seq(OutboxRow) /\ rows' \in Seq(OutboxRow) /\ Cursors' = Cursors
      /\ \A c \in Cursors : rows[c] \in OutboxRow
      /\ \A c \in Cursors :
           /\ rows'[c].series = rows[c].series
           /\ rows'[c].bar = rows[c].bar /\ rows'[c].kind = rows[c].kind
           /\ rows'[c].state =
                IF rows[c].series \in S /\ rows[c].state = "open" THEN state ELSE rows[c].state
  BY <1>1, EndedRows, SMT, SMTT(30) DEF Types, Cursors
<1>3. \A c \in Cursors : rows[c].state = "open" => rows[c].series \in S /\ rows[c].series \in Series
  BY <1>1, <1>2, SMT, SMTT(30) DEF OpenRowsAreLast, OutboxRow
<1>4. /\ \A c \in Cursors : rows'[c].state = IF rows[c].state = "open" THEN state ELSE rows[c].state
      /\ \A c \in Cursors' : rows'[c].state # "open"
  BY <1>2, <1>3, Zenon
<1>5. DOMAIN rows = Cursors /\ DOMAIN rows' = Cursors /\ Len(rows') = Len(rows) /\ Len(rows) \in Nat
  BY <1>2, SMT, SMTT(30) DEF Cursors
<1>6. \A s, n, c : FrameIn(rows, s, n, c) => FrameIn(rows', s, n, c)
  BY <1>2, <1>4, <1>5, SMT, SMTT(30) DEF FrameIn
<1>7. ASSUME NEW r \in Series
      PROVE  /\ TopBar(rows', r) =
                  IF state = "durable" /\ lanes[r].pc = "tx" THEN lanes[r].last + 1 ELSE TopBar(rows, r)
             /\ \A n \in 1..TopBar(rows', r) : FrameIn(rows', r, n, Len(rows') + 1)
  <2>1. \A n \in 1..TopBar(rows, r) : FrameIn(rows', r, n, Len(rows') + 1)
    BY <1>1, <1>5, <1>6, Zenon DEF Ordered
  <2>2. CASE state = "durable" /\ lanes[r].pc = "tx"
    <3>1. /\ lanes[r].last \in 0..MaxBars /\ MaxBars \in Nat /\ lanes[r].pc # "idle"
          /\ lanes[r].pc # "live" /\ lanes[r].pc # "reseed"
      BY <1>1, <2>2, DeliveryAssumption, Zenon DEF Types, LaneState
    <3>2. TopBar(rows, r) = lanes[r].last
      BY <1>1, <3>1, RowsAsTable, Zenon DEF LaneCursor
    <3>3. PICK c \in Cursors : rows[c].state = "open" /\ rows[c].kind = "frame" /\ rows[c].series = r
      BY <1>1, <2>2, Zenon DEF OpenRows
    <3>4. /\ rows'[c].state = "durable" /\ rows'[c].kind = "frame" /\ rows'[c].series = r
          /\ rows'[c].bar = lanes[r].last + 1
      BY <1>1, <1>2, <1>4, <2>2, <3>3, SMT, SMTT(30) DEF OpenRows
    <3>5. lanes[r].last + 1 \in BarsIn(rows', r)
      BY <1>5, <3>4, Zenon DEF BarsIn
    <3>6. ASSUME NEW m \in BarsIn(rows', r) PROVE m <= lanes[r].last + 1
      <4>1. PICK d \in Cursors : rows'[d].state = "durable" /\ rows'[d].series = r /\ m = rows'[d].bar
        BY <1>5, <3>6, Zenon DEF BarsIn
      <4>2. CASE rows[d].state = "open"
        BY <1>1, <1>2, <3>1, <4>1, <4>2, SMTT(20), SMTT(30) DEF OpenRows
      <4>3. CASE rows[d].state = "durable"
        <5>1. m \in BarsIn(rows, r)
          BY <1>2, <1>5, <4>1, <4>3, Zenon DEF BarsIn
        <5>2. m <= TopBar(rows, r) /\ m \in 1..MaxBars
          BY <1>2, <5>1, TopBarIs, Zenon
        <5> QED
          BY <3>1, <3>2, <5>2, SMT, SMTT(30)
      <4> QED
        BY <1>4, <4>1, <4>2, <4>3, Zenon
    <3>7. TopBar(rows', r) = lanes[r].last + 1
      BY <1>2, <3>5, <3>6, TopBarIs, Zenon
    <3>8. FrameIn(rows', r, lanes[r].last + 1, Len(rows') + 1)
      <4>1. c < Len(rows') + 1
        BY <1>5, <3>3, SMT, SMTT(30) DEF Cursors
      <4> QED
        BY <1>5, <3>4, <4>1, Zenon DEF FrameIn
    <3>9. \A n \in 1..(lanes[r].last + 1) : n \in 1..lanes[r].last \/ n = lanes[r].last + 1
      BY <3>1, SMT, SMTT(30)
    <3> QED
      BY <2>1, <2>2, <3>2, <3>7, <3>8, <3>9, Zenon
  <2>3. CASE ~(state = "durable" /\ lanes[r].pc = "tx")
    <3>1. \A d \in Cursors : rows[d].series = r =>
            (rows'[d].state = "durable" <=> rows[d].state = "durable")
      BY <1>1, <1>4, <2>3, SMT, SMTT(30) DEF OpenRows
    <3>2. BarsIn(rows', r) = BarsIn(rows, r)
      BY <1>2, <1>5, <3>1, SMT, SMTT(30) DEF BarsIn
    <3>3. TopBar(rows', r) = TopBar(rows, r)
      BY <3>2, SameBars, Zenon
    <3> QED
      BY <2>1, <2>3, <3>3, Zenon
  <2> QED
    BY <2>2, <2>3, Zenon
<1>8. Ordered(rows')
  <2>1. \A c \in Cursors : rows'[c].kind = "frame" =>
          \A n \in 1..(rows'[c].bar - 1) : FrameIn(rows', rows'[c].series, n, c)
    BY <1>1, <1>2, <1>5, <1>6, Zenon DEF Ordered
  <2> QED
    BY <1>5, <1>7, <2>1, Zenon DEF Ordered
<1> QED
  BY <1>4, <1>7, <1>8, RowsAsTable, Zenon

\* CommitClosed inserts the rows of the bar after the durable one, or finds
\* that bar already there.
LEMMA BeginRows ==
  ASSUME OutboxInv, RowsInv, NEW s \in Series, Begin(s)
  PROVE  RowsInv'
<1> DEFINE n == lanes[s].last + 1
<1>1. /\ Types /\ OpenRowsAreLast /\ lock = None /\ None \notin Series /\ MaxBars \in Nat
      /\ Ordered(rows) /\ OpenRows /\ \A r \in Series : LaneCursor(r) /\ LaneOK(r)
  BY OutboxInvParts, RowsInvParts, DeliveryAssumption, Zenon DEF Begin, OutboxFree
<1>2. /\ lanes \in [Series -> LaneState] /\ n \in 1..MaxBars /\ lanes[s].last \in 0..MaxBars
      /\ proc = "run" /\ proc' = "run" /\ lanes[s].pc \in {"idle", "reseed"} /\ trades' = trades
  BY <1>1, SMT, SMTT(30) DEF Begin, Types, LaneState
<1>3. \A c \in Cursors : rows[c].state # "open"
  <2>1. \A c \in Cursors : rows[c] \in OutboxRow
    BY <1>1, SMT, SMTT(30) DEF Types, Cursors
  <2> QED
    BY <1>1, <2>1, Zenon DEF OpenRowsAreLast, OutboxRow
<1>4. \A r \in Series : lanes[r].pc # "tx"
  BY <1>1, Zenon DEF LaneOK
<1>5. ASSUME \A r \in Series : r # s => lanes'[r] = lanes[r],
             \A r \in Series : DurableBar(r)' = DurableBar(r)
      PROVE  \A r \in Series : r # s => LaneCursor(r)'
  BY <1>1, <1>2, <1>5, SMT, SMTT(30) DEF LaneCursor, Confirmed
<1>6. ProcessOK'
  BY <1>2, Zenon DEF ProcessOK
<1>7. CASE DurableBar(s) = n
  <2>1. rows' = rows /\ lanes' = [lanes EXCEPT ![s] = Lane("idle", n, None, None)]
    BY <1>7, Zenon DEF Begin
  <2>2. /\ \A r \in Series : r # s => lanes'[r] = lanes[r]
        /\ lanes'[s].pc = "idle" /\ lanes'[s].last = n
    BY <1>2, <2>1, Zenon DEF Lane
  <2>3. \A r \in Series : DurableBar(r)' = DurableBar(r)
    BY <2>1, RowsAsTable, Zenon
  <2>4. \A r \in Series : LaneCursor(r)'
    BY <1>2, <1>5, <1>7, <2>2, <2>3, Zenon DEF LaneCursor
  <2>5. OpenRows'
    BY <1>3, <1>4, <2>1, <2>2, Zenon DEF OpenRows, Cursors
  <2> QED
    BY <1>1, <1>6, <2>1, <2>4, <2>5, RowsInvParts, Zenon
<1>8. CASE DurableBar(s) # n
  <2> DEFINE new == NewRows(s, n)
  <2>1. /\ lanes' = [lanes EXCEPT ![s].pc = "tx"] /\ rows' = rows \o new /\ OutboxInv'
    BY <1>8, BeginKeeps, Zenon DEF Begin
  <2>2. /\ rows \in Seq(OutboxRow) /\ rows' \in Seq(OutboxRow)
        /\ new = [i \in 1..2 |-> new[i]]
        /\ \A i \in 1..2 : /\ new[i].series = s /\ new[i].bar = n /\ new[i].state = "open"
                           /\ new[i].kind = IF i = 1 THEN "point" ELSE "frame"
    BY <1>1, <2>1, Zenon DEF OutboxInv, Types, NewRows
  <2> HIDE DEF new
  <2>3. /\ Len(rows) \in Nat /\ Cursors = 1..Len(rows)
        /\ Len(rows') = Len(rows) + 2 /\ Cursors' = 1..(Len(rows) + 2)
        /\ \A c \in Cursors : rows'[c] = rows[c]
        /\ \A i \in 1..2 : rows'[Len(rows) + i] = new[i]
    BY <2>1, <2>2, SMT, SMTT(30) DEF Cursors
  <2>4. DOMAIN rows = Cursors /\ DOMAIN rows' = Cursors'
    BY Zenon DEF Cursors
  <2>5. \A c \in Cursors' : c \in Cursors \/ \E i \in 1..2 : c = Len(rows) + i
    <3>1. \A c \in 1..(Len(rows) + 2) : c \in 1..Len(rows) \/ c = Len(rows) + 1 \/ c = Len(rows) + 2
      BY <2>3, SMT, SMTT(30)
    <3> QED
      BY <2>3, <3>1, SMT, SMTT(30)
  <2>6. \A c \in Cursors' \ Cursors :
          /\ rows'[c].state = "open" /\ rows'[c].series = s /\ rows'[c].bar = n /\ c >= Len(rows) + 1
    BY <2>2, <2>3, <2>5, SMT, SMTT(30)
  <2>7. \A r : BarsIn(rows', r) = BarsIn(rows, r)
    BY <2>3, <2>4, <2>6, SMT, SMTT(30) DEF BarsIn
  <2>8. \A r : TopBar(rows', r) = TopBar(rows, r)
    BY <2>7, SameBars, Zenon
  <2>9. \A r, k, c : FrameIn(rows, r, k, c) => FrameIn(rows', r, k, c)
    BY <2>3, <2>4, SMT, SMTT(30) DEF FrameIn
  <2>10. DurableBar(s) = lanes[s].last
    BY <1>1, <1>2, <1>8, Zenon DEF LaneCursor
  <2>11. \A r \in Series : \A k \in 1..TopBar(rows', r), c \in Nat :
           c >= Len(rows) + 1 => FrameIn(rows', r, k, c)
    <3> SUFFICES ASSUME NEW r \in Series, NEW k \in 1..TopBar(rows', r), NEW c \in Nat,
                        c >= Len(rows) + 1
                 PROVE  FrameIn(rows', r, k, c)
      BY Zenon
    <3>1. FrameIn(rows, r, k, Len(rows) + 1)
      BY <1>1, <2>8, Zenon DEF Ordered
    <3>2. \A d \in Cursors : d < c
      BY <2>3, SMT, SMTT(30)
    <3>3. FrameIn(rows, r, k, c)
      BY <2>4, <3>1, <3>2, Zenon DEF FrameIn
    <3> QED
      BY <2>9, <3>3, Zenon
  <2>12. Ordered(rows')
    <3>1. ASSUME NEW c \in Cursors', rows'[c].kind = "frame", NEW k \in 1..(rows'[c].bar - 1)
          PROVE  FrameIn(rows', rows'[c].series, k, c)
      <4>1. CASE c \in Cursors
        BY <1>1, <2>3, <2>4, <2>9, <3>1, <4>1, Zenon DEF Ordered
      <4>2. CASE c \notin Cursors
        <5>1. rows'[c].series = s /\ rows'[c].bar = n /\ c >= Len(rows) + 1 /\ c \in Nat
          BY <2>3, <2>6, <4>2, SMTT(20), SMTT(30)
        <5>2. k \in 1..TopBar(rows', s)
          BY <1>2, <2>8, <2>10, <3>1, <5>1, RowsAsTable, SMTT(20), SMTT(30)
        <5> QED
          BY <2>11, <5>1, <5>2, Zenon
      <4> QED
        BY <4>1, <4>2, Zenon
    <3>2. \A r \in Series : \A k \in 1..TopBar(rows', r) : FrameIn(rows', r, k, Len(rows') + 1)
      BY <2>3, <2>11, SMT, SMTT(30)
    <3> QED
      BY <2>4, <3>1, <3>2, Zenon DEF Ordered
  <2>13. /\ \A r \in Series : r # s => lanes'[r] = lanes[r]
         /\ lanes'[s].pc = "tx" /\ lanes'[s].last = lanes[s].last
    BY <1>2, <2>1, Zenon DEF LaneState
  <2>14. OpenRows'
    <3>1. Len(rows) + 2 \in Cursors' /\ rows'[Len(rows) + 2] = new[2]
      BY <2>3, SMT, SMTT(30)
    <3>2. \A c \in Cursors' : rows'[c].state = "open" => c \in Cursors' \ Cursors
      BY <1>3, <2>3, Zenon
    <3>3. \A c \in Cursors' : rows'[c].state = "open" =>
            lanes'[rows'[c].series].pc = "tx" /\ rows'[c].bar = lanes'[rows'[c].series].last + 1
      BY <2>6, <2>13, <3>2, Zenon
    <3>4. new[2].state = "open" /\ new[2].kind = "frame" /\ new[2].series = s
      BY <2>2, SMT, SMTT(30)
    <3>5. \A r \in Series : lanes'[r].pc = "tx" => r = s
      BY <1>4, <2>13, Zenon
    <3> QED
      BY <3>1, <3>3, <3>4, <3>5, Zenon DEF OpenRows
  <2>15. \A r \in Series : DurableBar(r)' = DurableBar(r)
    BY <2>8, RowsAsTable, Zenon
  <2>16. \A r \in Series : LaneCursor(r)'
    BY <1>2, <1>5, <2>10, <2>13, <2>15, SMTT(20), SMTT(30) DEF LaneCursor
  <2> QED
    BY <1>6, <2>12, <2>14, <2>16, RowsInvParts, Zenon
<1> QED
  BY <1>7, <1>8, Zenon

\* The COMMIT: durable rows put the lane's bar below the live publish that
\* follows, or, when the lane sees an error, below its next attempt.
LEMMA CommitRows ==
  ASSUME OutboxInv, RowsInv, NEW s \in Series, Commit(s)
  PROVE  RowsInv'
<1>1. /\ Types /\ (\A r \in Series : LaneCursor(r) /\ LaneOK(r)) /\ None \notin Series
      /\ OutboxInv' /\ MaxBars \in Nat
  BY OutboxInvParts, RowsInvParts, CommitKeeps, DeliveryAssumption, Zenon
<1>2. /\ lanes \in [Series -> LaneState] /\ lock = s /\ proc' = proc /\ trades' = trades
      /\ lanes[s].pc = "tx" /\ lanes[s].last \in 0..MaxBars /\ lanes[s].last < MaxBars
  BY <1>1, Zenon DEF Commit, Types, LaneOK, LaneState
<1>3. PICK state \in {"durable", "gone"} :
        /\ rows' = Ended({s}, state)
        /\ \/ /\ state = "durable"
              /\ lanes' = [lanes EXCEPT ![s].pc = "live", ![s].out = Confirmed(s, lanes[s].last + 1)]
           \/ /\ state = "durable" => AmbiguousCommits
              /\ lanes' = [lanes EXCEPT ![s].pc = "reseed"]
  BY Zenon DEF Commit
<1>4. /\ Ordered(rows') /\ \A c \in Cursors' : rows'[c].state # "open"
      /\ \A r \in Series : DurableBar(r)' =
           IF state = "durable" /\ lanes[r].pc = "tx" THEN lanes[r].last + 1 ELSE DurableBar(r)
  BY <1>2, <1>3, EndOrders, Zenon
<1>5. proc = "run" /\ DurableBar(s) = lanes[s].last
  BY <1>1, <1>2, Zenon DEF LaneCursor
<1>6. \A r \in Series : r # s => lanes'[r] = lanes[r] /\ lanes[r].pc # "tx"
  BY <1>1, <1>2, <1>3, Zenon DEF LaneOK
<1>7. /\ lanes'[s].pc \in {"live", "reseed"} /\ lanes'[s].last = lanes[s].last
      /\ lanes'[s].pc = "live" => state = "durable" /\ lanes'[s].out = Confirmed(s, lanes[s].last + 1)
      /\ lanes'[s].pc = "reseed" => (state = "durable" => AmbiguousCommits)
  <2>0. PICK m : m = Confirmed(s, lanes[s].last + 1)
    BY Zenon
  <2> QED
    BY <1>2, <1>3, <2>0, SMT, SMTT(30) DEF LaneState
<1>8. OpenRows'
  BY <1>4, <1>6, <1>7, Zenon DEF OpenRows
<1>9. \A r \in Series : r # s => LaneCursor(r)'
  BY <1>1, <1>2, <1>4, <1>6, SMT, SMTT(30) DEF LaneCursor, Confirmed
<1>10. LaneCursor(s)'
  <2>1. trades[s][lanes[s].last + 1] \in Nat
    BY <1>1, <1>2, SMT, SMTT(30) DEF Types
  <2>2. /\ Confirmed(s, lanes[s].last + 1) \in Messages
        /\ Confirmed(s, lanes[s].last + 1).bar = lanes[s].last + 1
        /\ Confirmed(s, lanes[s].last + 1).kind = "confirmed"
    BY <1>2, <2>1, SMTT(20), SMTT(30) DEF Confirmed, Message, Messages
  <2>3. Confirmed(s, lanes[s].last + 1)' = Confirmed(s, lanes[s].last + 1)
    BY <1>2, <1>7, Zenon DEF Confirmed
  <2>4. CASE lanes'[s].pc = "live"
    BY <1>2, <1>4, <1>5, <1>7, <2>2, <2>3, <2>4, Zenon DEF LaneCursor
  <2>5. CASE lanes'[s].pc = "reseed"
    BY <1>2, <1>4, <1>5, <1>7, <2>5, Zenon DEF LaneCursor
  <2> QED
    BY <1>7, <2>4, <2>5, Zenon
<1>11. ProcessOK'
  BY <1>2, <1>5, Zenon DEF ProcessOK
<1> QED
  BY <1>4, <1>8, <1>9, <1>10, <1>11, RowsInvParts, Zenon

\* One lane is given a new state and the table stays: the others keep theirs.
LEMMA LaneMovesRows ==
  ASSUME OutboxInv, RowsInv, NEW s \in Series, NEW l, l.pc # "tx", lanes[s].pc # "tx",
         lanes' = [lanes EXCEPT ![s] = l], UNCHANGED <<rows, proc, disp>>,
         \A r \in Series : r # s => trades'[r] = trades[r], LaneCursor(s)'
  PROVE  RowsInv'
<1>1. /\ lanes \in [Series -> LaneState] /\ Ordered(rows) /\ OpenRows
      /\ \A r \in Series : LaneCursor(r)
  BY RowsInvParts, Zenon DEF OutboxInv
<1>2. lanes'[s] = l /\ \A r \in Series : r # s => lanes'[r] = lanes[r]
  BY <1>1, Zenon
<1>3. OpenRows'
  <2>1. Cursors' = Cursors /\ \A c \in Cursors : rows[c].state = "open" => lanes[rows[c].series].pc = "tx"
    BY <1>1, Zenon DEF OpenRows, Cursors
  <2>2. \A c \in Cursors : rows[c].series \in Series
    <3>1. \A c \in Cursors : rows[c] \in OutboxRow
      BY SMTT(20), SMTT(30) DEF OutboxInv, Cursors
    <3> QED
      BY <3>1, Zenon DEF OutboxRow
  <2> QED
    BY <1>1, <1>2, <2>1, <2>2, SMT, SMTT(30) DEF OpenRows
<1>4. ASSUME NEW r \in Series, r # s PROVE LaneCursor(r)'
  <2>1. DurableBar(r)' = DurableBar(r) /\ lanes'[r] = lanes[r]
    BY <1>2, <1>4, RowsAsTable, Zenon
  <2>2. \A n : Confirmed(r, n)' = Confirmed(r, n) /\ trades'[r][n] = trades[r][n]
    BY <1>4, Zenon DEF Confirmed
  <2>3. Confirmed(r, lanes[r].last + 1)' = Confirmed(r, lanes[r].last + 1)
    BY <1>4, <2>1, Zenon DEF Confirmed
  <2> QED
    BY <1>1, <2>1, <2>2, <2>3, SMTT(20), SMTT(30) DEF LaneCursor
<1> QED
  BY <1>1, <1>3, <1>4, RowsInvParts, Zenon DEF ProcessOK

\* A trade adds a revision to the candle after the lane's bar.
LEMMA FormingRows ==
  ASSUME OutboxInv, RowsInv, NEW s \in Series, Forming(s)
  PROVE  RowsInv'
<1> DEFINE n == lanes[s].last + 1
<1>1. Types /\ OutboxInv' /\ (\A r \in Series : LaneCursor(r)) /\ MaxBars \in Nat
  BY OutboxInvParts, RowsInvParts, FormingKeeps, DeliveryAssumption, Zenon
<1>2. /\ lanes[s] \in LaneState /\ lanes[s].last \in 0..MaxBars /\ n \in 1..(MaxBars + 1)
      /\ proc = "run" /\ UNCHANGED <<proc, rows, disp>> /\ lanes[s].pc = "idle"
  BY <1>1, SMTT(20), SMTT(30) DEF Forming, Types, LaneState, outbox
<1>3. /\ trades[s][n] \in Nat /\ trades'[s][n] = trades[s][n] + 1
      /\ \A r \in Series : r # s => trades'[r] = trades[r]
  <2>1. /\ trades \in [Series -> [1..(MaxBars + 1) -> Nat]] /\ trades[s] \in [1..(MaxBars + 1) -> Nat]
        /\ trades[s][n] \in Nat
    BY <1>1, <1>2, Zenon DEF Types
  <2>2. trades' = [trades EXCEPT ![s] = [trades[s] EXCEPT ![n] = @ + 1]]
    BY <2>1, Zenon DEF Forming
  <2> HIDE DEF n
  <2> QED
    BY <1>2, <2>1, <2>2, Zenon
<1>4. PICK colour, pc, kind, out :
        /\ colour \in Colours /\ pc \in {"live", "idle"} /\ kind \in {"transition", "snapshot"}
        /\ lanes' = [lanes EXCEPT ![s] = Lane(pc, lanes[s].last, [bar |-> n, colour |-> colour], out)]
        /\ pc = "live" => out = Message(kind, n, trades[s][n] + 1, colour)
  BY Zenon DEF Forming
<1>5. PICK l : l = Lane(pc, lanes[s].last, [bar |-> n, colour |-> colour], out)
  BY Zenon
<1>6. l.pc = pc /\ l.last = lanes[s].last /\ l.out = out
  BY <1>5, Zenon DEF Lane
<1>7. pc = "live" => /\ out \in Messages /\ out.bar = n /\ out.kind \in {"transition", "snapshot"}
                     /\ out.rev = trades'[s][n]
  <2> SUFFICES ASSUME pc = "live"
               PROVE  /\ out \in Messages /\ out.bar = n /\ out.kind \in {"transition", "snapshot"}
                      /\ out.rev = trades'[s][n]
    BY Zenon
  <2>1. n \in Nat /\ trades[s][n] + 1 \in Nat
    BY <1>2, <1>3, DeliveryAssumption, SMT, SMTT(30)
  <2>2. out = Message(kind, n, trades[s][n] + 1, colour) /\ colour \in Colours
        /\ kind \in {"transition", "snapshot"}
    BY <1>4, Zenon
  <2> HIDE DEF n
  <2>3. /\ out \in Messages /\ out.bar = n /\ out.kind = kind /\ out.rev = trades[s][n] + 1
    BY <2>1, <2>2, Zenon DEF Message, Messages
  <2> QED
    BY <1>3, <2>2, <2>3, Zenon
<1>8. DurableBar(s)' = DurableBar(s) /\ DurableBar(s) = lanes[s].last
  BY <1>1, <1>2, RowsAsTable, Zenon DEF LaneCursor
<1>9. lanes'[s] = l
  BY <1>1, <1>4, <1>5, Zenon DEF Types
<1>10. LaneCursor(s)'
  BY <1>2, <1>4, <1>6, <1>7, <1>8, <1>9, Zenon DEF LaneCursor
<1> QED
  BY <1>2, <1>3, <1>4, <1>5, <1>6, <1>10, LaneMovesRows, Zenon

\* After a confirmed frame the lane stands on the bar it carried.
LEMMA PublishLiveRows ==
  ASSUME OutboxInv, RowsInv, NEW s \in Series, PublishLive(s)
  PROVE  RowsInv'
<1>1. Types /\ (\A r \in Series : LaneCursor(r)) /\ MaxBars \in Nat
  BY OutboxInvParts, RowsInvParts, DeliveryAssumption, Zenon
<1>2. /\ lanes[s] \in LaneState /\ UNCHANGED <<rows, trades, proc, disp>>
      /\ proc = "run" /\ lanes[s].pc = "live"
  BY <1>1, Zenon DEF PublishLive, outbox, Types
<1>3. CASE UNCHANGED lanes
  BY <1>2, <1>3, OthersKeepRows, Zenon DEF ProcessOK
<1>4. CASE Published(s)
  <2>1. PICK n, f :
          /\ lanes' = [lanes EXCEPT ![s] = Lane("idle", n, f, None)]
          /\ n = IF lanes[s].out.kind = "confirmed" THEN lanes[s].out.bar ELSE lanes[s].last
    BY <1>4, Zenon DEF Published
  <2>2. PICK l : l = Lane("idle", n, f, None)
    BY Zenon
  <2>3. l.pc = "idle" /\ l.last = n /\ lanes'[s] = l
    BY <1>1, <2>1, <2>2, Zenon DEF Lane, Types
  <2>4. DurableBar(s)' = DurableBar(s) /\ DurableBar(s) = n
    BY <1>1, <1>2, <2>1, RowsAsTable, Zenon DEF LaneCursor
  <2>5. LaneCursor(s)'
    BY <1>2, <2>3, <2>4, Zenon DEF LaneCursor
  <2> QED
    BY <1>2, <2>1, <2>2, <2>3, <2>5, LaneMovesRows, Zenon
<1> QED
  BY <1>2, <1>3, <1>4, Zenon DEF PublishLive

\* run: every lane restores the bar of its durable cursor.
LEMMA StartRows ==
  ASSUME OutboxInv, RowsInv, Start
  PROVE  RowsInv'
<1>1. Types /\ Ordered(rows) /\ OpenRows /\ \A r \in Series : LaneCursor(r)
  BY OutboxInvParts, RowsInvParts, Zenon
<1>2. proc = "off" /\ proc' = "flush" /\ rows' = rows
  BY Zenon DEF Start, outbox
<1>3. \A r \in Series : lanes[r].pc = "idle"
  BY <1>1, <1>2, Zenon DEF LaneCursor
<1>4. \A r \in Series : /\ lanes'[r].pc = "idle" /\ lanes'[r].last = DurableBar(r)
                        /\ DurableBar(r)' = DurableBar(r)
  BY <1>2, RowsAsTable, Zenon DEF Start, Lane
<1>5. OpenRows'
  <2>1. \A c \in Cursors : rows[c].series \in Series
    <3>1. \A c \in Cursors : rows[c] \in OutboxRow
      BY <1>1, SMT, SMTT(30) DEF Types, Cursors
    <3> QED
      BY <3>1, Zenon DEF OutboxRow
  <2> QED
    BY <1>1, <1>2, <1>3, <1>4, <2>1, Zenon DEF OpenRows, Cursors
<1>6. \A r \in Series : LaneCursor(r)'
  BY <1>2, <1>4, Zenon DEF LaneCursor
<1> QED
  BY <1>1, <1>2, <1>5, <1>6, RowsInvParts, Zenon DEF ProcessOK

\* A crash ends the transaction, and no lane is left to stand on a bar.
LEMMA CrashRows ==
  ASSUME OutboxInv, RowsInv, Crash
  PROVE  RowsInv'
<1>1. PICK state \in {"durable", "gone"} : rows' = Ended(Series, state)
  BY Zenon DEF Crash
<1>2. Ordered(rows') /\ \A c \in Cursors' : rows'[c].state # "open"
  BY <1>1, EndOrders, Zenon DEF OutboxInv
<1>3. proc' = "off" /\ \A r \in Series : lanes'[r].pc = "idle"
  BY Zenon DEF Crash, Lane
<1>4. OpenRows' /\ \A r \in Series : LaneCursor(r)'
  BY <1>2, <1>3, Zenon DEF OpenRows, LaneCursor
<1>5. ProcessOK'
  BY Zenon DEF Crash, Waiting, ProcessOK
<1> QED
  BY <1>2, <1>4, <1>5, RowsInvParts, Zenon

\* Every step keeps the rows of a series in bar order.
LEMMA StepRows ==
  ASSUME OutboxInv, RowsInv, [Next]_vars
  PROVE  RowsInv'
<1>1. CASE \E s \in Series : LaneStep(s)
  BY <1>1, BeginRows, CommitRows, FormingRows, PublishLiveRows, Zenon DEF LaneStep
<1>2. CASE Dispatch
  <2>1. UNCHANGED <<rows, lanes, trades>>
    BY <1>2, Zenon DEF Dispatch, Load, PublishEval, PublishFact, PublishHub, Mark, outbox
  <2>2. ProcessOK
    BY RowsInvParts, Zenon
  <2>3. proc' = proc \/ (proc = "flush" /\ proc' \in {"off", "run"})
    BY <1>2, <2>2, Zenon DEF ProcessOK, Dispatch, Load, PublishEval, PublishFact, PublishHub, Mark, FlushFails
  <2>4. proc' = "off" => disp'.pc = "idle"
    BY <1>2, <2>2, SMT, SMTT(30) DEF ProcessOK, Dispatch, Load, PublishEval, PublishFact, PublishHub, Mark, FlushFails,
                      Waiting
  <2>5. ProcessOK'
    BY <2>2, <2>3, <2>4, Zenon DEF ProcessOK
  <2> QED
    BY <2>1, <2>3, <2>5, OthersKeepRows, Zenon
<1>3. CASE ForgetIds \/ UNCHANGED vars
  <2>1. UNCHANGED <<rows, lanes, trades, proc, disp>>
    BY <1>3, Zenon DEF ForgetIds, vars, outbox
  <2>2. ProcessOK'
    BY <2>1, RowsInvParts, Zenon DEF ProcessOK
  <2> QED
    BY <2>1, <2>2, OthersKeepRows, Zenon
<1> QED
  BY <1>1, <1>2, <1>3, StartRows, CrashRows, Zenon DEF Next

\* The frames of a series enter the outbox in bar order, and a lane stands on
\* the durable bar of its series but for the command it is in.
THEOREM RowsInvariant == Spec => []RowsInv
<1>1. OutboxInv /\ RowsInv /\ [Next]_vars => RowsInv'
  BY StepRows, Zenon
<1> QED
  BY InitRows, <1>1, OutboxInvariant, PTL DEF Spec

=============================================================================
