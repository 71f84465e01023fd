----------------------------- MODULE HubProofs ------------------------------
(***************************************************************************)
(* Theorems about module Hub, for every buffer, page and batch size and    *)
(* any number of rows and faults: what a viewer receives implements Feed,  *)
(* a viewer without a cursor misses at most one event between snapshot and *)
(* stream, and activation never closes a client.                           *)
(***************************************************************************)
EXTENDS Hub, WellFoundedInduction, TLAPS

\* Every non-empty set of naturals has a least element.
LEMMA LeastNatural ==
  ASSUME NEW T \in SUBSET Nat, T # {}
  PROVE  \E x \in T : \A y \in T : x <= y
<1> DEFINE Smaller == {ss \in Nat \X Nat : ss[1] < ss[2]}
<1>1. IsWellFoundedOn(Smaller, Nat)
  BY NatLessThanWellFounded DEF OpToRel
<1>2. \E x \in T : \A y \in T : ~(<<y, x>> \in Smaller)
  <2> HIDE DEF Smaller
  <2> QED
    BY <1>1, WFMin, Zenon
<1>3. \A x, y \in T : ~(<<y, x>> \in Smaller) => x <= y
  OBVIOUS
<1> QED
  BY <1>2, <1>3, Zenon

\* Matching rows are cursors of the table.
LEMMA WantedIs ==
  ASSUME rows \in Seq(BOOLEAN)
  PROVE  /\ Len(rows) \in Nat /\ Wanted \subseteq 1..Len(rows) /\ Wanted \subseteq Nat /\ 0 \notin Wanted
         /\ Offered \subseteq Wanted
<1>1. Len(rows) \in Nat /\ DOMAIN rows = 1..Len(rows)
  OBVIOUS
<1>2. Wanted \subseteq 1..Len(rows)
  BY <1>1 DEF Wanted
<1> QED
  BY <1>1, <1>2 DEF Offered

\* The greatest element of a bounded set of naturals.
LEMMA MaxIs ==
  ASSUME NEW n \in Nat, NEW T \in SUBSET (0..n), T # {}
  PROVE  Max(T) \in T /\ \A y \in T : y <= Max(T)
<1>1. T \in SUBSET Nat /\ \A x \in T : x <= n
  OBVIOUS
<1>2. \E x \in T : \A y \in T : y <= x
  <2> DEFINE U == {n - x : x \in T}
  <2>1. U \in SUBSET Nat
    <3>1. \A x \in T : n - x \in Nat
      BY <1>1
    <3> QED
      BY <3>1, Zenon
  <2>2. U # {}
    <3>1. PICK x : x \in T
      OBVIOUS
    <3>2. n - x \in U
      BY <3>1, Zenon
    <3> QED
      BY <3>2
  <2>3. PICK u \in U : \A v \in U : u <= v
    BY <2>1, <2>2, LeastNatural, Zenon
  <2>4. PICK x \in T : u = n - x
    BY <2>3, Zenon
  <2>5. \A y \in T : n - x <= n - y
    <3>1. \A y \in T : n - y \in U
      BY Zenon
    <3> QED
      BY <2>3, <2>4, <3>1, Zenon
  <2> QED
    BY <1>1, <2>4, <2>5
<1>3. \E x \in T : \A y \in T : x >= y
  BY <1>1, <1>2
<1>4. Max(T) \in T /\ \A y \in T : Max(T) >= y
  BY <1>3, Zenon DEF Max
<1> QED
  BY <1>1, <1>4

LEMMA NewestIs ==
  ASSUME rows \in Seq(BOOLEAN)
  PROVE  Newest \in Wanted \cup {0} /\ \A c \in Wanted : c <= Newest
<1>1. PICK T : T = Wanted \cup {0}
  BY Zenon
<1>2. T \in SUBSET (0..Len(rows)) /\ T # {} /\ Len(rows) \in Nat
  BY <1>1, WantedIs
<1>3. Max(T) \in T /\ \A y \in T : y <= Max(T)
  BY <1>2, MaxIs, Zenon
<1> QED
  BY <1>1, <1>3, Zenon DEF Newest

\* Elements of a queue when one is added at its end or taken from its head.
LEMMA QueueIs ==
  ASSUME NEW S, NEW q \in Seq(S)
  PROVE  /\ Len(q) \in Nat /\ DOMAIN q = 1..Len(q) /\ Range(q) \subseteq S
         /\ \A i \in 1..Len(q) : q[i] \in S /\ q[i] \in Range(q)
         /\ \A T : Range(q) \subseteq T => q \in Seq(T)
<1>1. Len(q) \in Nat /\ DOMAIN q = 1..Len(q) /\ \A i \in 1..Len(q) : q[i] \in S
  OBVIOUS
<1>2. Range(q) \subseteq S /\ \A i \in 1..Len(q) : q[i] \in Range(q)
  BY <1>1 DEF Range
<1>3. ASSUME NEW T, Range(q) \subseteq T PROVE q \in Seq(T)
  BY <1>1, <1>2, <1>3
<1> QED
  BY <1>1, <1>2, <1>3

LEMMA AppendIs ==
  ASSUME NEW S, NEW q \in Seq(S), NEW c \in S
  PROVE  /\ Append(q, c) \in Seq(S) /\ Len(Append(q, c)) = Len(q) + 1 /\ Len(q) \in Nat
         /\ Append(q, c)[Len(q) + 1] = c /\ \A i \in 1..Len(q) : Append(q, c)[i] = q[i]
         /\ Range(Append(q, c)) = Range(q) \cup {c}
<1>1. PICK a : a = Append(q, c)
  BY Zenon
<1>2. /\ a \in Seq(S) /\ Len(a) = Len(q) + 1 /\ Len(q) \in Nat /\ DOMAIN q = 1..Len(q)
      /\ DOMAIN a = 1..(Len(q) + 1) /\ a[Len(q) + 1] = c /\ \A i \in 1..Len(q) : a[i] = q[i]
  BY <1>1
<1>3. Range(a) \subseteq Range(q) \cup {c}
  BY <1>2 DEF Range
<1>4. Range(q) \subseteq Range(a) /\ c \in Range(a)
  <2>1. \A i \in 1..Len(q) : i \in 1..(Len(q) + 1)
    BY <1>2
  <2> QED
    BY <1>2, <2>1 DEF Range
<1> QED
  BY <1>1, <1>2, <1>3, <1>4

LEMMA TailIs ==
  ASSUME NEW S, NEW q \in Seq(S), q # <<>>
  PROVE  /\ Head(q) \in S /\ Head(q) = q[1] /\ 1 \in DOMAIN q
         /\ Tail(q) \in Seq(S) /\ Len(Tail(q)) = Len(q) - 1 /\ Len(q) \in Nat \ {0}
         /\ \A i \in 1..(Len(q) - 1) : Tail(q)[i] = q[i + 1]
         /\ Range(q) = Range(Tail(q)) \cup {Head(q)}
<1>1. PICK a : a = Tail(q)
  BY Zenon
<1>2. /\ a \in Seq(S) /\ Len(a) = Len(q) - 1 /\ Len(q) \in Nat \ {0} /\ DOMAIN q = 1..Len(q)
      /\ DOMAIN a = 1..(Len(q) - 1) /\ \A i \in 1..(Len(q) - 1) : a[i] = q[i + 1]
      /\ Head(q) = q[1] /\ 1 \in DOMAIN q /\ q[1] \in S
  BY <1>1
<1>3. \A i \in DOMAIN q : i = 1 \/ (i - 1 \in DOMAIN a /\ q[i] = a[i - 1])
  BY <1>2
<1>4. Range(q) \subseteq Range(a) \cup {q[1]}
  BY <1>2, <1>3 DEF Range
<1>5. \A i \in DOMAIN a : i + 1 \in DOMAIN q
  BY <1>2
<1>6. Range(a) \subseteq Range(q) /\ q[1] \in Range(q)
  BY <1>2, <1>5 DEF Range
<1> QED
  BY <1>1, <1>2, <1>4, <1>6

\* The sort rearranges pending: cursors ascend, provisional events come last.
LEMMA ByCursorIs ==
  ASSUME NEW S \in SUBSET Nat, NEW q \in Seq(S), NEW r \in ByCursor(q)
  PROVE  /\ r \in Seq(S) /\ Len(r) = Len(q) /\ Range(r) = Range(q)
         /\ \A i \in DOMAIN r : r[i] # 0 => \A j \in 1..i : r[j] # 0 /\ r[j] <= r[i]
<1>1. Len(q) \in Nat /\ DOMAIN q = 1..Len(q) /\ \A i \in 1..Len(q) : q[i] \in S
  BY QueueIs
<1>2. PICK p \in Bijection(DOMAIN q, DOMAIN q) : r = [i \in DOMAIN q |-> q[p[i]]]
  BY DEF ByCursor
<1>3. /\ \A i \in 1..Len(q) : p[i] \in 1..Len(q)
      /\ \A j \in 1..Len(q) : \E i \in 1..Len(q) : p[i] = j
  BY <1>1, Zenon DEF Bijection, Surjection, Injection
<1>4. DOMAIN r = 1..Len(q) /\ \A i \in 1..Len(q) : r[i] = q[p[i]] /\ r[i] \in S /\ r[i] \in Nat
  <2>1. \A i \in 1..Len(q) : r[i] = q[p[i]] /\ r[i] \in S
    BY <1>1, <1>2, <1>3
  <2> QED
    BY <1>1, <1>2, <2>1, Zenon
<1>5. r \in Seq(S) /\ Len(r) = Len(q)
  BY <1>1, <1>2, <1>4
<1>6. Range(r) = Range(q)
  <2>1. ASSUME NEW c \in Range(r) PROVE c \in Range(q)
    <3>1. PICK i \in 1..Len(q) : c = r[i]
      BY <1>4, <2>1 DEF Range
    <3> QED
      BY <1>1, <1>3, <1>4, <3>1, QueueIs, Zenon
  <2>2. ASSUME NEW c \in Range(q) PROVE c \in Range(r)
    <3>1. PICK j \in 1..Len(q) : c = q[j]
      BY <1>1, <2>2 DEF Range
    <3>2. PICK i \in 1..Len(q) : p[i] = j
      BY <1>3
    <3>3. c = r[i]
      BY <1>4, <3>1, <3>2
    <3> QED
      BY <1>4, <3>3 DEF Range
  <2> QED
    BY <2>1, <2>2, Zenon
<1>7. \A i, j \in 1..Len(q) : i < j => ~Less(r[j], r[i])
  BY <1>1 DEF ByCursor
<1>8. ASSUME NEW i \in DOMAIN r, r[i] # 0, NEW j \in 1..i PROVE r[j] # 0 /\ r[j] <= r[i]
  <2>1. j \in 1..Len(q) /\ i \in 1..Len(q) /\ (j = i \/ j < i)
    BY <1>1, <1>4, <1>8
  <2>2. CASE j = i
    BY <1>4, <1>8, <2>1, <2>2
  <2>3. CASE j < i
    BY <1>4, <1>7, <1>8, <2>1, <2>3 DEF Less
  <2> QED
    BY <2>1, <2>2, <2>3
<1> QED
  BY <1>5, <1>6, <1>8

\* activate sends everything kept aside that the replay has not covered.
LEMMA ActivatedIs ==
  ASSUME rows \in Seq(BOOLEAN), NEW k \in HubClient, Len(k.pending) <= Cap,
         NEW q \in ByCursor(k.pending), NEW n \in 0..Len(q),
         \A i \in DOMAIN q : i <= n <=> q[i] # 0 /\ q[i] <= k.after,
         NEW a, a = Activated(k, q, n)
  PROVE  /\ a \in HubClient /\ a.phase = "active" /\ ~a.closed /\ a.pending = <<>>
         /\ a.after = k.after /\ a.snap = k.snap /\ Len(a.send) <= Cap
         /\ k.after <= a.lastCursor /\ \A c \in Range(a.send) : c <= a.lastCursor
         /\ a.lastCursor = k.after \/ a.lastCursor \in Range(k.pending)
         /\ Range(a.send) = {c \in Range(k.pending) : c = 0 \/ k.after < c}
         /\ \A i \in DOMAIN a.send : a.send[i] > 0 =>
              k.after < a.send[i] /\ \A j \in 1..i : a.send[j] <= a.send[i]
<1> DEFINE S == Wanted \cup {0}
<1>1. /\ Len(rows) \in Nat /\ S \subseteq 0..Len(rows) /\ S \in SUBSET Nat /\ k.after \in 0..Len(rows)
      /\ k.pending \in Seq(S) /\ Cap \in Nat
  BY WantedIs, HubAssumption, SMTT(30) DEF HubClient
<1>2. /\ q \in Seq(S) /\ Len(q) = Len(k.pending) /\ Range(q) = Range(k.pending)
      /\ \A i \in DOMAIN q : q[i] # 0 => \A j \in 1..i : q[j] # 0 /\ q[j] <= q[i]
  BY <1>1, ByCursorIs, SMTT(30)
<1> HIDE DEF S
<1>3. Len(q) \in Nat /\ DOMAIN q = 1..Len(q) /\ n \in Nat /\ n <= Len(q)
      /\ \A i \in 1..Len(q) : q[i] \in S /\ q[i] \in Nat
  <2>1. Len(q) \in Nat /\ DOMAIN q = 1..Len(q) /\ \A i \in 1..Len(q) : q[i] \in S
    BY <1>2, QueueIs
  <2>2. n \in Nat /\ n <= Len(q)
    BY <2>1
  <2>3. \A c \in S : c \in Nat
    BY <1>1
  <2> QED
    BY <2>1, <2>2, <2>3
<1>4. PICK d : d = SubSeq(q, n + 1, Len(q))
  BY Zenon
<1>5. /\ d \in Seq(S) /\ Len(d) = Len(q) - n /\ DOMAIN d = 1..(Len(q) - n)
      /\ \A i \in 1..(Len(q) - n) : d[i] = q[i + n]
  BY <1>3, <1>2, <1>4
<1>6. Len(d) \in Nat /\ Len(d) <= Cap
  BY <1>1, <1>2, <1>3, <1>5
<1>7. PICK s : s = SubSeq(d, 1, IF Len(d) < Cap THEN Len(d) ELSE Cap)
  BY Zenon
<1>8. s = d
  <2>1. s = SubSeq(d, 1, Len(d))
    BY <1>1, <1>6, <1>7
  <2> QED
    BY <1>5, <1>6, <2>1
<1>9. \A i \in 1..(Len(q) - n) : i + n \in 1..Len(q) /\ ~(i + n <= n)
  BY <1>3
<1>10. \A i \in 1..(Len(q) - n) : d[i] = 0 \/ k.after < d[i]
  BY <1>1, <1>3, <1>5, <1>9, SMTT(30)
<1>11. Range(d) = {c \in Range(k.pending) : c = 0 \/ k.after < c}
  <2>1. ASSUME NEW c \in Range(d) PROVE c \in Range(k.pending) /\ (c = 0 \/ k.after < c)
    <3>1. PICK i \in 1..(Len(q) - n) : c = d[i]
      BY <1>5, <2>1 DEF Range
    <3>2. c = q[i + n] /\ i + n \in 1..Len(q)
      BY <1>5, <1>9, <3>1
    <3>3. c \in Range(q)
      BY <1>2, <3>2, QueueIs
    <3> QED
      BY <1>2, <1>10, <3>1, <3>3
  <2>2. ASSUME NEW c \in Range(k.pending), c = 0 \/ k.after < c PROVE c \in Range(d)
    <3>1. PICK i \in 1..Len(q) : q[i] = c
      BY <1>2, <1>3, Zenon DEF Range
    <3>2. ~(i <= n)
      <4>1. k.after \in Nat
        BY <1>1
      <4>2. c \in Nat /\ i \in DOMAIN q
        BY <1>3, <3>1
      <4>3. ~(c # 0 /\ c <= k.after)
        BY <2>2, <4>1, <4>2
      <4> QED
        BY <3>1, <4>2, <4>3, Zenon
    <3>3. i - n \in 1..(Len(q) - n) /\ (i - n) + n = i
      BY <1>3, <3>1, <3>2
    <3>4. d[i - n] = c
      BY <1>5, <3>1, <3>3
    <3> QED
      BY <1>5, <3>3, <3>4 DEF Range
  <2> QED
    BY <2>1, <2>2
<1>12. ASSUME NEW i \in DOMAIN d, d[i] > 0 PROVE k.after < d[i] /\ \A j \in 1..i : d[j] <= d[i]
  <2>1. i \in 1..(Len(q) - n) /\ k.after < d[i]
    BY <1>5, <1>10, <1>12
  <2>2. ASSUME NEW j \in 1..i PROVE d[j] <= d[i]
    <3>1. /\ j \in 1..(Len(q) - n) /\ j + n \in 1..(i + n) /\ i + n \in DOMAIN q
          /\ d[i] = q[i + n] /\ d[j] = q[j + n]
      BY <1>3, <1>5, <2>1
    <3>2. q[i + n] # 0
      BY <1>12, <3>1
    <3> QED
      BY <1>2, <3>1, <3>2
  <2> QED
    BY <2>1, <2>2
<1>13. PICK T : T = Range(d) \cup {k.after}
  BY Zenon
<1>14. T \in SUBSET (0..Len(rows)) /\ T # {}
  BY <1>1, <1>5, <1>13, QueueIs, Zenon
<1>15. Max(T) \in T /\ \A y \in T : y <= Max(T)
  BY <1>1, <1>14, MaxIs, Zenon
<1>16. a = [k EXCEPT !.phase = "active", !.pending = <<>>, !.send = d, !.lastCursor = Max(T), !.closed = Len(d) > Cap]
  BY <1>4, <1>7, <1>8, <1>13, Zenon DEF Activated
<1>17. /\ a.phase = "active" /\ a.pending = <<>> /\ a.send = d /\ a.lastCursor = Max(T) /\ ~a.closed
       /\ a.after = k.after /\ a.snap = k.snap
  <2>1. ~(Len(d) > Cap)
    BY <1>1, <1>6
  <2> QED
    BY <1>16, <2>1, Zenon DEF HubClient
<1>18. a \in HubClient
  <2>1. Max(T) \in 0..Len(rows) /\ <<>> \in Seq(S)
    <3>1. Max(T) \in 0..Len(rows)
      BY <1>14, <1>15, Zenon
    <3> QED
      BY <3>1
  <2>2. (Len(d) > Cap) \in BOOLEAN
    BY <1>1, <1>6
  <2> QED
    BY <1>5, <1>16, <2>1, <2>2, Zenon DEF HubClient, S
<1>19. a.lastCursor = k.after \/ a.lastCursor \in Range(k.pending)
  BY <1>11, <1>13, <1>15, <1>17
<1>20. k.after <= a.lastCursor /\ \A c \in Range(a.send) : c <= a.lastCursor
  BY <1>13, <1>15, <1>17, Zenon
<1> QED
  BY <1>6, <1>11, <1>12, <1>17, <1>18, <1>19, <1>20

\* enqueue does one of five things.
LEMMA EnqueueIs ==
  ASSUME NEW k \in HubClient, NEW c
  PROVE  \/ Ignored(k, c) /\ Enqueue(k, c) = k
         \/ /\ ~Ignored(k, c) /\ k.phase # "active" /\ Len(k.pending) >= Cap
            /\ Enqueue(k, c) = [k EXCEPT !.closed = TRUE]
         \/ /\ ~Ignored(k, c) /\ k.phase # "active" /\ ~(Len(k.pending) >= Cap)
            /\ Enqueue(k, c) = [k EXCEPT !.pending = Append(@, c)]
         \/ /\ ~Ignored(k, c) /\ k.phase = "active" /\ Len(k.send) >= Cap
            /\ Enqueue(k, c) = [k EXCEPT !.closed = TRUE]
         \/ /\ ~Ignored(k, c) /\ k.phase = "active" /\ ~(Len(k.send) >= Cap)
            /\ Enqueue(k, c) = [k EXCEPT !.send = Append(@, c), !.lastCursor = Newer(k, c)]
<1>1. CASE Ignored(k, c)
  BY <1>1 DEF Enqueue
<1>2. CASE ~Ignored(k, c) /\ k.phase # "active"
  BY <1>2 DEF Enqueue, PendingFull
<1>3. CASE ~Ignored(k, c) /\ k.phase = "active"
  BY <1>3 DEF Enqueue
<1> QED
  BY <1>1, <1>2, <1>3

-----------------------------------------------------------------------------
(* Types.                                                                  *)

LEMMA SameRows == rows' = rows => Wanted' = Wanted /\ HubClient' = HubClient
BY DEF Wanted, HubClient

\* A commit adds one row at the end.
LEMMA CommitIs ==
  ASSUME rows \in Seq(BOOLEAN), Commit
  PROVE  /\ rows' \in Seq(BOOLEAN) /\ Len(rows') = Len(rows) + 1 /\ Len(rows) \in Nat
         /\ Wanted \subseteq Wanted' /\ HubClient \subseteq HubClient'
         /\ \/ Wanted' = Wanted
            \/ memory = Newest /\ Wanted' = Wanted \cup {Len(rows) + 1}
<1>1. PICK m \in BOOLEAN : rows' = Append(rows, m) /\ (m => memory = Newest)
  BY DEF Commit
<1>2. /\ rows' \in Seq(BOOLEAN) /\ Len(rows') = Len(rows) + 1 /\ Len(rows) \in Nat
      /\ DOMAIN rows = 1..Len(rows) /\ DOMAIN rows' = 1..(Len(rows) + 1)
      /\ rows'[Len(rows) + 1] = m /\ \A c \in 1..Len(rows) : rows'[c] = rows[c]
  BY <1>1
<1>3. Wanted \subseteq Wanted'
  BY <1>2 DEF Wanted
<1>4. \A c \in Wanted' : c \in Wanted \/ (c = Len(rows) + 1 /\ m)
  BY <1>2 DEF Wanted
<1>5. m => Len(rows) + 1 \in Wanted'
  <2>1. Len(rows) + 1 \in DOMAIN rows'
    BY <1>2
  <2> QED
    BY <1>2, <2>1, Zenon DEF Wanted
<1>6. \A q \in Seq(Wanted \cup {0}) : q \in Seq(Wanted' \cup {0})
  BY <1>3, QueueIs
<1>7. \A n \in 0..Len(rows) : n \in 0..Len(rows')
  BY <1>2
<1>8. HubClient \subseteq HubClient'
  BY <1>3, <1>6, <1>7 DEF HubClient
<1> QED
  BY <1>1, <1>2, <1>3, <1>4, <1>5, <1>8, Zenon

\* What a viewer receives at once moves it to the greatest cursor.
LEMMA ReceiveIs ==
  ASSUME rows \in Seq(BOOLEAN), NEW new \in SUBSET Wanted, Receive(new)
  PROVE  /\ got' = got \cup new /\ waived' = waived
         /\ new = {} => resume' = resume
         /\ new # {} => resume' \in new /\ \A c \in new : c <= resume'
<1>1. Len(rows) \in Nat /\ new \in SUBSET (0..Len(rows))
  BY WantedIs
<1>2. new # {} => Max(new) \in new /\ \A c \in new : c <= Max(new)
  BY <1>1, MaxIs, Zenon
<1> QED
  BY <1>2 DEF Receive

\* Hub.Publish keeps the client's type and its bounds.
LEMMA EnqueueType ==
  ASSUME TypeOK, NEW c \in 0..Len(rows), NEW k, k = Enqueue(client, c)
  PROVE  /\ k \in HubClient /\ Len(k.pending) <= Cap /\ Len(k.send) <= Cap
         /\ k.phase = client.phase /\ k.after = client.after /\ k.snap = client.snap
<1>1. /\ client \in HubClient /\ Cap \in Nat /\ Len(rows) \in Nat
      /\ client.pending \in Seq(Wanted \cup {0}) /\ client.send \in Seq(Wanted \cup {0})
      /\ client.lastCursor \in 0..Len(rows)
      /\ Len(client.pending) <= Cap /\ Len(client.send) <= Cap
  BY WantedIs, HubAssumption DEF TypeOK, HubClient
<1>2. CASE k = client \/ k = [client EXCEPT !.closed = TRUE]
  BY <1>1, <1>2, Zenon DEF HubClient
<1>3. ASSUME ~Ignored(client, c) PROVE c \in Wanted \cup {0}
  BY <1>3 DEF Ignored
<1>4. CASE ~Ignored(client, c) /\ ~(Len(client.pending) >= Cap) /\ k = [client EXCEPT !.pending = Append(@, c)]
  <2>1. PICK a : a = Append(client.pending, c)
    BY Zenon
  <2>2. a \in Seq(Wanted \cup {0}) /\ Len(a) = Len(client.pending) + 1 /\ Len(client.pending) \in Nat
    BY <1>1, <1>3, <1>4, <2>1, AppendIs
  <2>3. Len(a) <= Cap
    BY <1>1, <1>4, <2>2
  <2>4. k = [client EXCEPT !.pending = a]
    BY <1>4, <2>1
  <2> QED
    BY <1>1, <2>2, <2>3, <2>4, Zenon DEF HubClient
<1>5. CASE /\ ~Ignored(client, c) /\ ~(Len(client.send) >= Cap)
           /\ k = [client EXCEPT !.send = Append(@, c), !.lastCursor = Newer(client, c)]
  <2>1. PICK a : a = Append(client.send, c)
    BY Zenon
  <2>2. a \in Seq(Wanted \cup {0}) /\ Len(a) = Len(client.send) + 1 /\ Len(client.send) \in Nat
    BY <1>1, <1>3, <1>5, <2>1, AppendIs
  <2>3. Len(a) <= Cap
    BY <1>1, <1>5, <2>2
  <2>4. PICK m : m = Newer(client, c)
    OBVIOUS
  <2>5. m \in 0..Len(rows)
    BY <1>1, <2>4 DEF Newer
  <2>6. k = [client EXCEPT !.send = a, !.lastCursor = m]
    BY <1>5, <2>1, <2>4
  <2> QED
    BY <1>1, <2>2, <2>3, <2>5, <2>6, Zenon DEF HubClient
<1> QED
  BY <1>1, <1>2, <1>4, <1>5, EnqueueIs, Zenon

\* A fresh or absent client.
LEMMA NewClientType ==
  ASSUME NEW p \in {"gone", "greet"}, NEW n \in 0..Len(rows), rows \in Seq(BOOLEAN),
         NEW k, k = NewClient(p, n)
  PROVE  /\ k \in HubClient /\ k.phase = p /\ k.after = n /\ ~k.closed /\ k.snap = Unseeded
         /\ k.pending = <<>> /\ k.send = <<>> /\ k.lastCursor = 0
<1>1. 0 \in 0..Len(rows) /\ <<>> \in Seq(Wanted \cup {0})
  BY WantedIs
<1> QED
  BY <1>1 DEF NewClient, HubClient

\* A page ends where the table does, at the latest.
LEMMA PageLenIs ==
  ASSUME Len(rows) \in Nat, client.after \in 0..Len(rows)
  PROVE  /\ PageLen \in Nat /\ client.after + PageLen \in 0..Len(rows)
         /\ PageLen < PageSize => client.after + PageLen = Len(rows)
<1>1. PICK a \in Nat : a = client.after /\ a <= Len(rows)
  OBVIOUS
<1>2. PageLen = IF Len(rows) - a < PageSize THEN Len(rows) - a ELSE PageSize
  BY <1>1 DEF PageLen
<1>3. PageSize \in Nat
  BY HubAssumption
<1> QED
  BY <1>1, <1>2, <1>3

\* One step keeps the types.
LEMMA TypeStep == TypeOK /\ [Next]_vars => TypeOK'
<1> SUFFICES ASSUME TypeOK, [Next]_vars PROVE TypeOK'
  OBVIOUS
<1>1. /\ rows \in Seq(BOOLEAN) /\ Len(rows) \in Nat /\ Wanted \subseteq 1..Len(rows)
      /\ Offered \subseteq Wanted /\ client \in HubClient
      /\ client.after \in 0..Len(rows) /\ client.send \in Seq(Wanted \cup {0})
      /\ client.pending \in Seq(Wanted \cup {0})
      /\ disp \in [mark : 0..Len(rows), at : 1..(Len(rows) + 1), end : 0..Len(rows)]
      /\ Cap \in Nat /\ PageSize \in Nat /\ BatchSize \in Nat
  BY WantedIs, HubAssumption, Zenon DEF TypeOK, HubClient
<1> DEFINE ClientOK == client' \in HubClient /\ Len(client'.pending) <= Cap /\ Len(client'.send) <= Cap
<1>2. ASSUME UNCHANGED rows, UNCHANGED memory \/ memory' \in Wanted \cup {0, Unseeded},
             disp' \in [mark : 0..Len(rows), at : 1..(Len(rows) + 1), end : 0..Len(rows)],
             ClientOK, resume' \in Wanted \cup {0}, got' \subseteq Wanted, waived' \subseteq Wanted
      PROVE  TypeOK'
  <2>1. Wanted' = Wanted /\ HubClient' = HubClient /\ Len(rows') = Len(rows)
    BY <1>2, SameRows
  <2>2. memory' \in Wanted \cup {0, Unseeded}
    BY <1>2 DEF TypeOK
  <2> QED
    BY <1>2, <2>1, <2>2 DEF TypeOK
<1>3. UNCHANGED client => ClientOK
  BY DEF TypeOK
<1>4. UNCHANGED viewer => resume' \in Wanted \cup {0} /\ got' \subseteq Wanted /\ waived' \subseteq Wanted
  BY DEF TypeOK, viewer
<1>5. ASSUME NEW new \in SUBSET Wanted, Receive(new)
      PROVE  resume' \in Wanted \cup {0} /\ got' \subseteq Wanted /\ waived' \subseteq Wanted
  BY <1>1, <1>5, ReceiveIs, Zenon DEF TypeOK
<1>6. ASSUME NEW p \in {"gone", "greet"}, NEW n \in 0..Len(rows), client' = NewClient(p, n) PROVE ClientOK
  <2>1. client' \in HubClient /\ client'.pending = <<>> /\ client'.send = <<>>
    BY <1>1, <1>6, NewClientType, SMTT(30)
  <2> QED
    BY <1>1, <2>1
<1>7. client' = Gone => ClientOK
  BY <1>1, <1>6 DEF Gone
<1>8. UNCHANGED disp => disp' \in [mark : 0..Len(rows), at : 1..(Len(rows) + 1), end : 0..Len(rows)]
  BY <1>1
<1> HIDE DEF ClientOK
<1>9. CASE Commit
  <2>1. /\ rows' \in Seq(BOOLEAN) /\ Len(rows') = Len(rows) + 1 /\ Wanted \subseteq Wanted'
        /\ HubClient \subseteq HubClient'
    BY <1>1, <1>9, CommitIs
  <2>2. disp' \in [mark : 0..Len(rows'), at : 1..(Len(rows') + 1), end : 0..Len(rows')]
    BY <1>1, <1>9, <2>1 DEF Commit
  <2>3. /\ memory' \in Wanted' \cup {0, Unseeded} /\ resume' \in Wanted' \cup {0}
        /\ got' \subseteq Wanted' /\ waived' \subseteq Wanted'
    BY <1>9, <2>1 DEF Commit, TypeOK, viewer
  <2>4. client' \in HubClient' /\ Len(client'.pending) <= Cap /\ Len(client'.send) <= Cap
    BY <1>9, <2>1 DEF Commit, TypeOK
  <2> QED
    BY <2>1, <2>2, <2>3, <2>4, SMTT(30) DEF TypeOK
<1>10. CASE Install
  <2>1. Newest \in Wanted \cup {0}
    BY <1>1, NewestIs
  <2> QED
    BY <1>2, <1>3, <1>4, <1>8, <1>10, <2>1 DEF Install
<1>11. CASE Load \/ Mark \/ FlushFails
  <2>1. disp' \in [mark : 0..Len(rows), at : 1..(Len(rows) + 1), end : 0..Len(rows)]
    <3>1. CASE Load
      <4>1. PICK e : e = IF disp.mark + BatchSize < Len(rows) THEN disp.mark + BatchSize ELSE Len(rows)
        OBVIOUS
      <4>2. disp.mark \in 0..Len(rows)
        BY <1>1
      <4>3. e \in 0..Len(rows) /\ disp.mark + 1 \in 1..(Len(rows) + 1)
        BY <1>1, <4>1, <4>2, SMTT(30)
      <4>4. disp' = [disp EXCEPT !.at = disp.mark + 1, !.end = e]
        BY <3>1, <4>1 DEF Load
      <4> QED
        BY <1>1, <4>3, <4>4, Zenon
    <3>2. CASE Mark \/ FlushFails
      BY <1>1, <3>2 DEF Mark, FlushFails
    <3> QED
      BY <1>11, <3>1, <3>2
  <2>2. UNCHANGED <<outbox, client, viewer>>
    BY <1>11 DEF Load, Mark, FlushFails
  <2> QED
    BY <1>2, <1>3, <1>4, <2>1, <2>2 DEF outbox
<1>12. CASE Publish
  <2>1. disp.at \in 0..Len(rows) /\ client' = Enqueue(client, disp.at)
    BY <1>1, <1>12 DEF Publish
  <2>2. ClientOK
    BY <2>1, EnqueueType DEF ClientOK
  <2>3. disp' \in [mark : 0..Len(rows), at : 1..(Len(rows) + 1), end : 0..Len(rows)]
    BY <1>1, <1>12, SMTT(30) DEF Publish
  <2> QED
    BY <1>2, <1>4, <1>12, <2>2, <2>3 DEF Publish, outbox
<1>13. CASE PublishProvisional
  <2>1. 0 \in 0..Len(rows) /\ client' = Enqueue(client, 0)
    BY <1>1, <1>13 DEF PublishProvisional
  <2>2. ClientOK
    BY <2>1, EnqueueType DEF ClientOK
  <2> QED
    BY <1>2, <1>4, <1>8, <1>13, <2>2 DEF PublishProvisional, outbox
<1>14. CASE Subscribe
  <2>1. resume \in 0..Len(rows)
    BY <1>1 DEF TypeOK
  <2>2. ClientOK
    BY <1>6, <1>14, <2>1 DEF Subscribe
  <2>3. waived' \subseteq Wanted /\ resume' \in Wanted \cup {0} /\ got' \subseteq Wanted
    BY <1>1, <1>14 DEF Subscribe, TypeOK
  <2> QED
    BY <1>2, <1>8, <1>14, <2>2, <2>3 DEF Subscribe, outbox
<1>15. CASE Greet
  <2>1. memory \in Wanted \cup {0, Unseeded}
    BY DEF TypeOK
  <2>2. ClientOK
    BY <1>1, <1>15, <2>1, Zenon DEF Greet, ClientOK, HubClient, TypeOK
  <2> QED
    BY <1>2, <1>4, <1>8, <1>15, <2>2 DEF Greet, outbox
<1>16. CASE Replay
  <2>1. PICK n : n = PageLen
    OBVIOUS
  <2>2. n \in Nat /\ client.after + n \in 0..Len(rows)
    BY <1>1, <2>1, PageLenIs
  <2>3. PICK p \in {"ready", "replay"} : client' = [client EXCEPT !.after = client.after + n, !.phase = p]
    BY <1>16, <2>1, Zenon DEF Replay
  <2>4. ClientOK
    BY <1>1, <2>2, <2>3, Zenon DEF ClientOK, HubClient, TypeOK
  <2>5. resume' \in Wanted \cup {0} /\ got' \subseteq Wanted /\ waived' \subseteq Wanted
    BY <1>5, <1>16 DEF Replay
  <2> QED
    BY <1>2, <1>8, <1>16, <2>4, <2>5 DEF Replay, outbox
<1>17. CASE Activate
  <2>1. ClientOK
    <3>1. CASE client' = [client EXCEPT !.phase = "active"]
      BY <1>1, <3>1, Zenon DEF ClientOK, HubClient, TypeOK
    <3>2. CASE \E q \in ByCursor(client.pending) : \E n \in 0..Len(q) :
                 /\ \A i \in DOMAIN q : i <= n <=> q[i] # 0 /\ q[i] <= client.after
                 /\ client' = Activated(client, q, n)
      <4>1. Len(client.pending) <= Cap
        BY DEF TypeOK
      <4>2. client' \in HubClient /\ Len(client'.send) <= Cap /\ client'.pending = <<>>
        BY <1>1, <3>2, <4>1, ActivatedIs, SMTT(30)
      <4> QED
        BY <1>1, <4>2 DEF ClientOK
    <3> QED
      BY <1>17, <3>1, <3>2 DEF Activate
  <2> QED
    BY <1>2, <1>4, <1>8, <1>17, <2>1 DEF Activate, outbox
<1>18. CASE Write
  <2>1. CASE client.send # <<>> /\ Receive({Head(client.send)} \ {0}) /\ client' = [client EXCEPT !.send = Tail(@)]
    <3>1. /\ Head(client.send) \in Wanted \cup {0} /\ Tail(client.send) \in Seq(Wanted \cup {0})
          /\ Len(Tail(client.send)) = Len(client.send) - 1 /\ Len(client.send) \in Nat
      BY <1>1, <2>1, TailIs
    <3>2. PICK t : t = Tail(client.send)
      BY Zenon
    <3>3. Len(t) <= Cap /\ client' = [client EXCEPT !.send = t]
      BY <1>1, <2>1, <3>1, <3>2, SMTT(30) DEF TypeOK
    <3>4. ClientOK
      BY <1>1, <3>1, <3>2, <3>3, Zenon DEF ClientOK, HubClient, TypeOK
    <3>5. {Head(client.send)} \ {0} \in SUBSET Wanted
      BY <3>1
    <3>6. resume' \in Wanted \cup {0} /\ got' \subseteq Wanted /\ waived' \subseteq Wanted
      BY <1>5, <2>1, <3>5
    <3> QED
      BY <1>2, <1>8, <1>18, <3>4, <3>6 DEF Write, outbox
  <2>2. CASE client' = Gone /\ UNCHANGED viewer
    BY <1>2, <1>4, <1>7, <1>8, <1>18, <2>2 DEF Write, outbox
  <2> QED
    BY <1>18, <2>1, <2>2 DEF Write
<1>19. CASE Disconnect
  <2>1. resume' \in Wanted \cup {0} /\ got' \subseteq Wanted /\ waived' \subseteq Wanted
    BY <1>5, <1>19 DEF Disconnect
  <2> QED
    BY <1>2, <1>7, <1>8, <1>19, <2>1 DEF Disconnect, outbox
<1>20. CASE Restart
  BY <1>1, <1>2, <1>4, <1>7, <1>20 DEF Restart
<1>21. CASE UNCHANGED vars
  BY <1>2, <1>3, <1>4, <1>8, <1>21 DEF vars, outbox
<1> QED
  BY <1>9, <1>10, <1>11, <1>12, <1>13, <1>14, <1>15, <1>16, <1>17, <1>18, <1>19, <1>20, <1>21
     DEF Next, Dispatch, Serve

LEMMA InitType == Init => TypeOK
<1> SUFFICES ASSUME Init PROVE TypeOK
  OBVIOUS
<1>1. rows \in Seq(BOOLEAN)
  <2>1. <<>> \in Seq(BOOLEAN) /\ <<TRUE>> \in Seq(BOOLEAN)
    OBVIOUS
  <2> QED
    BY <2>1, Zenon DEF Init
<1>2. /\ Len(rows) \in Nat /\ Wanted \subseteq 1..Len(rows) /\ Newest \in Wanted \cup {0}
      /\ Cap \in Nat
  BY <1>1, WantedIs, NewestIs, HubAssumption
<1>3. client \in HubClient /\ client.pending = <<>> /\ client.send = <<>>
  BY <1>1, <1>2, NewClientType DEF Init, Gone
<1>4. resume \in Wanted \cup {0}
  <2>1. CASE rows = <<>>
    BY <2>1 DEF Init
  <2>2. CASE rows = <<TRUE>>
    <3>1. Len(rows) = 1 /\ 1 \in DOMAIN rows /\ rows[1] = TRUE
      BY <2>2
    <3>2. 1 \in Wanted
      BY <3>1 DEF Wanted
    <3> QED
      BY <3>1, <3>2 DEF Init
  <2> QED
    BY <2>1, <2>2, Zenon DEF Init
<1>5. disp \in [mark : 0..Len(rows), at : 1..(Len(rows) + 1), end : 0..Len(rows)]
  BY <1>2 DEF Init
<1> QED
  BY <1>1, <1>2, <1>3, <1>4, <1>5 DEF Init, TypeOK

\* Buffers never exceed their capacity and cursors are rows of the outbox,
\* whatever fails (enqueue, activate).
THEOREM HubTypes == Spec => []TypeOK
BY InitType, TypeStep, PTL DEF Spec

-----------------------------------------------------------------------------
(* The feed.                                                               *)

\* The facts about types and bounds the following proofs use.
LEMMA TypeFacts ==
  ASSUME TypeOK
  PROVE  /\ rows \in Seq(BOOLEAN) /\ Len(rows) \in Nat /\ Wanted \subseteq 1..Len(rows)
         /\ Wanted \subseteq Nat /\ 0 \notin Wanted /\ Offered \subseteq Wanted /\ client \in HubClient
         /\ client.after \in 0..Len(rows) /\ client.lastCursor \in 0..Len(rows)
         /\ client.send \in Seq(Wanted \cup {0}) /\ client.pending \in Seq(Wanted \cup {0})
         /\ Range(client.send) \subseteq Wanted \cup {0} /\ Range(client.pending) \subseteq Wanted \cup {0}
         /\ resume \in 0..Len(rows) /\ waived \subseteq Wanted /\ got \subseteq Wanted
         /\ disp.mark \in 0..Len(rows) /\ disp.at \in 1..(Len(rows) + 1) /\ disp.end \in 0..Len(rows)
         /\ client.closed \in BOOLEAN
<1>1. /\ rows \in Seq(BOOLEAN) /\ Len(rows) \in Nat /\ Wanted \subseteq 1..Len(rows)
      /\ Wanted \subseteq Nat /\ 0 \notin Wanted /\ Offered \subseteq Wanted
  BY WantedIs DEF TypeOK
<1>2. /\ client \in HubClient /\ client.after \in 0..Len(rows) /\ client.lastCursor \in 0..Len(rows)
      /\ client.send \in Seq(Wanted \cup {0}) /\ client.pending \in Seq(Wanted \cup {0})
      /\ client.closed \in BOOLEAN
  BY DEF TypeOK, HubClient
<1>3. Range(client.send) \subseteq Wanted \cup {0} /\ Range(client.pending) \subseteq Wanted \cup {0}
  BY <1>2, QueueIs
<1>4. resume \in 0..Len(rows)
  BY <1>1 DEF TypeOK
<1>5. disp.mark \in 0..Len(rows) /\ disp.at \in 1..(Len(rows) + 1) /\ disp.end \in 0..Len(rows)
  BY DEF TypeOK
<1> QED
  BY <1>1, <1>2, <1>3, <1>4, <1>5, SMTT(30) DEF TypeOK

\* Only Publish offers a row.
LEMMA OfferedIs ==
  ASSUME TypeOK
  PROVE  /\ UNCHANGED <<rows, disp>> => Offered' = Offered
         /\ Commit \/ Load \/ Mark \/ FlushFails => Offered' \subseteq Offered
         /\ Publish => Offered' \subseteq Offered \cup {disp.at}
<1>1. UNCHANGED <<rows, disp>> => Offered' = Offered
  BY DEF Offered, Wanted
<1>2. ASSUME Commit PROVE Offered' \subseteq Offered
  <2>1. Wanted' \subseteq Wanted \cup {Len(rows) + 1} /\ disp' = disp
    BY <1>2, CommitIs, TypeFacts, SMTT(30) DEF Commit
  <2>2. ~(Len(rows) + 1 <= disp.mark) /\ ~(Len(rows) + 1 < disp.at)
    BY TypeFacts
  <2> QED
    BY <2>1, <2>2 DEF Offered
<1>3. ASSUME Load \/ Mark \/ FlushFails, NEW c \in Offered' PROVE c \in Offered
  <2>1. Wanted' = Wanted
    BY <1>3, SameRows DEF Load, Mark, FlushFails, outbox
  <2>2. c \in Wanted /\ c \in Nat /\ (c <= disp'.mark \/ c < disp'.at)
    BY <1>3, <2>1, TypeFacts DEF Offered
  <2>3. CASE Load
    <3>1. disp'.mark = disp.mark /\ disp'.at = disp.mark + 1
      BY <2>3 DEF Load, TypeOK
    <3>2. c <= disp.mark
      BY <2>2, <3>1, TypeFacts
    <3> QED
      BY <2>2, <3>2 DEF Offered
  <2>4. CASE Mark
    <3>1. disp'.mark = disp.end /\ disp'.at = disp.at /\ disp.at > disp.end
      BY <2>4 DEF Mark, TypeOK
    <3>2. c < disp.at
      BY <2>2, <3>1, TypeFacts
    <3> QED
      BY <2>2, <3>2 DEF Offered
  <2>5. CASE FlushFails
    <3>1. disp'.mark = disp.mark /\ disp'.at = disp.at
      BY <2>5 DEF FlushFails, TypeOK
    <3> QED
      BY <2>2, <3>1 DEF Offered
  <2> QED
    BY <1>3, <2>3, <2>4, <2>5
<1>4. ASSUME Publish, NEW c \in Offered', c # disp.at PROVE c \in Offered
  <2>1. Wanted' = Wanted
    BY <1>4, SameRows DEF Publish, outbox
  <2>2. disp'.mark = disp.mark /\ disp'.at = disp.at + 1
    BY <1>4 DEF Publish, TypeOK
  <2>3. c \in Wanted /\ c \in Nat /\ (c <= disp.mark \/ c < disp.at + 1)
    BY <1>4, <2>1, <2>2, TypeFacts DEF Offered
  <2>4. c <= disp.mark \/ c < disp.at
    BY <1>4, <2>3, TypeFacts
  <2> QED
    BY <2>3, <2>4 DEF Offered
<1> QED
  BY <1>1, <1>2, <1>3, <1>4

\* Nothing changes for the client: a new row lies beyond all it knows of.
LEMMA FeedStays ==
  ASSUME TypeOK, FeedInv, UNCHANGED <<client, viewer>>,
         Wanted' \subseteq Wanted \cup {Len(rows) + 1}, Offered' \subseteq Offered
  PROVE  FeedInv'
<1>1. UNCHANGED <<client, resume, got, waived>>
  BY DEF viewer
<1>2. ASSUME NEW c \in Wanted', c \notin Wanted
      PROVE  /\ ~(c <= resume) /\ ~(c <= client.after) /\ ~(c <= client.lastCursor) /\ c \notin Offered'
             /\ \A e \in Range(client.pending) : ~(c < e)
  <2>1. c = Len(rows) + 1 /\ Len(rows) \in Nat
    BY <1>2, TypeFacts
  <2>2. \A e \in Wanted \cup {0} : e \in 0..Len(rows)
    BY TypeFacts
  <2>3. \A e \in 0..Len(rows) : ~(c < e) /\ ~(c <= e)
    BY <2>1
  <2> QED
    BY <1>2, <2>2, <2>3, TypeFacts, SMTT(30)
<1>3. WaitingInv'
  <2>1. WaitingInv /\ (OnHub' <=> OnHub)
    BY <1>1 DEF FeedInv, OnHub
  <2>2. client'.phase \in {"greet", "replay", "ready"} =>
          /\ resume' <= client'.after /\ \A c \in Wanted' : c <= client'.after => c <= resume'
          /\ client'.send = <<>> /\ client'.lastCursor = 0
    BY <1>1, <1>2, <2>1 DEF WaitingInv
  <2>3. OnHub' /\ ~client'.closed =>
          \A c \in Wanted' \ waived' :
            client'.after < c /\ (c \in Offered' \/ \E e \in Range(client'.pending) : c < e) =>
              c \in Range(client'.pending)
    BY <1>1, <1>2, <2>1 DEF WaitingInv
  <2> QED
    BY <2>2, <2>3 DEF WaitingInv
<1>4. ActiveInv'
  BY <1>1, <1>2 DEF FeedInv, ActiveInv
<1>5. \A c \in Wanted' \ waived' : c <= resume' => c \in got'
  BY <1>1, <1>2 DEF FeedInv
<1> QED
  BY <1>3, <1>4, <1>5 DEF FeedInv

\* The client is gone; the viewer keeps what it has.
LEMMA FeedGone ==
  ASSUME TypeOK, FeedInv, UNCHANGED rows, client' = Gone,
         \A c \in Wanted \ waived' : c <= resume' => c \in got'
  PROVE  FeedInv'
<1>1. client'.phase = "gone" /\ Wanted' = Wanted
  BY SameRows DEF Gone, NewClient
<1>2. WaitingInv' /\ ActiveInv'
  BY <1>1 DEF WaitingInv, ActiveInv, OnHub
<1> QED
  BY <1>1, <1>2 DEF FeedInv

\* Receiving, past the position, everything promised up to some cursor is a step
\* of the feed.
LEMMA ReceivedIs ==
  ASSUME TypeOK, FeedInv, UNCHANGED rows, NEW new \in SUBSET Wanted, Receive(new),
         \A c \in new : resume < c,
         \A c \in Wanted \ waived : \A d \in new : resume < c /\ c <= d => c \in new
  PROVE  /\ resume <= resume' /\ resume' \in Nat
         /\ \A c \in Wanted \ waived' : c <= resume' => c \in got'
         /\ UNCHANGED <<Wanted, resume, got, waived>> \/ F!Advance
<1>1. /\ got' = got \cup new /\ waived' = waived /\ Wanted' = Wanted
      /\ new = {} => resume' = resume
      /\ new # {} => resume' \in new /\ \A c \in new : c <= resume'
  BY TypeFacts, ReceiveIs, SameRows, SMTT(30)
<1>2. Wanted \subseteq Nat /\ resume \in Nat /\ \A c \in Wanted \ waived : c <= resume => c \in got
  BY TypeFacts DEF FeedInv
<1>3. CASE new = {}
  BY <1>1, <1>2, <1>3
<1>4. CASE new # {}
  <2>1. resume' \in Wanted /\ resume < resume' /\ resume' \in Nat
    BY <1>1, <1>2, <1>4, Zenon
  <2>2. new \in SUBSET {c \in Wanted : resume < c /\ c <= resume'}
    BY <1>1, <1>4
  <2>3. \A c \in Wanted : resume < c /\ c <= resume' => c \in new \cup waived
    BY <1>1, <1>4
  <2>4. F!Advance
    BY <1>1, <1>4, <2>1, <2>2, <2>3 DEF F!Advance
  <2>5. ASSUME NEW c \in Wanted \ waived', c <= resume' PROVE c \in got'
    <3>1. CASE c <= resume
      BY <1>1, <1>2, <2>5, <3>1
    <3>2. CASE ~(c <= resume)
      BY <1>1, <1>2, <2>3, <2>5, <3>2
    <3> QED
      BY <3>1, <3>2
  <2> QED
    BY <1>2, <2>1, <2>4, <2>5
<1> QED
  BY <1>3, <1>4

\* Part of a page, written to a viewer that has all before it.
LEMMA PageReceived ==
  ASSUME TypeOK, FeedInv, UNCHANGED rows, client.phase = "replay", NEW n \in 0..PageLen,
         Receive(Page(n) \cap Wanted)
  PROVE  /\ resume <= resume' /\ resume' <= client.after + n
         /\ \A c \in Wanted : c <= client.after + n => c <= resume'
         /\ \A c \in Wanted \ waived' : c <= resume' => c \in got'
         /\ UNCHANGED <<Wanted, resume, got, waived>> \/ F!Advance
<1>1. /\ Len(rows) \in Nat /\ client.after \in Nat /\ resume \in Nat /\ Wanted \subseteq Nat
      /\ n \in Nat
  BY TypeFacts, PageLenIs
<1>2. resume <= client.after /\ \A c \in Wanted : c <= client.after => c <= resume
  BY DEF FeedInv, WaitingInv
<1>3. PICK new : new = Page(n) \cap Wanted
  OBVIOUS
<1>4. new \in SUBSET Wanted /\ \A c \in Wanted : c \in new <=> client.after < c /\ c <= client.after + n
  BY <1>1, <1>3 DEF Page
<1>5. \A c \in new : resume < c
  BY <1>1, <1>2, <1>4
<1>6. \A c \in Wanted \ waived : \A d \in new : resume < c /\ c <= d => c \in new
  BY <1>1, <1>2, <1>4
<1>7. /\ resume <= resume' /\ resume' \in Nat
      /\ \A c \in Wanted \ waived' : c <= resume' => c \in got'
      /\ UNCHANGED <<Wanted, resume, got, waived>> \/ F!Advance
  BY <1>3, <1>4, <1>5, <1>6, ReceivedIs
<1>8. /\ new = {} => resume' = resume
      /\ new # {} => resume' \in new /\ \A c \in new : c <= resume'
  BY <1>3, <1>4, ReceiveIs, TypeFacts, Zenon
<1>9. resume' <= client.after + n
  <2>1. CASE new = {}
    BY <1>1, <1>2, <1>8, <2>1
  <2>2. CASE new # {}
    BY <1>4, <1>8, <2>2
  <2> QED
    BY <2>1, <2>2
<1>10. ASSUME NEW c \in Wanted, c <= client.after + n PROVE c <= resume'
  <2>1. CASE c <= client.after
    BY <1>1, <1>2, <1>7, <1>10, <2>1
  <2>2. CASE ~(c <= client.after)
    <3>1. c \in new
      BY <1>1, <1>4, <1>10, <2>2
    <3> QED
      BY <1>8, <3>1
  <2> QED
    BY <2>1, <2>2
<1> QED
  BY <1>7, <1>9, <1>10

\* The next event of the buffer, written to the viewer.
LEMMA HeadReceived ==
  ASSUME TypeOK, FeedInv, UNCHANGED rows, client.phase = "active", client.send # <<>>,
         Receive({Head(client.send)} \ {0})
  PROVE  /\ resume <= resume' /\ resume' \in {resume, Head(client.send)}
         /\ Head(client.send) > 0 => resume' = Head(client.send) /\ resume' \in got'
         /\ \A c \in Wanted \ waived' : c <= resume' => c \in got'
         /\ UNCHANGED <<Wanted, resume, got, waived>> \/ F!Advance
<1>1. PICK h : h = Head(client.send)
  OBVIOUS
<1>2. /\ h \in Wanted \cup {0} /\ h = client.send[1] /\ 1 \in DOMAIN client.send
      /\ Wanted \subseteq Nat /\ 0 \notin Wanted /\ resume \in Nat
  BY <1>1, TypeFacts, TailIs
<1>3. ActiveInv /\ \A c \in Wanted \ waived : c <= resume => c \in got
  BY DEF FeedInv
<1>4. CASE h = 0
  <2>1. Receive({})
    BY <1>1, <1>4, Zenon
  <2>2. UNCHANGED <<resume, got, waived>> /\ Wanted' = Wanted
    BY <2>1, SameRows DEF Receive
  <2> QED
    BY <1>1, <1>2, <1>3, <1>4, <2>2
<1>5. CASE h # 0 /\ h = resume
  <2>1. Receive({h}) /\ {h} \in SUBSET Wanted /\ h > 0
    <3>1. {h} \ {0} = {h} /\ h \in Wanted
      BY <1>2, <1>5
    <3>2. h > 0
      BY <1>2, <1>5, <3>1
    <3> QED
      BY <1>1, <3>1, <3>2, Zenon
  <2>2. got' = got \cup {h} /\ resume' = h /\ waived' = waived /\ Wanted' = Wanted
    BY <2>1, ReceiveIs, TypeFacts, SameRows, Zenon
  <2>3. resume \in got
    BY <1>2, <1>3, <1>5, <2>1, Zenon DEF ActiveInv
  <2>4. got' = got /\ resume' = resume
    BY <1>5, <2>2, <2>3
  <2> QED
    BY <1>1, <1>2, <1>3, <1>5, <2>2, <2>3, <2>4
<1>6. CASE h # 0 /\ h # resume
  <2>1. Receive({h}) /\ {h} \in SUBSET Wanted /\ h \in Nat /\ h > 0
    <3>1. {h} \ {0} = {h} /\ h \in Wanted
      BY <1>2, <1>6
    <3>2. h \in Nat
      BY <1>2, <3>1, Zenon
    <3>3. h > 0
      BY <1>6, <3>2
    <3> QED
      BY <1>1, <3>1, <3>2, <3>3, Zenon
  <2>2. resume < h /\ h <= client.lastCursor
    BY <1>2, <1>3, <1>6, <2>1 DEF ActiveInv
  <2>3. ASSUME NEW c \in Wanted \ waived, resume < c, c <= h PROVE c = h
    <3>1. c \in Range(client.send)
      <4>1. c <= client.lastCursor
        BY <1>2, <2>1, <2>2, <2>3, TypeFacts
      <4> QED
        BY <1>3, <2>3, <4>1 DEF ActiveInv
    <3>2. PICK i \in DOMAIN client.send : client.send[i] = c
      BY <3>1 DEF Range
    <3>3. 1 \in 1..i /\ c > 0
      BY <1>2, <2>3, <3>2, QueueIs, TypeFacts
    <3>4. h <= c
      BY <1>2, <1>3, <3>2, <3>3 DEF ActiveInv
    <3>5. c \in Nat
      BY <1>2, <2>3
    <3> QED
      BY <2>1, <2>3, <3>4, <3>5
  <2>4. PICK new : new = {h}
    BY Zenon
  <2>5. new \in SUBSET Wanted /\ Receive(new) /\ new # {} /\ \A c \in new : resume < c
    BY <2>1, <2>2, <2>4
  <2>6. \A c \in Wanted \ waived : \A d \in new : resume < c /\ c <= d => c \in new
    BY <2>3, <2>4
  <2>7. /\ resume <= resume' /\ \A c \in Wanted \ waived' : c <= resume' => c \in got'
        /\ UNCHANGED <<Wanted, resume, got, waived>> \/ F!Advance
    BY <2>5, <2>6, ReceivedIs
  <2>8. resume' = h /\ h \in got'
    BY <2>4, <2>5, ReceiveIs, TypeFacts, SMTT(30)
  <2> QED
    BY <1>1, <2>7, <2>8
<1> QED
  BY <1>4, <1>5, <1>6

\* An event offered to the client; before activation it is kept aside.
LEMMA FeedEnqueueWaiting ==
  ASSUME TypeOK, FeedInv, UNCHANGED <<rows, viewer>>, client.phase # "active",
         NEW e \in 0..Len(rows), client' = Enqueue(client, e),
         Offered' \subseteq Offered \cup ({e} \ {0}),
         \A c \in Wanted : c < e => c \in Offered
  PROVE  FeedInv'
<1>1. UNCHANGED <<resume, got, waived>> /\ Wanted' = Wanted
  BY SameRows DEF viewer
<1>2. client'.phase = client.phase /\ client'.after = client.after
  BY EnqueueType
<1>3. ActiveInv'
  BY <1>2 DEF ActiveInv
<1>4. \A c \in Wanted' \ waived' : c <= resume' => c \in got'
  BY <1>1 DEF FeedInv
<1>5. OnHub' <=> OnHub
  BY <1>1, <1>2 DEF OnHub
<1>6. client'.send = client.send /\ client'.lastCursor = client.lastCursor
  <2>1. client \in HubClient
    BY TypeFacts, SMTT(30)
  <2>2. \/ client' = client \/ client' = [client EXCEPT !.closed = TRUE]
        \/ client' = [client EXCEPT !.pending = Append(@, e)]
    BY <2>1, EnqueueIs, Zenon
  <2> QED
    BY <2>1, <2>2 DEF HubClient
<1>7. client'.phase \in {"greet", "replay", "ready"} =>
        /\ resume' <= client'.after /\ \A c \in Wanted' : c <= client'.after => c <= resume'
        /\ client'.send = <<>> /\ client'.lastCursor = 0
  BY <1>1, <1>2, <1>6, SMTT(30) DEF FeedInv, WaitingInv
<1>8. ASSUME OnHub, ~client'.closed, NEW c \in Wanted \ waived, client.after < c,
             c \in Offered' \/ \E d \in Range(client'.pending) : c < d
      PROVE  c \in Range(client'.pending)
  <2>1. client.lastCursor = 0 /\ client.phase # "gone" /\ c \in Nat /\ c # 0
    BY <1>8, TypeFacts, SMTT(30) DEF OnHub, FeedInv, WaitingInv
  <2>2. CASE Ignored(client, e) /\ client' = client
    <3>1. ~client.closed
      BY <1>8, <2>2
    <3>2. c # e \/ e = 0
      <4>1. CASE e > 0
        BY <1>8, <2>1, <2>2, <3>1, <4>1 DEF Ignored
      <4>2. CASE ~(e > 0)
        BY <4>2
      <4> QED
        BY <4>1, <4>2
    <3>3. c \in Offered \/ \E d \in Range(client.pending) : c < d
      BY <1>8, <2>1, <2>2, <3>2
    <3> QED
      BY <1>8, <2>2, <3>1, <3>3 DEF FeedInv, WaitingInv
  <2>3. CASE ~Ignored(client, e) /\ client' = [client EXCEPT !.pending = Append(@, e)]
    <3>1. ~client.closed /\ e \in Wanted \cup {0}
      BY <2>3 DEF Ignored
    <3>2. client'.pending = Append(client.pending, e)
      BY <2>3, TypeFacts DEF HubClient
    <3>3. Range(client'.pending) = Range(client.pending) \cup {e}
      <4>1. PICK S, q : S = Wanted \cup {0} /\ q = client.pending
        BY Zenon
      <4>2. q \in Seq(S) /\ e \in S
        BY <3>1, <4>1, TypeFacts
      <4>3. Range(Append(q, e)) = Range(q) \cup {e}
        BY <4>2, AppendIs
      <4> QED
        BY <3>2, <4>1, <4>3
    <3>4. c = e \/ c \in Offered \/ \E d \in Range(client.pending) : c < d
      <4>1. CASE c \in Offered'
        BY <4>1
      <4>2. CASE \E d \in Range(client'.pending) : c < d
        BY <1>8, <3>3, <4>2
      <4> QED
        BY <1>8, <4>1, <4>2
    <3> QED
      BY <1>8, <3>1, <3>3, <3>4 DEF FeedInv, WaitingInv
  <2>4. CASE client' = [client EXCEPT !.closed = TRUE]
    BY <1>8, <2>4, TypeFacts DEF HubClient
  <2> QED
    BY <2>2, <2>3, <2>4, EnqueueIs, TypeFacts, Zenon
<1>9. WaitingInv'
  BY <1>1, <1>2, <1>5, <1>7, <1>8, SMTT(30) DEF WaitingInv
<1> QED
  BY <1>3, <1>4, <1>9 DEF FeedInv

\* An event offered to an active client goes to the end of its buffer.
LEMMA FeedEnqueueActive ==
  ASSUME TypeOK, FeedInv, UNCHANGED <<rows, viewer>>, client.phase = "active",
         NEW e \in 0..Len(rows), client' = Enqueue(client, e),
         Offered' \subseteq Offered \cup ({e} \ {0}),
         \A c \in Wanted : c < e => c \in Offered
  PROVE  FeedInv'
<1>1. UNCHANGED <<resume, got, waived>> /\ Wanted' = Wanted
  BY SameRows DEF viewer
<1>2. client'.phase = "active"
  BY EnqueueType
<1>3. WaitingInv'
  BY <1>2 DEF WaitingInv, OnHub
<1>4. \A c \in Wanted' \ waived' : c <= resume' => c \in got'
  BY <1>1 DEF FeedInv
<1>5. ActiveInv /\ e \in Nat /\ resume \in Nat /\ client.lastCursor \in Nat /\ Wanted \subseteq Nat
  BY TypeFacts DEF FeedInv
<1>6. CASE Ignored(client, e) /\ client' = client
  <2>1. ~client.closed /\ e \in Wanted /\ e # 0 => e <= client.lastCursor
    BY <1>5, <1>6, <1>2, SMTT(30) DEF Ignored
  <2>2. Offered' \subseteq Wanted
    BY <1>1, TypeFacts DEF Offered
  <2>3. ~client.closed => \A c \in Offered' \ waived : c <= client.lastCursor
    BY <1>2, <1>5, <1>6, <2>1, <2>2 DEF ActiveInv
  <2> QED
    BY <1>1, <1>3, <1>4, <1>5, <1>6, <2>3 DEF ActiveInv, FeedInv
<1>7. CASE client' = [client EXCEPT !.closed = TRUE]
  <2>1. client'.closed /\ client'.send = client.send /\ client'.lastCursor = client.lastCursor
    BY <1>7, TypeFacts DEF HubClient
  <2>2. ActiveInv'
    BY <1>1, <1>5, <1>2, <2>1 DEF ActiveInv
  <2> QED
    BY <1>3, <1>4, <2>2 DEF FeedInv
<1>8. CASE /\ ~Ignored(client, e)
           /\ client' = [client EXCEPT !.send = Append(@, e), !.lastCursor = Newer(client, e)]
  <2>1. ~client.closed /\ e \in Wanted \cup {0} /\ (e > 0 => client.lastCursor < e)
    BY <1>5, <1>8 DEF Ignored
  <2>2. PICK s, a, t : s = client.send /\ a = Append(s, e) /\ t = Newer(client, e)
    BY Zenon
  <2>3. client'.send = a /\ client'.lastCursor = t /\ ~client'.closed
    BY <1>8, <2>1, <2>2, TypeFacts DEF HubClient
  <2>4. /\ s \in Seq(Wanted \cup {0}) /\ a \in Seq(Wanted \cup {0}) /\ Len(a) = Len(s) + 1 /\ Len(s) \in Nat
        /\ DOMAIN s = 1..Len(s) /\ DOMAIN a = 1..(Len(s) + 1) /\ a[Len(s) + 1] = e
        /\ \A i \in 1..Len(s) : a[i] = s[i] /\ s[i] \in Nat
        /\ Range(a) = Range(s) \cup {e}
    <3>1. s \in Seq(Wanted \cup {0})
      BY <2>2, TypeFacts
    <3>2. /\ a \in Seq(Wanted \cup {0}) /\ Len(a) = Len(s) + 1 /\ Len(s) \in Nat /\ a[Len(s) + 1] = e
          /\ \A i \in 1..Len(s) : a[i] = s[i]
          /\ Range(a) = Range(s) \cup {e}
      BY <2>1, <2>2, <3>1, AppendIs
    <3>3. DOMAIN s = 1..Len(s) /\ DOMAIN a = 1..Len(a) /\ \A i \in 1..Len(s) : s[i] \in Wanted \cup {0}
      BY <3>1, <3>2, QueueIs
    <3>4. \A c \in Wanted \cup {0} : c \in Nat
      BY <1>5
    <3> QED
      BY <3>1, <3>2, <3>3, <3>4
  <2>5. t \in Nat /\ client.lastCursor <= t /\ (e > 0 => t = e) /\ (e = 0 => t = client.lastCursor)
    BY <1>5, <2>1, <2>2 DEF Newer
  <2>6. resume <= client.lastCursor /\ \A c \in Offered \ waived : c <= client.lastCursor
    BY <1>5, <2>1 DEF ActiveInv
  <2>7. ASSUME NEW i \in DOMAIN a, a[i] > 0
        PROVE  /\ resume <= a[i] /\ a[i] <= t /\ (a[i] = resume => resume \in got)
               /\ \A j \in 1..i : a[j] <= a[i]
    <3>1. CASE i \in 1..Len(s)
      <4>1. /\ resume <= s[i] /\ s[i] <= client.lastCursor /\ (s[i] = resume => resume \in got)
            /\ \A j \in 1..i : s[j] <= s[i]
        BY <1>5, <2>2, <2>4, <2>7, <3>1 DEF ActiveInv
      <4>2. \A j \in 1..i : j \in 1..Len(s)
        BY <2>4, <3>1
      <4> QED
        BY <1>5, <2>4, <2>5, <3>1, <4>1, <4>2, SMTT(30)
    <3>2. CASE i = Len(s) + 1
      <4>1. a[i] = e /\ t = e /\ client.lastCursor < e
        BY <2>1, <2>4, <2>5, <2>7, <3>2
      <4>2. resume < e
        BY <1>5, <2>6, <4>1
      <4>3. ASSUME NEW j \in 1..i PROVE a[j] <= e
        <5>1. CASE j = i
          BY <1>5, <4>1, <5>1
        <5>2. CASE j # i
          <6>1. j \in 1..Len(s) /\ a[j] = s[j] /\ s[j] \in Nat
            BY <2>4, <3>2, <5>2, SMTT(30)
          <6>2. s[j] > 0 => s[j] <= client.lastCursor
            BY <1>5, <2>2, <2>4, <6>1, SMTT(30) DEF ActiveInv
          <6> QED
            BY <1>5, <4>1, <6>1, <6>2
        <5> QED
          BY <5>1, <5>2
      <4> QED
        BY <1>5, <4>1, <4>2, <4>3
    <3> QED
      BY <2>4, <2>7, <3>1, <3>2
  <2>8. ASSUME NEW c \in Wanted \ waived, resume < c, c <= t PROVE c \in Range(a)
    <3>1. c \in Nat
      BY <1>5, <2>8
    <3>2. CASE c <= client.lastCursor
      BY <1>5, <2>2, <2>4, <2>8, <3>2, Zenon DEF ActiveInv
    <3>3. CASE ~(c <= client.lastCursor)
      <4>1. e > 0 /\ t = e
        BY <1>5, <2>5, <2>8, <3>1, <3>3
      <4>2. ~(c < e)
        BY <2>6, <2>8, <3>3
      <4>3. c = e
        BY <1>5, <2>8, <3>1, <4>1, <4>2
      <4> QED
        BY <2>4, <4>3
    <3> QED
      BY <3>2, <3>3
  <2>9. \A c \in Offered' \ waived : c <= t
    <3>1. Offered' \subseteq Wanted
      BY <1>1, TypeFacts DEF Offered
    <3> QED
      BY <1>5, <2>5, <2>6, <3>1, SMTT(30)
  <2>10. resume <= t
    BY <1>5, <2>5, <2>6, SMTT(30)
  <2>11. ActiveInv'
    BY <1>1, <2>3, <2>7, <2>8, <2>9, <2>10 DEF ActiveInv
  <2> QED
    BY <1>3, <1>4, <2>11 DEF FeedInv
<1> QED
  BY <1>6, <1>7, <1>8, EnqueueIs, TypeFacts, Zenon

LEMMA FeedSubscribe == TypeOK /\ FeedInv /\ Subscribe => FeedInv'
<1> SUFFICES ASSUME TypeOK, FeedInv, Subscribe PROVE FeedInv'
  OBVIOUS
<1>1. /\ Wanted' = Wanted /\ Offered' = Offered /\ UNCHANGED <<resume, got>>
      /\ waived' = IF resume = 0 THEN Offered ELSE waived
  BY OfferedIs, SameRows DEF Subscribe, outbox
<1>2. resume \in 0..Len(rows) /\ rows \in Seq(BOOLEAN) /\ Wanted \subseteq Nat /\ 0 \notin Wanted
      /\ Len(rows) \in Nat
  BY TypeFacts
<1>3. /\ client'.phase = "greet" /\ client'.after = resume /\ client'.pending = <<>>
      /\ client'.send = <<>> /\ client'.lastCursor = 0
  BY <1>2, NewClientType DEF Subscribe
<1>4. \A c \in Wanted' \ waived' : c <= resume' => c \in got'
  <2>1. CASE resume = 0
    BY <1>1, <1>2, <2>1
  <2>2. CASE resume # 0
    BY <1>1, <2>2 DEF FeedInv
  <2> QED
    BY <2>1, <2>2
<1>5. Range(<<>>) = {}
  BY DEF Range
<1>6. OnHub' => \A c \in Wanted' \ waived' : c \notin Offered'
  BY <1>1, <1>3 DEF OnHub
<1>7. WaitingInv'
  BY <1>1, <1>2, <1>3, <1>5, <1>6 DEF WaitingInv
<1>8. ActiveInv'
  BY <1>3 DEF ActiveInv
<1> QED
  BY <1>4, <1>7, <1>8 DEF FeedInv

LEMMA FeedGreet == TypeOK /\ FeedInv /\ Greet => FeedInv'
<1> SUFFICES ASSUME TypeOK, FeedInv, Greet PROVE FeedInv'
  OBVIOUS
<1>1. Wanted' = Wanted /\ Offered' = Offered /\ UNCHANGED <<resume, got, waived>>
  BY OfferedIs, SameRows DEF Greet, outbox, viewer
<1>2. /\ client'.after = client.after /\ client'.pending = client.pending /\ client'.send = client.send
      /\ client'.lastCursor = client.lastCursor /\ client'.closed = client.closed
      /\ client'.phase = IF resume > 0 THEN "replay" ELSE "ready"
  BY TypeFacts DEF Greet, HubClient
<1>3. client.phase = "greet" /\ (client'.phase = "ready" => OnHub)
  BY TypeFacts DEF Greet, OnHub
<1>4. WaitingInv'
  BY <1>1, <1>2, <1>3 DEF FeedInv, WaitingInv, OnHub
<1>5. ActiveInv'
  BY <1>2 DEF ActiveInv
<1> QED
  BY <1>1, <1>4, <1>5 DEF FeedInv

LEMMA FeedReplay == TypeOK /\ FeedInv /\ Replay => FeedInv'
<1> SUFFICES ASSUME TypeOK, FeedInv, Replay PROVE FeedInv'
  OBVIOUS
<1>1. PICK n : n = PageLen
  OBVIOUS
<1>2. Wanted' = Wanted /\ Offered' = Offered /\ UNCHANGED rows /\ client.phase = "replay"
  BY OfferedIs, SameRows DEF Replay, outbox
<1>3. n \in Nat /\ client.after + n \in 0..Len(rows) /\ (n < PageSize => client.after + n = Len(rows))
  BY <1>1, PageLenIs, TypeFacts, SMTT(30)
<1>4. /\ resume <= resume' /\ resume' <= client.after + n
      /\ \A c \in Wanted : c <= client.after + n => c <= resume'
      /\ \A c \in Wanted \ waived' : c <= resume' => c \in got'
  <2>1. n \in 0..PageLen
    BY <1>1, <1>3
  <2>2. Receive(Page(n) \cap Wanted)
    BY <1>1 DEF Replay
  <2> QED
    BY <1>2, <2>1, <2>2, PageReceived
<1>5. /\ client'.after = client.after + n /\ client'.send = client.send /\ client'.pending = client.pending
      /\ client'.lastCursor = client.lastCursor
      /\ client'.phase = IF n < PageSize THEN "ready" ELSE "replay"
  BY <1>1, TypeFacts DEF Replay, HubClient
<1>6. client'.phase = "ready" => \A c \in Wanted : ~(client'.after < c)
  BY <1>3, <1>5, TypeFacts, SMTT(30)
<1>7. WaitingInv'
  BY <1>2, <1>4, <1>5, <1>6 DEF FeedInv, WaitingInv, OnHub
<1>8. ActiveInv'
  BY <1>5 DEF ActiveInv
<1> QED
  BY <1>2, <1>4, <1>7, <1>8 DEF FeedInv

LEMMA FeedActivate == TypeOK /\ FeedInv /\ Activate => FeedInv'
<1> SUFFICES ASSUME TypeOK, FeedInv, Activate PROVE FeedInv'
  OBVIOUS
<1>1. Wanted' = Wanted /\ Offered' = Offered /\ UNCHANGED <<resume, got, waived>> /\ client.phase = "ready"
  BY OfferedIs, SameRows DEF Activate, outbox, viewer
<1>2. \A c \in Wanted' \ waived' : c <= resume' => c \in got'
  BY <1>1 DEF FeedInv
<1>3. /\ resume <= client.after /\ \A c \in Wanted : c <= client.after => c <= resume
      /\ client.send = <<>> /\ client.lastCursor = 0
  BY <1>1 DEF FeedInv, WaitingInv
<1>4. resume \in Nat /\ client.after \in Nat /\ Wanted \subseteq Nat /\ 0 \notin Wanted /\ Len(rows) \in Nat
  BY TypeFacts
<1>5. client'.phase = "active" => WaitingInv'
  BY DEF WaitingInv, OnHub
<1>6. CASE client.closed /\ client' = [client EXCEPT !.phase = "active"]
  <2>1. client'.closed /\ client'.send = <<>> /\ client'.lastCursor = 0 /\ client'.phase = "active"
    BY <1>3, <1>6, TypeFacts DEF HubClient
  <2>2. ActiveInv'
    BY <1>1, <1>4, <2>1 DEF ActiveInv
  <2> QED
    BY <1>2, <1>5, <2>1, <2>2 DEF FeedInv
<1>7. CASE /\ ~client.closed
           /\ \E q \in ByCursor(client.pending) : \E n \in 0..Len(q) :
                /\ \A i \in DOMAIN q : i <= n <=> q[i] # 0 /\ q[i] <= client.after
                /\ client' = Activated(client, q, n)
  <2>1. PICK a : a = client'
    OBVIOUS
  <2>2. rows \in Seq(BOOLEAN) /\ client \in HubClient /\ Len(client.pending) <= Cap
    BY TypeFacts, SMTT(30) DEF TypeOK
  <2>3. /\ a \in HubClient /\ a.phase = "active" /\ ~a.closed
        /\ client.after <= a.lastCursor /\ \A c \in Range(a.send) : c <= a.lastCursor
        /\ a.lastCursor = client.after \/ a.lastCursor \in Range(client.pending)
        /\ Range(a.send) = {c \in Range(client.pending) : c = 0 \/ client.after < c}
        /\ \A i \in DOMAIN a.send : a.send[i] > 0 =>
             client.after < a.send[i] /\ \A j \in 1..i : a.send[j] <= a.send[i]
    BY <1>7, <2>1, <2>2, ActivatedIs, SMTT(30)
  <2>4. a.lastCursor \in Nat
    BY <2>3, <1>4 DEF HubClient
  <2>5. \A c \in Wanted \ waived :
          client.after < c /\ (c \in Offered \/ \E e \in Range(client.pending) : c < e) =>
            c \in Range(client.pending)
    BY <1>1, <1>7 DEF FeedInv, WaitingInv, OnHub
  <2>6. ASSUME NEW i \in DOMAIN a.send, a.send[i] > 0
        PROVE  /\ resume <= a.send[i] /\ a.send[i] <= a.lastCursor /\ (a.send[i] = resume => resume \in got)
               /\ \A j \in 1..i : a.send[j] <= a.send[i]
    <3>1. client.after < a.send[i] /\ \A j \in 1..i : a.send[j] <= a.send[i]
      BY <2>3, <2>6
    <3>2. a.send[i] \in Range(a.send)
      BY <2>6 DEF Range
    <3>3. a.send[i] <= a.lastCursor /\ a.send[i] \in Nat
      <4>1. a.send[i] \in Wanted \cup {0}
        BY <2>3, <3>2, TypeFacts
      <4>2. \A c \in Wanted \cup {0} : c \in Nat
        BY <1>4
      <4> QED
        BY <2>3, <3>2, <4>1, <4>2, SMTT(30)
    <3>4. resume < a.send[i]
      BY <1>3, <1>4, <3>1, <3>3
    <3> QED
      BY <1>4, <3>1, <3>3, <3>4
  <2>7. ASSUME NEW c \in Wanted \ waived, resume < c, c <= a.lastCursor PROVE c \in Range(a.send)
    <3>1. c \in Nat /\ client.after < c
      BY <1>3, <1>4, <2>7
    <3>2. a.lastCursor \in Range(client.pending)
      BY <1>4, <2>3, <2>7, <3>1
    <3>3. c \in Range(client.pending)
      <4>1. CASE c = a.lastCursor
        BY <3>2, <4>1
      <4>2. CASE c # a.lastCursor
        <5>1. c < a.lastCursor
          BY <2>4, <2>7, <3>1, <4>2
        <5> QED
          BY <2>5, <2>7, <3>1, <3>2, <5>1
      <4> QED
        BY <4>1, <4>2
    <3> QED
      BY <2>3, <3>1, <3>3
  <2>8. ASSUME NEW c \in Offered \ waived PROVE c <= a.lastCursor
    <3>1. c \in Wanted \ waived /\ c \in Nat
      BY <2>8, TypeFacts
    <3>2. CASE client.after < c
      <4>1. c \in Range(a.send)
        BY <2>3, <2>5, <2>8, <3>1, <3>2
      <4> QED
        BY <2>3, <4>1
    <3>3. CASE ~(client.after < c)
      BY <1>4, <2>3, <2>4, <3>1, <3>3
    <3> QED
      BY <3>2, <3>3
  <2>9. resume <= a.lastCursor
    BY <1>3, <1>4, <2>3, <2>4
  <2>10. ActiveInv'
    BY <1>1, <2>1, <2>6, <2>7, <2>8, <2>9 DEF ActiveInv
  <2> QED
    BY <1>2, <1>5, <2>1, <2>3, <2>10 DEF FeedInv
<1> QED
  BY <1>6, <1>7 DEF Activate

LEMMA FeedWrite == TypeOK /\ FeedInv /\ Write => FeedInv'
<1> SUFFICES ASSUME TypeOK, FeedInv, Write PROVE FeedInv'
  OBVIOUS
<1>1. Wanted' = Wanted /\ Offered' = Offered /\ UNCHANGED rows /\ client.phase = "active"
  BY OfferedIs, SameRows DEF Write, outbox
<1>2. CASE client' = Gone /\ UNCHANGED viewer
  <2>1. \A c \in Wanted \ waived' : c <= resume' => c \in got'
    BY <1>2 DEF FeedInv, viewer
  <2> QED
    BY <1>1, <1>2, <2>1, FeedGone
<1>3. CASE /\ client.send # <<>> /\ Receive({Head(client.send)} \ {0})
           /\ client' = [client EXCEPT !.send = Tail(@)]
  <2>1. PICK s, t, h : s = client.send /\ t = Tail(s) /\ h = Head(s)
    BY Zenon
  <2>2. /\ resume <= resume' /\ resume' \in {resume, h} /\ (h > 0 => resume' = h /\ resume' \in got')
        /\ \A c \in Wanted \ waived' : c <= resume' => c \in got'
    BY <1>1, <1>3, <2>1, HeadReceived
  <2>3. /\ client'.send = t /\ client'.phase = "active" /\ client'.lastCursor = client.lastCursor
        /\ client'.closed = client.closed
    BY <1>1, <1>3, <2>1, TypeFacts DEF HubClient
  <2>4. PICK S : S = Wanted \cup {0}
    BY Zenon
  <2>5. s \in Seq(S) /\ s # <<>>
    BY <1>3, <2>1, <2>4, TypeFacts
  <2>6. /\ h \in S /\ h = s[1] /\ t \in Seq(S) /\ Len(t) = Len(s) - 1 /\ Len(s) \in Nat \ {0}
        /\ \A i \in 1..(Len(s) - 1) : t[i] = s[i + 1]
        /\ Range(s) = Range(t) \cup {h}
    BY <2>1, <2>5, TailIs
  <2>7. /\ DOMAIN s = 1..Len(s) /\ DOMAIN t = 1..(Len(s) - 1) /\ \A i \in 1..Len(s) : s[i] \in S
    BY <2>5, <2>6, QueueIs
  <2>8. /\ S \subseteq Nat /\ resume \in Nat /\ resume' \in Nat /\ client.lastCursor \in Nat /\ h \in Nat
        /\ \A i \in 1..Len(s) : s[i] \in Nat
    <3>1. S \subseteq Nat /\ resume \in Nat /\ client.lastCursor \in Nat
      BY <2>4, TypeFacts, SMTT(30)
    <3> QED
      BY <2>2, <2>6, <2>7, <3>1, Zenon
  <2>9. waived' = waived /\ got \subseteq got'
    BY <1>3 DEF Receive
  <2>10. /\ \A i \in 1..Len(s) : s[i] > 0 =>
              /\ resume <= s[i] /\ s[i] <= client.lastCursor /\ (s[i] = resume => resume \in got)
              /\ \A j \in 1..i : s[j] <= s[i]
         /\ \A c \in Wanted \ waived : resume < c /\ c <= client.lastCursor => c \in Range(s)
         /\ ~client.closed =>
              resume <= client.lastCursor /\ \A c \in Offered \ waived : c <= client.lastCursor
    BY <1>1, <2>1, <2>7, SMTT(30) DEF FeedInv, ActiveInv
  <2>11. ASSUME NEW i \in DOMAIN t, t[i] > 0
         PROVE  /\ resume' <= t[i] /\ t[i] <= client.lastCursor /\ (t[i] = resume' => resume' \in got')
                /\ \A j \in 1..i : t[j] <= t[i]
    <3>1. i \in 1..(Len(s) - 1) /\ i + 1 \in 1..Len(s) /\ t[i] = s[i + 1]
      BY <2>6, <2>7, <2>11
    <3>2. /\ resume <= s[i + 1] /\ s[i + 1] <= client.lastCursor /\ (s[i + 1] = resume => resume \in got)
          /\ \A j \in 1..(i + 1) : s[j] <= s[i + 1]
      BY <2>10, <2>11, <3>1
    <3>3. h <= s[i + 1]
      BY <2>6, <3>1, <3>2
    <3>4. resume' <= t[i] /\ (t[i] = resume' => resume' \in got')
      <4>1. CASE h > 0
        BY <2>2, <3>1, <3>3, <4>1
      <4>2. CASE ~(h > 0)
        <5>1. resume' = resume
          BY <2>2, <2>8, <4>2
        <5> QED
          BY <2>9, <3>1, <3>2, <5>1
      <4> QED
        BY <4>1, <4>2
    <3>5. ASSUME NEW j \in 1..i PROVE t[j] <= t[i]
      <4>1. j \in 1..(Len(s) - 1) /\ j + 1 \in 1..(i + 1)
        BY <2>6, <3>1
      <4>2. t[j] = s[j + 1]
        BY <2>6, <4>1
      <4> QED
        BY <3>1, <3>2, <4>1, <4>2
    <3> QED
      BY <3>1, <3>2, <3>4, <3>5
  <2>12. ASSUME NEW c \in Wanted \ waived, resume' < c, c <= client.lastCursor PROVE c \in Range(t)
    <3>1. c \in Nat /\ resume < c
      BY <2>2, <2>4, <2>8, <2>12
    <3>2. c \in Range(s)
      BY <2>10, <2>12, <3>1
    <3>3. c # h
      BY <2>2, <2>8, <2>12, <3>1
    <3> QED
      BY <2>6, <3>2, <3>3
  <2>13. ~client.closed => resume' <= client.lastCursor
    <3>1. h > 0 => h <= client.lastCursor
      <4>1. 1 \in 1..Len(s)
        BY <2>6
      <4> QED
        BY <2>6, <2>10, <4>1
    <3>2. CASE h > 0
      BY <2>2, <3>1, <3>2
    <3>3. CASE ~(h > 0)
      BY <2>2, <2>8, <2>10, <3>3, SMTT(30)
    <3> QED
      BY <3>2, <3>3
  <2>14. ActiveInv'
    BY <1>1, <2>3, <2>9, <2>10, <2>11, <2>12, <2>13 DEF ActiveInv
  <2>15. WaitingInv'
    BY <2>3 DEF WaitingInv, OnHub
  <2> QED
    BY <1>1, <2>2, <2>14, <2>15 DEF FeedInv
<1> QED
  BY <1>2, <1>3 DEF Write

\* The order and completeness of what is under way to the viewer are preserved.
LEMMA FeedStep == TypeOK /\ FeedInv /\ [Next]_vars => FeedInv'
<1> SUFFICES ASSUME TypeOK, FeedInv, [Next]_vars PROVE FeedInv'
  OBVIOUS
<1>1. CASE Commit \/ Install \/ Load \/ Mark \/ FlushFails \/ UNCHANGED vars
  <2>1. UNCHANGED <<client, viewer>>
    BY <1>1 DEF Commit, Install, Load, Mark, FlushFails, vars
  <2>2. Wanted' \subseteq Wanted \cup {Len(rows) + 1}
    <3>1. CASE Commit
      BY <3>1, CommitIs, TypeFacts
    <3>2. CASE ~Commit
      <4>1. UNCHANGED rows
        BY <1>1, <3>2 DEF Install, Load, Mark, FlushFails, vars, outbox
      <4> QED
        BY <4>1, SameRows
    <3> QED
      BY <3>1, <3>2, SMTT(30)
  <2>3. Offered' \subseteq Offered
    <3>1. CASE Install \/ UNCHANGED vars
      BY <3>1, OfferedIs DEF Install, vars, outbox
    <3> QED
      BY <1>1, <3>1, OfferedIs
  <2> QED
    BY <2>1, <2>2, <2>3, FeedStays
<1>2. ASSUME NEW e \in 0..Len(rows), UNCHANGED <<rows, viewer>>, client' = Enqueue(client, e),
             Offered' \subseteq Offered \cup ({e} \ {0}), \A c \in Wanted : c < e => c \in Offered
      PROVE  FeedInv'
  BY <1>2, FeedEnqueueWaiting, FeedEnqueueActive
<1>3. CASE Publish
  <2>1. /\ disp.at \in 0..Len(rows) /\ disp.at # 0 /\ UNCHANGED <<rows, viewer>>
        /\ client' = Enqueue(client, disp.at)
    BY <1>3, TypeFacts, SMTT(30) DEF Publish, outbox
  <2>2. Offered' \subseteq Offered \cup {disp.at}
    BY <1>3, OfferedIs
  <2>3. \A c \in Wanted : c < disp.at => c \in Offered
    BY DEF Offered
  <2> QED
    BY <1>2, <2>1, <2>2, <2>3
<1>4. CASE PublishProvisional
  <2>1. 0 \in 0..Len(rows) /\ UNCHANGED <<rows, viewer, disp>> /\ client' = Enqueue(client, 0)
    BY <1>4, TypeFacts DEF PublishProvisional, outbox
  <2>2. Offered' = Offered
    BY <2>1, OfferedIs
  <2>3. \A c \in Wanted : ~(c < 0)
    BY TypeFacts
  <2> QED
    BY <1>2, <2>1, <2>2, <2>3
<1>5. CASE Disconnect
  <2>1. UNCHANGED rows /\ client' = Gone
    BY <1>5 DEF Disconnect, outbox
  <2>2. PICK n \in 0..(IF client.phase = "replay" THEN PageLen ELSE 0) : Receive(Page(n) \cap Wanted)
    BY <1>5, Zenon DEF Disconnect
  <2>3. \A c \in Wanted \ waived' : c <= resume' => c \in got'
    <3>1. CASE client.phase = "replay"
      BY <2>1, <2>2, <3>1, PageReceived
    <3>2. CASE client.phase # "replay"
      <4>1. Page(n) = {}
        BY <2>2, <3>2, TypeFacts DEF Page
      <4>2. UNCHANGED <<resume, got, waived>>
        BY <2>2, <4>1 DEF Receive
      <4> QED
        BY <4>2 DEF FeedInv
    <3> QED
      BY <3>1, <3>2
  <2> QED
    BY <2>1, <2>3, FeedGone
<1>6. CASE Restart
  <2>1. UNCHANGED <<rows, viewer>> /\ client' = Gone
    BY <1>6 DEF Restart
  <2>2. \A c \in Wanted \ waived' : c <= resume' => c \in got'
    BY <2>1 DEF FeedInv, viewer
  <2> QED
    BY <2>1, <2>2, FeedGone
<1> QED
  BY <1>1, <1>3, <1>4, <1>5, <1>6, FeedSubscribe, FeedGreet, FeedReplay, FeedActivate, FeedWrite
     DEF Next, Dispatch, Serve

LEMMA InitFeed == Init => FeedInv
<1> SUFFICES ASSUME Init PROVE FeedInv
  OBVIOUS
<1>1. client.phase = "gone" /\ waived = {c \in Wanted : c <= resume}
  BY DEF Init, Gone, NewClient
<1> QED
  BY <1>1 DEF FeedInv, WaitingInv, ActiveInv, OnHub

\* Between replay, pending and buffer nothing a viewer was promised is lost, and
\* nothing overtakes (websocket, enqueue, activate, writeClient).
THEOREM FeedInvariant == Spec => []FeedInv
BY InitFeed, FeedStep, HubTypes, PTL DEF Spec

-----------------------------------------------------------------------------
(* Refinement, activation, snapshots.                                      *)

\* A step of the hub is a step of the feed or changes nothing in it.
LEMMA FeedSimulation ==
  TypeOK /\ FeedInv /\ [Next]_vars => [F!Next]_<<Wanted, resume, got, waived>>
<1> SUFFICES ASSUME TypeOK, FeedInv, [Next]_vars PROVE [F!Next]_<<Wanted, resume, got, waived>>
  OBVIOUS
<1>1. CASE Commit
  <2>1. UNCHANGED <<resume, got, waived>> /\ Len(rows) \in Nat /\ Wanted \subseteq 1..Len(rows)
    BY <1>1, TypeFacts DEF Commit, viewer
  <2>2. CASE Wanted' = Wanted
    BY <2>1, <2>2
  <2>3. CASE Wanted' = Wanted \cup {Len(rows) + 1}
    <3>1. \A d \in Wanted : d < Len(rows) + 1
      BY <2>1
    <3>2. F!Append
      BY <2>1, <2>3, <3>1 DEF F!Append
    <3> QED
      BY <3>2 DEF F!Next
  <2> QED
    BY <1>1, <2>2, <2>3, CommitIs, TypeFacts
<1>2. CASE Subscribe
  <2>1. Wanted' = Wanted /\ UNCHANGED <<resume, got>> /\ waived' = IF resume = 0 THEN Offered ELSE waived
    BY <1>2, SameRows DEF Subscribe, outbox
  <2>2. Offered \subseteq Wanted
    BY TypeFacts
  <2> QED
    BY <2>1, <2>2 DEF F!Next, F!Join
<1>3. CASE Replay
  <2>1. UNCHANGED rows /\ client.phase = "replay" /\ Receive(Page(PageLen) \cap Wanted)
    BY <1>3 DEF Replay, outbox
  <2>2. PageLen \in 0..PageLen
    BY PageLenIs, TypeFacts
  <2> QED
    BY <2>1, <2>2, PageReceived DEF F!Next
<1>4. CASE Write
  <2>1. UNCHANGED rows /\ client.phase = "active"
    BY <1>4 DEF Write, outbox
  <2>2. CASE UNCHANGED viewer
    BY <2>1, <2>2, SameRows DEF viewer
  <2>3. CASE client.send # <<>> /\ Receive({Head(client.send)} \ {0})
    BY <2>1, <2>3, HeadReceived DEF F!Next
  <2> QED
    BY <1>4, <2>2, <2>3 DEF Write
<1>5. CASE Disconnect
  <2>1. UNCHANGED rows
    BY <1>5 DEF Disconnect, outbox
  <2>2. PICK n \in 0..(IF client.phase = "replay" THEN PageLen ELSE 0) : Receive(Page(n) \cap Wanted)
    BY <1>5, Zenon DEF Disconnect
  <2>3. CASE client.phase = "replay"
    BY <2>1, <2>2, <2>3, PageReceived DEF F!Next
  <2>4. CASE client.phase # "replay"
    <3>1. Page(n) = {}
      BY <2>2, <2>4, TypeFacts DEF Page
    <3>2. UNCHANGED <<resume, got, waived>>
      BY <2>2, <3>1 DEF Receive
    <3> QED
      BY <2>1, <3>2, SameRows
  <2> QED
    BY <2>3, <2>4
<1>6. CASE Install \/ Load \/ Publish \/ Mark \/ FlushFails \/ PublishProvisional \/ Greet \/ Activate
           \/ Restart \/ UNCHANGED vars
  <2>1. UNCHANGED <<rows, viewer>>
    BY <1>6 DEF Install, Load, Publish, Mark, FlushFails, PublishProvisional, Greet, Activate, Restart, vars, outbox
  <2> QED
    BY <2>1, SameRows DEF viewer
<1> QED
  BY <1>1, <1>2, <1>3, <1>4, <1>5, <1>6 DEF Next, Dispatch, Serve

\* What a viewer receives over all its connections implements the abstract feed,
\* for every buffer, page and batch size (websocket, enqueue, activate).
THEOREM HubImplementsFeed == Spec => ImplementsFeed
<1>1. Init => F!Init
  <2> SUFFICES ASSUME Init PROVE F!Init
    OBVIOUS
  <2>1. TypeOK
    BY InitType
  <2>2. Wanted \subseteq Nat /\ 0 \notin Wanted /\ resume \in Wanted \cup {0}
    BY <2>1, TypeFacts DEF TypeOK
  <2> QED
    BY <2>2 DEF Init, F!Init
<1> QED
  BY <1>1, FeedSimulation, HubTypes, FeedInvariant, PTL DEF Spec, ImplementsFeed, F!Spec

\* Activation closes no client: what enqueue kept aside fits into the buffer.
THEOREM ActivationAlwaysFits == Spec => ActivationFits
<1>1. ASSUME TypeOK, [Next]_vars
      PROVE  [client.phase = "ready" /\ client'.phase = "active" /\ ~client.closed => ~client'.closed]_vars
  <2> SUFFICES ASSUME Next, client.phase = "ready", client'.phase = "active", ~client.closed
               PROVE  ~client'.closed
    BY <1>1
  <2>1. CASE Activate
    <3>1. rows \in Seq(BOOLEAN) /\ client \in HubClient /\ Len(client.pending) <= Cap
      BY <1>1, TypeFacts DEF TypeOK
    <3> QED
      BY <2>1, <3>1, ActivatedIs DEF Activate
  <2>2. CASE Publish \/ PublishProvisional
    <3>1. PICK c \in 0..Len(rows) : client' = Enqueue(client, c)
      BY <1>1, <2>2, TypeFacts, SMTT(30) DEF Publish, PublishProvisional
    <3> QED
      BY <1>1, <3>1, EnqueueType
  <2>3. CASE Write \/ Subscribe \/ Greet \/ Replay
    BY <2>3 DEF Write, Subscribe, Greet, Replay
  <2>4. CASE Disconnect \/ Restart
    BY <2>4 DEF Disconnect, Restart, Gone, NewClient
  <2>5. CASE Commit \/ Install \/ Load \/ Mark \/ FlushFails
    BY <2>5 DEF Commit, Install, Load, Mark, FlushFails
  <2> QED
    BY <2>1, <2>2, <2>3, <2>4, <2>5 DEF Next, Dispatch, Serve
<1> QED
  BY <1>1, HubTypes, PTL DEF Spec, ActivationFits

\* The lane's memory is at most one matching row behind, and a snapshot taken
\* from it stays ahead of everything the viewer subscribed too late for.
LEMMA SnapshotStep == TypeOK /\ FeedInv /\ SnapshotInv /\ [Next]_vars => SnapshotInv'
<1> SUFFICES ASSUME TypeOK, FeedInv, SnapshotInv, [Next]_vars PROVE SnapshotInv'
  OBVIOUS
<1> DEFINE M == memory # Unseeded => \A c, d \in Wanted : memory < c /\ memory < d => c = d
           P == client.snap # Unseeded =>
                  /\ client.phase = "active" \/ (client.phase = "ready" /\ client.after = 0)
                  /\ \A c \in waived : client.snap < c => \A d \in Wanted : client.snap < d => c <= d
           G == client.phase = "greet" => client.after = resume
<1>1. M /\ P /\ G
  BY DEF SnapshotInv
<1>2. G'
  <2>1. CASE Subscribe
    <3>1. resume \in 0..Len(rows) /\ rows \in Seq(BOOLEAN)
      BY TypeFacts
    <3> QED
      BY <2>1, <3>1, NewClientType DEF Subscribe
  <2>2. CASE Publish \/ PublishProvisional
    <3>1. PICK c \in 0..Len(rows) : client' = Enqueue(client, c)
      <4>1. 0 \in 0..Len(rows) /\ (Publish => disp.at \in 0..Len(rows))
        BY TypeFacts DEF Publish
      <4> QED
        BY <2>2, <4>1 DEF Publish, PublishProvisional
    <3>2. client'.phase = client.phase /\ client'.after = client.after
      BY <3>1, EnqueueType
    <3> QED
      BY <1>1, <2>2, <3>2 DEF Publish, PublishProvisional, viewer
  <2>3. CASE Greet \/ Replay \/ Activate \/ Write \/ Disconnect \/ Restart
    <3>1. client'.phase # "greet"
      <4>1. client \in HubClient
        BY TypeFacts
      <4>2. CASE Greet \/ Replay
        BY <4>1, <4>2, Zenon DEF Greet, Replay, HubClient
      <4>3. CASE Activate
        BY <4>1, <4>3, Zenon DEF Activate, Activated, HubClient
      <4>4. CASE Write
        BY <4>1, <4>4, SMTT(30) DEF Write, Gone, NewClient, HubClient
      <4>5. CASE Disconnect \/ Restart
        BY <4>5 DEF Disconnect, Restart, Gone, NewClient
      <4> QED
        BY <2>3, <4>2, <4>3, <4>4, <4>5
    <3> QED
      BY <3>1
  <2>4. CASE Commit \/ Install \/ Load \/ Mark \/ FlushFails \/ UNCHANGED vars
    BY <1>1, <2>4 DEF Commit, Install, Load, Mark, FlushFails, vars, viewer
  <2> QED
    BY <2>1, <2>2, <2>3, <2>4, SMTT(30) DEF Next, Dispatch, Serve
<1> SUFFICES M' /\ P'
  BY <1>2 DEF SnapshotInv
<1>3. UNCHANGED <<rows, memory>> => M'
  BY <1>1, SameRows
<1>4. client'.snap = Unseeded => P'
  OBVIOUS
<1>5. ASSUME UNCHANGED <<rows, waived>>, client'.snap = client.snap, client'.after = client.after,
             client'.phase = client.phase \/ client'.phase = "active"
      PROVE  P'
  BY <1>1, <1>5, SameRows
<1>6. client' = Gone => client'.snap = Unseeded
  BY DEF Gone, NewClient
<1>7. CASE Commit
  <2>1. UNCHANGED <<client, waived, memory>>
    BY <1>7 DEF Commit, viewer
  <2>2. /\ Len(rows) \in Nat /\ Wanted \subseteq 1..Len(rows) /\ waived \subseteq Wanted
        /\ Wanted' = Wanted \/ (memory = Newest /\ Wanted' = Wanted \cup {Len(rows) + 1})
    BY <1>7, CommitIs, TypeFacts
  <2>3. CASE Wanted' = Wanted
    BY <1>1, <2>1, <2>3
  <2>4. CASE memory = Newest /\ Wanted' = Wanted \cup {Len(rows) + 1}
    <3>1. \A c \in Wanted : c <= memory /\ c \in Nat
      BY <2>2, <2>4, NewestIs, TypeFacts
    <3>2. memory \in Nat
      <4>1. memory \in Wanted \cup {0}
        BY <2>4, NewestIs, TypeFacts
      <4> QED
        BY <3>1, <4>1
    <3>3. \A c \in Wanted' : memory < c => c = Len(rows) + 1
      BY <2>4, <3>1, <3>2
    <3>4. M'
      BY <2>1, <3>3
    <3>5. \A c \in waived : c <= Len(rows) + 1
      BY <2>2
    <3>6. P'
      BY <1>1, <2>1, <2>4, <3>5
    <3> QED
      BY <3>4, <3>6
  <2> QED
    BY <2>2, <2>3, <2>4
<1>8. CASE Install
  <2>1. UNCHANGED <<rows, client, waived>> /\ memory' = Newest /\ Wanted' = Wanted
    BY <1>8, SameRows DEF Install, viewer
  <2>2. \A c \in Wanted : c \in Nat /\ c <= Newest
    BY NewestIs, TypeFacts
  <2>3. Newest \in Nat
    BY NewestIs, TypeFacts
  <2>4. \A c \in Wanted : ~(Newest < c)
    BY <2>2, <2>3
  <2> QED
    BY <1>5, <2>1, <2>4
<1>9. CASE Load \/ Mark \/ FlushFails \/ UNCHANGED vars
  <2>1. UNCHANGED <<rows, memory, client, waived>>
    BY <1>9 DEF Load, Mark, FlushFails, vars, outbox, viewer
  <2> QED
    BY <1>3, <1>5, <2>1
<1>10. CASE Publish \/ PublishProvisional
  <2>1. UNCHANGED <<rows, memory, waived>>
    BY <1>10 DEF Publish, PublishProvisional, outbox, viewer
  <2>2. PICK c \in 0..Len(rows) : client' = Enqueue(client, c)
    <3>1. 0 \in 0..Len(rows) /\ (Publish => disp.at \in 0..Len(rows))
      BY TypeFacts DEF Publish
    <3> QED
      BY <1>10, <3>1 DEF Publish, PublishProvisional
  <2>3. client'.phase = client.phase /\ client'.after = client.after /\ client'.snap = client.snap
    BY <2>2, EnqueueType
  <2> QED
    BY <1>3, <1>5, <2>1, <2>3
<1>11. CASE Subscribe
  <2>1. resume \in 0..Len(rows) /\ rows \in Seq(BOOLEAN)
    BY TypeFacts
  <2>2. client'.snap = Unseeded
    BY <1>11, <2>1, NewClientType DEF Subscribe
  <2> QED
    BY <1>3, <1>4, <1>11, <2>2 DEF Subscribe, outbox
<1>12. CASE Greet
  <2>1. UNCHANGED <<rows, memory, waived, resume>> /\ Wanted' = Wanted /\ client.phase = "greet"
    BY <1>12, SameRows DEF Greet, outbox, viewer
  <2>2. CASE resume > 0
    <3>1. client'.snap = client.snap
      BY <1>12, <2>2, TypeFacts DEF Greet, HubClient
    <3>2. client.snap = Unseeded
      BY <1>1, <2>1
    <3> QED
      BY <1>3, <1>4, <2>1, <3>1, <3>2
  <2>3. CASE ~(resume > 0)
    <3>1. client'.snap = memory /\ client'.phase = "ready" /\ client'.after = client.after
      BY <1>12, <2>3, TypeFacts DEF Greet, HubClient
    <3>2. client.after = 0
      <4>1. resume = 0 /\ client.phase = "greet"
        BY <2>1, <2>3, TypeFacts, SMTT(30)
      <4> QED
        BY <1>1, <4>1
    <3>3. \A c \in waived : memory # Unseeded /\ memory < c => \A d \in Wanted : memory < d => c <= d
      BY <1>1, TypeFacts
    <3> QED
      BY <1>3, <2>1, <3>1, <3>2, <3>3
  <2> QED
    BY <2>2, <2>3
<1>13. CASE Replay
  <2>1. UNCHANGED <<rows, memory>> /\ client.phase = "replay"
    BY <1>13 DEF Replay, outbox
  <2>2. client'.snap = client.snap
    BY <1>13, TypeFacts DEF Replay, HubClient
  <2>3. client.snap = Unseeded
    BY <1>1, <2>1
  <2> QED
    BY <1>3, <1>4, <2>1, <2>2, <2>3
<1>14. CASE Activate
  <2>1. UNCHANGED <<rows, memory, waived>>
    BY <1>14 DEF Activate, outbox, viewer
  <2>2. rows \in Seq(BOOLEAN) /\ client \in HubClient /\ Len(client.pending) <= Cap
    BY TypeFacts DEF TypeOK
  <2>3. client'.snap = client.snap /\ client'.after = client.after /\ client'.phase = "active"
    <3>1. CASE client' = [client EXCEPT !.phase = "active"]
      BY <2>2, <3>1, SMTT(30) DEF HubClient
    <3>2. CASE \E q \in ByCursor(client.pending) : \E n \in 0..Len(q) :
                 /\ \A i \in DOMAIN q : i <= n <=> q[i] # 0 /\ q[i] <= client.after
                 /\ client' = Activated(client, q, n)
      BY <2>2, <3>2, ActivatedIs
    <3> QED
      BY <1>14, <3>1, <3>2 DEF Activate
  <2> QED
    BY <1>3, <1>5, <2>1, <2>3
<1>15. CASE Write
  <2>1. UNCHANGED <<rows, memory, waived>>
    BY <1>15 DEF Write, Receive, outbox, viewer
  <2>2. \/ client' = Gone
        \/ client'.snap = client.snap /\ client'.after = client.after /\ client'.phase = client.phase
    BY <1>15, TypeFacts DEF Write, HubClient
  <2> QED
    BY <1>3, <1>4, <1>5, <1>6, <2>1, <2>2
<1>16. CASE Disconnect
  BY <1>3, <1>4, <1>6, <1>16 DEF Disconnect, outbox
<1>17. CASE Restart
  BY <1>4, <1>6, <1>17 DEF Restart
<1> QED
  BY <1>7, <1>8, <1>9, <1>10, <1>11, <1>12, <1>13, <1>14, <1>15, <1>16, <1>17, SMTT(30) DEF Next, Dispatch, Serve

\* A viewer without a cursor misses nothing between its snapshot and the stream
\* but the row its lane had committed and not yet installed (websocket).
THEOREM SnapshotMeetsStream == Spec => []SnapshotAndStreamMeet
<1>1. Init => SnapshotInv
  <2> SUFFICES ASSUME Init PROVE SnapshotInv
    OBVIOUS
  <2>1. rows \in Seq(BOOLEAN) /\ Wanted \subseteq Nat
    BY InitType, TypeFacts
  <2>2. Newest \in Wanted \cup {0} /\ \A c \in Wanted : c <= Newest
    BY <2>1, NewestIs
  <2>3. \A c \in Wanted : ~(memory < c)
    <3>1. Newest \in Nat
      BY <2>1, <2>2
    <3> QED
      BY <2>1, <2>2, <3>1 DEF Init
  <2> QED
    BY <2>3 DEF Init, SnapshotInv, Gone, NewClient
<1>2. TypeOK /\ FeedInv /\ SnapshotInv => SnapshotAndStreamMeet
  <2> SUFFICES ASSUME TypeOK, FeedInv, SnapshotInv, client.snap # Unseeded, ~client.closed,
                      NEW c \in Offered, c > client.snap,
                      c \notin got \cup Range(client.pending) \cup Range(client.send),
                      NEW d \in Wanted, d > client.snap
               PROVE  c <= d
    BY DEF SnapshotAndStreamMeet
  <2>1. c \in Wanted /\ c \in Nat /\ c # 0 /\ resume \in Nat /\ d \in Nat
    BY TypeFacts
  <2>2. c \in waived
    <3>1. CASE client.phase = "active"
      <4>1. c \notin waived => c <= client.lastCursor
        BY <3>1 DEF FeedInv, ActiveInv
      <4>2. c \notin waived => resume < c
        BY <2>1 DEF FeedInv
      <4> QED
        BY <2>1, <3>1, <4>1, <4>2, SMTT(30) DEF FeedInv, ActiveInv
    <3>2. CASE client.phase = "ready" /\ client.after = 0
      BY <2>1, <3>2 DEF FeedInv, WaitingInv, OnHub
    <3> QED
      BY <3>1, <3>2 DEF SnapshotInv
  <2>3. client.snap \in Int
    <3>1. client.snap \in Wanted \cup {0, Unseeded}
      BY TypeFacts DEF HubClient
    <3> QED
      BY <3>1, TypeFacts, SMTT(30) DEF Unseeded
  <2>4. client.snap < c /\ client.snap < d
    BY <2>1, <2>3
  <2> QED
    BY <2>2, <2>4 DEF SnapshotInv
<1> QED
  BY <1>1, <1>2, SnapshotStep, HubTypes, FeedInvariant, PTL DEF Spec

=============================================================================
