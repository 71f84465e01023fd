-------------------------------- MODULE Bars --------------------------------
(***************************************************************************)
(* Candles of one series.  A bar is its open time, counted in timeframe    *)
(* steps, and its content: a member of Values stands for the whole OHLCV   *)
(* tuple and trade count, which is what barFingerprint hashes.  A history  *)
(* is a set of bars with at most one bar per time, so "the next bar" and   *)
(* "the last n bars" are read off the times.                               *)
(***************************************************************************)
EXTENDS Integers, FiniteSets

CONSTANTS
  Values,        \* candle contents
  Trades,        \* Trades[v]: the trade count inside content v
  Invalid,       \* contents that validateBar rejects
  MaxTrades      \* largest uint64

ASSUME BarsAssumption ==
  /\ Trades \in [Values -> Nat]
  /\ Invalid \subseteq Values
  /\ MaxTrades \in Nat

Bar == [t : Nat, v : Values]

Valid(b) == b.v \notin Invalid

Fingerprint(b) == b.v

UpTo(S, t) == {b \in S : b.t <= t}

Since(S, t) == {b \in S : b.t >= t}

After(S, t) == {b \in S : b.t > t}

At(S, t) == {b \in S : b.t = t}

Latest(S) == CHOOSE b \in S : \A c \in S : c.t <= b.t

Earliest(S) == CHOOSE b \in S : \A c \in S : b.t <= c.t

Recent(S, n) == {b \in S : Cardinality(After(S, b.t)) < n}

\* Revision of a closed bar: one above its trade count, saturating.
RevisionForBar(b) ==
  IF Trades[b.v] < MaxTrades THEN Trades[b.v] + 1 ELSE Trades[b.v]

=============================================================================
