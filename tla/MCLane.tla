------------------------------- MODULE MCLane -------------------------------
(* Instances of Lane for TLC.                                              *)
EXTENDS Lane, TLC

CONSTANTS a, b, bad, m1, m2

\* Two candles that differ only in price, so they share a trade count.
SameTrades == [v \in Values |-> 1]

\* A correction that also changes the trade count, up to the largest one.
OwnTrades == [v \in Values |-> IF v = a THEN 1 ELSE MaxTrades]

OneConfig == {[periods |-> {1, 2}, market |-> m1]}

\* At a restart a period may be dropped or added back while the market
\* algorithm is upgraded or rolled back.
Reconfigured == {[periods |-> {1, 2}, market |-> m1], [periods |-> {1}, market |-> m2]}

=============================================================================
