------------------------------ MODULE Journal -------------------------------
(***************************************************************************)
(* What a lane promises about its two positions in the history of a        *)
(* series, whatever it computes there: the store is written first and      *)
(* never goes back; memory follows it, is never ahead of it, goes forward  *)
(* as long as the process lives and is lost with it.  Position 0 is before *)
(* the first bar.                                                          *)
(***************************************************************************)
EXTENDS Integers

VARIABLES
  durable,  \* the bar on which the durable cursor stands
  live      \* the bar up to which memory has been advanced

Init == durable = 0 /\ live = 0

\* The store takes a bar, or a whole rebuilt history.
Write ==
  /\ durable' \in Nat /\ durable' > durable
  /\ UNCHANGED live

\* Memory moves on to something the store holds.
Follow ==
  /\ live' \in Nat /\ live < live' /\ live' <= durable
  /\ UNCHANGED durable

\* The process ends, or starts over from an empty history.
Forget ==
  /\ live' = 0
  /\ UNCHANGED durable

Next == Write \/ Follow \/ Forget

Spec == Init /\ [][Next]_<<durable, live>>

=============================================================================
