-------------------------------- MODULE Feed --------------------------------
(***************************************************************************)
(* What the WebSocket protocol promises one viewer about durable events.   *)
(* Events are added at the end of the log.  The viewer receives them from  *)
(* its position on, in order and without a hole.  One that has no position *)
(* yet is promised only what comes after it joined: of the events the log  *)
(* had by then, those it waives, it may receive some and miss others.      *)
(* Receiving an event again changes nothing here: delivery is at least     *)
(* once.                                                                   *)
(***************************************************************************)
EXTENDS Integers

VARIABLES
  log,    \* cursors of the events the viewer's filter selects
  pos,    \* the viewer's position: the last cursor it has, or 0
  seen,   \* cursors it has received
  waived  \* cursors it does not insist on

Init ==
  /\ log \subseteq Nat \ {0}
  /\ pos \in log \cup {0}
  /\ seen = {}
  /\ waived = {c \in log : c <= pos}

Append ==
  /\ \E c \in log' : log' = log \cup {c} /\ \A d \in log : d < c
  /\ UNCHANGED <<pos, seen, waived>>

\* Without a position the viewer starts over.
Join ==
  /\ pos = 0
  /\ waived' \subseteq log
  /\ UNCHANGED <<log, pos, seen>>

\* The position moves forward, past nothing but what is received or waived.
Advance ==
  /\ pos' \in log /\ pos < pos'
  /\ \E new \in SUBSET {c \in log : pos < c /\ c <= pos'} :
       /\ seen' = seen \cup new /\ pos' \in new
       /\ \A c \in log : pos < c /\ c <= pos' => c \in new \cup waived
  /\ UNCHANGED <<log, waived>>

Next == Append \/ Join \/ Advance

Spec == Init /\ [][Next]_<<log, pos, seen, waived>>

=============================================================================
