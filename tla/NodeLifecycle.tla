--------------------------- MODULE NodeLifecycle ---------------------------
(***************************************************************************)
(* What a node (Edge, Hub or Arbiter) promises to the application during   *)
(* one life of its process: the three states of README.md and the four     *)
(* requests between them.  The README and node.c differ on where a delist  *)
(* may start, so the set of those states is a parameter.                   *)
(***************************************************************************)
CONSTANT DelistFrom      \* the states a successful delist may leave

VARIABLE state           \* ChamgeNodePrivate.state

NodeState == {"NULL", "ENROLLED", "ACTIVATED"}

Init == state = "NULL"

Enroll     == state = "NULL"       /\ state' = "ENROLLED"
Activate   == state = "ENROLLED"   /\ state' = "ACTIVATED"
Deactivate == state = "ACTIVATED"  /\ state' = "ENROLLED"
Delist     == state \in DelistFrom /\ state' = "NULL"

Next == Enroll \/ Activate \/ Deactivate \/ Delist

Spec == Init /\ [][Next]_state
=============================================================================
