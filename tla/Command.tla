------------------------------ MODULE Command ------------------------------
(***************************************************************************)
(* What becomes of one user command: the promise of                        *)
(* chamge_node_user_command to its caller and to the device.  A command is *)
(* run at most once, and whoever gets an answer gets it from that run.  It *)
(* is no promise that a command is run, nor that the caller learns of it:  *)
(* a command may run after its caller has given up.                        *)
(***************************************************************************)
EXTENDS Naturals

VARIABLES
    outcome,   \* what the caller knows of the command: "unsent", "waiting",
               \* "answered", "failed", or "unanswered", which is
               \* CHAMGE_RETURN_OK without a response
    runs       \* how often the device has executed it

vars == <<outcome, runs>>

Init == outcome = "unsent" /\ runs = 0

Send ==
    /\ outcome = "unsent"
    /\ outcome' \in {"waiting", "failed"}
    /\ UNCHANGED runs

Run ==
    /\ outcome # "unsent" /\ runs = 0
    /\ runs' = 1
    /\ UNCHANGED outcome

Answer ==
    /\ outcome = "waiting" /\ runs = 1
    /\ outcome' = "answered"
    /\ UNCHANGED runs

GiveUp ==
    /\ outcome = "waiting"
    /\ outcome' \in {"unanswered", "failed"}
    /\ UNCHANGED runs

Next == Send \/ Run \/ Answer \/ GiveUp

Spec == Init /\ [][Next]_vars
=============================================================================
