--------------------------- MODULE MCRegistration ---------------------------
(* Registration on small sets of devices, each device a ChamgeNode.        *)
EXTENDS Registration

(* A device as the node of ChamgeNode: what matters of the main connection *)
(* is whether its socket was ever opened.  Lazy enrolments are ChamgeNode's *)
(* own concern: none is armed here.                                        *)
Node(d) == INSTANCE ChamgeNode WITH
    state     <- state[d],
    backend   <- IF link[d] \in {"none", "fresh"} THEN link[d] ELSE "used",
    op        <- call[d].op,
    timers    <- 0,
    critical  <- FALSE,
    MaxTimers <- 0

(* Each device behaves as one node does towards its application, across    *)
(* restarts of its process: \A d : Node(d)!RestartableSpec, in the form     *)
(* that quantifies over devices inside the action.                         *)
DevicesAreNodes ==
    /\ \A d \in Device : Node(d)!Init
    /\ [][\A d \in Device :
             Node(d)!Next \/ Node(d)!Restart \/ UNCHANGED Node(d)!vars]_vars

(* The life of a device as its application sees it. *)
Life(d) == INSTANCE NodeLifecycle WITH
    state      <- state[d],
    DelistFrom <- {"ENROLLED", "ACTIVATED"}

(* Losses, late answers and restarts keep the lifecycle of every device,    *)
(* even a crash in the wait: what a restart does to the state, a delist may *)
(* do as well.                                                              *)
DevicesKeepLifecycle ==
    [][\A d \in Device : Life(d)!Next \/ state'[d] = state[d]]_vars

(* A device whose delist went unanswered is out of the network for the rest *)
(* of its process, whatever the arbiter does: only a restart repairs it.    *)
WedgedUntilRestart ==
    [][\A d \in Device :
          Node(d)!Wedged => Node(d)!Wedged' \/ Node(d)!Restart]_vars

(* A device whose enrolment was refused or lost stays outside until its     *)
(* backend is discarded, by a delist or with its process.                   *)
SpentUntilDiscarded ==
    [][\A d \in Device :
          Node(d)!Spent => Node(d)!Spent' \/ link'[d] = "none"]_vars
=============================================================================
