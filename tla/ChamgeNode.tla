----------------------------- MODULE ChamgeNode -----------------------------
(***************************************************************************)
(* One node seen by the thread that runs its GMainLoop: chamge/node.c, the *)
(* class methods of edge.c, hub.c and arbiter.c it calls, and the NULL     *)
(* checks of the abstract backends.  What the backend answers is left open *)
(* here; Registration says when it answers.                                *)
(*                                                                         *)
(* A request to the backend blocks the thread, so it takes two steps: the  *)
(* call and its return.  Calls that an early return refuses change nothing *)
(* and are stuttering steps.                                               *)
(***************************************************************************)
EXTENDS Naturals

CONSTANT MaxTimers   \* bound on the lazy enrolments armed at a time

ASSUME TimersAssumption == MaxTimers \in Nat

VARIABLES
    state,     \* ChamgeNodePrivate.state
    backend,   \* priv->edge_backend and its main connection: "none" is NULL,
               \* "fresh" has never opened its socket, "used" has
    op,        \* the class method the thread is blocked in, or "none"
    timers,    \* timeout sources armed by chamge_node_enroll (self, TRUE)
    critical   \* a fired timer has failed its state assertion (node.c:222)

vars == <<state, backend, op, timers, critical>>

NodeState == {"NULL", "ENROLLED", "ACTIVATED"}

(* One invariant on types. *)
TypeOK ==
    /\ state \in NodeState
    /\ backend \in {"none", "fresh", "used"}
    /\ op \in {"enroll", "activate", "delist", "none"}
    /\ timers \in 0..MaxTimers
    /\ critical \in BOOLEAN

Init ==
    /\ state = "NULL"
    /\ backend = "none"
    /\ op = "none"
    /\ timers = 0
    /\ critical = FALSE
-----------------------------------------------------------------------------
(* Faulty: a login on a connection that is already open is tried again. *)
CallEnrollAgain ==
    /\ op' \in {"enroll", "none"}
    /\ backend' = "used"
    /\ UNCHANGED <<state, critical>>

(* klass->enroll creates the backend when there is none.  Its login opens  *)
(* the socket of the main connection, which only a fresh one allows; then  *)
(* it waits for the arbiter or fails at once, before or after the socket   *)
(* is open.                                                                *)
CallEnroll ==
    /\ \/ /\ backend \in {"none", "fresh"}
          /\ \/ op' = "enroll" /\ backend' = "used"
             \/ op' = "none"   /\ backend' \in {"fresh", "used"}
       \/ backend = "used" /\ op' = "none" /\ UNCHANGED backend
    /\ UNCHANGED <<state, critical>>

(* Faulty: no guard on the state. *)
EnrollAnyState == op = "none" /\ CallEnroll /\ UNCHANGED timers

EnrollNow == op = "none" /\ state = "NULL" /\ CallEnroll /\ UNCHANGED timers

EnrollLazy ==
    /\ op = "none" /\ state = "NULL"
    /\ timers < MaxTimers
    /\ timers' = timers + 1
    /\ UNCHANGED <<state, backend, op, critical>>

(* Faulty: a source whose enrolment fails at once is kept. *)
TimerKept ==
    /\ op = "none" /\ timers > 0
    /\ state = "NULL"
    /\ CallEnroll
    /\ timers' = IF op' = "none" THEN timers ELSE timers - 1

(* A fired timer that enrols is removed whatever the outcome. *)
TimerEnrolls ==
    /\ op = "none" /\ timers > 0
    /\ state = "NULL"
    /\ timers' = timers - 1
    /\ CallEnroll

(* Faulty: the refused source is counted out once more. *)
TimerRefusedGone ==
    /\ op = "none"
    /\ state # "NULL"
    /\ critical' = TRUE
    /\ timers' = timers - 1
    /\ UNCHANGED <<state, backend, op>>

(* A timer that finds another state returns CHAMGE_RETURN_FAIL, -1, which  *)
(* GLib reads as G_SOURCE_CONTINUE: the source stays and fires again.      *)
TimerRefused ==
    /\ op = "none" /\ timers > 0
    /\ state # "NULL"
    /\ critical' = TRUE
    /\ UNCHANGED <<state, backend, op, timers>>

EnrollReturns ==
    /\ op = "enroll"
    /\ op' = "none"
    /\ state' \in {"NULL", "ENROLLED"}
    /\ UNCHANGED <<backend, timers, critical>>

(* Faulty: no guard on the state. *)
ActivateAnyState ==
    /\ op = "none" /\ backend # "none"
    /\ op' = "activate"
    /\ UNCHANGED <<state, backend, timers, critical>>

(* chamge_node_activate: a failed activation leaves everything as it was. *)
Activate ==
    /\ op = "none" /\ state = "ENROLLED" /\ backend # "none"
    /\ op' = "activate"
    /\ UNCHANGED <<state, backend, timers, critical>>

ActivateReturns ==
    /\ op = "activate"
    /\ op' = "none"
    /\ state' \in {"ENROLLED", "ACTIVATED"}
    /\ UNCHANGED <<backend, timers, critical>>

(* The backends deactivate without asking anybody and always succeed. *)
Deactivate ==
    /\ op = "none" /\ state = "ACTIVATED" /\ backend # "none"
    /\ state' = "ENROLLED"
    /\ UNCHANGED <<backend, op, timers, critical>>

(* chamge_node_delist does not look at the state.  The class method drops  *)
(* the backend whether or not the arbiter agreed; the state follows only   *)
(* when it did.  It may fail at once, before anything is sent.             *)
Delist ==
    /\ op = "none" /\ backend # "none"
    /\ \/ op' = "delist" /\ UNCHANGED backend
       \/ op' = "none"   /\ backend' = "none"
    /\ UNCHANGED <<state, timers, critical>>

DelistReturns ==
    /\ op = "delist"
    /\ op' = "none"
    /\ backend' = "none"
    /\ state' \in {state, "NULL"}
    /\ UNCHANGED <<timers, critical>>

Next ==
    \/ EnrollNow \/ EnrollLazy \/ TimerEnrolls \/ TimerRefused \/ EnrollReturns
    \/ Activate \/ ActivateReturns \/ Deactivate \/ Delist \/ DelistReturns

Spec == Init /\ [][Next]_vars

(* The main loop keeps dispatching.  An enrolment and a delist come back:  *)
(* they use a new channel, and each wait of _amqp_rpc_request is bounded;   *)
(* an activation may block on a channel that the broker has closed.  A     *)
(* ready timeout source is dispatched in the end although the application's *)
(* own calls keep the thread busy in between, hence strong fairness for    *)
(* the timers.                                                             *)
Returns == EnrollReturns \/ DelistReturns

FairSpec == Spec /\ WF_vars(Returns) /\ SF_vars(TimerEnrolls \/ TimerRefused)

(* The life of a device across restarts of its process. *)
Restart ==
    /\ state' = "NULL" /\ backend' = "none" /\ op' = "none"
    /\ timers' = 0 /\ critical' = FALSE

RestartableSpec == Init /\ [][Next \/ Restart]_vars
-----------------------------------------------------------------------------
(* README.md's lifecycle, except that a delist may also start from         *)
(* ACTIVATED: chamge_node_delist has no state guard.                       *)
Coded == INSTANCE NodeLifecycle WITH DelistFrom <- {"ENROLLED", "ACTIVATED"}

(* Whatever the backend answers and however requests and timers interleave, *)
(* the application sees only transitions of the lifecycle.                  *)
LifecycleKept == Coded!Spec

(* A node that believes it is enrolled and has no backend left: a delist    *)
(* has failed.                                                              *)
Wedged == state # "NULL" /\ backend = "none"

(* No sequence of calls to the node and no timer repairs a wedged node:     *)
(* enroll is refused by its state, the rest by the missing backend.         *)
WedgedForever == [][Wedged => Wedged']_vars

(* A node whose enrolment failed after the socket was opened stays out of   *)
(* the network until a delist has discarded its backend: amqp_socket_open   *)
(* refuses a connection that is already open.                               *)
Spent == state = "NULL" /\ backend = "used" /\ op # "enroll"
RetryNeedsDelist == [][Spent => Spent' \/ backend' = "none"]_vars

(* The assertion of enroll_by_uid_group_func (node.c:222): a timer that     *)
(* fires finds the node in NULL.                                            *)
TimerFiresInNull == ~critical

(* Once the application arms no more, the armed lazy enrolments are tried   *)
(* one after the other until none is left or the node has left NULL,        *)
(* whatever else the application calls and however the attempts end.        *)
LazyEnrolmentsDrain ==
    <>[][~EnrollLazy]_vars => (timers > 0 ~> (timers = 0 \/ state # "NULL"))
=============================================================================
