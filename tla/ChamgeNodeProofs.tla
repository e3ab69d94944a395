-------------------------- MODULE ChamgeNodeProofs --------------------------
(* What holds of a node for every number of armed timers.                  *)
EXTENDS ChamgeNode, TLAPS

(* The initial values have their types.                                    *)
LEMMA TypeInit == Init => TypeOK
<1> SUFFICES ASSUME Init PROVE TypeOK
  OBVIOUS
<1>1. timers \in 0..MaxTimers
  BY TimersAssumption DEF TimersAssumption, Init
<1>2. critical \in BOOLEAN
  BY DEF Init
<1>3. QED
  BY <1>1, <1>2 DEF Init, TypeOK, NodeState

(* Every step of a node keeps its variables in their types.                *)
LEMMA TypeStep == TypeOK /\ [Next]_vars => TypeOK'
<1> SUFFICES ASSUME TypeOK, [Next]_vars PROVE TypeOK'
  OBVIOUS
<1> USE TimersAssumption DEF TimersAssumption, TypeOK, NodeState
<1>1. CASE EnrollNow
  BY <1>1 DEF EnrollNow, CallEnroll
<1>2. CASE EnrollLazy
  BY <1>2 DEF EnrollLazy
<1>3. CASE TimerEnrolls
  BY <1>3 DEF TimerEnrolls, CallEnroll
<1>4. CASE TimerRefused
  BY <1>4 DEF TimerRefused
<1>5. CASE EnrollReturns
  BY <1>5 DEF EnrollReturns
<1>6. CASE Activate
  BY <1>6 DEF Activate
<1>7. CASE ActivateReturns
  BY <1>7 DEF ActivateReturns
<1>8. CASE Deactivate
  BY <1>8 DEF Deactivate
<1>9. CASE Delist
  BY <1>9 DEF Delist
<1>10. CASE DelistReturns
  BY <1>10 DEF DelistReturns
<1>11. CASE UNCHANGED vars
  BY <1>11 DEF vars
<1>12. QED
  BY <1>1, <1>2, <1>3, <1>4, <1>5, <1>6, <1>7, <1>8, <1>9, <1>10, <1>11 DEF Next

(* The variables of a node keep their types, whatever the backend answers. *)
THEOREM TypeCorrect == Spec => []TypeOK
<1>1. QED
  BY TypeInit, TypeStep, PTL DEF Spec
-----------------------------------------------------------------------------
(* The method in progress fits the state it was called in: an enrolment     *)
(* was accepted in NULL, an activation in ENROLLED, and the timers, which   *)
(* only fire between two calls, have not moved the state since; and no      *)
(* method but delist, on its return, takes the backend away.                *)
OpFitsState ==
    /\ op = "enroll"   => state = "NULL" /\ backend = "used"
    /\ op = "activate" => state = "ENROLLED" /\ backend # "none"
    /\ op = "delist"   => backend # "none"

IInv == TypeOK /\ OpFitsState

(* IInv is inductive. *)
LEMMA Inductive == IInv /\ [Next]_vars => IInv'
<1> SUFFICES ASSUME TypeOK, OpFitsState, [Next]_vars PROVE OpFitsState'
  BY TypeStep DEF IInv
<1> USE DEF OpFitsState
<1>1. CASE EnrollNow
  BY <1>1 DEF EnrollNow, CallEnroll
<1>2. CASE EnrollLazy
  BY <1>2 DEF EnrollLazy
<1>3. CASE TimerEnrolls
  BY <1>3 DEF TimerEnrolls, CallEnroll
<1>4. CASE TimerRefused
  BY <1>4 DEF TimerRefused
<1>5. CASE EnrollReturns
  BY <1>5 DEF EnrollReturns
<1>6. CASE Activate
  BY <1>6 DEF Activate
<1>7. CASE ActivateReturns
  BY <1>7 DEF ActivateReturns
<1>8. CASE Deactivate
  BY <1>8 DEF Deactivate
<1>9. CASE Delist
  BY <1>9 DEF Delist
<1>10. CASE DelistReturns
  BY <1>10 DEF DelistReturns
<1>11. CASE UNCHANGED vars
  BY <1>11 DEF vars
<1>12. QED
  BY <1>1, <1>2, <1>3, <1>4, <1>5, <1>6, <1>7, <1>8, <1>9, <1>10, <1>11 DEF Next

(* IInv holds in every reachable state.                                     *)
LEMMA Invariance == Spec => []IInv
<1>1. Init => IInv
  BY TypeInit DEF Init, IInv, OpFitsState
<1>2. QED
  BY <1>1, Inductive, PTL DEF Spec
-----------------------------------------------------------------------------
(* A step of the node is a step of the lifecycle that the application sees, *)
(* or leaves the state alone.                                               *)
LEMMA LifecycleStep == IInv /\ [Next]_vars => [Coded!Next]_state
<1> SUFFICES ASSUME IInv, [Next]_vars PROVE [Coded!Next]_state
  OBVIOUS
<1> USE DEF IInv, TypeOK, OpFitsState, NodeState, Coded!Next, Coded!Enroll,
        Coded!Activate, Coded!Deactivate, Coded!Delist
<1>1. CASE EnrollNow \/ EnrollLazy \/ TimerEnrolls \/ TimerRefused
  BY <1>1 DEF EnrollNow, EnrollLazy, TimerEnrolls, TimerRefused, CallEnroll
<1>2. CASE EnrollReturns
  BY <1>2 DEF EnrollReturns
<1>3. CASE Activate \/ Delist
  BY <1>3 DEF Activate, Delist
<1>4. CASE ActivateReturns
  BY <1>4 DEF ActivateReturns
<1>5. CASE Deactivate
  BY <1>5 DEF Deactivate
<1>6. CASE DelistReturns
  BY <1>6 DEF DelistReturns
<1>7. CASE UNCHANGED vars
  BY <1>7 DEF vars
<1>8. QED
  BY <1>1, <1>2, <1>3, <1>4, <1>5, <1>6, <1>7 DEF Next

(* Every behaviour of a node is one of the lifecycle, with delists from     *)
(* ENROLLED and from ACTIVATED.                                             *)
THEOREM LifecycleCorrect == Spec => LifecycleKept
<1>1. Init => Coded!Init
  BY DEF Init, Coded!Init
<1>2. QED
  BY <1>1, LifecycleStep, Invariance, PTL DEF Spec, LifecycleKept, Coded!Spec

(* A failed delist is final: no call and no timer brings the backend of a   *)
(* node back, or its state to NULL.                                         *)
THEOREM WedgedIsFinal == Spec => WedgedForever
<1>1. IInv /\ [Next]_vars => [Wedged => Wedged']_vars
  <2> SUFFICES ASSUME IInv, Next, Wedged PROVE Wedged'
    BY DEF vars
  <2> USE DEF IInv, TypeOK, OpFitsState, Wedged
  <2>1. CASE EnrollNow \/ TimerEnrolls \/ EnrollReturns
    BY <2>1 DEF EnrollNow, TimerEnrolls, EnrollReturns
  <2>2. CASE EnrollLazy \/ TimerRefused
    BY <2>2 DEF EnrollLazy, TimerRefused
  <2>3. CASE Activate \/ ActivateReturns \/ Deactivate \/ Delist
    BY <2>3 DEF Activate, ActivateReturns, Deactivate, Delist
  <2>4. CASE DelistReturns
    BY <2>4 DEF DelistReturns
  <2>5. QED
    BY <2>1, <2>2, <2>3, <2>4 DEF Next
<1>2. QED
  BY <1>1, Invariance, PTL DEF Spec, WedgedForever

(* A node whose enrolment failed on an open connection is not enrolled by   *)
(* any later call or timer until its backend has been discarded.            *)
THEOREM RetryIsRefused == Spec => RetryNeedsDelist
<1>1. IInv /\ [Next]_vars => [Spent => Spent' \/ backend' = "none"]_vars
  <2> SUFFICES ASSUME IInv, Next, Spent PROVE Spent' \/ backend' = "none"
    BY DEF vars
  <2> USE DEF IInv, TypeOK, OpFitsState, Spent
  <2>1. CASE EnrollNow \/ TimerEnrolls
    BY <2>1 DEF EnrollNow, TimerEnrolls, CallEnroll
  <2>2. CASE EnrollLazy \/ TimerRefused \/ EnrollReturns
    BY <2>2 DEF EnrollLazy, TimerRefused, EnrollReturns
  <2>3. CASE Activate \/ ActivateReturns \/ Deactivate
    BY <2>3 DEF Activate, ActivateReturns, Deactivate
  <2>4. CASE Delist \/ DelistReturns
    BY <2>4 DEF Delist, DelistReturns
  <2>5. QED
    BY <2>1, <2>2, <2>3, <2>4 DEF Next
<1>2. QED
  BY <1>1, Invariance, PTL DEF Spec, RetryNeedsDelist
=============================================================================
