------------------------- MODULE NodeThreadsProofs --------------------------
(* One node used by any number of threads.                                  *)
EXTENDS NodeThreads, TLAPS

USE ThreadAssumption, AsksAssumption DEF ThreadAssumption, AsksAssumption
-----------------------------------------------------------------------------
(* The invariant holds initially.                                           *)
LEMMA InvInit == Init => IInv
<1> SUFFICES ASSUME Init PROVE IInv
  OBVIOUS
<1>1. TypeOK
  BY DEF Init, TypeOK, NodeState
<1>2. QED
  BY <1>1 DEF Init, IInv, StateAsChecked, OpFitsPlace, HolderSpeaks, Steady,
     HeardInOrder, ListensIfLoopActivates, Busy, Requesting

(* The start of a request.                                                  *)
LEMMA StartInv ==
    ASSUME IInv, NEW t \in Thread, NEW o \in Request \cup {"timer"}, Start(t, o)
    PROVE  IInv'
<1> USE DEF IInv, Start, Goes
<1>1. TypeOK'
  BY DEF TypeOK, Request
<1>2. StateAsChecked' /\ OpFitsPlace'
  BY DEF TypeOK, StateAsChecked, OpFitsPlace, Busy, Requesting, Request
<1>3. HolderSpeaks' /\ HeardInOrder'
  BY DEF TypeOK, HolderSpeaks, HeardInOrder
<1>4. Steady' /\ ListensIfLoopActivates'
  BY DEF TypeOK, Steady, ListensIfLoopActivates, Requesting
<1>5. QED
  BY <1>1, <1>2, <1>3, <1>4

(* A step of the class method.                                              *)
LEMMA MethodInv ==
    ASSUME IInv, NEW t \in Thread, MethodReturns(t)
    PROVE  IInv'
<1> USE DEF IInv, Goes, MethodReturns, MethodFails, EnrollDone, SourceAdded, ActivateDone,
            DeactivateDone, DelistDone, history
<1>1. TypeOK'
  <2>1. pc' \in [Thread -> {"idle", "get", "method", "source", "lock", "handler",
                            "frozen", "unlocked", "late"}]
    BY DEF TypeOK
  <2>2. (op' = op /\ said' = said) /\ (lock' = lock /\ state' = state)
        /\ (announced' = announced /\ author' = author) /\ (speaker' = speaker /\ raced' = raced)
    OBVIOUS
  <2>3. backend' \in BOOLEAN /\ source' \in BOOLEAN /\ activated' \in BOOLEAN
    BY DEF TypeOK
  <2>4. overtaken' \in SUBSET Thread /\ activator' \in Thread \cup {Nobody}
    BY DEF TypeOK
  <2>5. QED
    BY <2>1, <2>2, <2>3, <2>4 DEF TypeOK
<1>2. StateAsChecked' /\ OpFitsPlace'
  <2>1. state' = state /\ op' = op /\ Busy(t)
    BY DEF Busy
  <2>2. pc'[t] \in {"idle", "source", "lock"} /\ \A u \in Thread \ {t} : pc'[u] = pc[u]
    BY DEF TypeOK
  <2>3. pc'[t] = "source" => op[t] = "activate"
    BY DEF TypeOK
  <2>4. overtaken' = overtaken \/ (overtaken' = overtaken \ {t} /\ pc'[t] = "idle")
    BY DEF TypeOK
  <2>5. StateAsChecked'
    BY <2>1, <2>2, <2>4 DEF StateAsChecked, Busy
  <2>6. OpFitsPlace'
    BY <2>1, <2>2, <2>3 DEF OpFitsPlace, Requesting, Busy
  <2>7. QED
    BY <2>5, <2>6
<1>3. HolderSpeaks' /\ HeardInOrder'
  BY DEF TypeOK, HolderSpeaks, HeardInOrder
<1>4. Steady'
  <2>0. raced' = raced
    OBVIOUS
  <2> SUFFICES ASSUME ~raced PROVE Steady'
    BY <2>0 DEF Steady
  <2>1. Busy(t) /\ t \notin overtaken /\ state \in From(op[t]) /\ Requesting(t)
    BY DEF Steady, StateAsChecked, Busy, Requesting
  <2>2. \A u \in Thread \ {t} : ~Requesting(u) /\ pc'[u] = pc[u]
    BY <2>1 DEF Steady, TypeOK
  <2>3. pc'[t] \in {"idle", "source", "lock"}
    BY DEF TypeOK
  <2>4. /\ state = "ACTIVATED" /\ backend' =>
              activated' \/ \E u \in Thread : pc'[u] = "lock" /\ op[u] = "deactivate"
    BY <2>1, <2>2 DEF TypeOK, Steady, From, Busy, Requesting
  <2>5. activated' /\ activator' = Loop => source'
    BY <2>1, <2>2 DEF TypeOK, Steady
  <2>6. pc'[Loop] = "source" => source'
    BY <2>1, <2>2 DEF TypeOK, Steady, Requesting
  <2>7. \A u \in Thread : pc'[u] = "lock" /\ op[u] = "activate" => activated'
    BY <2>1, <2>2 DEF TypeOK, Steady, Requesting, OpFitsPlace
  <2>8. overtaken' = {}
    BY DEF Steady
  <2>9. \A u, v \in Thread : Requesting(u)' /\ Requesting(v)' => u = v
    BY <2>2 DEF Requesting
  <2>10. QED
    BY <2>4, <2>5, <2>6, <2>7, <2>8, <2>9 DEF Steady
<1>5. ListensIfLoopActivates'
  BY <1>1, <1>4 DEF TypeOK, Steady, ListensIfLoopActivates, Requesting
<1>6. QED
  BY <1>1, <1>2, <1>3, <1>4, <1>5

(* The assignment of the state.                                             *)
LEMMA AssignInv ==
    ASSUME IInv, NEW t \in Thread, Assign(t)
    PROVE  IInv'
<1> USE DEF IInv, Goes, Assign
<1>0. op[t] \in Request \cup {"timer"} /\ To(op[t]) \in NodeState
  BY DEF TypeOK, OpFitsPlace, Requesting, Request, To, NodeState
<1>1. TypeOK'
  BY <1>0 DEF TypeOK
<1>2. StateAsChecked'
  BY DEF TypeOK, StateAsChecked, Busy
<1>3. OpFitsPlace'
  BY <1>0 DEF TypeOK, OpFitsPlace, Requesting, Busy
<1>4. HolderSpeaks'
  BY <1>0 DEF TypeOK, HolderSpeaks
<1>5. HeardInOrder'
  BY <1>0 DEF TypeOK, HeardInOrder
<1>6. Steady'
  <2> SUFFICES ASSUME ~raced PROVE Steady'
    BY DEF Steady
  <2>1. \A u \in Thread \ {t} : ~Requesting(u) /\ ~Busy(u) /\ pc'[u] = pc[u]
    BY DEF Steady, TypeOK, Requesting, Busy
  <2>2. overtaken' = {}
    BY <2>1 DEF Steady
  <2>3. pc'[t] \in {"handler", "unlocked"}
    BY DEF TypeOK
  <2>4. state' = "ACTIVATED" => activated
    BY <1>0 DEF Steady, To, Request
  <2>5. QED
    BY <2>1, <2>2, <2>3, <2>4 DEF Steady, Requesting
<1>7. ListensIfLoopActivates'
  BY <1>1, <1>6 DEF TypeOK, Steady, ListensIfLoopActivates, Requesting
<1>8. QED
  BY <1>1, <1>2, <1>3, <1>4, <1>5, <1>6, <1>7

(* The emission, with the mutex or after it.                                *)
LEMMA EmitsInv ==
    ASSUME IInv, NEW t \in Thread, Emits(t)
    PROVE  IInv'
<1> USE DEF IInv, Goes, Emits, HandlerReturns, HandlerAsks, ReadsState, AnnouncesLate,
            Announce, history
<1>1. TypeOK'
  BY DEF TypeOK
<1>2. StateAsChecked' /\ OpFitsPlace'
  BY DEF TypeOK, StateAsChecked, OpFitsPlace, Busy, Requesting
<1>3. HolderSpeaks'
  BY DEF TypeOK, HolderSpeaks
<1>4. HeardInOrder'
  BY DEF TypeOK, HolderSpeaks, HeardInOrder, OpFitsPlace
<1>5. Steady'
  BY DEF TypeOK, Steady, Requesting, Busy
<1>6. ListensIfLoopActivates'
  BY <1>1, <1>5 DEF TypeOK, Steady, ListensIfLoopActivates, Requesting
<1>7. QED
  BY <1>1, <1>2, <1>3, <1>4, <1>5, <1>6

(* The main loop's dispatch, and a get of the state.                        *)
LEMMA OtherInv ==
    ASSUME IInv, Dispatch \/ (\E t \in Thread : Get(t) \/ Gets(t)) \/ UNCHANGED vars
    PROVE  IInv'
<1> USE DEF IInv, Goes, Dispatch, Get, Gets, history, vars
<1>1. TypeOK'
  BY DEF TypeOK
<1>2. StateAsChecked' /\ OpFitsPlace' /\ HolderSpeaks' /\ HeardInOrder'
  BY DEF TypeOK, StateAsChecked, OpFitsPlace, HolderSpeaks, HeardInOrder, Busy, Requesting
<1>3. Steady'
  BY DEF TypeOK, Steady, Requesting
<1>4. ListensIfLoopActivates'
  BY <1>1, <1>3 DEF TypeOK, Steady, ListensIfLoopActivates, Requesting
<1>5. QED
  BY <1>1, <1>2, <1>3, <1>4

(* Every step keeps the invariant.                                          *)
LEMMA InvNext == IInv /\ [Next]_vars => IInv'
<1> SUFFICES ASSUME IInv, [Next]_vars PROVE IInv'
  OBVIOUS
<1>1. CASE TimerFires
  BY <1>1, StartInv DEF TimerFires
<1>2. ASSUME NEW t \in Thread, NEW o \in Request, Start(t, o) PROVE IInv'
  BY <1>2, StartInv
<1>3. ASSUME NEW t \in Thread, MethodReturns(t) PROVE IInv'
  BY <1>3, MethodInv
<1>4. ASSUME NEW t \in Thread, Assign(t) PROVE IInv'
  BY <1>4, AssignInv
<1>5. ASSUME NEW t \in Thread, Emits(t) PROVE IInv'
  BY <1>5, EmitsInv
<1>6. CASE Dispatch \/ (\E t \in Thread : Get(t) \/ Gets(t)) \/ UNCHANGED vars
  BY <1>6, OtherInv
<1>7. QED
  BY <1>1, <1>2, <1>3, <1>4, <1>5, <1>6 DEF Next, TakesMutex

(* IInv holds in every reachable state of the node and its threads.         *)
THEOREM Invariance == Spec => []IInv
BY InvInit, InvNext, PTL DEF Spec
-----------------------------------------------------------------------------
(* The variables keep their types.                                          *)
THEOREM TypeCorrect == Spec => []TypeOK
<1>1. IInv => TypeOK
  BY DEF IInv
<1>2. QED
  BY Invariance, <1>1, PTL

(* What the application has last heard is the state, as long as no lazy     *)
(* enrolment assigns or speaks.                                             *)
THEOREM NewsInOrder == Spec => []HeardInOrder
<1>1. IInv => HeardInOrder
  BY DEF IInv
<1>2. QED
  BY Invariance, <1>1, PTL

(* An arbiter activated by its main loop's own thread keeps its source.     *)
THEOREM LoopActivationListens == Spec => []ListensIfLoopActivates
<1>1. IInv => ListensIfLoopActivates
  BY DEF IInv
<1>2. QED
  BY Invariance, <1>1, PTL

(* An assignment that no other has overtaken is a step of the lifecycle.    *)
LEMMA AssignAlongLifecycle ==
    ASSUME IInv, NEW t \in Thread, Assign(t), t \notin overtaken
    PROVE  [Lifecycle!Next]_state
<1>1. state \in From(op[t]) /\ op[t] \in Request \cup {"timer"} /\ state \in NodeState
  BY DEF IInv, TypeOK, StateAsChecked, OpFitsPlace, Assign, Busy, Requesting
<1>2. state' = To(op[t])
  BY DEF Assign
<1>3. QED
  BY <1>1, <1>2 DEF From, To, Request, NodeState, Lifecycle!Next, Lifecycle!Enroll,
     Lifecycle!Activate, Lifecycle!Deactivate, Lifecycle!Delist

(* A request that is not overtaken moves the state along the lifecycle.     *)
THEOREM LifecycleUnlessOvertaken == Spec => OnlyOvertakenBreakLifecycle
<1> DEFINE Along == \A t \in Thread : Assign(t) /\ t \notin overtaken =>
                       Lifecycle!Next \/ UNCHANGED state
<1>1. IInv => Along
  BY AssignAlongLifecycle
<1>2. IInv /\ [Next]_vars => [Along]_vars
  BY <1>1
<1>3. QED
  BY Invariance, <1>2, PTL DEF Spec, OnlyOvertakenBreakLifecycle
-----------------------------------------------------------------------------
(* A step that assigns the state is an assignment under the mutex.          *)
LEMMA OnlyAssignMoves ==
    ASSUME IInv, [Next]_vars
    PROVE  state' = state \/ \E t \in Thread : Assign(t)
<1> USE DEF history
<1>1. CASE TimerFires \/ Dispatch
  BY <1>1 DEF TimerFires, Start, Dispatch
<1>2. ASSUME NEW t \in Thread, NEW o \in Request, Start(t, o) PROVE state' = state
  BY <1>2 DEF Start
<1>3. ASSUME NEW t \in Thread, MethodReturns(t) PROVE state' = state
  BY <1>3 DEF MethodReturns, MethodFails, EnrollDone, SourceAdded, ActivateDone,
       DeactivateDone, DelistDone
<1>4. ASSUME NEW t \in Thread, Get(t) \/ Gets(t) \/ Emits(t) PROVE state' = state
  BY <1>4 DEF Get, Gets, Emits, HandlerReturns, HandlerAsks, ReadsState, AnnouncesLate
<1>5. CASE UNCHANGED vars
  BY <1>5 DEF vars
<1>6. QED
  BY <1>1, <1>2, <1>3, <1>4, <1>5 DEF Next, TakesMutex

(* Requests one at a time.                                                  *)
LEMMA SerialStep == IInv /\ [Next]_vars => (~raced => [Lifecycle!Next]_state)
<1> SUFFICES ASSUME IInv, [Next]_vars, ~raced PROVE [Lifecycle!Next]_state
  OBVIOUS
<1>1. overtaken = {}
  BY DEF IInv, Steady
<1>2. QED
  BY <1>1, OnlyAssignMoves, AssignAlongLifecycle

(* Threads that take turns never leave the lifecycle.                       *)
THEOREM SerialLifecycle == Spec => SerialKeepsLifecycle
<1>1. IInv /\ [Next]_vars => [~raced => [Lifecycle!Next]_state]_vars
  BY SerialStep
<1>2. QED
  BY Invariance, <1>1, PTL DEF Spec, SerialKeepsLifecycle

(* As long as requests do not overlap, the node implements NodeLifecycle.   *)
THEOREM SerialRefinement == Spec /\ []~raced => Lifecycle!Spec
<1>1. Init => Lifecycle!Init
  BY DEF Init, Lifecycle!Init
<1>2. QED
  BY Invariance, SerialStep, <1>1, PTL DEF Spec, Lifecycle!Spec

(* A request that starts finds none in progress when one thread does all.   *)
LEMMA OneThreadTakesTurns ==
    ASSUME Thread = {Loop}
    PROVE  Spec => []~raced
<1>1. Init => ~raced
  BY DEF Init
<1>2. ASSUME ~raced, [Next]_vars PROVE ~raced'
  <2> USE DEF history
  <2>1. ASSUME NEW t \in Thread, NEW o, Start(t, o) PROVE ~raced'
    BY <1>2, <2>1 DEF Start, Requesting
  <2>2. CASE Dispatch \/ UNCHANGED vars
    BY <1>2, <2>2 DEF Dispatch, vars
  <2>3. ASSUME NEW t \in Thread, MethodReturns(t) PROVE ~raced'
    BY <1>2, <2>3 DEF MethodReturns, MethodFails, EnrollDone, SourceAdded,
         ActivateDone, DeactivateDone, DelistDone
  <2>4. ASSUME NEW t \in Thread, Get(t) \/ TakesMutex(t) \/ Emits(t) PROVE ~raced'
    BY <1>2, <2>4 DEF Get, TakesMutex, Gets, Assign, Emits, HandlerReturns,
         HandlerAsks, ReadsState, AnnouncesLate
  <2>5. QED
    BY <1>2, <2>1, <2>2, <2>3, <2>4 DEF Next, TimerFires
<1>3. QED
  BY <1>1, <1>2, PTL DEF Spec

(* The thread of the main loop alone: its node implements NodeLifecycle,    *)
(* lazy enrolments included.                                                *)
THEOREM OneThreadRefinement ==
    ASSUME Thread = {Loop}
    PROVE  Spec => Lifecycle!Spec
BY SerialRefinement, OneThreadTakesTurns, PTL
-----------------------------------------------------------------------------
(* A frozen thread holds the mutex, so nothing that needs it can happen.    *)
LEMMA FrozenHolds ==
    ASSUME IInv, NEW t \in Thread, pc[t] = "frozen"
    PROVE  lock = t /\ lock # Nobody
BY DEF IInv, HolderSpeaks

(* A handler that asks its node stops the node for good.                    *)
THEOREM FreezeIsFinal == Spec => FrozenForGood
<1> DEFINE Stopped(t) ==
      /\ pc'[t] = "frozen" /\ state' = state
      /\ \A u \in Thread : pc[u] \in {"lock", "get"} => pc'[u] = pc[u]
<1>1. ASSUME IInv, [Next]_vars, NEW t \in Thread, pc[t] = "frozen"
      PROVE  Stopped(t)
  <2> USE DEF IInv, TypeOK, Goes, history
  <2>1. lock # Nobody
    BY <1>1, FrozenHolds
  <2>2. \A u \in Thread : ~Assign(u) /\ ~Gets(u)
    BY <2>1 DEF Assign, Gets
  <2>3. state' = state
    BY <1>1, <2>2, OnlyAssignMoves
  <2>4. ASSUME NEW u \in Thread, NEW o, Start(u, o) PROVE Stopped(t)
    BY <1>1, <2>3, <2>4 DEF Start
  <2>5. CASE Dispatch \/ UNCHANGED vars
    BY <1>1, <2>3, <2>5 DEF Dispatch, vars
  <2>6. ASSUME NEW u \in Thread, MethodReturns(u) PROVE Stopped(t)
    BY <1>1, <2>3, <2>6 DEF MethodReturns, MethodFails, EnrollDone, SourceAdded,
         ActivateDone, DeactivateDone, DelistDone
  <2>7. ASSUME NEW u \in Thread, Get(u) \/ Emits(u) PROVE Stopped(t)
    BY <1>1, <2>3, <2>7 DEF Get, Emits, HandlerReturns, HandlerAsks, ReadsState,
         AnnouncesLate
  <2>8. QED
    BY <1>1, <2>2, <2>4, <2>5, <2>6, <2>7 DEF Next, TimerFires, TakesMutex
<1>2. IInv /\ [Next]_vars => [\A t \in Thread : pc[t] = "frozen" => Stopped(t)]_vars
  BY <1>1
<1>3. QED
  BY Invariance, <1>2, PTL DEF Spec, FrozenForGood
=============================================================================
