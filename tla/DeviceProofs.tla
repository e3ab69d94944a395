---------------------------- MODULE DeviceProofs ----------------------------
(* A device of Registration is a ChamgeNode: what is proved of one node     *)
(* holds of every device as long as its process lives.                      *)
EXTENDS MCRegistration, RegistrationProofs

(* A device that keeps its state, its connection and the method it waits    *)
(* for looks the same to its node.                                          *)
LEMMA NodeRests ==
    ASSUME NEW d \in Device, state'[d] = state[d], link'[d] = link[d],
           call'[d] = call[d]
    PROVE  UNCHANGED Node(d)!vars
BY DEF Node!vars

(* The end of a process is a restart of the node.                           *)
LEMMA ProcessRestarts ==
    ASSUME IInv, NEW d \in Device, ProcessEnds(d)
    PROVE  Node(d)!Restart
BY DEF ProcessEnds, DropMain, Finish, IInv, TypeOK, NoCall, Node!Restart

(* Every step of a device is one of its node, a restart of it, or one that  *)
(* the node does not see: only the wait for an answer needs the invariant,  *)
(* which says what was asked for and from which state.                      *)
LEMMA DeviceIsNode ==
    ASSUME IInv, NEW d \in Device, DeviceNext(d)
    PROVE  Node(d)!Next \/ Node(d)!Restart \/ UNCHANGED Node(d)!vars
<1> USE DEF IInv, TypeOK, CallFitsState, Idle, NoCall, Stuck, Method
<1>1. CASE Enroll(d)
  <2>1. Node(d)!EnrollNow
    BY <1>1 DEF Enroll, Publish, brokerVars, Node!EnrollNow, Node!CallEnroll
  <2>2. QED
    BY <2>1 DEF Node!Next
<1>2. CASE Activate(d)
  <2>1. CASE Publish(d, "activate") /\ UNCHANGED <<link, inbox>>
    <3>1. Node(d)!Activate
      BY <1>2, <2>1 DEF Activate, Publish, Node!Activate
    <3>2. QED
      BY <3>1 DEF Node!Next
  <2>2. CASE DropMain(d, "closed") /\ UNCHANGED <<call, brokerVars>>
    BY <1>2, <2>2 DEF Activate, DropMain, Node!vars
  <2>3. QED
    BY <1>2, <2>1, <2>2 DEF Activate
<1>3. CASE Deactivate(d)
  <2>1. Node(d)!Deactivate
    BY <1>3 DEF Deactivate, Node!Deactivate
  <2>2. QED
    BY <2>1 DEF Node!Next
<1>4. CASE Delist(d)
  <2>1. Node(d)!Delist
    BY <1>4 DEF Delist, Publish, DropMain, brokerVars, Node!Delist
  <2>2. QED
    BY <2>1 DEF Node!Next
<1>5. CASE EnrollReturns(d)
  <2>1. Node(d)!EnrollReturns
    BY <1>5 DEF EnrollReturns, Finish, Node!EnrollReturns
  <2>2. QED
    BY <2>1 DEF Node!Next
<1>6. CASE ActivateReturns(d)
  <2>1. Node(d)!ActivateReturns
    BY <1>6 DEF ActivateReturns, DropMain, Finish, Node!ActivateReturns
  <2>2. QED
    BY <2>1 DEF Node!Next
<1>7. CASE DelistReturns(d)
  <2>1. Node(d)!DelistReturns
    BY <1>7 DEF DelistReturns, DropMain, Finish, Node!DelistReturns
  <2>2. QED
    BY <2>1 DEF Node!Next
<1>8. CASE CallFails(d)
  <2>1. CASE call[d].op = "enroll"
    <3>1. Node(d)!EnrollReturns
      BY <1>8, <2>1 DEF CallFails, Finish, Node!EnrollReturns
    <3>2. QED
      BY <3>1 DEF Node!Next
  <2>2. CASE call[d].op = "activate"
    <3>1. Node(d)!ActivateReturns
      BY <1>8, <2>2 DEF CallFails, Finish, Node!ActivateReturns
    <3>2. QED
      BY <3>1 DEF Node!Next
  <2>3. CASE call[d].op = "delist"
    <3>1. Node(d)!DelistReturns
      BY <1>8, <2>3 DEF CallFails, DropMain, Finish, Node!DelistReturns
    <3>2. QED
      BY <3>1 DEF Node!Next
  <2>4. QED
    BY <1>8, <2>1, <2>2, <2>3 DEF CallFails, GivesUp, Waits
<1>9. CASE ProcessEnds(d)
  BY <1>9, ProcessRestarts
<1>10. CASE MainLinkLost(d)
  BY <1>10 DEF MainLinkLost, Node!vars
<1>11. CASE DelistLinkLost(d)
  BY <1>11 DEF DelistLinkLost, Node!vars
<1>12. CASE ActivateBlocks(d)
  <2>1. Node(d)!Activate
    BY <1>12 DEF ActivateBlocks, Node!Activate
  <2>2. QED
    BY <2>1 DEF Node!Next
<1>13. CASE DeclareFails(d)
  <2>1. Node(d)!ActivateReturns
    BY <1>13 DEF DeclareFails, Finish, Node!ActivateReturns
  <2>2. QED
    BY <2>1 DEF Node!Next
<1>14. QED
  BY <1>1, <1>2, <1>3, <1>4, <1>5, <1>6, <1>7, <1>8, <1>9, <1>10,
     <1>11, <1>12, <1>13 DEF DeviceNext, HubGivesUp, DeviceExits

(* A step of one device leaves the state, the connection and the request of *)
(* the others alone.                                                        *)
LEMMA OthersRest ==
    ASSUME IInv, NEW d \in Device, DeviceNext(d), NEW e \in Device, e # d
    PROVE  state'[e] = state[e] /\ link'[e] = link[e] /\ call'[e] = call[e]
<1> USE DEF IInv, TypeOK, deviceVars, brokerVars, arbiterVars, DropMain, Finish,
        Publish
<1>1. CASE Enroll(d) \/ Activate(d) \/ Deactivate(d) \/ Delist(d)
  BY <1>1 DEF Enroll, Activate, Deactivate, Delist
<1>2. CASE EnrollReturns(d) \/ ActivateReturns(d) \/ DelistReturns(d)
  BY <1>2 DEF EnrollReturns, ActivateReturns, DelistReturns
<1>3. CASE CallFails(d)
  BY <1>3 DEF CallFails
<1>4. CASE ProcessEnds(d)
  BY <1>4 DEF ProcessEnds
<1>5. CASE MainLinkLost(d) \/ DelistLinkLost(d)
  BY <1>5 DEF MainLinkLost, DelistLinkLost
<1>6. CASE ActivateBlocks(d) \/ DeclareFails(d)
  BY <1>6 DEF ActivateBlocks, DeclareFails
<1>7. QED
  BY <1>1, <1>2, <1>3, <1>4, <1>5, <1>6 DEF DeviceNext, HubGivesUp, DeviceExits

(* The arbiter changes nothing that a node sees: it only answers.           *)
LEMMA ArbiterIsUnseen ==
    ASSUME ArbiterNext
    PROVE  UNCHANGED <<state, link, call>>
BY DEF ArbiterNext, ArbiterStarts, ArbiterExits, Handle, Answer, LosesChannel,
       AppliesUnheard, deviceVars

(* A step of the network, seen by one node.                                 *)
LEMMA NetworkIsNode ==
    ASSUME IInv, [Next]_vars, NEW d \in Device
    PROVE  Node(d)!Next \/ Node(d)!Restart \/ UNCHANGED Node(d)!vars
<1>1. CASE UNCHANGED <<state, link, call>>
  BY <1>1, NodeRests
<1>2. ASSUME NEW e \in Device, DeviceNext(e)
      PROVE  Node(d)!Next \/ Node(d)!Restart \/ UNCHANGED Node(d)!vars
  <2>1. CASE e = d
    BY <1>2, <2>1, DeviceIsNode
  <2>2. CASE e # d
    BY <1>2, <2>2, OthersRest, NodeRests
  <2>3. QED
    BY <2>1, <2>2
<1>3. QED
  BY <1>1, <1>2, ArbiterIsUnseen DEF Next, vars, deviceVars

(* Whatever the arbiter, the broker and the other devices do, each device   *)
(* takes only the steps of a node, between one start of its process and the *)
(* next: the answers left open in ChamgeNode are those Registration gives.  *)
THEOREM DevicesAreChamgeNodes == Spec => DevicesAreNodes
<1>1. Init => \A d \in Device : Node(d)!Init
  BY DEF Init, Node!Init, NoCall
<1>2. IInv /\ [Next]_vars =>
        [\A d \in Device :
           Node(d)!Next \/ Node(d)!Restart \/ UNCHANGED Node(d)!vars]_vars
  BY NetworkIsNode
<1>3. QED
  BY <1>1, <1>2, Invariance, PTL DEF Spec, DevicesAreNodes
-----------------------------------------------------------------------------
(* A step of a node is one of the lifecycle.                                *)
LEMMA NodeStepIsLifecycle ==
    ASSUME IInv, NEW d \in Device, Node(d)!Next
    PROVE  Life(d)!Next \/ state'[d] = state[d]
<1> USE DEF IInv, TypeOK, CallFitsState, Idle, NoCall, Stuck, Life!Next, Life!Enroll,
        Life!Activate, Life!Deactivate, Life!Delist
<1>1. CASE Node(d)!EnrollNow \/ Node(d)!EnrollLazy \/ Node(d)!TimerEnrolls
             \/ Node(d)!TimerRefused
  BY <1>1 DEF Node!EnrollNow, Node!EnrollLazy, Node!TimerEnrolls,
       Node!TimerRefused, Node!CallEnroll
<1>2. CASE Node(d)!EnrollReturns \/ Node(d)!ActivateReturns
             \/ Node(d)!DelistReturns
  BY <1>2 DEF Node!EnrollReturns, Node!ActivateReturns, Node!DelistReturns
<1>3. CASE Node(d)!Activate \/ Node(d)!Deactivate \/ Node(d)!Delist
  BY <1>3 DEF Node!Activate, Node!Deactivate, Node!Delist
<1>4. QED
  BY <1>1, <1>2, <1>3 DEF Node!Next

(* The whole registration protocol implements the lifecycle of each device, *)
(* across losses, late answers and restarts, even a crash in the wait: what *)
(* a restart does to the state, a delist may do as well.                    *)
THEOREM LifecycleOfDevices == Spec => DevicesKeepLifecycle
<1>1. ASSUME IInv, [Next]_vars, NEW d \in Device
      PROVE  Life(d)!Next \/ state'[d] = state[d]
  <2>1. CASE Node(d)!Next
    BY <1>1, <2>1, NodeStepIsLifecycle
  <2>2. CASE Node(d)!Restart
    BY <1>1, <2>2 DEF Node!Restart, IInv, TypeOK, Life!Next, Life!Delist
  <2>3. CASE UNCHANGED Node(d)!vars
    BY <2>3 DEF Node!vars
  <2>4. QED
    BY <1>1, <2>1, <2>2, <2>3, NetworkIsNode
<1>2. IInv /\ [Next]_vars =>
        [\A d \in Device : Life(d)!Next \/ state'[d] = state[d]]_vars
  BY <1>1
<1>3. QED
  BY <1>2, Invariance, PTL DEF Spec, DevicesKeepLifecycle

(* A device whose delist went unanswered is out of the network for the rest *)
(* of its process, whatever the arbiter does: only a restart repairs it.    *)
THEOREM RestartRepairsWedged == Spec => WedgedUntilRestart
<1>1. ASSUME IInv, [Next]_vars, NEW d \in Device, Node(d)!Wedged
      PROVE  Node(d)!Wedged' \/ Node(d)!Restart
  <2> USE DEF IInv, TypeOK, CallFitsState, Idle, NoCall, Stuck, Node!Wedged
  <2>1. CASE Node(d)!Next
    BY <1>1, <2>1 DEF Node!Next, Node!EnrollNow, Node!EnrollLazy,
         Node!TimerEnrolls, Node!TimerRefused, Node!EnrollReturns,
         Node!Activate, Node!ActivateReturns, Node!Deactivate, Node!Delist,
         Node!DelistReturns
  <2>2. CASE UNCHANGED Node(d)!vars
    BY <1>1, <2>2 DEF Node!vars
  <2>3. QED
    BY <1>1, <2>1, <2>2, NetworkIsNode
<1>2. IInv /\ [Next]_vars => [\A d \in Device :
                 Node(d)!Wedged => Node(d)!Wedged' \/ Node(d)!Restart]_vars
  BY <1>1
<1>3. QED
  BY <1>2, Invariance, PTL DEF Spec, WedgedUntilRestart

(* A device whose enrolment was refused or lost stays outside until its     *)
(* backend is discarded, by a delist or with its process.                   *)
THEOREM DiscardRepairsSpent == Spec => SpentUntilDiscarded
<1>1. ASSUME IInv, [Next]_vars, NEW d \in Device, Node(d)!Spent
      PROVE  Node(d)!Spent' \/ link'[d] = "none"
  <2> USE DEF IInv, TypeOK, CallFitsState, Idle, NoCall, Stuck, Node!Spent
  <2>1. CASE Node(d)!Next
    BY <1>1, <2>1 DEF Node!Next, Node!EnrollNow, Node!EnrollLazy,
         Node!TimerEnrolls, Node!TimerRefused, Node!EnrollReturns,
         Node!Activate, Node!ActivateReturns, Node!Deactivate, Node!Delist,
         Node!DelistReturns, Node!CallEnroll
  <2>2. CASE Node(d)!Restart
    BY <1>1, <2>2 DEF Node!Restart
  <2>3. CASE UNCHANGED Node(d)!vars
    BY <1>1, <2>3 DEF Node!vars
  <2>4. QED
    BY <1>1, <2>1, <2>2, <2>3, NetworkIsNode
<1>2. IInv /\ [Next]_vars => [\A d \in Device :
                 Node(d)!Spent => Node(d)!Spent' \/ link'[d] = "none"]_vars
  BY <1>1
<1>3. QED
  BY <1>2, Invariance, PTL DEF Spec, SpentUntilDiscarded
=============================================================================
