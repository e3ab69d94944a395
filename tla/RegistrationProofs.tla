------------------------- MODULE RegistrationProofs -------------------------
(* The safety of the registration protocol for every set of edges and hubs, *)
(* every fault, and every bound on requests and on skipped answers.         *)
EXTENDS Registration, TLAPS

USE DeviceAssumption, FaultAssumption, BoundAssumption
    DEF DeviceAssumption, FaultAssumption, BoundAssumption
-----------------------------------------------------------------------------
(* Types *)

(* A publication adds one well-formed request, reply queue and call.        *)
LEMMA PublishTypes ==
    ASSUME TypeOK, NEW d \in Device, NEW op \in Method, Publish(d, op)
    PROVE  /\ sent' \in ReqId
           /\ enrollq' \in SUBSET Request
           /\ call' \in [Device -> [id : ReqId, op : Method] \cup {NoCall, Stuck}]
           /\ replyq' \in [Device -> SUBSET ReqId]
<1>1. sent' \in ReqId /\ sent' = sent + 1
  BY DEF Publish, TypeOK, ReqId
<1>2. [id |-> sent + 1, dev |-> d, op |-> op] \in Request
  BY <1>1 DEF Request
<1>3. [id |-> sent + 1, op |-> op] \in [id : ReqId, op : Method]
  BY <1>1
<1>4. QED
  BY <1>1, <1>2, <1>3 DEF Publish, TypeOK

(* What a wait leaves unread was on the connection before.                  *)
LEMMA UnreadSubset == \A d : Unread(d) \subseteq inbox[d]
BY DEF Unread

(* The initial values have their types.                                     *)
LEMMA TypeInit == Init => TypeOK
BY DEF Init, TypeOK

(* Steps of a device keep the types.                                        *)
LEMMA DeviceTypes ==
    ASSUME TypeOK, NEW d \in Device, DeviceNext(d)
    PROVE  TypeOK'
<1> USE DEF deviceVars, brokerVars, arbiterVars
<1>1. CASE Enroll(d)
  <2>1. CASE Publish(d, "enroll")
    <3>1. /\ sent' \in 0..MaxReq /\ enrollq' \in SUBSET Request
          /\ call' \in [Device -> [id : ReqId, op : Method] \cup {NoCall, Stuck}]
          /\ replyq' \in [Device -> SUBSET ReqId]
      BY <2>1, PublishTypes DEF Method, ReqId
    <3>2. QED
      BY <1>1, <3>1 DEF Enroll, TypeOK
  <2>2. CASE ~Publish(d, "enroll")
    BY <1>1, <2>2 DEF Enroll, TypeOK
  <2>3. QED
    BY <2>1, <2>2
<1>2. CASE Activate(d)
  <2>1. CASE Publish(d, "activate")
    <3>1. /\ sent' \in 0..MaxReq /\ enrollq' \in SUBSET Request
          /\ call' \in [Device -> [id : ReqId, op : Method] \cup {NoCall, Stuck}]
          /\ replyq' \in [Device -> SUBSET ReqId]
      BY <2>1, PublishTypes DEF Method, ReqId
    <3>2. QED
      BY <1>2, <3>1 DEF Activate, TypeOK, DropMain
  <2>2. CASE ~Publish(d, "activate")
    BY <1>2, <2>2 DEF Activate, TypeOK, DropMain
  <2>3. QED
    BY <2>1, <2>2
<1>3. CASE Deactivate(d)
  BY <1>3 DEF Deactivate, TypeOK
<1>4. CASE Delist(d)
  <2>1. CASE Publish(d, "delist")
    <3>1. /\ sent' \in 0..MaxReq /\ enrollq' \in SUBSET Request
          /\ call' \in [Device -> [id : ReqId, op : Method] \cup {NoCall, Stuck}]
          /\ replyq' \in [Device -> SUBSET ReqId]
      BY <2>1, PublishTypes DEF Method, ReqId
    <3>2. QED
      BY <1>4, <3>1 DEF Delist, TypeOK, DropMain
  <2>2. CASE ~Publish(d, "delist")
    BY <1>4, <2>2 DEF Delist, TypeOK, DropMain
  <2>3. QED
    BY <2>1, <2>2
<1>5. CASE EnrollReturns(d)
  BY <1>5 DEF EnrollReturns, Finish, TypeOK
<1>6. CASE ActivateReturns(d)
  BY <1>6 DEF ActivateReturns, DropMain, Finish, TypeOK
<1>7. CASE DelistReturns(d)
  BY <1>7 DEF DelistReturns, DropMain, Finish, TypeOK
<1>8. CASE CallFails(d)
  <2>1. Unread(d) \subseteq inbox[d]
    BY UnreadSubset
  <2>2. CASE call[d].op # "delist"
    BY <1>8, <2>1, <2>2 DEF CallFails, Finish, TypeOK
  <2>3. CASE call[d].op = "delist"
    BY <1>8, <2>3 DEF CallFails, DropMain, Finish, TypeOK
  <2>4. QED
    BY <2>2, <2>3
<1>9. CASE ProcessEnds(d)
  BY <1>9 DEF ProcessEnds, DropMain, Finish, TypeOK
<1>10. CASE MainLinkLost(d)
  BY <1>10 DEF MainLinkLost, TypeOK
<1>11. CASE DelistLinkLost(d)
  BY <1>11 DEF DelistLinkLost, TypeOK
<1>12. CASE ActivateBlocks(d)
  BY <1>12 DEF ActivateBlocks, TypeOK
<1>13. CASE DeclareFails(d)
  BY <1>13 DEF DeclareFails, Finish, TypeOK
<1>14. QED
  BY <1>1, <1>2, <1>3, <1>4, <1>5, <1>6, <1>7, <1>8, <1>9, <1>10,
     <1>11, <1>12, <1>13 DEF DeviceNext, HubGivesUp, DeviceExits

(* Steps of the arbiter keep the types.                                     *)
LEMMA ArbiterTypes ==
    ASSUME TypeOK, ArbiterNext
    PROVE  TypeOK'
<1> USE DEF deviceVars, brokerVars, arbiterVars, TypeOK
<1>1. CASE ArbiterStarts
  BY <1>1 DEF ArbiterStarts
<1>2. CASE ArbiterExits
  BY <1>2 DEF ArbiterExits
<1>3. ASSUME NEW m \in enrollq, Answer(m) PROVE TypeOK'
  BY <1>3 DEF Answer, Apply, Enlist, Strike, Request
<1>4. ASSUME NEW m \in enrollq, LosesChannel(m) PROVE TypeOK'
  BY <1>4 DEF LosesChannel, Apply, Enlist, Strike, Request
<1>5. ASSUME NEW m \in enrollq, AppliesUnheard(m) PROVE TypeOK'
  BY <1>5 DEF AppliesUnheard, Apply, Enlist, Strike, Request
<1>6. QED
  BY <1>1, <1>2, <1>3, <1>4, <1>5 DEF ArbiterNext, Handle

(* Every step keeps the types.                                              *)
LEMMA TypeStep == TypeOK /\ [Next]_vars => TypeOK'
<1>1. TypeOK /\ UNCHANGED vars => TypeOK'
  BY DEF TypeOK, vars, deviceVars, brokerVars, arbiterVars
<1>2. QED
  BY <1>1, DeviceTypes, ArbiterTypes DEF Next

(* The variables keep their types.                                          *)
THEOREM TypeCorrect == Spec => []TypeOK
BY TypeInit, TypeStep, PTL DEF Spec
-----------------------------------------------------------------------------
(* The inductive invariant, in two halves: the order of requests and answers, *)
(* and what the arbiter's list owes to it.                                  *)
QueueInv == QueueNumbered /\ CallIsLatest /\ AnswersPrecedeQueue
ListInv  == CallFitsState /\ NothingPending /\ ListMatchesAnswer /\ ListedOnce
              /\ EnrolledIsListed

(* A publication takes the next number, and its sender waits for it.        *)
LEMMA PublishOrder ==
    ASSUME IInv, NEW d \in Device, NEW op \in Method, Publish(d, op), inbox' = inbox
    PROVE  QueueInv'
<1> USE DEF IInv, TypeOK, Request, ReqId, NoCall, Stuck, Waits, Publish
<1>1. QueueNumbered'
  BY DEF QueueNumbered
<1>2. CallIsLatest'
  BY DEF QueueNumbered, CallIsLatest
<1>3. AnswersPrecedeQueue'
  BY DEF AnswersPrecedeQueue
<1>4. QED
  BY <1>1, <1>2, <1>3 DEF QueueInv

(* The end of a wait reads answers and touches no queue.                    *)
LEMMA WaitEndsOrder ==
    ASSUME IInv, NEW d \in Device, Finish(d), UNCHANGED brokerVars,
           \A e \in Device : inbox'[e] \subseteq inbox[e]
    PROVE  QueueInv'
<1> USE DEF IInv, TypeOK, Request, ReqId, NoCall, Stuck, Waits, Finish, brokerVars
<1>1. QueueNumbered'
  BY DEF QueueNumbered
<1>2. CallIsLatest'
  BY DEF CallIsLatest
<1>3. AnswersPrecedeQueue'
  BY DEF AnswersPrecedeQueue
<1>4. QED
  BY <1>1, <1>2, <1>3 DEF QueueInv

(* Steps of a device keep the invariant.                                    *)
LEMMA DeviceStep ==
    ASSUME IInv, TypeOK', NEW d \in Device, DeviceNext(d)
    PROVE  QueueInv' /\ ListInv'
<1> USE DEF IInv, TypeOK, deviceVars, brokerVars, arbiterVars, Request, ReqId,
         NoCall, Stuck, Idle, Waits
<1>1. CASE Enroll(d)
  <2>1. CASE Publish(d, "enroll") /\ inbox' = inbox
    <3>1. QueueInv'
      BY <2>1, PublishOrder DEF Method
    <3>2. ListInv'
      <4>1. CallFitsState'
        BY <1>1, <2>1 DEF Enroll, Publish, CallFitsState
      <4>2. NothingPending'
        BY <1>1, <2>1 DEF Enroll, Publish, NothingPending, Present
      <4>3. ListMatchesAnswer'
        BY <1>1, <2>1 DEF Enroll, Publish, ListMatchesAnswer,
             AnswersPrecedeQueue
      <4>4. ListedOnce'
        BY <1>1, <2>1 DEF Enroll, ListedOnce
      <4>5. EnrolledIsListed'
        BY <1>1, <2>1 DEF Enroll, Publish, EnrolledIsListed, Present
      <4>6. QED
        BY <4>1, <4>2, <4>3, <4>4, <4>5 DEF ListInv
    <3>3. QED
      BY <3>1, <3>2
  <2>2. CASE UNCHANGED <<call, brokerVars>>
    <3>1. QueueInv'
      BY <1>1, <2>2 DEF Enroll, QueueInv, QueueNumbered, CallIsLatest,
           AnswersPrecedeQueue
    <3>2. ListInv'
      BY <1>1, <2>2 DEF Enroll, ListInv, CallFitsState, NothingPending,
           ListMatchesAnswer, ListedOnce, EnrolledIsListed, Present
    <3>3. QED
      BY <3>1, <3>2
  <2>3. QED
    BY <1>1, <2>1, <2>2 DEF Enroll
<1>2. CASE Activate(d)
  <2>1. CASE Publish(d, "activate") /\ inbox' = inbox
    <3>1. QueueInv'
      BY <2>1, PublishOrder DEF Method
    <3>2. ListInv'
      <4>1. CallFitsState'
        BY <1>2, <2>1 DEF Activate, Publish, CallFitsState
      <4>2. NothingPending'
        BY <1>2, <2>1 DEF Activate, Publish, NothingPending, Present
      <4>3. ListMatchesAnswer'
        BY <1>2, <2>1 DEF Activate, Publish, ListMatchesAnswer
      <4>4. ListedOnce'
        BY <1>2, <2>1 DEF Activate, ListedOnce
      <4>5. EnrolledIsListed'
        BY <1>2, <2>1 DEF Activate, Publish, EnrolledIsListed, Present
      <4>6. QED
        BY <4>1, <4>2, <4>3, <4>4, <4>5 DEF ListInv
    <3>3. QED
      BY <3>1, <3>2
  <2>2. CASE UNCHANGED <<call, brokerVars>>
    <3>1. QueueInv'
      BY <1>2, <2>2 DEF Activate, DropMain, QueueInv, QueueNumbered,
           CallIsLatest, AnswersPrecedeQueue
    <3>2. ListInv'
      BY <1>2, <2>2 DEF Activate, DropMain, ListInv, CallFitsState,
           NothingPending, ListMatchesAnswer, ListedOnce, EnrolledIsListed,
           Present
    <3>3. QED
      BY <3>1, <3>2
  <2>3. QED
    BY <1>2, <2>1, <2>2 DEF Activate
<1>3. CASE Deactivate(d)
  <2>1. QueueInv'
    BY <1>3 DEF Deactivate, QueueInv, QueueNumbered, CallIsLatest,
         AnswersPrecedeQueue
  <2>2. ListInv'
    BY <1>3 DEF Deactivate, ListInv, CallFitsState, NothingPending,
         ListMatchesAnswer, ListedOnce, EnrolledIsListed, Present
  <2>3. QED
    BY <2>1, <2>2
<1>4. CASE Delist(d)
  <2>1. CASE Publish(d, "delist") /\ inbox' = inbox
    <3>1. QueueInv'
      BY <2>1, PublishOrder DEF Method
    <3>2. ListInv'
      <4>1. CallFitsState'
        BY <1>4, <2>1 DEF Delist, Publish, CallFitsState
      <4>2. NothingPending'
        BY <1>4, <2>1 DEF Delist, Publish, NothingPending, Present
      <4>3. ListMatchesAnswer'
        BY <1>4, <2>1 DEF Delist, Publish, ListMatchesAnswer,
             AnswersPrecedeQueue
      <4>4. ListedOnce'
        BY <1>4, <2>1 DEF Delist, ListedOnce
      <4>5. EnrolledIsListed'
        BY <1>4, <2>1 DEF Delist, Publish, EnrolledIsListed, Present
      <4>6. QED
        BY <4>1, <4>2, <4>3, <4>4, <4>5 DEF ListInv
    <3>3. QED
      BY <3>1, <3>2
  <2>2. CASE UNCHANGED <<call, brokerVars>>
    <3>1. QueueInv'
      BY <1>4, <2>2 DEF Delist, DropMain, QueueInv, QueueNumbered,
           CallIsLatest, AnswersPrecedeQueue
    <3>2. ListInv'
      BY <1>4, <2>2 DEF Delist, DropMain, ListInv, CallFitsState,
           NothingPending, ListMatchesAnswer, ListedOnce, EnrolledIsListed,
           Present
    <3>3. QED
      BY <3>1, <3>2
  <2>3. QED
    BY <1>4, <2>1, <2>2 DEF Delist
<1>5. CASE EnrollReturns(d)
  <2>1. QueueInv'
    <3>1. \A e \in Device : inbox'[e] \subseteq inbox[e]
      BY <1>5 DEF EnrollReturns, DropMain
    <3>2. QED
      BY <1>5, <3>1, WaitEndsOrder DEF EnrollReturns
  <2>2. ListInv'
    <3>1. CallFitsState'
      BY <1>5 DEF EnrollReturns, Finish, CallFitsState
    <3>2. NothingPending'
      BY <1>5 DEF EnrollReturns, Answered, Finish, NothingPending, Present,
           CallIsLatest, AnswersPrecedeQueue
    <3>3. ListMatchesAnswer'
      BY <1>5 DEF EnrollReturns, Finish, ListMatchesAnswer
    <3>4. ListedOnce'
      BY <1>5 DEF EnrollReturns, ListedOnce
    <3>5. EnrolledIsListed'
      BY <1>5 DEF EnrollReturns, Answered, Finish, ListMatchesAnswer,
           EnrolledIsListed, Present
    <3>6. QED
      BY <3>1, <3>2, <3>3, <3>4, <3>5 DEF ListInv
  <2>3. QED
    BY <2>1, <2>2
<1>6. CASE ActivateReturns(d)
  <2>1. QueueInv'
    <3>1. \A e \in Device : inbox'[e] \subseteq inbox[e]
      BY <1>6 DEF ActivateReturns, DropMain
    <3>2. QED
      BY <1>6, <3>1, WaitEndsOrder DEF ActivateReturns
  <2>2. ListInv'
    BY <1>6 DEF ActivateReturns, DropMain, Finish, ListInv, CallFitsState,
         NothingPending, ListMatchesAnswer, ListedOnce, EnrolledIsListed,
         Present
  <2>3. QED
    BY <2>1, <2>2
<1>7. CASE DelistReturns(d)
  <2>1. QueueInv'
    <3>1. \A e \in Device : inbox'[e] \subseteq inbox[e]
      BY <1>7 DEF DelistReturns, DropMain
    <3>2. QED
      BY <1>7, <3>1, WaitEndsOrder DEF DelistReturns
  <2>2. ListInv'
    BY <1>7 DEF DelistReturns, DropMain, Finish, ListInv, CallFitsState,
         NothingPending, ListMatchesAnswer, ListedOnce, EnrolledIsListed,
         Present
  <2>3. QED
    BY <2>1, <2>2
<1>8. CASE CallFails(d)
  <2>1. Unread(d) \subseteq inbox[d]
    BY UnreadSubset
  <2>2. QueueInv'
    <3>1. \A e \in Device : inbox'[e] \subseteq inbox[e]
      BY <1>8, <2>1 DEF CallFails, DropMain
    <3>2. QED
      BY <1>8, <3>1, WaitEndsOrder DEF CallFails
  <2>3. ListInv'
    BY <1>8, <2>1 DEF CallFails, DropMain, Finish, ListInv, CallFitsState,
         NothingPending, ListMatchesAnswer, ListedOnce, EnrolledIsListed,
         Present
  <2>4. QED
    BY <2>2, <2>3
<1>9. CASE ProcessEnds(d)
  <2>1. QueueInv'
    <3>1. \A e \in Device : inbox'[e] \subseteq inbox[e]
      BY <1>9 DEF ProcessEnds, DropMain
    <3>2. QED
      BY <1>9, <3>1, WaitEndsOrder DEF ProcessEnds
  <2>2. ListInv'
    BY <1>9 DEF ProcessEnds, DropMain, Finish, ListInv, CallFitsState,
         NothingPending, ListMatchesAnswer, ListedOnce, EnrolledIsListed,
         Present
  <2>3. QED
    BY <2>1, <2>2
<1>10. CASE MainLinkLost(d)
  <2>1. QueueInv'
    BY <1>10 DEF MainLinkLost, QueueInv, QueueNumbered, CallIsLatest,
         AnswersPrecedeQueue
  <2>2. ListInv'
    BY <1>10 DEF MainLinkLost, ListInv, CallFitsState, NothingPending,
         ListMatchesAnswer, ListedOnce, EnrolledIsListed, Present
  <2>3. QED
    BY <2>1, <2>2
<1>11. CASE DelistLinkLost(d)
  <2>1. QueueInv'
    BY <1>11 DEF DelistLinkLost, QueueInv, QueueNumbered, CallIsLatest,
         AnswersPrecedeQueue
  <2>2. ListInv'
    BY <1>11 DEF DelistLinkLost, ListInv, CallFitsState, NothingPending,
         ListMatchesAnswer, ListedOnce, EnrolledIsListed, Present
  <2>3. QED
    BY <2>1, <2>2
<1>12. CASE ActivateBlocks(d)
  <2>1. QueueInv'
    BY <1>12 DEF ActivateBlocks, QueueInv, QueueNumbered, CallIsLatest,
         AnswersPrecedeQueue
  <2>2. ListInv'
    BY <1>12 DEF ActivateBlocks, ListInv, CallFitsState, NothingPending,
         ListMatchesAnswer, ListedOnce, EnrolledIsListed, Present
  <2>3. QED
    BY <2>1, <2>2
<1>13. CASE DeclareFails(d)
  <2>1. QueueInv'
    BY <1>13, WaitEndsOrder DEF DeclareFails
  <2>2. ListInv'
    BY <1>13 DEF DeclareFails, Finish, ListInv, CallFitsState, NothingPending,
         ListMatchesAnswer, ListedOnce, EnrolledIsListed, Present
  <2>3. QED
    BY <2>1, <2>2
<1>14. QED
  BY <1>1, <1>2, <1>3, <1>4, <1>5, <1>6, <1>7, <1>8, <1>9, <1>10,
     <1>11, <1>12, <1>13 DEF DeviceNext, HubGivesUp, DeviceExits

(* Steps of the arbiter keep the invariant.                                 *)
LEMMA ArbiterStep ==
    ASSUME IInv, TypeOK', ArbiterNext
    PROVE  QueueInv' /\ ListInv'
<1> USE DEF IInv, TypeOK, deviceVars, brokerVars, arbiterVars, Request, ReqId,
         NoCall, Stuck, Idle, Waits
<1>1. CASE ArbiterStarts
  BY <1>1 DEF ArbiterStarts, QueueInv, QueueNumbered, CallIsLatest,
       AnswersPrecedeQueue, ListInv, CallFitsState, NothingPending,
       ListMatchesAnswer, ListedOnce, EnrolledIsListed, Present
<1>2. CASE ArbiterExits
  BY <1>2 DEF ArbiterExits, QueueInv, QueueNumbered, CallIsLatest,
       AnswersPrecedeQueue, ListInv, CallFitsState, NothingPending,
       ListMatchesAnswer, ListedOnce, EnrolledIsListed
<1>3. ASSUME NEW m \in enrollq, Answer(m) PROVE QueueInv' /\ ListInv'
  <2>1. QueueInv'
    <3>1. QueueNumbered'
      BY <1>3 DEF Answer, QueueNumbered
    <3>2. CallIsLatest'
      BY <1>3 DEF Answer, CallIsLatest
    <3>3. AnswersPrecedeQueue'
      BY <1>3 DEF Answer, Oldest, QueueNumbered, AnswersPrecedeQueue
    <3>4. QED
      BY <3>1, <3>2, <3>3 DEF QueueInv
  <2>2. ListInv'
    <3>1. CallFitsState'
      BY <1>3 DEF Answer, CallFitsState
    <3>2. NothingPending'
      BY <1>3 DEF Answer, NothingPending, Present
    <3>3. ListMatchesAnswer'
      BY <1>3 DEF Answer, Apply, Enlist, Strike, ListMatchesAnswer,
           ListedOnce, CallIsLatest, AnswersPrecedeQueue
    <3>4. ListedOnce'
      BY <1>3 DEF Answer, Apply, Enlist, Strike, ListedOnce
    <3>5. EnrolledIsListed'
      BY <1>3 DEF Answer, Apply, NothingPending, EnrolledIsListed, Present
    <3>6. QED
      BY <3>1, <3>2, <3>3, <3>4, <3>5 DEF ListInv
  <2>3. QED
    BY <2>1, <2>2
<1>4. ASSUME NEW m \in enrollq, LosesChannel(m) PROVE QueueInv' /\ ListInv'
  <2>1. QueueInv'
    BY <1>4 DEF LosesChannel, QueueInv, QueueNumbered, CallIsLatest,
         AnswersPrecedeQueue
  <2>2. ListInv'
    <3>1. CallFitsState'
      BY <1>4 DEF LosesChannel, CallFitsState
    <3>2. NothingPending'
      BY <1>4 DEF LosesChannel, NothingPending, Present
    <3>3. ListMatchesAnswer'
      BY <1>4 DEF LosesChannel, Apply, ListMatchesAnswer, CallIsLatest,
           AnswersPrecedeQueue
    <3>4. ListedOnce'
      BY <1>4 DEF LosesChannel, Apply, Enlist, Strike, ListedOnce
    <3>5. EnrolledIsListed'
      BY <1>4 DEF LosesChannel, Apply, NothingPending, EnrolledIsListed, Present
    <3>6. QED
      BY <3>1, <3>2, <3>3, <3>4, <3>5 DEF ListInv
  <2>3. QED
    BY <2>1, <2>2
<1>5. ASSUME NEW m \in enrollq, AppliesUnheard(m) PROVE QueueInv' /\ ListInv'
  <2>1. QueueInv'
    BY <1>5 DEF AppliesUnheard, QueueInv, QueueNumbered, CallIsLatest,
         AnswersPrecedeQueue
  <2>2. ListInv'
    <3>1. CallFitsState'
      BY <1>5 DEF AppliesUnheard, CallFitsState
    <3>2. NothingPending'
      BY <1>5 DEF AppliesUnheard, NothingPending, Present
    <3>3. ListMatchesAnswer'
      BY <1>5 DEF AppliesUnheard, Apply, ListMatchesAnswer, CallIsLatest,
           AnswersPrecedeQueue
    <3>4. ListedOnce'
      BY <1>5 DEF AppliesUnheard, Apply, Enlist, Strike, ListedOnce
    <3>5. EnrolledIsListed'
      BY <1>5 DEF AppliesUnheard, Apply, NothingPending, EnrolledIsListed,
           Present
    <3>6. QED
      BY <3>1, <3>2, <3>3, <3>4, <3>5 DEF ListInv
  <2>3. QED
    BY <2>1, <2>2
<1>6. QED
  BY <1>1, <1>2, <1>3, <1>4, <1>5 DEF ArbiterNext, Handle

(* The channel of the arbiter: who keeps which reply queue alive.           *)
ChannelInv == AwaitedQueueLives /\ LeakedIsGivenUp

(* What a step of one device leaves of the others, as far as it matters.    *)
Rest(d) == \A e \in Device \ {d} :
              /\ call'[e] = call[e] /\ replyq'[e] = replyq[e]
              /\ link'[e] = link[e] /\ leaked'[e] = leaked[e]

LEMMA OneDeviceMoves ==
    ASSUME IInv, NEW d \in Device, Rest(d), sent \in Nat, sent' \in Nat, sent <= sent',
           \/ call'[d].id = 0
           \/ call'[d].id \in replyq'[d]
           \/ "link" \in Faults /\ (call'[d].op = "delist" \/ link'[d] = "broken"),
           \A i \in leaked'[d] : i <= sent' /\ i # call'[d].id
    PROVE  ChannelInv'
<1>1. AwaitedQueueLives'
  BY DEF IInv, AwaitedQueueLives, Waits, Rest
<1>2. LeakedIsGivenUp'
  <2>1. ASSUME NEW e \in Device \ {d}, NEW i \in leaked'[e]
        PROVE  i <= sent' /\ i # call'[e].id
    <3>1. i \in leaked[e] /\ call'[e] = call[e] /\ i \in Nat
      BY <2>1 DEF Rest, IInv, TypeOK, ReqId
    <3>2. i <= sent /\ i # call[e].id
      BY <3>1 DEF IInv, LeakedIsGivenUp
    <3>3. QED
      BY <3>1, <3>2
  <2>2. QED
    BY <2>1 DEF LeakedIsGivenUp
<1>3. QED
  BY <1>1, <1>2 DEF ChannelInv

(* A device that waits for no answer has given up or never made its requests. *)
LEMMA NoCallPending ==
    ASSUME IInv, TypeOK', NEW d \in Device, Rest(d), sent' = sent, call'[d].id = 0,
           \A i \in leaked'[d] : i <= sent
    PROVE  ChannelInv'
<1>1. sent \in Nat /\ sent' \in Nat /\ sent <= sent'
  BY BoundAssumption DEF IInv, TypeOK
<1>2. ASSUME NEW i \in leaked'[d] PROVE i <= sent' /\ i # call'[d].id
  <2>1. i \in 1..MaxReq
    BY <1>2 DEF TypeOK, ReqId
  <2>2. QED
    BY <2>1, BoundAssumption
<1>3. QED
  BY <1>1, <1>2, OneDeviceMoves

(* A request is published with a reply queue of its own, which its device   *)
(* then waits on.                                                           *)
LEMMA PublishKeepsQueue ==
    ASSUME IInv, NEW d \in Device, NEW o \in Method, Publish(d, o), UNCHANGED leaked,
           \A e \in Device \ {d} : link'[e] = link[e]
    PROVE  ChannelInv'
<1>1. sent \in Nat /\ sent' = sent + 1
  BY BoundAssumption DEF IInv, TypeOK, Publish
<1>2. call'[d].id = sent + 1 /\ sent + 1 \in replyq'[d]
  BY DEF IInv, TypeOK, Publish
<1>3. Rest(d)
  BY DEF IInv, TypeOK, Publish, Rest
<1>4. ASSUME NEW i \in leaked'[d] PROVE i <= sent' /\ i # call'[d].id
  <2>1. i \in leaked[d] /\ i \in Nat
    BY <1>4 DEF IInv, TypeOK, ReqId
  <2>2. i <= sent
    BY <2>1 DEF IInv, LeakedIsGivenUp
  <2>3. QED
    BY <1>1, <1>2, <2>1, <2>2
<1>5. QED
  BY <1>1, <1>2, <1>3, <1>4, OneDeviceMoves

(* A device keeps the reply queue it waits on while its connection lasts.   *)
LEMMA ChannelStep ==
    ASSUME IInv, TypeOK', [Next]_vars
    PROVE  ChannelInv'
<1>0. /\ call \in [Device -> [id : ReqId, op : Method] \cup {NoCall, Stuck}]
      /\ link \in [Device -> {"none", "fresh", "open", "closed", "broken"}]
      /\ replyq \in [Device -> SUBSET ReqId] /\ leaked \in [Device -> SUBSET ReqId]
      /\ sent \in Nat
  BY BoundAssumption DEF IInv, TypeOK
<1>1. ASSUME NEW d \in Device, DeviceNext(d) PROVE ChannelInv'
  <2>0. \A i \in leaked[d] : i <= sent /\ i # call[d].id
    BY DEF IInv, LeakedIsGivenUp
  <2>1. CASE Enroll(d)
    <3>1. CASE Publish(d, "enroll")
      <4>1. \A e \in Device \ {d} : link'[e] = link[e]
        BY <1>0, <2>1 DEF Enroll
      <4>2. QED
        BY <2>1, <3>1, <4>1, PublishKeepsQueue DEF Enroll, Method
    <3>2. CASE UNCHANGED <<call, replyq, brokerVars>>
      <4>1. Rest(d) /\ sent' = sent /\ call'[d].id = 0
        BY <1>0, <2>1, <3>2 DEF Enroll, Idle, NoCall, Rest, brokerVars
      <4>2. QED
        BY <2>0, <2>1, <4>1, NoCallPending DEF Enroll
    <3>3. QED
      BY <2>1, <3>1, <3>2 DEF Enroll
  <2>2. CASE Activate(d)
    <3>1. CASE Publish(d, "activate") /\ UNCHANGED link
      BY <2>2, <3>1, PublishKeepsQueue DEF Activate, Method
    <3>2. CASE DropMain(d, "closed") /\ UNCHANGED <<call, brokerVars>>
      <4>1. Rest(d) /\ sent' = sent /\ call'[d].id = 0
        BY <1>0, <2>2, <3>2 DEF Activate, DropMain, Idle, NoCall, Rest, brokerVars
      <4>2. QED
        BY <2>0, <2>2, <4>1, NoCallPending DEF Activate
    <3>3. QED
      BY <2>2, <3>1, <3>2 DEF Activate
  <2>3. CASE Delist(d)
    <3>1. CASE Publish(d, "delist") /\ UNCHANGED link
      BY <2>3, <3>1, PublishKeepsQueue DEF Delist, Method
    <3>2. CASE DropMain(d, "none") /\ UNCHANGED <<call, brokerVars>>
      <4>1. Rest(d) /\ sent' = sent /\ call'[d].id = 0
        BY <1>0, <2>3, <3>2 DEF Delist, DropMain, Idle, NoCall, Rest, brokerVars
      <4>2. QED
        BY <2>0, <2>3, <4>1, NoCallPending DEF Delist
    <3>3. QED
      BY <2>3, <3>1, <3>2 DEF Delist
  <2>4. CASE Deactivate(d)
    BY <2>4 DEF Deactivate, deviceVars, brokerVars, IInv, ChannelInv,
         AwaitedQueueLives, LeakedIsGivenUp, Waits
  <2>5. CASE EnrollReturns(d) \/ ActivateReturns(d) \/ DelistReturns(d)
    <3>1. Finish(d) /\ UNCHANGED <<leaked, sent>>
      BY <2>5 DEF EnrollReturns, ActivateReturns, DelistReturns, brokerVars
    <3>2. UNCHANGED <<link, replyq>> \/ \E l \in {"closed", "none"} : DropMain(d, l)
      BY <2>5 DEF EnrollReturns, ActivateReturns, DelistReturns
    <3>3. Rest(d) /\ call'[d].id = 0
      BY <1>0, <3>1, <3>2 DEF Finish, NoCall, DropMain, Rest
    <3>4. QED
      BY <2>0, <3>1, <3>3, NoCallPending
  <2>6. CASE CallFails(d)
    <3>1. /\ Finish(d) /\ sent' = sent
          /\ call[d].id <= sent
      BY <2>6 DEF CallFails, GivesUp, brokerVars, IInv, CallIsLatest
    <3>2. \/ UNCHANGED <<link, replyq, leaked>>
          \/ /\ leaked' = [leaked EXCEPT ![d] = @ \cup ({call[d].id} \cap replyq[d])]
             /\ DropMain(d, "none")
      BY <2>6 DEF CallFails
    <3>3. Rest(d) /\ call'[d].id = 0
      BY <1>0, <3>1, <3>2 DEF Finish, NoCall, DropMain, Rest
    <3>4. leaked'[d] \subseteq leaked[d] \cup {call[d].id}
      BY <1>0, <3>2
    <3>5. QED
      BY <2>0, <3>1, <3>3, <3>4, NoCallPending
  <2>7. CASE ProcessEnds(d)
    <3>1. Rest(d) /\ call'[d].id = 0 /\ sent' = sent /\ leaked'[d] = {}
      BY <1>0, <2>7 DEF ProcessEnds, Finish, NoCall, DropMain, Rest, brokerVars
    <3>2. QED
      BY <3>1, NoCallPending
  <2>8. CASE MainLinkLost(d)
    <3>1. /\ Rest(d) /\ sent' = sent /\ leaked'[d] = leaked[d] /\ call'[d] = call[d]
          /\ "link" \in Faults /\ link'[d] = "broken"
      BY <1>0, <2>8 DEF MainLinkLost, Rest, brokerVars
    <3>2. QED
      BY <1>0, <2>0, <3>1, OneDeviceMoves
  <2>9. CASE DelistLinkLost(d)
    <3>1. PICK i \in (OfDelist(d) \cap replyq[d]) \cup leaked[d] :
            /\ replyq' = [replyq EXCEPT ![d] = @ \ {i}]
            /\ leaked' = [leaked EXCEPT ![d] = @ \ {i}]
      BY <2>9 DEF DelistLinkLost
    <3>2. "link" \in Faults /\ UNCHANGED <<link, call, sent>>
      BY <2>9 DEF DelistLinkLost, brokerVars
    <3>3. Rest(d) /\ leaked'[d] \subseteq leaked[d] /\ replyq'[d] = replyq[d] \ {i}
      BY <1>0, <3>1, <3>2 DEF Rest
    <3>4. i = call[d].id => call[d].op = "delist"
      BY <2>0, <3>1 DEF OfDelist
    <3>5. \/ call[d].id = 0 \/ call[d].id \in replyq[d]
          \/ call[d].op = "delist" \/ link[d] = "broken"
      BY DEF IInv, AwaitedQueueLives, Waits
    <3>6. QED
      BY <1>0, <2>0, <3>2, <3>3, <3>4, <3>5, OneDeviceMoves
  <2>10. CASE ActivateBlocks(d) \/ DeclareFails(d)
    <3>1. Rest(d) /\ call'[d].id = 0 /\ sent' = sent /\ leaked' = leaked
      BY <1>0, <2>10 DEF ActivateBlocks, DeclareFails, Finish, NoCall, Stuck, Rest,
           brokerVars
    <3>2. QED
      BY <2>0, <3>1, NoCallPending
  <2>11. QED
    BY <1>1, <2>1, <2>2, <2>3, <2>4, <2>5, <2>6, <2>7, <2>8, <2>9,
       <2>10 DEF DeviceNext, HubGivesUp, DeviceExits
<1>2. CASE UNCHANGED <<link, call, replyq, leaked, sent>>
  BY <1>2 DEF IInv, ChannelInv, AwaitedQueueLives, LeakedIsGivenUp, Waits
<1>3. ArbiterNext => UNCHANGED <<link, call, replyq, leaked, sent>>
  BY DEF ArbiterNext, ArbiterStarts, ArbiterExits, Handle, Answer, LosesChannel,
       AppliesUnheard, deviceVars, brokerVars
<1>4. QED
  BY <1>1, <1>2, <1>3 DEF Next, vars, deviceVars, brokerVars

(* IInv is inductive.                                                       *)
LEMMA Inductive == IInv /\ [Next]_vars => IInv'
<1> SUFFICES ASSUME IInv, [Next]_vars PROVE TypeOK' /\ QueueInv' /\ ListInv'
  BY TypeStep, ChannelStep DEF IInv, QueueInv, ListInv, ChannelInv
<1>1. TypeOK'
  BY TypeStep DEF IInv
<1>2. CASE UNCHANGED vars
  BY <1>1, <1>2 DEF IInv, QueueInv, ListInv, QueueNumbered, CallIsLatest,
       AnswersPrecedeQueue, CallFitsState, NothingPending, ListMatchesAnswer,
       ListedOnce, EnrolledIsListed, Present, Idle, Waits, vars, deviceVars,
       brokerVars, arbiterVars
<1>3. CASE Next
  BY <1>1, <1>3, DeviceStep, ArbiterStep DEF Next
<1>4. QED
  BY <1>2, <1>3

(* The inductive invariant holds in every reachable state.                  *)
THEOREM Invariance == Spec => []IInv
<1>1. Init => IInv
  <2> SUFFICES ASSUME Init PROVE IInv
    OBVIOUS
  <2>1. TypeOK
    BY TypeInit
  <2>2. QED
    BY <2>1 DEF Init, IInv, QueueNumbered, CallIsLatest, AnswersPrecedeQueue,
         CallFitsState, NothingPending, ListMatchesAnswer, ListedOnce,
         EnrolledIsListed, AwaitedQueueLives, LeakedIsGivenUp, Present, Idle,
         Waits, NoCall, Stuck
<1>2. QED
  BY <1>1, Inductive, PTL DEF Spec
-----------------------------------------------------------------------------
(* A device that counts on the arbiter is in the list of the agent that     *)
(* admitted it: no request left over from before can strike it out.         *)
THEOREM EnrolledStaysListed == Spec => []EnrolledIsListed
<1>1. IInv => EnrolledIsListed
  BY DEF IInv
<1>2. QED
  BY <1>1, Invariance, PTL

(* A delist that reports success leaves no entry behind.                    *)
THEOREM DelistSuccess == Spec => DelistedIsUnlisted
<1>1. ASSUME IInv, NEW d \in Device, DelistReturns(d) PROVE entries[d] = 0
  BY <1>1 DEF IInv, ListMatchesAnswer, DelistReturns, Answered
<1>2. IInv => [\A d \in Device :
                 DelistReturns(d) /\ state'[d] = "NULL" => entries[d] = 0]_vars
  BY <1>1
<1>3. QED
  BY <1>2, Invariance, PTL DEF DelistedIsUnlisted

(* Success is reported for a request that the arbiter has handled, never on *)
(* the strength of an earlier answer.                                       *)
THEOREM SuccessIsHandled == Spec => SuccessMeansHandled
<1>1. ASSUME IInv, NEW d \in Device, Answered(d), NEW m \in enrollq
      PROVE  m.id # call[d].id
  <2>1. call[d].id < m.id /\ m.id \in Nat
    BY <1>1 DEF IInv, TypeOK, Request, ReqId, AnswersPrecedeQueue, Answered
  <2>2. QED
    BY <2>1
<1>2. IInv => [\A d \in Device :
          EnrollReturns(d) \/ (ActivateReturns(d) /\ state'[d] = "ACTIVATED")
             => \A m \in enrollq : m.id # call[d].id]_vars
  BY <1>1 DEF EnrollReturns, ActivateReturns
<1>3. QED
  BY <1>2, Invariance, PTL DEF SuccessMeansHandled

(* The arbiter goes deaf only on a request that its device has given up, or *)
(* on one whose connection broke while the device was waiting: as long as   *)
(* connections hold, an awaited request never costs the arbiter its channel. *)
THEOREM ChannelLossNeedsAbandon == Spec => DeafOnlyByAbandoned
<1>1. ASSUME IInv, NEW m \in enrollq, LosesChannel(m), call[m.dev].id = m.id
      PROVE  "link" \in Faults /\ (m.op = "delist" \/ link[m.dev] = "broken")
  <2>1. m.dev \in Device /\ m.id \in ReqId /\ m.id \notin replyq[m.dev]
    BY <1>1 DEF IInv, TypeOK, Request, LosesChannel
  <2>2. Waits(m.dev)
    BY <1>1, <2>1 DEF Waits, ReqId
  <2>3. m.op = call[m.dev].op
    BY <1>1, <2>1, <2>2 DEF IInv, CallIsLatest
  <2>4. QED
    BY <1>1, <2>1, <2>2, <2>3 DEF IInv, AwaitedQueueLives
<1>2. IInv => [\A m \in enrollq : LosesChannel(m) /\ call[m.dev].id = m.id =>
          "link" \in Faults /\ (m.op = "delist" \/ link[m.dev] = "broken")]_vars
  BY <1>1
<1>3. QED
  BY <1>2, Invariance, PTL DEF DeafOnlyByAbandoned
=============================================================================
