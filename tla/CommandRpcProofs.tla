-------------------------- MODULE CommandRpcProofs --------------------------
(* User commands are run at most once and answered only by their own run,   *)
(* for every set of edges and hubs, every fault and every bound.            *)
EXTENDS CommandRpc, FiniteSetTheorems, TLAPS

USE NodeAssumption, FaultAssumption, BoundAssumption
    DEF NodeAssumption, FaultAssumption, BoundAssumption

(* IInv without the types. *)
CommandInv ==
    Numbered /\ QueuedOnce /\ RunBeforeAnswer /\ WaitsAlone /\ ReplyQueuesReclaimed

(* What most steps do to the commands on their way: queues lose some,       *)
(* handlers end.                                                            *)
Shrinks ==
    /\ \A d \in Device : queue'[d] \subseteq queue[d]
    /\ \A d \in Device : running'[d] \in {running[d], 0}
-----------------------------------------------------------------------------
(* Types *)

(* The initial values have their types.                                     *)
LEMMA TypeInit == Init => TypeOK
BY DEF Init, TypeOK

(* The ends of a connection keep the types of what they change.             *)
LEMMA CloseTypes ==
    ASSUME TypeOK, NEW d \in Device,
           CloseMain(d, "closed") \/ CloseMain(d, "broken") \/ DropMain(d)
    PROVE  /\ conn' \in [Device -> {"none", "open", "subscribed", "closed", "broken"}]
           /\ queue' \in [Device -> SUBSET Id]
BY DEF TypeOK, CloseMain, DropMain, First

(* So does the end of a call.                                               *)
LEMMA EndTypes ==
    ASSUME TypeOK, NEW c \in Caller,
           NEW r \in {"answered", "unanswered", "failed"}, EndCall(c, r)
    PROVE  /\ call' \in [Caller -> Id \cup {0}]
           /\ cut' \subseteq Caller
           /\ replyq' \subseteq Id
           /\ answers' \subseteq Id
           /\ outcome' \in [Id -> {"unsent", "waiting", "answered", "unanswered", "failed"}]
BY DEF TypeOK, EndCall

(* And the end of a process, which may end a call.                          *)
LEMMA ProcessTypes ==
    ASSUME TypeOK, NEW d \in Device, ProcessEnds(d)
    PROVE  TypeOK'
<1>1. DropMain(d)
  BY DEF ProcessEnds
<1>2. /\ call' \in [Caller -> Id \cup {0}] /\ cut' \subseteq Caller
      /\ replyq' \subseteq Id /\ answers' \subseteq Id
      /\ outcome' \in [Id -> {"unsent", "waiting", "answered", "unanswered", "failed"}]
  <2>1. CASE InCall(d)
    <3>1. d \in Caller /\ EndCall(d, "failed")
      BY <2>1 DEF ProcessEnds, InCall
    <3>2. QED
      BY <3>1, EndTypes
  <2>2. CASE ~InCall(d)
    BY <2>2 DEF ProcessEnds, TypeOK, callerVars
  <2>3. QED
    BY <2>1, <2>2
<1>3. QED
  BY <1>1, <1>2, CloseTypes DEF ProcessEnds, TypeOK

(* Steps of a device keep the types, given that what is queued has not run. *)
LEMMA DeviceTypes ==
    ASSUME TypeOK, QueuedOnce, NEW d \in Device, DeviceNext(d)
    PROVE  TypeOK'
<1> USE DEF deviceVars, callerVars
<1>1. CASE Enroll(d)
  BY <1>1 DEF Enroll, TypeOK
<1>2. CASE Delist(d)
  BY <1>2, CloseTypes DEF Delist, TypeOK
<1>3. CASE Activate(d) \/ ActivateBlocks(d) \/ DeclareFails(d) \/ Grant(d)
  BY <1>3, CloseTypes DEF Activate, ActivateBlocks, DeclareFails, Grant, TypeOK
<1>4. CASE ActivateReturns(d)
  BY <1>4 DEF ActivateReturns, Subscribes, SubscribeFails, TypeOK
<1>5. CASE ActivateFails(d)
  BY <1>5 DEF ActivateFails, Discard, TypeOK
<1>6. CASE HubDies(d) \/ DeviceExits(d)
  BY <1>6, ProcessTypes DEF HubDies, DeviceExits
<1>7. CASE Deactivate(d)
  BY <1>7 DEF Deactivate, TypeOK
<1>8. ASSUME NEW i \in queue[d], Takes(d, i) PROVE TypeOK'
  <2>1. i \in Id /\ runs[i] = 0
    BY DEF TypeOK, QueuedOnce
  <2>2. runs' \in [Id -> {0, 1}]
    BY <1>8, <2>1 DEF Takes, Execute, TypeOK
  <2>3. QED
    BY <1>8, <2>1, <2>2 DEF Takes, TypeOK
<1>9. CASE Replies(d) \/ RepliesUnheard(d)
  BY <1>9 DEF Replies, RepliesUnheard, TypeOK
<1>10. CASE LosesChannel(d)
  BY <1>10, CloseTypes DEF LosesChannel, TypeOK
<1>11. CASE MainLinkLost(d)
  BY <1>11, CloseTypes DEF MainLinkLost, TypeOK
<1>12. QED
  BY <1>1, <1>2, <1>3, <1>4, <1>5, <1>6, <1>7, <1>8, <1>9, <1>10, <1>11
     DEF DeviceNext

(* Steps of a caller keep the types.                                        *)
LEMMA CallerTypes ==
    ASSUME TypeOK, NEW c \in Caller, CallerNext(c)
    PROVE  TypeOK'
<1> USE DEF deviceVars
<1>1. ASSUME NEW d \in Device, UserCommand(c, d) PROVE TypeOK'
  <2>1. sent' \in Id /\ sent' = sent + 1
    BY <1>1 DEF UserCommand, Waits, FailsEarly, TypeOK, Id
  <2>2. /\ call' \in [Caller -> Id \cup {0}] /\ replyq' \subseteq Id
        /\ outcome' \in [Id -> {"unsent", "waiting", "answered", "unanswered", "failed"}]
    BY <1>1, <2>1 DEF UserCommand, Waits, FailsEarly, TypeOK
  <2>3. sent' \in 0..MaxCmd
    BY <2>1 DEF Id
  <2>4. queue' \in [Device -> SUBSET Id]
    BY <1>1, <2>1 DEF UserCommand, TypeOK
  <2>5. QED
    BY <1>1, <2>2, <2>3, <2>4 DEF UserCommand, TypeOK
<1>2. CASE CommandReturns(c)
  <2>1. \E r \in {"answered", "unanswered", "failed"} : EndCall(c, r)
    BY <1>2 DEF CommandReturns, Result
  <2>2. QED
    BY <1>2, <2>1, EndTypes DEF CommandReturns, TypeOK
<1>3. CASE GivesUp(c)
  <2>1. \E r \in {"answered", "unanswered", "failed"} : EndCall(c, r)
    BY <1>3 DEF GivesUp, Result
  <2>2. QED
    BY <1>3, <2>1, EndTypes DEF GivesUp, TypeOK
<1>4. CASE CallLinkLost(c)
  BY <1>4 DEF CallLinkLost, TypeOK
<1>5. QED
  BY <1>1, <1>2, <1>3, <1>4 DEF CallerNext

(* A restart of the arbiter keeps the types.                                *)
LEMMA RestartTypes ==
    ASSUME TypeOK, ArbiterRestarts
    PROVE  TypeOK'
<1>1. act' \in [Device -> {"no", "asked", "granted", "unheard", "stuck"}]
  BY DEF ArbiterRestarts, TypeOK
<1>2. CASE InCall(Arbiter)
  <2>1. Arbiter \in Caller /\ EndCall(Arbiter, "failed")
    BY <1>2 DEF ArbiterRestarts, Caller
  <2>2. QED
    BY <1>1, <2>1, EndTypes DEF ArbiterRestarts, TypeOK
<1>3. CASE ~InCall(Arbiter)
  BY <1>1, <1>3 DEF ArbiterRestarts, TypeOK, callerVars
<1>4. QED
  BY <1>2, <1>3
-----------------------------------------------------------------------------
(* The invariant *)

(* Steps that publish nothing, run nothing and end no call.                 *)
LEMMA QuietStep ==
    ASSUME TypeOK, CommandInv, Shrinks,
           UNCHANGED <<callerVars, sent, answers, runs>>
    PROVE  CommandInv'
<1> USE DEF callerVars
<1>1. Numbered' /\ ReplyQueuesReclaimed'
  BY DEF CommandInv, Numbered, ReplyQueuesReclaimed
<1>2. QueuedOnce'
  BY DEF CommandInv, QueuedOnce, Shrinks
<1>3. RunBeforeAnswer'
  BY DEF CommandInv, RunBeforeAnswer, Shrinks
<1>4. WaitsAlone'
  BY DEF CommandInv, WaitsAlone, InCall
<1>5. QED
  BY <1>1, <1>2, <1>3, <1>4 DEF CommandInv

(* Steps that end a call.                                                   *)
LEMMA EndStep ==
    ASSUME TypeOK, CommandInv, Shrinks, NEW c \in Caller, InCall(c),
           NEW r \in {"answered", "unanswered", "failed"}, EndCall(c, r),
           UNCHANGED <<sent, runs>>
    PROVE  CommandInv'
<1>1. call[c] \in Id /\ call[c] # 0 /\ outcome[call[c]] = "waiting"
  BY DEF TypeOK, CommandInv, WaitsAlone, InCall
<1>2. Numbered'
  BY <1>1 DEF CommandInv, Numbered, EndCall
<1>3. QueuedOnce'
  BY DEF CommandInv, QueuedOnce, Shrinks
<1>4. RunBeforeAnswer'
  BY DEF CommandInv, RunBeforeAnswer, Shrinks, EndCall
<1>5. WaitsAlone'
  <2>1. ASSUME NEW b \in Caller, InCall(b)'
        PROVE  b # c /\ call'[b] = call[b] /\ InCall(b) /\ call[b] # call[c]
    BY <2>1 DEF EndCall, InCall, TypeOK, CommandInv, WaitsAlone
  <2>2. ASSUME NEW b \in Caller, InCall(b)'
        PROVE  outcome'[call'[b]] = "waiting" /\ (b \in cut' \/ call'[b] \in replyq')
    BY <2>1, <2>2 DEF EndCall, TypeOK, CommandInv, WaitsAlone, InCall
  <2>3. ASSUME NEW a \in Caller, NEW b \in Caller, InCall(a)', call'[b] = call'[a]
        PROVE  a = b
    <3>1. InCall(b)'
      BY <2>3 DEF InCall
    <3>2. QED
      BY <2>1, <2>3, <3>1 DEF CommandInv, WaitsAlone
  <2>4. QED
    BY <2>2, <2>3 DEF WaitsAlone
<1>6. ReplyQueuesReclaimed'
  BY <1>1 DEF CommandInv, ReplyQueuesReclaimed, EndCall, TypeOK
<1>7. QED
  BY <1>2, <1>3, <1>4, <1>5, <1>6 DEF CommandInv

(* The end of a device's process.                                           *)
LEMMA ProcessStep ==
    ASSUME TypeOK, CommandInv, NEW d \in Device, ProcessEnds(d)
    PROVE  CommandInv'
<1>1. Shrinks
  BY DEF ProcessEnds, DropMain, Shrinks, TypeOK
<1>2. CASE InCall(d)
  <2>1. d \in Caller /\ EndCall(d, "failed")
    BY <1>2 DEF ProcessEnds, InCall
  <2>2. QED
    BY <1>1, <1>2, <2>1, EndStep DEF ProcessEnds
<1>3. CASE ~InCall(d)
  BY <1>1, <1>3, QuietStep DEF ProcessEnds
<1>4. QED
  BY <1>2, <1>3

(* Steps of a device keep the invariant.                                    *)
LEMMA DeviceStep ==
    ASSUME TypeOK, CommandInv, NEW d \in Device, DeviceNext(d)
    PROVE  CommandInv'
<1>1. CASE Enroll(d) \/ Activate(d) \/ ActivateBlocks(d) \/ DeclareFails(d)
             \/ Grant(d) \/ Deactivate(d)
  <2>1. Shrinks
    BY <1>1 DEF Enroll, Activate, ActivateBlocks, DeclareFails, Grant, Deactivate,
         CloseMain, First, Shrinks, TypeOK
  <2>2. QED
    BY <1>1, <2>1, QuietStep DEF Enroll, Activate, ActivateBlocks, DeclareFails,
         Grant, Deactivate
<1>2. CASE Delist(d)
  <2>1. Shrinks
    BY <1>2 DEF Delist, DropMain, Shrinks, TypeOK
  <2>2. QED
    BY <1>2, <2>1, QuietStep DEF Delist
<1>3. CASE ActivateReturns(d)
  <2>1. Shrinks
    BY <1>3 DEF ActivateReturns, SubscribeFails, Shrinks, TypeOK
  <2>2. QED
    BY <1>3, <2>1, QuietStep DEF ActivateReturns
<1>4. CASE ActivateFails(d)
  <2>1. Shrinks
    BY <1>4 DEF ActivateFails, Discard, Shrinks, TypeOK
  <2>2. QED
    BY <1>4, <2>1, QuietStep DEF ActivateFails
<1>5. CASE HubDies(d) \/ DeviceExits(d)
  BY <1>5, ProcessStep DEF HubDies, DeviceExits
<1>6. CASE LosesChannel(d)
  <2>1. Shrinks
    BY <1>6 DEF LosesChannel, CloseMain, First, Shrinks, TypeOK
  <2>2. QED
    BY <1>6, <2>1, QuietStep DEF LosesChannel
<1>7. CASE RepliesUnheard(d)
  <2>1. Shrinks
    BY <1>7 DEF RepliesUnheard, Shrinks, TypeOK
  <2>2. QED
    BY <1>7, <2>1, QuietStep DEF RepliesUnheard
<1>8. CASE MainLinkLost(d)
  <2>1. Shrinks
    BY <1>8 DEF MainLinkLost, CloseMain, First, Shrinks, TypeOK
  <2>2. QED
    BY <1>8, <2>1, QuietStep DEF MainLinkLost
<1>9. ASSUME NEW i \in queue[d], Takes(d, i) PROVE CommandInv'
  <2>1. i \in Id /\ i <= sent /\ runs' = [runs EXCEPT ![i] = 1]
    <3>1. i \in Id /\ i <= sent /\ runs[i] = 0
      BY DEF TypeOK, CommandInv, QueuedOnce
    <3>2. runs[i] + 1 = 1
      BY <3>1
    <3>3. QED
      BY <1>9, <3>1, <3>2 DEF Takes, Execute
  <2>2. Numbered' /\ ReplyQueuesReclaimed' /\ WaitsAlone'
    BY <1>9 DEF Takes, callerVars, CommandInv, Numbered, ReplyQueuesReclaimed,
         WaitsAlone, InCall
  <2>3. QueuedOnce'
    BY <1>9, <2>1 DEF Takes, CommandInv, QueuedOnce, TypeOK
  <2>4. RunBeforeAnswer'
    BY <1>9, <2>1 DEF Takes, CommandInv, RunBeforeAnswer, TypeOK
  <2>5. QED
    BY <2>2, <2>3, <2>4 DEF CommandInv
<1>10. CASE Replies(d)
  <2>1. running[d] # 0
    BY <1>10 DEF Replies, TypeOK, Id
  <2>2. Numbered' /\ ReplyQueuesReclaimed' /\ WaitsAlone' /\ QueuedOnce'
    BY <1>10 DEF Replies, callerVars, CommandInv, Numbered,
         ReplyQueuesReclaimed, WaitsAlone, InCall, QueuedOnce
  <2>3. RunBeforeAnswer'
    BY <1>10, <2>1 DEF Replies, CommandInv, RunBeforeAnswer, TypeOK
  <2>4. QED
    BY <2>2, <2>3 DEF CommandInv
<1>11. QED
  BY <1>1, <1>2, <1>3, <1>4, <1>5, <1>6, <1>7, <1>8, <1>9, <1>10
     DEF DeviceNext

(* A command that is published takes a number of its own.                   *)
LEMMA PublishStep ==
    ASSUME TypeOK, CommandInv, NEW c \in Caller, NEW d \in Device,
           UserCommand(c, d)
    PROVE  CommandInv'
<1> DEFINE i == sent + 1
<1>1. i \in Id /\ sent' = i /\ i > sent /\ outcome[i] = "unsent" /\ runs[i] = 0
  BY DEF UserCommand, Waits, FailsEarly, TypeOK, Id, CommandInv, Numbered, RunBeforeAnswer
<1>2. \A b \in Caller : InCall(b) => call[b] # i
  BY <1>1 DEF CommandInv, WaitsAlone
<1>3. ~InCall(c)
  BY DEF UserCommand, MayCall
<1>4. Numbered'
  <2>1. \A j \in Id : j # i => outcome'[j] = outcome[j] /\ (j > sent <=> j > sent')
    BY <1>1 DEF UserCommand, Waits, FailsEarly, TypeOK, Id
  <2>2. outcome'[i] # "unsent"
    BY <1>1 DEF UserCommand, Waits, FailsEarly, TypeOK
  <2>3. QED
    BY <1>1, <2>1, <2>2 DEF CommandInv, Numbered
<1>5. QueuedOnce'
  <2>1. \A e \in Device : i \notin queue[e]
    BY <1>1 DEF CommandInv, QueuedOnce, TypeOK, Id
  <2>2. \A e \in Device : queue'[e] = queue[e] \/ (e = d /\ queue'[e] = queue[e] \cup {i})
    BY DEF UserCommand, TypeOK
  <2>3. \A e \in Device : \A j \in queue[e] : j <= sent'
    BY <1>1 DEF CommandInv, QueuedOnce, TypeOK, Id
  <2>4. runs' = runs /\ i <= sent'
    BY <1>1 DEF UserCommand, Id
  <2>5. \A e \in Device : \A j \in queue'[e] : j <= sent' /\ runs'[j] = 0
    BY <1>1, <2>2, <2>3, <2>4 DEF CommandInv, QueuedOnce
  <2>6. \A e, f \in Device : e # f => queue'[e] \cap queue'[f] = {}
    BY <2>1, <2>2 DEF CommandInv, QueuedOnce
  <2>7. QED
    BY <2>5, <2>6 DEF QueuedOnce
<1>6. RunBeforeAnswer'
  BY <1>1 DEF CommandInv, RunBeforeAnswer, UserCommand, TypeOK, Id
<1>7. WaitsAlone'
  <2>1. \A b \in Caller : InCall(b) => b # c /\ InCall(b)' /\ call'[b] = call[b]
    BY <1>3 DEF UserCommand, Waits, FailsEarly, InCall, TypeOK
  <2>2. \A b \in Caller : InCall(b)' => InCall(b) \/ (b = c /\ call'[b] = i /\ outcome'[i] = "waiting")
    BY <1>1 DEF UserCommand, Waits, FailsEarly, InCall, TypeOK
  <2>3. \A b \in Caller : InCall(b) => outcome'[call[b]] = "waiting"
    BY <1>1, <1>2 DEF UserCommand, Waits, FailsEarly, CommandInv, WaitsAlone, TypeOK, InCall
  <2>4. replyq' = replyq \cup {i} /\ cut' = cut
    BY DEF UserCommand, Waits, FailsEarly
  <2>5. QED
    BY <1>1, <1>2, <2>1, <2>2, <2>3, <2>4 DEF CommandInv, WaitsAlone, InCall
<1>8. ReplyQueuesReclaimed'
  <2>1. \A j \in replyq : j # i
    BY <1>1, <1>2 DEF CommandInv, ReplyQueuesReclaimed, InCall, TypeOK
  <2>2. \A j \in replyq : outcome'[j] = outcome[j]
    BY <2>1 DEF UserCommand, Waits, FailsEarly, TypeOK
  <2>3. \A b \in Caller : \A j \in replyq : call[b] = j => call'[b] = j
    BY <1>3 DEF UserCommand, Waits, FailsEarly, InCall, TypeOK, Id
  <2>4. outcome'[i] = "failed" \/ call'[c] = i
    BY <1>1 DEF UserCommand, Waits, FailsEarly, TypeOK
  <2>5. QED
    BY <2>2, <2>3, <2>4 DEF CommandInv, ReplyQueuesReclaimed, UserCommand, Waits, FailsEarly
<1>9. QED
  BY <1>4, <1>5, <1>6, <1>7, <1>8 DEF CommandInv

(* Steps of a caller keep the invariant.                                    *)
LEMMA CallerStep ==
    ASSUME TypeOK, CommandInv, NEW c \in Caller, CallerNext(c)
    PROVE  CommandInv'
<1>1. ASSUME NEW d \in Device, UserCommand(c, d) PROVE CommandInv'
  BY <1>1, PublishStep
<1>2. CASE CommandReturns(c) \/ GivesUp(c)
  <2>1. \E r \in {"answered", "unanswered", "failed"} : EndCall(c, r)
    BY <1>2 DEF CommandReturns, GivesUp, Result
  <2>2. Shrinks /\ InCall(c) /\ UNCHANGED <<sent, runs>>
    BY <1>2 DEF CommandReturns, GivesUp, Shrinks
  <2>3. QED
    BY <2>1, <2>2, EndStep
<1>3. CASE CallLinkLost(c)
  <2>1. Numbered' /\ QueuedOnce' /\ RunBeforeAnswer' /\ ReplyQueuesReclaimed'
    BY <1>3 DEF CallLinkLost, CommandInv, Numbered, QueuedOnce,
         RunBeforeAnswer, ReplyQueuesReclaimed
  <2>2. WaitsAlone'
    BY <1>3 DEF CallLinkLost, CommandInv, WaitsAlone, InCall
  <2>3. QED
    BY <2>1, <2>2 DEF CommandInv
<1>4. QED
  BY <1>1, <1>2, <1>3 DEF CallerNext

(* A restart of the arbiter keeps the invariant.                            *)
LEMMA RestartStep ==
    ASSUME TypeOK, CommandInv, ArbiterRestarts
    PROVE  CommandInv'
<1>1. Shrinks
  BY DEF ArbiterRestarts, Shrinks
<1>2. CASE InCall(Arbiter)
  <2>1. Arbiter \in Caller /\ EndCall(Arbiter, "failed")
    BY <1>2 DEF ArbiterRestarts, Caller
  <2>2. QED
    BY <1>1, <1>2, <2>1, EndStep DEF ArbiterRestarts
<1>3. CASE ~InCall(Arbiter)
  BY <1>1, <1>3, QuietStep DEF ArbiterRestarts
<1>4. QED
  BY <1>2, <1>3

(* IInv is inductive.                                                       *)
LEMMA Inductive == IInv /\ [Next]_vars => IInv'
<1> SUFFICES ASSUME IInv, [Next]_vars PROVE TypeOK' /\ CommandInv'
  BY DEF IInv, CommandInv
<1>1. TypeOK /\ CommandInv /\ QueuedOnce
  BY DEF IInv, CommandInv
<1>2. CASE UNCHANGED vars
  <2>1. TypeOK'
    BY <1>1, <1>2 DEF TypeOK, vars, deviceVars, callerVars
  <2>2. Shrinks
    BY <1>2 DEF Shrinks, vars
  <2>3. QED
    BY <1>1, <1>2, <2>1, <2>2, QuietStep DEF vars
<1>3. CASE Next
  BY <1>1, <1>3, DeviceTypes, CallerTypes, RestartTypes, DeviceStep, CallerStep,
     RestartStep DEF Next
<1>4. QED
  BY <1>2, <1>3

(* The inductive invariant holds in every reachable state.                  *)
THEOREM Invariance == Spec => []IInv
<1>1. Init => IInv
  <2> SUFFICES ASSUME Init PROVE IInv
    OBVIOUS
  <2>1. TypeOK
    BY TypeInit
  <2>2. Numbered
    BY DEF Init, Numbered, Id
  <2>3. QueuedOnce /\ RunBeforeAnswer /\ WaitsAlone /\ ReplyQueuesReclaimed
    BY DEF Init, QueuedOnce, RunBeforeAnswer, WaitsAlone, ReplyQueuesReclaimed,
         InCall
  <2>4. QED
    BY <2>1, <2>2, <2>3 DEF IInv
<1>2. QED
  BY <1>1, Inductive, PTL DEF Spec

(* The variables keep their types; in particular, no command is ever run    *)
(* twice.                                                                   *)
THEOREM TypeCorrect == Spec => []TypeOK
<1>1. IInv => TypeOK
  BY DEF IInv
<1>2. QED
  BY <1>1, Invariance, PTL

(* Only calls that failed between declaring a reply queue and consuming it  *)
(* leave one behind: no timeout, no late answer and no lost connection of a *)
(* caller that waits.                                                       *)
THEOREM QueuesReclaimed == Spec => []ReplyQueuesReclaimed
<1>1. IInv => ReplyQueuesReclaimed
  BY DEF IInv
<1>2. QED
  BY <1>1, Invariance, PTL
-----------------------------------------------------------------------------
(* Only a command whose caller has stopped waiting, or has lost its         *)
(* connection, costs a device its channel.                                  *)
THEOREM DeafByAbandoned == Spec => DeafOnlyByAbandoned
<1>1. ASSUME IInv, NEW d \in Device, LosesChannel(d), NEW c \in Caller,
             call[c] = running[d]
      PROVE  c \in cut
  BY <1>1 DEF IInv, WaitsAlone, InCall, LosesChannel
<1>2. IInv => [\A d \in Device : LosesChannel(d) =>
                 \A c \in Caller : call[c] = running[d] => c \in cut]_vars
  BY <1>1
<1>3. QED
  BY <1>2, Invariance, PTL DEF DeafOnlyByAbandoned
-----------------------------------------------------------------------------
(* Each command implements Command *)

(* What a command can do in one step, in the terms of Command.              *)
Sends(i)   == outcome[i] = "unsent" /\ outcome'[i] \in {"waiting", "failed"}
                /\ runs'[i] = runs[i]
Runs(i)    == outcome[i] # "unsent" /\ runs[i] = 0 /\ runs'[i] = 1
                /\ outcome'[i] = outcome[i]
Answers(i) == outcome[i] = "waiting" /\ runs[i] = 1 /\ outcome'[i] = "answered"
                /\ runs'[i] = runs[i]
Abandons(i) == outcome[i] = "waiting" /\ outcome'[i] \in {"unanswered", "failed"}
                /\ runs'[i] = runs[i]
Rests(i)   == outcome'[i] = outcome[i] /\ runs'[i] = runs[i]

Moves(i) == Sends(i) \/ Runs(i) \/ Answers(i) \/ Abandons(i) \/ Rests(i)

(* The end of a call moves its own command only: an answer needs its run.   *)
LEMMA EndMoves ==
    ASSUME IInv, NEW c \in Caller, InCall(c), NEW i \in Id,
           NEW r \in {"answered", "unanswered", "failed"}, EndCall(c, r),
           r = "answered" => Answered(c), runs' = runs
    PROVE  Moves(i)
<1>1. CASE i = call[c]
  <2>1. outcome[i] = "waiting" /\ outcome'[i] = r
    BY <1>1 DEF IInv, WaitsAlone, EndCall
  <2>2. CASE r = "answered"
    BY <1>1, <2>1, <2>2 DEF IInv, RunBeforeAnswer, Answered, Moves, Answers
  <2>3. CASE r # "answered"
    BY <2>1, <2>3 DEF Moves, Abandons
  <2>4. QED
    BY <2>2, <2>3
<1>2. CASE i # call[c]
  BY <1>2 DEF EndCall, Moves, Rests
<1>3. QED
  BY <1>1, <1>2

(* Every step moves every command as Command allows.                        *)
LEMMA StepMoves ==
    ASSUME IInv, Next, NEW i \in Id
    PROVE  Moves(i)
<1>1. ASSUME NEW d \in Device, DeviceNext(d) PROVE Moves(i)
  <2>1. CASE Enroll(d) \/ Delist(d) \/ Activate(d) \/ ActivateBlocks(d)
             \/ DeclareFails(d) \/ Grant(d) \/ ActivateReturns(d) \/ ActivateFails(d) \/ Deactivate(d)
             \/ Replies(d) \/ LosesChannel(d) \/ RepliesUnheard(d)
             \/ MainLinkLost(d)
    <3>1. outcome' = outcome /\ runs' = runs
      BY <2>1 DEF Enroll, Delist, Activate, ActivateBlocks, DeclareFails, Grant,
           ActivateReturns, ActivateFails, Deactivate, Replies, LosesChannel, RepliesUnheard,
           MainLinkLost, callerVars
    <3>2. QED
      BY <3>1 DEF Moves, Rests
  <2>2. CASE HubDies(d) \/ DeviceExits(d)
    <3>1. ProcessEnds(d)
      BY <2>2 DEF HubDies, DeviceExits
    <3>2. CASE InCall(d)
      <4>1. d \in Caller /\ EndCall(d, "failed") /\ runs' = runs
        BY <3>1, <3>2 DEF ProcessEnds, InCall
      <4>2. QED
        BY <3>2, <4>1, EndMoves
    <3>3. CASE ~InCall(d)
      BY <3>1, <3>3 DEF ProcessEnds, callerVars, Moves, Rests
    <3>4. QED
      BY <3>2, <3>3
  <2>3. ASSUME NEW j \in queue[d], Takes(d, j) PROVE Moves(i)
    <3>1. j \in Id /\ j <= sent /\ runs[j] = 0 /\ outcome[j] # "unsent"
      BY DEF IInv, TypeOK, QueuedOnce, Numbered, Id
    <3>2. outcome' = outcome /\ runs' = [runs EXCEPT ![j] = 1]
      BY <2>3, <3>1 DEF Takes, Execute, callerVars
    <3>3. QED
      BY <3>1, <3>2 DEF IInv, TypeOK, Moves, Runs, Rests
  <2>4. QED
    BY <1>1, <2>1, <2>2, <2>3 DEF DeviceNext
<1>2. ASSUME NEW c \in Caller, CallerNext(c) PROVE Moves(i)
  <2>1. ASSUME NEW d \in Device, UserCommand(c, d) PROVE Moves(i)
    <3>1. sent + 1 \in Id /\ outcome[sent + 1] = "unsent" /\ runs' = runs
      BY <2>1 DEF IInv, TypeOK, Numbered, UserCommand, Waits, FailsEarly, Id
    <3>2. QED
      BY <2>1, <3>1 DEF IInv, TypeOK, UserCommand, Waits, FailsEarly, Moves, Sends, Rests
  <2>2. CASE CommandReturns(c)
    <3>1. \E r \in {"answered", "unanswered", "failed"} : EndCall(c, r)
      BY <2>2 DEF CommandReturns, Result
    <3>2. QED
      BY <2>2, <3>1, EndMoves DEF CommandReturns
  <2>3. CASE GivesUp(c)
    <3>1. \E r \in {"unanswered", "failed"} : EndCall(c, r)
      BY <2>3 DEF GivesUp, Result
    <3>2. QED
      BY <2>3, <3>1, EndMoves DEF GivesUp
  <2>4. CASE CallLinkLost(c)
    BY <2>4 DEF CallLinkLost, Moves, Rests
  <2>5. QED
    BY <1>2, <2>1, <2>2, <2>3, <2>4 DEF CallerNext
<1>3. CASE ArbiterRestarts
  <2>1. CASE InCall(Arbiter)
    <3>1. Arbiter \in Caller /\ EndCall(Arbiter, "failed") /\ runs' = runs
      BY <1>3, <2>1 DEF ArbiterRestarts, Caller
    <3>2. QED
      BY <2>1, <3>1, EndMoves
  <2>2. CASE ~InCall(Arbiter)
    BY <1>3, <2>2 DEF ArbiterRestarts, callerVars, Moves, Rests
  <2>3. QED
    BY <2>1, <2>2
<1>4. QED
  BY <1>1, <1>2, <1>3 DEF Next

(* CommandRpc implements Command, command by command: at most one run, and  *)
(* an answer only from it.                                                  *)
THEOREM CommandsCorrect == Spec => CommandsKept
<1>1. Init => \A i \in Id : Promise(i)!Init
  BY DEF Init, Promise!Init
<1>2. ASSUME NEW i \in Id, Moves(i)
      PROVE  Promise(i)!Next \/ UNCHANGED Promise(i)!vars
  BY <1>2 DEF Moves, Sends, Runs, Answers, Abandons, Rests, Promise!Next,
       Promise!Send, Promise!Run, Promise!Answer, Promise!GiveUp, Promise!vars
<1>3. IInv /\ [Next]_vars =>
        [\A i \in Id : Promise(i)!Next \/ UNCHANGED Promise(i)!vars]_vars
  BY <1>2, StepMoves
<1>4. QED
  BY <1>1, <1>3, Invariance, PTL DEF Spec, CommandsKept
-----------------------------------------------------------------------------
(* Each device keeps NodeLifecycle *)

(* A step of a device leaves the others as they are.                        *)
LEMMA OthersRest ==
    ASSUME TypeOK, NEW d \in Device, DeviceNext(d), NEW e \in Device, e # d
    PROVE  /\ state'[e] = state[e] /\ conn'[e] = conn[e] /\ queue'[e] = queue[e]
           /\ act'[e] = act[e] /\ running'[e] = running[e]
<1> USE DEF TypeOK, deviceVars, CloseMain, DropMain
<1>1. CASE Enroll(d) \/ Activate(d) \/ ActivateBlocks(d) \/ DeclareFails(d)
             \/ Grant(d) \/ Deactivate(d)
  BY <1>1 DEF Enroll, Activate, ActivateBlocks, DeclareFails, Grant, Deactivate
<1>2. CASE Delist(d)
  BY <1>2 DEF Delist
<1>3. CASE ActivateReturns(d)
  BY <1>3 DEF ActivateReturns, Subscribes, SubscribeFails
<1>4. CASE ActivateFails(d)
  BY <1>4 DEF ActivateFails, Discard
<1>5. CASE ProcessEnds(d)
  BY <1>5 DEF ProcessEnds
<1>6. ASSUME NEW i \in queue[d], Takes(d, i)
      PROVE  /\ state'[e] = state[e] /\ conn'[e] = conn[e] /\ queue'[e] = queue[e]
             /\ act'[e] = act[e] /\ running'[e] = running[e]
  BY <1>6 DEF Takes
<1>7. CASE Replies(d) \/ RepliesUnheard(d)
  BY <1>7 DEF Replies, RepliesUnheard
<1>8. CASE LosesChannel(d) \/ MainLinkLost(d)
  BY <1>8 DEF LosesChannel, MainLinkLost
<1>9. QED
  BY <1>1, <1>2, <1>3, <1>4, <1>5, <1>6, <1>7, <1>8
     DEF DeviceNext, HubDies, DeviceExits

(* A step of a device keeps what it does fitting its state.                 *)
LEMMA DeviceFits ==
    ASSUME TypeOK, NEW d \in Device, Fits(d), DeviceNext(d)
    PROVE  Fits(d)'
<1> USE DEF TypeOK, Fits, deviceVars
<1>1. CASE Enroll(d) \/ Activate(d) \/ ActivateBlocks(d) \/ DeclareFails(d)
             \/ Grant(d) \/ Deactivate(d)
  BY <1>1 DEF Enroll, Activate, ActivateBlocks, DeclareFails, Grant, Deactivate,
       CloseMain, Busy
<1>2. CASE Delist(d)
  BY <1>2 DEF Delist, DropMain, Busy
<1>3. CASE ActivateReturns(d)
  <2>1. running[d] = 0 /\ running' = running
    BY <1>3 DEF ActivateReturns
  <2>2. QED
    BY <1>3, <2>1 DEF ActivateReturns, Subscribes, SubscribeFails
<1>4. CASE ActivateFails(d)
  <2>1. queue'[d] \subseteq queue[d]
    BY <1>4 DEF ActivateFails, Discard
  <2>2. QED
    BY <1>4, <2>1 DEF ActivateFails
<1>5. CASE ProcessEnds(d)
  BY <1>5 DEF ProcessEnds, DropMain
<1>6. ASSUME NEW i \in queue[d], Takes(d, i) PROVE Fits(d)'
  BY <1>6 DEF Takes, Busy
<1>7. CASE Replies(d) \/ RepliesUnheard(d)
  BY <1>7 DEF Replies, RepliesUnheard
<1>8. CASE LosesChannel(d) \/ MainLinkLost(d)
  <2>1. /\ conn'[d] \in {"closed", "broken"} /\ state' = state
        /\ running'[d] \in {running[d], 0}
    BY <1>8 DEF LosesChannel, MainLinkLost, CloseMain
  <2>2. /\ conn[d] \in {"open", "subscribed", "closed"}
        /\ act'[d] # "no" => act[d] # "no"
    BY <1>8 DEF LosesChannel, MainLinkLost
  <2>3. act'[d] \notin {"asked", "granted"}
    BY <1>8 DEF LosesChannel, MainLinkLost
  <2>4. QED
    BY <2>1, <2>2, <2>3
<1>9. QED
  BY <1>1, <1>2, <1>3, <1>4, <1>5, <1>6, <1>7, <1>8
     DEF DeviceNext, HubDies, DeviceExits

(* So does every step: a caller only sends commands to subscribers, and a   *)
(* restart of the arbiter only deprives activations of their answer.        *)
LEMMA FitsStep == TypeOK /\ SubscriptionFits /\ [Next]_vars => SubscriptionFits'
<1> SUFFICES ASSUME TypeOK, SubscriptionFits, [Next]_vars, NEW e \in Device
             PROVE  Fits(e)'
  BY DEF SubscriptionFits
<1>0. Fits(e)
  BY DEF SubscriptionFits
<1>1. ASSUME NEW d \in Device, DeviceNext(d) PROVE Fits(e)'
  <2>1. CASE e = d
    BY <1>0, <1>1, <2>1, DeviceFits
  <2>2. CASE e # d
    BY <1>0, <1>1, <2>2, OthersRest DEF Fits
  <2>3. QED
    BY <2>1, <2>2
<1>2. ASSUME NEW c \in Caller, NEW d \in Device, UserCommand(c, d) PROVE Fits(e)'
  BY <1>0, <1>2 DEF UserCommand, Fits, TypeOK, deviceVars
<1>3. ASSUME NEW c \in Caller, CommandReturns(c) \/ GivesUp(c) \/ CallLinkLost(c)
      PROVE  Fits(e)'
  BY <1>0, <1>3 DEF CommandReturns, GivesUp, CallLinkLost, Fits, deviceVars
<1>4. CASE ArbiterRestarts
  BY <1>0, <1>4 DEF ArbiterRestarts, Fits, TypeOK
<1>5. CASE UNCHANGED vars
  BY <1>0, <1>5 DEF vars, deviceVars, Fits
<1>6. QED
  BY <1>1, <1>2, <1>3, <1>4, <1>5 DEF Next, CallerNext

(* What a device does fits its state and connection.  In particular the     *)
(* handler of a command never lacks a connection: it can always end.        *)
THEOREM SubscriptionsFit == Spec => []SubscriptionFits
<1>1. Init => SubscriptionFits
  BY DEF Init, SubscriptionFits, Fits
<1>2. QED
  BY <1>1, FitsStep, TypeCorrect, PTL DEF Spec

(* Queues are finite, so what is in them can be counted.                    *)
LEMMA FirstCounted ==
    ASSUME TypeOK, NEW d \in Device
    PROVE  /\ Cardinality(queue[d]) \in Nat
           /\ \A last : Cardinality(First(queue[d], last)) \in Nat
<1>1. IsFiniteSet(Id)
  BY FS_Interval DEF Id
<1>2. queue[d] \subseteq Id /\ \A last : First(queue[d], last) \subseteq Id
  BY DEF TypeOK, First
<1>3. QED
  BY <1>1, <1>2, FS_Subset, FS_CardinalityType

(* What a step of a device loses of its queue: everything that leaves       *)
(* unexecuted goes with a channel or a connection, or is read and discarded *)
(* by an activation, while no handler is running.                           *)
LEMMA LossByDevice ==
    ASSUME TypeOK, NEW d \in Device, Fits(d), DeviceNext(d), Lost(d) # {}
    PROVE  \/ (conn'[d] # conn[d] /\ conn'[d] \in {"none", "closed", "broken"})
           \/ (act[d] # "no" /\ Cardinality(Lost(d)) <= MaxStale + 1)
<1> USE DEF TypeOK, deviceVars
<1>1. act[d] # "no" => running[d] = 0 /\ 0 \notin queue[d]
  BY DEF Fits, Id
<1>2. CASE Delist(d) \/ ProcessEnds(d)
  BY <1>2 DEF Delist, ProcessEnds, DropMain, Fits, Lost
<1>3. CASE LosesChannel(d) \/ MainLinkLost(d)
  BY <1>3 DEF LosesChannel, MainLinkLost, CloseMain
<1>4. CASE Activate(d) /\ CloseMain(d, "closed")
  BY <1>4 DEF Activate, CloseMain
<1>5. CASE ActivateReturns(d)
  <2>0. running' = running /\ running[d] = 0 /\ act[d] # "no"
    BY <1>1, <1>5 DEF ActivateReturns
  <2>1. CASE SubscribeFails(d)
    <3>1. conn'[d] = "closed" /\ conn[d] \in {"open", "subscribed"}
      BY <1>5, <2>1 DEF ActivateReturns, SubscribeFails, Fits
    <3>2. QED
      BY <3>1
  <2>2. ASSUME NEW last \in 0..MaxCmd,
               Cardinality(First(queue[d], last)) <= MaxStale,
               queue' = [queue EXCEPT ![d] = @ \ First(@, last)]
        PROVE  Cardinality(Lost(d)) <= MaxStale + 1
    <3>1. Lost(d) = First(queue[d], last)
      BY <1>1, <2>0, <2>2 DEF First, Lost
    <3>2. QED
      BY <2>2, <3>1, FirstCounted
  <2>3. QED
    BY <1>5, <2>0, <2>1, <2>2 DEF ActivateReturns
<1>6. CASE ActivateFails(d)
  <2>0. running' = running /\ running[d] = 0 /\ act[d] # "no"
    BY <1>1, <1>6 DEF ActivateFails
  <2>1. CASE Cardinality(queue[d]) <= MaxStale /\ queue' = [queue EXCEPT ![d] = {}]
    <3>1. Lost(d) = queue[d]
      BY <1>1, <2>0, <2>1 DEF Lost
    <3>2. QED
      BY <2>0, <2>1, <3>1, FirstCounted
  <2>2. ASSUME NEW last \in 0..MaxCmd,
               Cardinality(First(queue[d], last)) = MaxStale + 1,
               queue' = [queue EXCEPT ![d] = @ \ First(@, last)]
        PROVE  Cardinality(Lost(d)) <= MaxStale + 1
    <3>1. Lost(d) = First(queue[d], last)
      BY <1>1, <2>0, <2>2 DEF First, Lost
    <3>2. QED
      BY <2>2, <3>1
  <2>3. QED
    BY <1>6, <2>0, <2>1, <2>2 DEF ActivateFails, Discard
<1>7. ASSUME NEW i \in queue[d], Takes(d, i) PROVE FALSE
  <2>1. queue'[d] = queue[d] \ {i} /\ running'[d] = i
    BY <1>7 DEF Takes
  <2>2. QED
    BY <2>1 DEF Lost
<1>8. CASE queue' = queue
  BY <1>8 DEF Lost
<1>9. QED
  BY <1>2, <1>3, <1>4, <1>5, <1>6, <1>7, <1>8 DEF DeviceNext, HubDies, DeviceExits,
     Enroll, Activate, ActivateBlocks, DeclareFails, Grant, Deactivate, Replies, RepliesUnheard

(* A command that was delivered is lost unexecuted only with its channel or *)
(* connection, or in bounded number to an activation that reads it.         *)
THEOREM LostWithChannel == Spec => CommandsLostWithChannel
<1> DEFINE Bounded(d) == Lost(d) # {} =>
              \/ (conn'[d] # conn[d] /\ conn'[d] \in {"none", "closed", "broken"})
              \/ (act[d] # "no" /\ Cardinality(Lost(d)) <= MaxStale + 1)
<1>1. ASSUME TypeOK, SubscriptionFits, Next, NEW e \in Device PROVE Bounded(e)
  <2>1. ASSUME DeviceNext(e) PROVE Bounded(e)
    BY <1>1, <2>1, LossByDevice DEF SubscriptionFits
  <2>2. ASSUME queue[e] \subseteq queue'[e] PROVE Bounded(e)
    BY <2>2 DEF Lost
  <2>3. ASSUME NEW d \in Device, DeviceNext(d), d # e PROVE queue'[e] = queue[e]
    BY <1>1, <2>3, OthersRest
  <2>4. ASSUME NEW c \in Caller, CallerNext(c) PROVE queue[e] \subseteq queue'[e]
    BY <1>1, <2>4 DEF CallerNext, UserCommand, CommandReturns, GivesUp, CallLinkLost,
         TypeOK
  <2>5. ArbiterRestarts => queue' = queue
    BY DEF ArbiterRestarts
  <2>6. QED
    BY <1>1, <2>1, <2>2, <2>3, <2>4, <2>5 DEF Next
<1>2. TypeOK /\ SubscriptionFits /\ [Next]_vars => [\A d \in Device : Bounded(d)]_vars
  BY <1>1
<1>3. QED
  BY <1>2, TypeCorrect, SubscriptionsFit, PTL DEF Spec, CommandsLostWithChannel

(* Commands, lost connections and restarts keep every device's lifecycle.   *)
THEOREM LifecycleOfDevices == Spec => DevicesKeepLifecycle
<1>1. ASSUME TypeOK, SubscriptionFits, Next, NEW e \in Device
      PROVE  Life(e)!Next \/ state'[e] = state[e]
  <2> USE DEF Life!Next, Life!Enroll, Life!Activate, Life!Deactivate, Life!Delist
  <2>1. ASSUME DeviceNext(e) PROVE Life(e)!Next \/ state'[e] = state[e]
    <3> USE DEF TypeOK, deviceVars
    <3>1. CASE Enroll(e) \/ Deactivate(e)
      BY <1>1, <3>1 DEF Enroll, Deactivate
    <3>2. CASE Delist(e)
      BY <1>1, <3>2 DEF Delist
    <3>3. CASE ActivateReturns(e)
      BY <1>1, <3>3 DEF ActivateReturns, SubscriptionFits, Fits
    <3>4. CASE ProcessEnds(e)
      BY <1>1, <3>4 DEF ProcessEnds
    <3>5. CASE state' = state
      BY <3>5
    <3>6. QED
      BY <2>1, <3>1, <3>2, <3>3, <3>4, <3>5 DEF DeviceNext, HubDies, DeviceExits,
         Activate, ActivateBlocks, DeclareFails, Grant, ActivateFails, Takes, Replies, LosesChannel,
         RepliesUnheard, MainLinkLost
  <2>2. ASSUME NEW d \in Device, DeviceNext(d), d # e PROVE state'[e] = state[e]
    BY <1>1, <2>2, OthersRest
  <2>3. ASSUME NEW c \in Caller, CallerNext(c) PROVE state' = state
    BY <2>3 DEF CallerNext, UserCommand, CommandReturns, GivesUp, CallLinkLost,
       deviceVars
  <2>4. ArbiterRestarts => state' = state
    BY DEF ArbiterRestarts
  <2>5. QED
    BY <1>1, <2>1, <2>2, <2>3, <2>4 DEF Next
<1>2. TypeOK /\ SubscriptionFits /\ [Next]_vars =>
        [\A d \in Device : Life(d)!Next \/ state'[d] = state[d]]_vars
  BY <1>1
<1>3. QED
  BY <1>2, TypeCorrect, SubscriptionsFit, PTL DEF Spec, DevicesKeepLifecycle
=============================================================================
