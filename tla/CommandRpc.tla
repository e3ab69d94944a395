----------------------------- MODULE CommandRpc -----------------------------
(***************************************************************************)
(* User commands, from the arbiter or a hub to a device: agent/arbiter-    *)
(* agent.c, the user_command methods of amqp-arbiter-backend.c and         *)
(* amqp-hub-backend.c, and _process_amqp_message of the devices, together  *)
(* with what activation and deactivation do to the commands on their way.  *)
(*                                                                         *)
(* A caller opens a connection of its own, publishes the command to the    *)
(* queue named by the device's uid and blocks until the answer arrives on  *)
(* a private reply queue.  A device consumes the queue of its uid, without *)
(* acknowledging, on the connection it registers on.  Commands and reply   *)
(* queues are named by the number of the publication, and as a queue is a  *)
(* FIFO it is the set of its commands.                                     *)
(***************************************************************************)
EXTENDS Naturals, FiniteSets

CONSTANTS
    Edge, Hub,   \* the devices, by uid
    Arbiter,     \* the node of the arbiter's agent
    Faults,      \* what the environment does: "link" breaks connections,
                 \* "exit" ends processes
    MaxCmd,      \* bound on the commands published in a behaviour
    MaxStale     \* messages an activation may skip (10 in _amqp_rpc_request)

Device == Edge \cup Hub
Caller == Hub \cup {Arbiter}
Id     == 1..MaxCmd

ASSUME NodeAssumption  == Edge \cap Hub = {} /\ Arbiter \notin Device
ASSUME FaultAssumption == Faults \subseteq {"link", "exit"}
ASSUME BoundAssumption == MaxCmd \in Nat /\ MaxStale \in Nat

VARIABLES
    (* a device *)
    state,     \* ChamgeNodePrivate.state
    conn,      \* its main connection: "none" is a NULL backend, "open",
               \* "subscribed" to the queue of its uid, "closed" if the broker
               \* has closed its channel, or "broken"
    act,       \* its activation: "no", or it is blocked on a request that is
               \* "asked", "granted", or "unheard" as one of them was lost, or
               \* "stuck" before it has asked
    queue,     \* commands delivered to the main connection and not yet read
    running,   \* the command its handler executes, or 0
    (* a caller *)
    call,      \* the command it is blocked on, or 0
    cut,       \* callers whose connection for that command is broken
    (* the commands *)
    sent,      \* number of commands published
    replyq,    \* reply queues that exist
    answers,   \* answers on them, not yet read
    outcome,   \* what became of the command for its caller
    runs       \* how often it was executed

deviceVars  == <<state, conn, act>>
callerVars  == <<call, cut, replyq, outcome>>
vars == <<deviceVars, queue, running, callerVars, sent, answers, runs>>

(* Each command as an instance of what is promised for one. *)
Promise(i) == INSTANCE Command WITH outcome <- outcome[i], runs <- runs[i]

(* One invariant on types. *)
TypeOK ==
    /\ state \in [Device -> {"NULL", "ENROLLED", "ACTIVATED"}]
    /\ conn \in [Device -> {"none", "open", "subscribed", "closed", "broken"}]
    /\ act \in [Device -> {"no", "asked", "granted", "unheard", "stuck"}]
    /\ queue \in [Device -> SUBSET Id]
    /\ running \in [Device -> Id \cup {0}]
    /\ call \in [Caller -> Id \cup {0}]
    /\ cut \subseteq Caller
    /\ sent \in 0..MaxCmd
    /\ replyq \subseteq Id
    /\ answers \subseteq Id
    /\ outcome \in [Id -> {"unsent", "waiting", "answered", "unanswered", "failed"}]
    /\ runs \in [Id -> {0, 1}]

Init ==
    /\ state = [d \in Device |-> "NULL"]
    /\ conn = [d \in Device |-> "none"]
    /\ act = [d \in Device |-> "no"]
    /\ queue = [d \in Device |-> {}]
    /\ running = [d \in Device |-> 0]
    /\ call = [c \in Caller |-> 0]
    /\ cut = {}
    /\ sent = 0
    /\ replyq = {}
    /\ answers = {}
    /\ outcome = [i \in Id |-> "unsent"]
    /\ runs = [i \in Id |-> 0]
-----------------------------------------------------------------------------
InCall(n) == n \in Caller /\ call[n] # 0

(* A node has one thread: its main loop dispatches nothing, and its        *)
(* application starts nothing, while it blocks or runs a handler.          *)
Busy(d) == act[d] # "no" \/ running[d] # 0 \/ InCall(d)

(* The first commands of a queue, in the order of their publication. *)
First(q, last) == {i \in q : i <= last}

(* The channel of the main connection is closed, or the connection broken. *)
(* Commands that had already been delivered can still be read.             *)
CloseMain(d, c) ==
    /\ conn' = [conn EXCEPT ![d] = c]
    /\ \E last \in 0..MaxCmd : queue' = [queue EXCEPT ![d] = First(@, last)]

(* The backend is disposed of: its connection, the watch on it and the     *)
(* auto-delete queue of the uid are gone.                                  *)
DropMain(d) ==
    /\ conn' = [conn EXCEPT ![d] = "none"]
    /\ queue' = [queue EXCEPT ![d] = {}]
-----------------------------------------------------------------------------
(* The life of a device as far as its commands notice it; Registration has *)
(* the rest.  The arbiter answers from its main loop, so not while that is *)
(* blocked on a command.                                                   *)

Enroll(d) ==
    /\ state[d] = "NULL" /\ conn[d] = "none" /\ ~Busy(d) /\ ~InCall(Arbiter)
    /\ state' = [state EXCEPT ![d] = "ENROLLED"]
    /\ conn' = [conn EXCEPT ![d] = "open"]
    /\ UNCHANGED <<act, queue, running, callerVars, sent, answers, runs>>

(* The backend is dropped whether or not the delist succeeds. *)
Delist(d) ==
    /\ state[d] # "NULL" /\ conn[d] # "none" /\ ~Busy(d)
    /\ \/ ~InCall(Arbiter) /\ state' = [state EXCEPT ![d] = "NULL"]
       \/ UNCHANGED state
    /\ DropMain(d)
    /\ UNCHANGED <<act, running, callerVars, sent, answers, runs>>

(* The request goes out on the main connection, and the device waits for   *)
(* its answer there, where the commands arrive too; or the enroll queue is *)
(* missing, and the passive declare of it closes the channel.              *)
Activate(d) ==
    /\ state[d] = "ENROLLED" /\ conn[d] \in {"open", "subscribed"} /\ ~Busy(d)
    /\ \/ act' = [act EXCEPT ![d] = "asked"] /\ UNCHANGED <<conn, queue>>
       \/ CloseMain(d, "closed") /\ UNCHANGED act
    /\ UNCHANGED <<state, running, callerVars, sent, answers, runs>>

(* On a channel that the broker has closed nothing answers the passive     *)
(* declare, and no time limit is set for it.                               *)
ActivateBlocks(d) ==
    /\ state[d] = "ENROLLED" /\ conn[d] = "closed" /\ ~Busy(d)
    /\ act' = [act EXCEPT ![d] = "stuck"]
    /\ UNCHANGED <<state, conn, queue, running, callerVars, sent, answers, runs>>

(* The library may give up all the same, and does so when the connection   *)
(* ends.                                                                   *)
DeclareFails(d) ==
    /\ act[d] = "stuck"
    /\ act' = [act EXCEPT ![d] = "no"]
    /\ UNCHANGED <<state, conn, queue, running, callerVars, sent, answers, runs>>

Grant(d) ==
    /\ act[d] = "asked" /\ ~InCall(Arbiter)
    /\ act' = [act EXCEPT ![d] = "granted"]
    /\ UNCHANGED <<state, conn, queue, running, callerVars, sent, answers, runs>>

(* The device declares, binds and consumes the queue of its uid, once more *)
(* if it still does.  That may fail and close the channel.                 *)
Subscribes(d) == conn' = [conn EXCEPT ![d] = "subscribed"]

SubscribeFails(d) ==
    /\ conn' = [conn EXCEPT ![d] = "closed"]
    /\ queue' = [queue EXCEPT ![d] = {}]

(* The wait discards the commands that arrived before the answer.          *)
ActivateReturns(d) ==
    /\ act[d] = "granted"
    /\ act' = [act EXCEPT ![d] = "no"]
    /\ \/ /\ Subscribes(d)
          /\ \E last \in 0..MaxCmd :
                /\ Cardinality(First(queue[d], last)) <= MaxStale
                /\ queue' = [queue EXCEPT ![d] = @ \ First(@, last)]
          /\ state' = [state EXCEPT ![d] = "ACTIVATED"]
       \/ SubscribeFails(d) /\ UNCHANGED state
    /\ UNCHANGED <<running, callerVars, sent, answers, runs>>

(* Faulty: the wait does not count the messages it discards. *)
DiscardAll(d) == queue' = [queue EXCEPT ![d] = {}]

(* The wait for the answer ends: ten seconds without a message, after all  *)
(* delivered commands were read and discarded, or MaxStale + 1 of them.    *)
Discard(d) ==
    \/ /\ act[d] \in {"asked", "unheard"} /\ Cardinality(queue[d]) <= MaxStale
       /\ queue' = [queue EXCEPT ![d] = {}]
    \/ \E last \in 0..MaxCmd :
          /\ Cardinality(First(queue[d], last)) = MaxStale + 1
          /\ queue' = [queue EXCEPT ![d] = @ \ First(@, last)]

ActivateFails(d) ==
    /\ act[d] \in {"asked", "granted", "unheard"}
    /\ d \in Edge \/ conn[d] = "broken"
    /\ Discard(d)
    /\ act' = [act EXCEPT ![d] = "no"]
    /\ UNCHANGED <<state, conn, running, callerVars, sent, answers, runs>>

(* Only the watch is removed: the device goes on consuming its queue.      *)
Deactivate(d) ==
    /\ state[d] = "ACTIVATED" /\ conn[d] # "none" /\ ~Busy(d)
    /\ state' = [state EXCEPT ![d] = "ENROLLED"]
    /\ UNCHANGED <<conn, act, queue, running, callerVars, sent, answers, runs>>
-----------------------------------------------------------------------------
(* The device's side of a command: the watch of an edge, the idle source   *)
(* of a hub.                                                               *)

(* One message is read from the connection, the first. *)
Oldest(d, i) == i \in queue[d] /\ \A j \in queue[d] : i <= j

(* The handler of the "user-command" signal is called. *)
Execute(i) == runs' = [runs EXCEPT ![i] = @ + 1]

(* Faulty: a command nobody waits for is left where it is. *)
TakesIfAwaited(d, i) ==
    /\ state[d] = "ACTIVATED" /\ ~Busy(d)
    /\ Oldest(d, i) /\ i \in replyq
    /\ Execute(i)
    /\ running' = [running EXCEPT ![d] = i]
    /\ queue' = [queue EXCEPT ![d] = @ \ {i}]
    /\ UNCHANGED <<deviceVars, callerVars, sent, answers>>

(* The command is executed before anything is known of its reply queue.    *)
Takes(d, i) ==
    /\ state[d] = "ACTIVATED" /\ ~Busy(d)
    /\ Oldest(d, i)
    /\ Execute(i)
    /\ running' = [running EXCEPT ![d] = i]
    /\ queue' = [queue EXCEPT ![d] = @ \ {i}]
    /\ UNCHANGED <<deviceVars, callerVars, sent, answers>>

(* The reply queue exists: the answer is published to it. *)
Replies(d) ==
    /\ running[d] \in replyq /\ conn[d] = "subscribed"
    /\ answers' = answers \cup {running[d]}
    /\ running' = [running EXCEPT ![d] = 0]
    /\ UNCHANGED <<deviceVars, queue, callerVars, sent, runs>>

(* It does not: the passive declare closes the device's only channel,      *)
(* nobody opens it again, and the queue of its uid goes with its consumer. *)
LosesChannel(d) ==
    /\ running[d] # 0 /\ running[d] \notin replyq /\ conn[d] = "subscribed"
    /\ CloseMain(d, "closed")
    /\ running' = [running EXCEPT ![d] = 0]
    /\ UNCHANGED <<state, act, callerVars, sent, answers, runs>>

(* A command delivered before the channel was closed cannot be answered:   *)
(* the passive declare finds the connection broken, or waits on the closed *)
(* channel until the library gives up.                                     *)
RepliesUnheard(d) ==
    /\ running[d] # 0 /\ conn[d] \in {"closed", "broken"}
    /\ running' = [running EXCEPT ![d] = 0]
    /\ UNCHANGED <<deviceVars, queue, callerVars, sent, answers, runs>>
-----------------------------------------------------------------------------
(* The caller's side. *)

(* chamge_node_user_command refuses a hub that is not ACTIVATED or has no  *)
(* backend.  The arbiter's agent has one that is.                          *)
MayCall(c) ==
    /\ ~InCall(c)
    /\ c \in Hub => state[c] = "ACTIVATED" /\ conn[c] # "none" /\ ~Busy(c)

(* The command is on its way and its reply queue consumed: the caller waits. *)
Waits(c) ==
    /\ call' = [call EXCEPT ![c] = sent + 1]
    /\ outcome' = [outcome EXCEPT ![sent + 1] = "waiting"]

(* Publishing or consuming fails, or the process ends before: the call has *)
(* failed, its connection is never closed and the reply queue, which never *)
(* had a consumer, is not deleted.                                         *)
FailsEarly ==
    /\ outcome' = [outcome EXCEPT ![sent + 1] = "failed"]
    /\ UNCHANGED call

(* A command to a device whose uid has a queue: a reply queue is declared, *)
(* the command published and the reply queue consumed.  What fails before  *)
(* that changes nothing: a missing queue, and the commands for which the   *)
(* agent looks the device up and does not find it.  A command without a    *)
(* method goes to any uid.                                                 *)
UserCommand(c, d) ==
    /\ MayCall(c) /\ conn[d] = "subscribed"
    /\ sent < MaxCmd
    /\ sent' = sent + 1
    /\ replyq' = replyq \cup {sent + 1}
    /\ \/ Waits(c)   /\ queue' = [queue EXCEPT ![d] = @ \cup {sent + 1}]
       \/ FailsEarly /\ queue' \in {queue, [queue EXCEPT ![d] = @ \cup {sent + 1}]}
    /\ UNCHANGED <<deviceVars, running, cut, answers, runs>>

(* The call ends; its connection is closed and its reply queue deleted.    *)
EndCall(c, result) ==
    /\ call' = [call EXCEPT ![c] = 0]
    /\ cut' = cut \ {c}
    /\ outcome' = [i \in Id |-> IF i = call[c] THEN result ELSE outcome[i]]
    /\ replyq' = replyq \ {call[c]}
    /\ answers' = answers \ {call[c]}

(* A connection that cannot be closed properly makes a call fail that had  *)
(* succeeded up to there.                                                  *)
Result(c, r) == IF c \in cut THEN {"failed"} ELSE {r, "failed"}

Answered(c) == call[c] \in answers

CommandReturns(c) ==
    /\ InCall(c) /\ Answered(c)
    /\ \E r \in Result(c, "answered") : EndCall(c, r)
    /\ UNCHANGED <<deviceVars, queue, running, sent, runs>>

(* Faulty: the command is published again, under its old name. *)
RetriesOnTimeout(c) ==
    /\ InCall(c) /\ ~Answered(c)
    /\ \E d \in Device :
          /\ conn[d] = "subscribed"
          /\ queue' = [queue EXCEPT ![d] = @ \cup {call[c]}]
    /\ UNCHANGED <<deviceVars, running, callerVars, sent, answers, runs>>

(* Faulty: the reply queue is closed first, then waited on once more. *)
ClosesAndWaits(c) ==
    /\ InCall(c) /\ ~Answered(c)
    /\ replyq' = replyq \ {call[c]}
    /\ UNCHANGED <<deviceVars, queue, running, call, cut, outcome, sent, answers, runs>>

(* Faulty: the connection is not closed after a timeout. *)
GivesUpLeaking(c) ==
    /\ InCall(c) /\ ~Answered(c)
    /\ call' = [call EXCEPT ![c] = 0]
    /\ outcome' = [outcome EXCEPT ![call[c]] = "unanswered"]
    /\ UNCHANGED <<deviceVars, queue, running, cut, replyq, sent, answers, runs>>

(* Faulty: the wait has no timeout. *)
GivesUpIfCut(c) ==
    /\ InCall(c) /\ ~Answered(c) /\ c \in cut
    /\ EndCall(c, "failed")
    /\ UNCHANGED <<deviceVars, queue, running, sent, runs>>

(* No answer within ten seconds, or a broken connection: the loop is left  *)
(* with an error and without a response, and the method returns OK.        *)
GivesUp(c) ==
    /\ InCall(c) /\ ~Answered(c)
    /\ \E r \in Result(c, "unanswered") : EndCall(c, r)
    /\ UNCHANGED <<deviceVars, queue, running, sent, runs>>
-----------------------------------------------------------------------------
(* The environment. *)

(* The process of a device ends, with its connections; a call of its       *)
(* application ends with it.                                               *)
ProcessEnds(d) ==
    /\ state' = [state EXCEPT ![d] = "NULL"]
    /\ act' = [act EXCEPT ![d] = "no"]
    /\ running' = [running EXCEPT ![d] = 0]
    /\ DropMain(d)
    /\ IF InCall(d) THEN EndCall(d, "failed") ELSE UNCHANGED <<callerVars, answers>>
    /\ UNCHANGED <<sent, runs>>

DeviceExits(d) ==
    /\ "exit" \in Faults
    /\ ProcessEnds(d)

(* A hub hands the missing answer to its activation to strlen. *)
HubDies(d) ==
    /\ d \in Hub /\ act[d] \in {"asked", "granted", "unheard"}
    /\ act[d] # "granted" \/ Cardinality(queue[d]) > MaxStale
    /\ ProcessEnds(d)

MainLinkLost(d) ==
    /\ "link" \in Faults /\ conn[d] \in {"open", "subscribed", "closed"}
    /\ CloseMain(d, "broken")
    /\ act' = [act EXCEPT ![d] = IF @ \in {"asked", "granted"} THEN "unheard" ELSE @]
    /\ UNCHANGED <<state, running, callerVars, sent, answers, runs>>

CallLinkLost(c) ==
    /\ "link" \in Faults /\ InCall(c) /\ c \notin cut
    /\ cut' = cut \cup {c}
    /\ replyq' = replyq \ {call[c]}
    /\ answers' \in {answers, answers \ {call[c]}}
    /\ UNCHANGED <<deviceVars, queue, running, call, outcome, sent, runs>>

(* The arbiter's process ends and is started again; the enroll queue and   *)
(* the requests in it are gone.                                            *)
ArbiterRestarts ==
    /\ "exit" \in Faults
    /\ act' = [d \in Device |-> IF act[d] = "asked" THEN "unheard" ELSE act[d]]
    /\ IF InCall(Arbiter) THEN EndCall(Arbiter, "failed")
                          ELSE UNCHANGED <<callerVars, answers>>
    /\ UNCHANGED <<state, conn, queue, running, sent, runs>>
-----------------------------------------------------------------------------
DeviceNext(d) ==
    \/ Enroll(d) \/ Delist(d) \/ Activate(d) \/ Grant(d) \/ ActivateReturns(d)
    \/ ActivateFails(d) \/ ActivateBlocks(d) \/ DeclareFails(d) \/ HubDies(d)
    \/ Deactivate(d)
    \/ (\E i \in queue[d] : Takes(d, i))
    \/ Replies(d) \/ LosesChannel(d) \/ RepliesUnheard(d)
    \/ DeviceExits(d) \/ MainLinkLost(d)

CallerNext(c) ==
    \/ (\E d \in Device : UserCommand(c, d))
    \/ CommandReturns(c) \/ GivesUp(c) \/ CallLinkLost(c)

Next ==
    \/ (\E d \in Device : DeviceNext(d))
    \/ (\E c \in Caller : CallerNext(c))
    \/ ArbiterRestarts

Spec == Init /\ [][Next]_vars

(* Every wait is bounded, except that for a declare on a closed channel    *)
(* while the connection lasts.  A main loop that runs again and again      *)
(* dispatches the idle source of a hub at last, although the application's *)
(* own calls may come first each time.  The watch of an edge may sleep on  *)
(* a command: AmqpSource says when it wakes.                               *)
FairSpec ==
    /\ Spec
    /\ \A c \in Caller : WF_vars(CommandReturns(c) \/ GivesUp(c))
    /\ \A d \in Device :
          /\ WF_vars(ActivateReturns(d) \/ ActivateFails(d) \/ HubDies(d)
                       \/ (conn[d] = "broken" /\ DeclareFails(d)))
          /\ WF_vars(Replies(d) \/ LosesChannel(d)
                       \/ (conn[d] = "broken" /\ RepliesUnheard(d)))
    /\ \A d \in Hub : SF_vars(\E i \in queue[d] : Takes(d, i))
-----------------------------------------------------------------------------
(* Every command keeps the promise of Command: whatever breaks, times out,  *)
(* restarts or is deactivated in between, a device executes it at most      *)
(* once, and user_command returns a response only of that execution.        *)
CommandsKept ==
    /\ \A i \in Id : Promise(i)!Init
    /\ [][\A i \in Id : Promise(i)!Next \/ UNCHANGED Promise(i)!vars]_vars

(* The passive declare of _process_amqp_message costs a device its channel  *)
(* only for a caller that is not waiting any more, or has lost the          *)
(* connection it waits on.                                                  *)
DeafOnlyByAbandoned ==
    [][\A d \in Device : LosesChannel(d) =>
          \A c \in Caller : call[c] = running[d] => c \in cut]_vars

(* Each device as its application sees it. *)
Life(d) == INSTANCE NodeLifecycle WITH
    state      <- state[d],
    DelistFrom <- {"ENROLLED", "ACTIVATED"}

(* Commands on their way, lost connections and the ends of processes keep   *)
(* the lifecycle of every device: the same promise as Registration's, with  *)
(* the commands that an activation finds on its connection.                 *)
DevicesKeepLifecycle ==
    [][\A d \in Device : Life(d)!Next \/ state'[d] = state[d]]_vars

(* A call leaves no reply queue behind on the broker, except where          *)
(* user_command fails between declaring and consuming it.                   *)
ReplyQueuesReclaimed ==
    \A i \in replyq : outcome[i] = "failed" \/ \E c \in Caller : call[c] = i

(* Every user_command returns, also of hubs that command each other, or of  *)
(* an arbiter whose device is blocked on a request to the arbiter.          *)
CommandsReturn == \A c \in Caller : InCall(c) ~> ~InCall(c)

(* The commands that leave the queue of a device unexecuted. *)
Lost(d) == queue[d] \ (queue'[d] \cup {running'[d]})

(* A command that was delivered leaves the queue unexecuted only with the   *)
(* channel or the connection it came on, or as one of the messages that a   *)
(* single activation reads, MaxStale + 1 of them at most: no deactivation,  *)
(* no answer and no other command costs it.                                 *)
CommandsLostWithChannel ==
    [][\A d \in Device : Lost(d) # {} =>
          \/ (conn'[d] # conn[d] /\ conn'[d] \in {"none", "closed", "broken"})
          \/ (act[d] # "no" /\ Cardinality(Lost(d)) <= MaxStale + 1)]_vars

(* A command delivered to an activated hub does not stay unread, whether or *)
(* not its caller still waits, and even if its connection breaks; unless    *)
(* the hub is held up by an earlier command, whose reply queue it looks for *)
(* on a channel that the broker has closed.                                 *)
CommandsTaken ==
    \A d \in Hub : \A i \in Id :
       i \in queue[d] ~> (\/ i \notin queue[d]
                         \/ state[d] # "ACTIVATED"
                         \/ (running[d] # 0 /\ conn[d] = "closed"))
-----------------------------------------------------------------------------
(* The inductive invariant behind the safety properties.                   *)

Numbered == \A i \in Id : outcome[i] = "unsent" <=> i > sent

(* A command is in one place: not yet run, in one queue at most. *)
QueuedOnce ==
    /\ \A d \in Device : \A i \in queue[d] : i <= sent /\ runs[i] = 0
    /\ \A d, e \in Device : d # e => queue[d] \cap queue[e] = {}

RunBeforeAnswer ==
    /\ \A d \in Device : running[d] # 0 => runs[running[d]] = 1
    /\ \A i \in answers : runs[i] = 1
    /\ \A i \in Id : runs[i] = 1 => i <= sent

(* A caller waits for a command of its own, on a queue of its own. *)
WaitsAlone ==
    /\ \A c \in Caller : InCall(c) =>
          outcome[call[c]] = "waiting" /\ (c \in cut \/ call[c] \in replyq)
    /\ \A b, c \in Caller : InCall(b) /\ call[b] = call[c] => b = c

(* What a device does fits its state and its connection: commands come to   *)
(* a subscriber, and only an enrolled device waits for an activation.       *)
Fits(d) ==
    /\ state[d] = "NULL" => conn[d] = "none"
    /\ state[d] = "ACTIVATED" => conn[d] # "open"
    /\ queue[d] # {} => conn[d] \in {"subscribed", "closed", "broken"}
    /\ act[d] # "no" => state[d] = "ENROLLED" /\ conn[d] # "none"
    /\ act[d] \in {"asked", "granted"} => conn[d] \in {"open", "subscribed"}
    /\ act[d] = "stuck" => conn[d] \in {"closed", "broken"}
    /\ running[d] # 0 =>
          state[d] = "ACTIVATED" /\ conn[d] \in {"subscribed", "closed", "broken"}

SubscriptionFits == \A d \in Device : Fits(d)

IInv ==
    /\ TypeOK /\ Numbered /\ QueuedOnce /\ RunBeforeAnswer /\ WaitsAlone
    /\ ReplyQueuesReclaimed
=============================================================================
