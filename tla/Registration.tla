---------------------------- MODULE Registration ----------------------------
(***************************************************************************)
(* Enrolment, activation and delisting of devices (edges and hubs) at the  *)
(* arbiter, over the broker: chamge/amqp-edge-backend.c, amqp-hub-         *)
(* backend.c, amqp-arbiter-backend.c and the lists of arbiter-agent.c.     *)
(*                                                                         *)
(* A device blocks in _amqp_rpc_request: it publishes a request to the     *)
(* enroll queue and waits for the answer on a reply queue of its own.      *)
(* Requests and reply queues are named by the number of the publication    *)
(* (the correlation id); the enroll queue is a FIFO, so it is the set of   *)
(* waiting requests and its head is the one with the least number.         *)
(***************************************************************************)
EXTENDS Naturals, FiniteSets

CONSTANTS
    Edge, Hub,   \* the devices, by uid
    Faults,      \* what the environment does: "link" breaks connections,
                 \* "exit" ends processes
    MaxReq,      \* bound on the requests published in a behaviour
    MaxStale     \* answers a request may skip (10 in _amqp_rpc_request)

ASSUME DeviceAssumption == Edge \cap Hub = {}
ASSUME FaultAssumption  == Faults \subseteq {"link", "exit"}
ASSUME BoundAssumption  == MaxReq \in Nat /\ MaxStale \in Nat

VARIABLES
    (* a device *)
    state,     \* ChamgeNodePrivate.state
    link,      \* the backend and its main connection: "none" is a NULL backend,
               \* "fresh" not yet opened, "open", "closed" if the broker has
               \* closed its channel, or "broken"
    call,      \* the request the device is blocked on, or NoCall, or Stuck
    inbox,     \* answers on the main connection not yet read, and the answer
               \* to a delist on the connection of its own
    replyq,    \* reply queues on connections the device still reads
    leaked,    \* reply queues of delists that failed: never read, never closed
    (* the broker *)
    sent,      \* number of requests published
    enrollq,   \* requests in the enroll queue
    (* the arbiter *)
    arbiter,   \* "down", "up", or "deaf": ACTIVATED on a closed channel
    entries,   \* occurrences of the uid in ChamgeArbiterAgent.edges or .hubs
    lost       \* the arbiter process that admitted the device has ended

deviceVars  == <<state, link, call, inbox, replyq, leaked>>
brokerVars  == <<sent, enrollq>>
arbiterVars == <<arbiter, entries, lost>>
vars == <<deviceVars, brokerVars, arbiterVars>>

Device  == Edge \cup Hub
Method  == {"enroll", "activate", "delist"}
ReqId   == 1..MaxReq
Request == [id : ReqId, dev : Device, op : Method]
NoCall  == [id |-> 0, op |-> "none"]

(* In an activation that has published nothing: it waits, without a time   *)
(* limit, for the answer to a passive declare.                             *)
Stuck == [id |-> 0, op |-> "activate"]

(* One invariant on types. *)
TypeOK ==
    /\ state \in [Device -> {"NULL", "ENROLLED", "ACTIVATED"}]
    /\ link \in [Device -> {"none", "fresh", "open", "closed", "broken"}]
    /\ call \in [Device -> [id : ReqId, op : Method] \cup {NoCall, Stuck}]
    /\ inbox \in [Device -> SUBSET ReqId]
    /\ replyq \in [Device -> SUBSET ReqId]
    /\ leaked \in [Device -> SUBSET ReqId]
    /\ sent \in 0..MaxReq
    /\ enrollq \in SUBSET Request
    /\ arbiter \in {"down", "up", "deaf"}
    /\ entries \in [Device -> Nat]
    /\ lost \in [Device -> BOOLEAN]

Init ==
    /\ state = [d \in Device |-> "NULL"]
    /\ link = [d \in Device |-> "none"]
    /\ call = [d \in Device |-> NoCall]
    /\ inbox = [d \in Device |-> {}]
    /\ replyq = [d \in Device |-> {}]
    /\ leaked = [d \in Device |-> {}]
    /\ sent = 0
    /\ enrollq = {}
    /\ arbiter = "down"
    /\ entries = [d \in Device |-> 0]
    /\ lost = [d \in Device |-> FALSE]
-----------------------------------------------------------------------------
Idle(d) == call[d] = NoCall

(* In the wait of _amqp_rpc_request. *)
Waits(d) == call[d].id # 0

Finish(d) == call' = [call EXCEPT ![d] = NoCall]

(* The enroll queue is auto-delete: it lives as long as the arbiter's      *)
(* consumer does, and only then the passive declare of it succeeds.        *)
QueueExists == arbiter = "up"

(* Faulty: a reply queue left from an earlier request is used again. *)
PublishReusing(d, method) ==
    /\ QueueExists
    /\ sent < MaxReq
    /\ sent' = sent + 1
    /\ enrollq' = enrollq \cup {[id |-> sent + 1, dev |-> d, op |-> method]}
    /\ call' = [call EXCEPT ![d] = [id |-> sent + 1, op |-> method]]
    /\ replyq' = [replyq EXCEPT ![d] = IF @ = {} THEN {sent + 1} ELSE @]

(* _amqp_rpc_request up to its wait: the queue is found, a reply queue is  *)
(* declared and the request published under a fresh correlation id.        *)
Publish(d, method) ==
    /\ QueueExists
    /\ sent < MaxReq
    /\ sent' = sent + 1
    /\ enrollq' = enrollq \cup {[id |-> sent + 1, dev |-> d, op |-> method]}
    /\ call' = [call EXCEPT ![d] = [id |-> sent + 1, op |-> method]]
    /\ replyq' = [replyq EXCEPT ![d] = @ \cup {sent + 1}]

(* The main connection, or its channel, is gone, with its reply queues and *)
(* what they held.                                                         *)
DropMain(d, l) ==
    /\ link' = [link EXCEPT ![d] = l]
    /\ inbox' = [inbox EXCEPT ![d] = {}]
    /\ replyq' = [replyq EXCEPT ![d] = {}]

(* The answers to earlier requests that the wait reads first and discards: *)
(* they come on the main connection.  A delist has one of its own.         *)
Stale(d) == IF call[d].op = "delist" THEN {} ELSE inbox[d] \ {call[d].id}

(* Faulty: the first answer on the queue is taken for one's own. *)
AnsweredByAny(d) == inbox[d] # {}

(* The wait reads the answer with its own correlation id.  Nothing is left *)
(* for the main loop of an activated device: what an earlier request might *)
(* still get comes before the answer that activated it.                    *)
Answered(d) == call[d].id \in inbox[d] /\ Cardinality(Stale(d)) <= MaxStale
-----------------------------------------------------------------------------
(* The requests of the application.  Calls that an early return refuses,   *)
(* and an enroll or activate on a main connection that refuses it at once, *)
(* are stuttering steps.                                                   *)

(* The login opens the socket of the main connection; it fails before or   *)
(* after that, or the missing enroll queue closes the channel, or the      *)
(* request is published.                                                   *)
Enroll(d) ==
    /\ state[d] = "NULL" /\ Idle(d) /\ link[d] \in {"none", "fresh"}
    /\ \/ /\ Publish(d, "enroll")
          /\ link' = [link EXCEPT ![d] = "open"]
       \/ /\ \E l \in {"fresh", "closed", "broken"} : link' = [link EXCEPT ![d] = l]
          /\ UNCHANGED <<call, replyq, brokerVars>>
    /\ UNCHANGED <<state, inbox, leaked, arbiterVars>>

(* The broker answers the passive declare of a missing queue by closing    *)
(* the channel: the main connection is of no use afterwards.               *)
Activate(d) ==
    /\ state[d] = "ENROLLED" /\ Idle(d) /\ link[d] = "open"
    /\ \/ Publish(d, "activate") /\ UNCHANGED <<link, inbox>>
       \/ ~QueueExists /\ DropMain(d, "closed") /\ UNCHANGED <<call, brokerVars>>
    /\ UNCHANGED <<state, leaked, arbiterVars>>

(* On a channel that the broker has closed nothing answers the passive     *)
(* declare, and no time limit is set for it.                               *)
ActivateBlocks(d) ==
    /\ state[d] = "ENROLLED" /\ Idle(d) /\ link[d] = "closed"
    /\ call' = [call EXCEPT ![d] = Stuck]
    /\ UNCHANGED <<state, link, inbox, replyq, leaked, brokerVars, arbiterVars>>

(* The library may give up all the same, and does so when the connection   *)
(* ends.                                                                   *)
DeclareFails(d) ==
    /\ call[d] = Stuck
    /\ Finish(d)
    /\ UNCHANGED <<state, link, inbox, replyq, leaked, brokerVars, arbiterVars>>

Deactivate(d) ==
    /\ state[d] = "ACTIVATED" /\ Idle(d) /\ link[d] # "none"
    /\ state' = [state EXCEPT ![d] = "ENROLLED"]
    /\ UNCHANGED <<link, call, inbox, replyq, leaked, brokerVars, arbiterVars>>

(* From any state, on a connection of its own; when nothing can be sent    *)
(* the call fails at once, and the backend is dropped all the same.        *)
Delist(d) ==
    /\ Idle(d) /\ link[d] # "none"
    /\ \/ Publish(d, "delist") /\ UNCHANGED <<link, inbox>>
       \/ DropMain(d, "none") /\ UNCHANGED <<call, brokerVars>>
    /\ UNCHANGED <<state, leaked, arbiterVars>>
-----------------------------------------------------------------------------
(* The wait of _amqp_rpc_request ends. *)

EnrollReturns(d) ==
    /\ call[d].op = "enroll" /\ Answered(d)
    /\ state' = [state EXCEPT ![d] = "ENROLLED"]
    /\ inbox' = [inbox EXCEPT ![d] = {}]
    /\ Finish(d)
    /\ UNCHANGED <<link, replyq, leaked, brokerVars, arbiterVars>>

(* After the answer the device subscribes to the queue of its uid, which   *)
(* may fail and close the channel: the node then stays ENROLLED.           *)
ActivateReturns(d) ==
    /\ call[d].op = "activate" /\ Answered(d)
    /\ \/ /\ state' = [state EXCEPT ![d] = "ACTIVATED"]
          /\ inbox' = [inbox EXCEPT ![d] = {}]
          /\ UNCHANGED <<link, replyq>>
       \/ DropMain(d, "closed") /\ UNCHANGED state
    /\ Finish(d)
    /\ UNCHANGED <<leaked, brokerVars, arbiterVars>>

(* The connection of the delist is closed; if that fails, so does the call *)
(* and the state stays.  The backend is dropped in both cases.             *)
DelistReturns(d) ==
    /\ call[d].op = "delist" /\ Answered(d)
    /\ \E s \in {"NULL", state[d]} : state' = [state EXCEPT ![d] = s]
    /\ DropMain(d, "none")
    /\ Finish(d)
    /\ UNCHANGED <<leaked, brokerVars, arbiterVars>>

(* Faulty: the wait ends only after too many other answers. *)
GivesUpOnStaleOnly(d) == Waits(d) /\ Cardinality(Stale(d)) > MaxStale

(* No answer within ten seconds, or MaxStale + 1 messages that were not it. *)
GivesUp(d) ==
    /\ Waits(d)
    /\ call[d].id \notin inbox[d] \/ Cardinality(Stale(d)) > MaxStale

(* What the wait has read by then is gone: everything, or the first        *)
(* MaxStale + 1 answers.                                                   *)
Unread(d) ==
    IF Cardinality(Stale(d)) <= MaxStale THEN {}
    ELSE {i \in inbox[d] : Cardinality({j \in inbox[d] : j <= i}) > MaxStale + 1}

(* Faulty: the backend is kept when the arbiter has not confirmed. *)
CallFailsKeepingBackend(d) ==
    /\ GivesUp(d)
    /\ inbox' = [inbox EXCEPT ![d] = Unread(d)]
    /\ Finish(d)
    /\ UNCHANGED <<state, link, replyq, leaked, brokerVars, arbiterVars>>

(* An edge takes the missing answer for a failure, and so does a hub whose *)
(* connection breaks before the wait.  The reply queue stays with the main *)
(* connection; that of a delist stays with a connection that nobody        *)
(* closes.                                                                 *)
CallFails(d) ==
    /\ GivesUp(d)
    /\ d \in Edge \/ call[d].id \notin replyq[d]
    /\ \/ /\ call[d].op # "delist"
          /\ inbox' = [inbox EXCEPT ![d] = Unread(d)]
          /\ UNCHANGED <<link, replyq, leaked>>
       \/ /\ call[d].op = "delist"
          /\ leaked' = [leaked EXCEPT ![d] = @ \cup ({call[d].id} \cap replyq[d])]
          /\ DropMain(d, "none")
    /\ Finish(d)
    /\ UNCHANGED <<state, brokerVars, arbiterVars>>

(* The process of the device ends and all its connections with it; the     *)
(* next one starts in NULL.                                                *)
ProcessEnds(d) ==
    /\ state' = [state EXCEPT ![d] = "NULL"]
    /\ leaked' = [leaked EXCEPT ![d] = {}]
    /\ DropMain(d, "none")
    /\ Finish(d)
    /\ UNCHANGED <<brokerVars, arbiterVars>>

(* In the wait, a hub hands the missing answer to strlen and dies of it. *)
HubGivesUp(d) == d \in Hub /\ GivesUp(d) /\ ProcessEnds(d)

DeviceExits(d) == "exit" \in Faults /\ ProcessEnds(d)

(* A connection breaks: the main one, or that of a pending or failed       *)
(* delist.                                                                 *)
OfDelist(d) == IF call[d].op = "delist" THEN {call[d].id} ELSE {}

MainLinkLost(d) ==
    /\ "link" \in Faults /\ link[d] \in {"open", "closed"}
    /\ link' = [link EXCEPT ![d] = "broken"]
    /\ inbox' = [inbox EXCEPT ![d] = @ \cap OfDelist(d)]
    /\ replyq' = [replyq EXCEPT ![d] = @ \cap OfDelist(d)]
    /\ UNCHANGED <<state, call, leaked, brokerVars, arbiterVars>>

DelistLinkLost(d) ==
    /\ "link" \in Faults
    /\ \E i \in (OfDelist(d) \cap replyq[d]) \cup leaked[d] :
          /\ inbox' = [inbox EXCEPT ![d] = @ \ {i}]
          /\ replyq' = [replyq EXCEPT ![d] = @ \ {i}]
          /\ leaked' = [leaked EXCEPT ![d] = @ \ {i}]
    /\ UNCHANGED <<state, link, call, brokerVars, arbiterVars>>

-----------------------------------------------------------------------------
(* The arbiter.  Its agent enrolls and activates as it starts, with empty  *)
(* lists, or aborts.                                                       *)
ArbiterStarts ==
    /\ arbiter = "down"
    /\ arbiter' = "up"
    /\ UNCHANGED <<deviceVars, brokerVars, entries, lost>>

(* Faulty: requests are taken in any order. *)
Unordered(m) == m \in enrollq

(* The head of the enroll queue. *)
Oldest(m) == m \in enrollq /\ \A n \in enrollq : m.id <= n.id

(* Faulty: an entry per enrolment; a delist that forgets, or strikes blindly. *)
EnlistTwice(n) == n + 1
StrikeNone(n)  == n
StrikeBlind(n) == n - 1

(* edge_enrolled_cb and hub_enrolled_cb append a uid they do not find. *)
Enlist(n) == IF n = 0 THEN 1 ELSE n

(* edge_delisted_cb and hub_delisted_cb remove one entry they find. *)
Strike(n) == IF n > 0 THEN n - 1 ELSE n

(* _process_json_message: the lists change before the reply queue is       *)
(* looked at; an activation is granted without consulting them.            *)
Apply(m) ==
    /\ entries' = [entries EXCEPT ![m.dev] =
           IF m.op = "enroll" THEN Enlist(@)
           ELSE IF m.op = "delist" THEN Strike(@) ELSE @]
    /\ lost' = [lost EXCEPT ![m.dev] = @ /\ m.op # "enroll"]

(* The reply queue exists: the answer is published to it. *)
Answer(m) ==
    /\ arbiter = "up" /\ Oldest(m)
    /\ m.id \in replyq[m.dev] \cup leaked[m.dev]
    /\ Apply(m)
    /\ inbox' = [inbox EXCEPT ![m.dev] = @ \cup ({m.id} \cap replyq[m.dev])]
    /\ enrollq' = enrollq \ {m}
    /\ UNCHANGED <<state, link, call, replyq, leaked, sent, arbiter>>

(* It does not: the passive declare closes the arbiter's channel, nobody   *)
(* opens it again, and the enroll queue goes with its consumer.  Of the    *)
(* waiting requests only a first part has already reached the arbiter.     *)
LosesChannel(m) ==
    /\ arbiter = "up" /\ Oldest(m)
    /\ m.id \notin replyq[m.dev] \cup leaked[m.dev]
    /\ Apply(m)
    /\ arbiter' = "deaf"
    /\ \E last \in 0..MaxReq : enrollq' = {n \in enrollq \ {m} : n.id <= last}
    /\ UNCHANGED <<deviceVars, sent>>

(* A request that had already been delivered to the deaf arbiter: applied, *)
(* and never answered.                                                     *)
AppliesUnheard(m) ==
    /\ arbiter = "deaf" /\ Oldest(m)
    /\ Apply(m)
    /\ enrollq' = enrollq \ {m}
    /\ UNCHANGED <<deviceVars, sent, arbiter>>

(* The arbiter's process ends: the lists were only in its memory, and the  *)
(* enroll queue is deleted with its consumer.                              *)
ArbiterExits ==
    /\ "exit" \in Faults /\ arbiter # "down"
    /\ arbiter' = "down"
    /\ enrollq' = {}
    /\ entries' = [d \in Device |-> 0]
    /\ lost' = [d \in Device |-> TRUE]
    /\ UNCHANGED <<deviceVars, sent>>

Returns(d) ==
    EnrollReturns(d) \/ ActivateReturns(d) \/ DelistReturns(d)
      \/ CallFails(d) \/ HubGivesUp(d) \/ (link[d] = "broken" /\ DeclareFails(d))

DeviceNext(d) ==
    \/ Enroll(d) \/ Activate(d) \/ ActivateBlocks(d) \/ Deactivate(d) \/ Delist(d)
    \/ EnrollReturns(d) \/ ActivateReturns(d) \/ DelistReturns(d)
    \/ CallFails(d) \/ HubGivesUp(d) \/ DeclareFails(d)
    \/ DeviceExits(d) \/ MainLinkLost(d) \/ DelistLinkLost(d)

Handle(m) == Answer(m) \/ LosesChannel(m) \/ AppliesUnheard(m)

ArbiterNext == ArbiterStarts \/ ArbiterExits \/ \E m \in enrollq : Handle(m)

Next == ArbiterNext \/ \E d \in Device : DeviceNext(d)

Spec == Init /\ [][Next]_vars

(* The waits of a device are bounded, except that for a declare on a       *)
(* closed channel while the connection lasts; and the idle source of a     *)
(* listening arbiter takes one message after the other.                    *)
FairSpec ==
    /\ Spec
    /\ \A d \in Device : WF_vars(Returns(d))
    /\ WF_vars(\E m \in enrollq : Answer(m) \/ LosesChannel(m))
-----------------------------------------------------------------------------
(* The device counts on the arbiter: enrolled, not about to leave, and its *)
(* backend still there.                                                    *)
Present(d) == state[d] # "NULL" /\ link[d] # "none" /\ call[d].op # "delist"

(* A device that counts on the arbiter is in the list of the agent that     *)
(* admitted it, whatever became of its earlier requests and its earlier     *)
(* processes: a delist that timed out never strikes out a later enrolment.  *)
EnrolledIsListed == \A d \in Device : Present(d) /\ ~lost[d] => entries[d] > 0

(* When delist reports success, the agent no longer lists the device, even  *)
(* if its processes have enrolled it more than once.                        *)
DelistedIsUnlisted ==
    [][\A d \in Device :
          DelistReturns(d) /\ state'[d] = "NULL" => entries[d] = 0]_vars

(* A node moves to ENROLLED or ACTIVATED on the answer to its own request:  *)
(* by then the arbiter has taken that very request off its queue.           *)
SuccessMeansHandled ==
    [][\A d \in Device :
          EnrollReturns(d) \/ (ActivateReturns(d) /\ state'[d] = "ACTIVATED")
             => \A m \in enrollq : m.id # call[d].id]_vars

(* README.md:49: an activated arbiter is ready to accept requests. *)
ActivatedArbiterListens == arbiter # "deaf"

(* Every request of the application comes back, whatever happens to the     *)
(* arbiter and to connections; the one exception is an activation on a      *)
(* channel that the broker has closed, while the connection itself lasts.   *)
CallsReturn ==
    \A d \in Device :
       ~Idle(d) ~> (Idle(d) \/ (call[d] = Stuck /\ link[d] = "closed"))

(* A delist that was sent takes effect even if the device has stopped       *)
(* waiting for it, unless the arbiter stops listening.                      *)
DelistTakesEffect ==
    \A d \in Device :
       call[d].op = "delist" ~> (entries[d] = 0 \/ arbiter # "up")

(* The arbiter loses its channel on a request that nobody waits for any     *)
(* more; one that is awaited can silence it only if its connection has      *)
(* broken under the waiting device.                                         *)
DeafOnlyByAbandoned ==
    [][\A m \in enrollq : LosesChannel(m) /\ call[m.dev].id = m.id =>
          "link" \in Faults /\ (m.op = "delist" \/ link[m.dev] = "broken")]_vars
-----------------------------------------------------------------------------
(* The inductive invariant behind the safety properties.                   *)

(* Requests are numbered in the order of their publication. *)
QueueNumbered ==
    /\ \A m \in enrollq : m.id <= sent
    /\ \A m, n \in enrollq : m.id = n.id => m = n

(* A blocked device waits for its latest request. *)
CallIsLatest ==
    \A d \in Device : Waits(d) =>
        /\ call[d].id <= sent
        /\ \A m \in enrollq : m.dev = d =>
               /\ m.id <= call[d].id
               /\ (m.id = call[d].id => m.op = call[d].op)

(* What has been answered was queued before everything that waits. *)
AnswersPrecedeQueue ==
    \A d \in Device : \A i \in inbox[d] : i <= sent /\ \A m \in enrollq : i < m.id

(* What a device may be waiting for in each state, and on what. *)
CallFitsState ==
    \A d \in Device :
        /\ (~Idle(d) => link[d] # "none")
        /\ (call[d].op = "enroll" => state[d] = "NULL" /\ link[d] # "fresh")
        /\ (call[d].op = "activate" => state[d] = "ENROLLED")
        /\ (call[d] = Stuck => link[d] \in {"closed", "broken"})
        /\ (state[d] # "NULL" => link[d] # "fresh")

(* Nothing is queued that could strike out a device present at the arbiter. *)
NothingPending ==
    \A d \in Device : Present(d) => \A m \in enrollq : m.dev = d => m.op = "activate"

(* The list between the arbiter's answer and the device reading it. *)
ListMatchesAnswer ==
    \A d \in Device : call[d].id \in inbox[d] =>
        /\ (call[d].op = "enroll" /\ ~lost[d] => entries[d] > 0)
        /\ (call[d].op = "delist" => entries[d] = 0)

ListedOnce == \A d \in Device : entries[d] <= 1

(* The reply queue that a device waits on goes only with its connection,    *)
(* which nothing but a fault takes from a device that waits.                *)
AwaitedQueueLives ==
    \A d \in Device : Waits(d) =>
        \/ call[d].id \in replyq[d]
        \/ "link" \in Faults /\ (call[d].op = "delist" \/ link[d] = "broken")

(* The connections left behind are those of requests given up earlier. *)
LeakedIsGivenUp ==
    \A d \in Device : \A i \in leaked[d] : i <= sent /\ i # call[d].id

IInv ==
    /\ TypeOK /\ QueueNumbered /\ CallIsLatest /\ AnswersPrecedeQueue
    /\ CallFitsState /\ NothingPending /\ ListMatchesAnswer /\ ListedOnce
    /\ EnrolledIsListed /\ AwaitedQueueLives /\ LeakedIsGivenUp
=============================================================================
