---------------------------- MODULE ArbiterAgent ----------------------------
(***************************************************************************)
(* The process of the arbiter: agent/arbiter-agent.c with its D-Bus        *)
(* methods, the arbiter class (chamge/arbiter.c, arbiter-backend.c) and    *)
(* the AMQP backends it creates and drops, chamge/amqp-arbiter-backend.c.  *)
(*                                                                         *)
(* Registration has one backend that is there or not.  Here the operator   *)
(* deactivates, delists, enrolls and activates the arbiter over D-Bus, so  *)
(* backends come and go, and a backend may outlive its delist: each        *)
(* callback to the agent takes a reference to it that nobody releases.     *)
(*                                                                         *)
(* The broker hands a request to one of the consumers of the enroll queue  *)
(* as soon as there is one, and forgets it.                                *)
(***************************************************************************)
EXTENDS Naturals, FiniteSets

CONSTANTS
    Edge, Hub,    \* the devices, by uid
    Backend,      \* ChamgeAmqpArbiterBackend objects; bounds those in existence
    NoBackend,    \* priv->arbiter_backend is NULL
    MaxReq        \* bound on the requests published in a behaviour

ASSUME DeviceAssumption  == Edge \cap Hub = {}
ASSUME BackendAssumption == NoBackend \notin Backend
ASSUME RequestAssumption == MaxReq \in Nat

VARIABLES
    (* the process *)
    agent,     \* "down"; "starting" or "enrolling": blocked in an enrolment,
               \* at startup or for D-Bus; "up": in its main loop;
               \* "commanding": blocked in user_command; "stuck": for good
               \* in the handler, waiting on a channel that is closed
    command,   \* the user command it is blocked in, or NoCommand
    listed,    \* ChamgeArbiterAgent.edges and .hubs
    state,     \* ChamgeNodePrivate.state of the arbiter
    backend,   \* priv->arbiter_backend
    serving,   \* backends with an idle source and activated set
    held,      \* backends with a reference that a callback has leaked
    ended,     \* why the latest process has ended, or "none"
    (* the broker and its connections to the backends *)
    conn,      \* "none"; "open"; "consuming"; "deaf": its channel was closed;
               \* "closing": gone, and the broker has not noticed
    queue,     \* the enroll queue exists
    hurried,   \* it was declared while a connection was "closing"
    sent,      \* number of requests published
    waiting,   \* requests in the enroll queue, which has no consumer
    buffer,    \* requests delivered on the connection and not read
    orphan     \* requests whose reply queue is gone

processVars == <<agent, command, listed, state, backend, serving, held, ended>>
brokerVars  == <<conn, queue, hurried, sent, waiting, buffer, orphan>>
vars == <<processVars, brokerVars>>

Device  == Edge \cup Hub
ReqId   == 1..MaxReq
Op      == {"enroll", "delist", "activate"}
Request == [id : ReqId, dev : Device, op : Op]

(* What the agent's check of a command tells apart: streamingStart,        *)
(* streamingStop and getUrl; any other method; and none.                   *)
Method    == {"streaming", "other", "none"}
Command   == [method : Method, to : Device]
NoCommand == [method |-> "none", to |-> "nobody"]

(* One invariant on types. *)
TypeOK ==
    /\ agent \in {"down", "starting", "enrolling", "up", "commanding", "stuck"}
    /\ command \in Command \cup {NoCommand}
    /\ listed \in SUBSET Device
    /\ state \in {"NULL", "ENROLLED", "ACTIVATED"}
    /\ backend \in Backend \cup {NoBackend}
    /\ serving \in SUBSET Backend
    /\ held \in SUBSET Backend
    /\ ended \in {"none", "refused", "noqueue", "self", "exit"}
    /\ conn \in [Backend -> {"none", "open", "consuming", "deaf", "closing"}]
    /\ queue \in BOOLEAN
    /\ hurried \in BOOLEAN
    /\ sent \in 0..MaxReq
    /\ waiting \in SUBSET Request
    /\ buffer \in [Backend -> SUBSET Request]
    /\ orphan \in SUBSET ReqId

Init ==
    /\ agent = "down" /\ command = NoCommand
    /\ listed = {}
    /\ state = "NULL"
    /\ backend = NoBackend
    /\ serving = {} /\ held = {}
    /\ ended = "none"
    /\ conn = [b \in Backend |-> "none"]
    /\ queue = FALSE /\ hurried = FALSE
    /\ sent = 0
    /\ waiting = {} /\ buffer = [b \in Backend |-> {}]
    /\ orphan = {}
-----------------------------------------------------------------------------
Consumers(c) == {b \in Backend : c[b] \in {"consuming", "closing"}}

(* A connection ends without a word: amqp_destroy_connection only closes   *)
(* the socket, like the kernel when the process ends.                      *)
Cut(c) == IF c \in {"consuming", "closing"} THEN "closing" ELSE "none"

(* g_error, or a signal: the process ends, the next one starts from NULL.  *)
Ends(why) ==
    /\ agent' = "down" /\ command' = NoCommand
    /\ listed' = {}
    /\ state' = "NULL"
    /\ backend' = NoBackend
    /\ serving' = {} /\ held' = {}
    /\ ended' = why
    /\ conn' = [b \in Backend |-> Cut(conn[b])]
    /\ buffer' = [b \in Backend |-> {}]
    /\ UNCHANGED <<queue, hurried, sent, waiting, orphan>>

(* Faulty: the queue is declared passively. *)
DeclarePassively ==
    /\ \E b \in Backend \ held :
          /\ conn[b] = "none"
          /\ backend' = b
          /\ conn' = [conn EXCEPT ![b] = "open"]
    /\ hurried' = (\E b \in Backend : conn[b] = "closing")
    /\ UNCHANGED <<command, listed, state, serving, held, queue, sent, waiting, buffer, orphan>>

(* chamge_amqp_arbiter_backend_enroll of a new backend, up to the queue's  *)
(* declaration.                                                            *)
Declare ==
    /\ \E b \in Backend \ held :
          /\ conn[b] = "none"
          /\ backend' = b
          /\ conn' = [conn EXCEPT ![b] = "open"]
    /\ queue' = TRUE
    /\ hurried' = (\E b \in Backend : conn[b] = "closing")
    /\ UNCHANGED <<command, listed, state, serving, held, sent, waiting, buffer, orphan>>

(* startup: creates the node, enrolls and activates it.                    *)
Startup ==
    /\ agent = "down"
    /\ agent' = "starting"
    /\ ended' = "none"
    /\ Declare

(* Faulty: an enrolment whatever the state. *)
EnrollUnchecked ==
    /\ agent = "up"
    /\ IF state = "NULL" /\ backend = NoBackend
       THEN agent' = "enrolling" /\ Declare /\ UNCHANGED ended
       ELSE Ends("self")

(* The D-Bus method Enroll.  The agent looks at the state first; a backend *)
(* that is still there would not open its socket again, which is fatal.    *)
Enroll ==
    /\ agent = "up" /\ state = "NULL"
    /\ IF backend = NoBackend
       THEN agent' = "enrolling" /\ Declare /\ UNCHANGED ended
       ELSE Ends("self")

(* The consumer is there and takes what has been waiting.  Startup goes on *)
(* to activate at once.                                                    *)
EnrollReturns ==
    /\ agent \in {"starting", "enrolling"} /\ queue
    /\ conn' = [conn EXCEPT ![backend] = "consuming"]
    /\ buffer' = [buffer EXCEPT ![backend] = waiting]
    /\ waiting' = {}
    /\ agent' = "up"
    /\ IF agent = "starting"
       THEN state' = "ACTIVATED" /\ serving' = serving \cup {backend}
       ELSE state' = "ENROLLED" /\ UNCHANGED serving
    /\ UNCHANGED <<command, listed, backend, held, ended, queue, hurried, sent, orphan>>

(* The bind or the consume finds that the queue has been deleted.          *)
QueueVanished == agent \in {"starting", "enrolling"} /\ ~queue /\ Ends("noqueue")

(* The broker does not accept the connection.                              *)
Refused ==
    /\ agent = "down" \/ (agent = "up" /\ state = "NULL" /\ backend = NoBackend)
    /\ Ends("refused")

(* chamge_node_activate refuses a node whose backend is NULL, which the    *)
(* agent takes for a reason to end.                                        *)
Activate ==
    /\ agent = "up" /\ state = "ENROLLED"
    /\ IF backend # NoBackend
       THEN /\ state' = "ACTIVATED"
            /\ serving' = serving \cup {backend}
            /\ UNCHANGED <<agent, command, listed, backend, held, ended, brokerVars>>
       ELSE Ends("self")

(* Faulty: deactivation cancels the consumer, with what it was delivered.   *)
DeactivateCancels ==
    /\ agent = "up" /\ state = "ACTIVATED" /\ backend # NoBackend
    /\ state' = "ENROLLED"
    /\ serving' = serving \ {backend}
    /\ buffer' = [buffer EXCEPT ![backend] = {}]
    /\ UNCHANGED <<agent, command, listed, backend, held, ended, conn, queue,
                   hurried, sent, waiting, orphan>>

(* The consumer on the enroll queue stays. *)
Deactivate ==
    /\ agent = "up" /\ state = "ACTIVATED" /\ backend # NoBackend
    /\ state' = "ENROLLED"
    /\ serving' = serving \ {backend}
    /\ UNCHANGED <<agent, command, listed, backend, held, ended, brokerVars>>

(* Faulty: the idle source and the connection stay. *)
DisposeForgotten(b) == UNCHANGED <<serving, conn, buffer>>

(* Faulty: the connection stays. *)
DisposeKeepsConnection(b) ==
    /\ serving' = serving \ {b}
    /\ UNCHANGED <<conn, buffer>>

(* The last reference goes: the idle source is removed, the connection cut *)
(* with what was delivered on it.                                          *)
Dispose(b) ==
    /\ serving' = serving \ {b}
    /\ conn' = [conn EXCEPT ![b] = Cut(@)]
    /\ buffer' = [buffer EXCEPT ![b] = {}]

(* The D-Bus method Delist: the state is not looked at, the backend never  *)
(* objects, and the lists stay.  A backend that has leaked a reference is  *)
(* left behind as it is, activated or not.                                 *)
Delist ==
    /\ agent = "up" /\ backend # NoBackend
    /\ state' = "NULL"
    /\ backend' = NoBackend
    /\ \/ backend \in held /\ UNCHANGED <<serving, conn, buffer>>
       \/ backend \notin held /\ Dispose(backend)
    /\ UNCHANGED <<agent, command, listed, held, ended, queue, hurried, sent, waiting, orphan>>

(* handle_user_command: edges for the streaming methods, hubs for others.  *)
Allows(c) ==
    CASE c.method = "streaming" -> c.to \in listed \cap Edge
      [] c.method = "other"     -> c.to \in listed \cap Hub
      [] c.method = "none"      -> TRUE

(* The call blocks the main loop, on a connection of its own.              *)
UserCommand(c) ==
    /\ agent = "up" /\ state = "ACTIVATED" /\ Allows(c)
    /\ agent' = "commanding"
    /\ command' = c
    /\ UNCHANGED <<listed, state, backend, serving, held, ended, brokerVars>>

CommandReturns ==
    /\ agent = "commanding"
    /\ agent' = "up"
    /\ command' = NoCommand
    /\ UNCHANGED <<listed, state, backend, serving, held, ended, brokerVars>>

Exits == agent # "down" /\ Ends("exit")
-----------------------------------------------------------------------------
(* A device finds the queue and publishes.  With several consumers the     *)
(* broker takes turns; what goes to a cut connection is lost.              *)
Publish(d, op) ==
    /\ queue /\ sent < MaxReq
    /\ sent' = sent + 1
    /\ LET m == [id |-> sent + 1, dev |-> d, op |-> op] IN
       \/ /\ Consumers(conn) = {}
          /\ waiting' = waiting \cup {m}
          /\ UNCHANGED buffer
       \/ \E b \in Consumers(conn) :
          /\ buffer' = IF conn[b] = "closing" THEN buffer
                       ELSE [buffer EXCEPT ![b] = @ \cup {m}]
          /\ UNCHANGED waiting
    /\ UNCHANGED <<processVars, conn, queue, hurried, orphan>>

Pending == waiting \cup UNION {buffer[b] : b \in Backend}

(* A device gives up on a request that waits, and its reply queue goes.    *)
GivesUp(m) ==
    /\ orphan' = orphan \cup {m.id}
    /\ UNCHANGED <<processVars, conn, queue, hurried, sent, waiting, buffer>>

(* The auto-delete queue goes with its last consumer. *)
DropConsumer(c) ==
    /\ conn' = c
    /\ queue' = (queue /\ Consumers(c) # {})
    /\ waiting' = IF Consumers(c) = {} THEN {} ELSE waiting

(* The broker learns that a connection is gone, and may drop a queue that  *)
(* a new backend has declared and does not consume yet.                    *)
BrokerNotices(b) ==
    /\ conn[b] = "closing"
    /\ DropConsumer([conn EXCEPT ![b] = "none"])
    /\ UNCHANGED <<processVars, hurried, sent, buffer, orphan>>

Oldest(b, m) == m \in buffer[b] /\ \A n \in buffer[b] : m.id <= n.id

(* The agent's list, by its callbacks. *)
Relist(m) ==
    listed' = CASE m.op = "enroll"   -> listed \cup {m.dev}
                [] m.op = "delist"   -> listed \ {m.dev}
                [] m.op = "activate" -> listed

(* Faulty: the reference is to the arbiter's present backend. *)
LeaksCurrent(b, m) == held' = IF m.op = "activate" THEN held ELSE held \cup {backend}

(* The callbacks put the backend into a GValue and never unset it.         *)
Leaks(b, m) == held' = IF m.op = "activate" THEN held ELSE held \cup {b}

(* Faulty: the main loop runs inside user_command. *)
HandleNested(b, m) ==
    /\ agent \in {"up", "commanding"} /\ b \in serving
    /\ Oldest(b, m)
    /\ Relist(m)
    /\ Leaks(b, m)
    /\ buffer' = [buffer EXCEPT ![b] = @ \ {m}]
    /\ UNCHANGED <<agent, command, state, backend, serving, ended, conn, queue, hurried, sent, waiting, orphan>>

(* Faulty: a request whose reply queue is gone stays in the buffer. *)
HandleIfAwaited(b, m) ==
    /\ agent = "up" /\ b \in serving
    /\ Oldest(b, m) /\ m.id \notin orphan
    /\ Relist(m)
    /\ Leaks(b, m)
    /\ buffer' = [buffer EXCEPT ![b] = @ \ {m}]
    /\ agent' \in IF conn[b] = "deaf" THEN {"up", "stuck"} ELSE {"up"}
    /\ UNCHANGED <<command, state, backend, serving, ended, conn, queue, hurried,
                   sent, waiting, orphan>>

(* One run of the idle source, _process_amqp_message.  The passive declare *)
(* of a reply queue that is gone costs the backend its channel; one on a   *)
(* channel that is closed already fails, or waits without a time limit for *)
(* an answer that the broker never sends.                                  *)
Handle(b, m) ==
    /\ agent = "up" /\ b \in serving
    /\ Oldest(b, m)
    /\ Relist(m)
    /\ Leaks(b, m)
    /\ buffer' = [buffer EXCEPT ![b] = @ \ {m}]
    /\ agent' \in IF conn[b] = "deaf" THEN {"up", "stuck"} ELSE {"up"}
    /\ IF m.id \in orphan /\ conn[b] = "consuming"
       THEN DropConsumer([conn EXCEPT ![b] = "deaf"])
       ELSE UNCHANGED <<conn, queue, waiting>>
    /\ UNCHANGED <<command, state, backend, serving, ended, hurried, sent, orphan>>

Serves(b) == \E m \in buffer[b] : Handle(b, m)

Next ==
    \/ Startup \/ Enroll \/ EnrollReturns \/ QueueVanished \/ Refused
    \/ Activate \/ Deactivate \/ Delist
    \/ \E c \in Command : UserCommand(c)
    \/ CommandReturns \/ Exits
    \/ \E d \in Device, op \in Op : Publish(d, op)
    \/ \E m \in Pending : GivesUp(m)
    \/ \E b \in Backend : BrokerNotices(b) \/ Serves(b)

Spec == Init /\ [][Next]_vars

(* The calls that block the main loop end, and the main loop runs an idle  *)
(* source that stays ready.                                                *)
FairSpec ==
    /\ Spec
    /\ WF_vars(EnrollReturns \/ QueueVanished)
    /\ WF_vars(CommandReturns)
    /\ \A b \in Backend : WF_vars(Serves(b))
-----------------------------------------------------------------------------
(* A backend that is not the arbiter's own has a connection only because a  *)
(* callback leaked a reference to it: without that leak a delist ends all   *)
(* that the backend does (amqp-arbiter-backend.c:831-848).                  *)
Live(b) == conn[b] \in {"open", "consuming", "deaf"}

LeftBehindOnlyByCallback ==
    \A b \in Backend \ {backend} : Live(b) \/ b \in serving => b \in held

(* "check state to prevent terminating agent in case of it is called        *)
(* redundantly by dbus" (arbiter-agent.c:209 and 234): no sequence of D-Bus *)
(* calls makes the agent end because its own node refuses a request.  A     *)
(* Delist followed by an Enroll may still end it: see the next property.    *)
NeverSelfInflicted == ended # "self"

(* An enrolment finds its queue gone under it only if, when it declared the *)
(* queue, the broker had not yet noticed the end of an older connection: an *)
(* operator who waits for that between Delist and Enroll, or between two    *)
(* processes, is safe.                                                      *)
QueueLostOnlyWhileClosing == ended = "noqueue" => hurried

(* Requests are handled in the order of their publication, unless a backend *)
(* that a callback has kept alive takes part.                               *)
HandledInTurn ==
    [][\A b \in Backend : \A m \in buffer[b] : Handle(b, m) =>
          \A c \in Backend : \A n \in buffer[c] :
             n.id < m.id => b \in held \/ c \in held]_vars

(* However backends come and go, no request is handled twice: one that has  *)
(* been handled is nowhere any more, and nothing puts an old one back.      *)
HandledOnce ==
    [][/\ \A b \in Backend : \A m \in buffer[b] :
             Handle(b, m) => \A n \in Pending' : n.id # m.id
       /\ \A n \in Pending' \ Pending : n.id > sent]_vars

(* A request that waits or is delivered is forgotten only with the backend  *)
(* it was delivered to, by a delist that no leaked reference holds up or by *)
(* the end of the process; what waits in the queue is not forgotten at all. *)
ForgottenOnlyWithBackend ==
    [][\A m \in Pending \ Pending' :
          \E b \in Backend : /\ m \in buffer[b]
                            /\ \/ Handle(b, m)
                               \/ agent' = "down"
                               \/ Delist /\ b = backend /\ b \notin held]_vars

(* While a streaming command is under way its edge stays in the list that   *)
(* admitted it, and a command with another method its hub: the blocked main *)
(* loop handles no delist.                                                  *)
CommandedIsListed ==
    agent = "commanding" =>
        /\ command.method = "streaming" => command.to \in listed \cap Edge
        /\ command.method = "other"     => command.to \in listed \cap Hub

(* What was delivered while the arbiter was deactivated is not forgotten:   *)
(* a request in the buffer of a backend that serves is handled, whether or  *)
(* not its reply queue is still there, unless the backend stops serving,    *)
(* calls take the main loop away again and again, or a handler on a closed  *)
(* channel has taken it for good.                                           *)
DeliveredHandled ==
    []<>(agent \notin {"up", "stuck"}) \/
      \A b \in Backend, i \in ReqId :
         (\E m \in buffer[b] : m.id = i) ~>
            \/ b \notin serving
            \/ \A m \in buffer[b] : m.id # i
            \/ agent = "stuck" /\ \E c \in serving : conn[c] = "deaf"

(* README.md:49: an activated arbiter is ready to accept requests.  What is *)
(* published then is delivered to a backend that serves, or to nobody.      *)
ActivatedTakesRequests ==
    [][\A d \in Device, op \in Op : Publish(d, op) /\ state = "ACTIVATED" =>
          \A b \in Backend \ serving : buffer'[b] = buffer[b]]_vars
-----------------------------------------------------------------------------
(* The inductive invariant behind the safety properties.                   *)

(* Outside an enrolment the arbiter has a backend exactly if it is not in  *)
(* NULL, and the backend serves exactly if it is ACTIVATED.                *)
BackendFitsState ==
    /\ agent \in {"up", "commanding", "stuck"} => (backend = NoBackend <=> state = "NULL")
    /\ agent \in {"starting", "enrolling"} => backend # NoBackend /\ state = "NULL"
    /\ agent = "down" => backend = NoBackend /\ state = "NULL"
    /\ backend \in serving <=> state = "ACTIVATED"

(* The arbiter's own backend has a connection, and no other has less.      *)
ConnFitsBackend ==
    /\ backend # NoBackend => Live(backend)
    /\ \A b \in held : Live(b)
    /\ \A b \in Backend : buffer[b] # {} => conn[b] \in {"consuming", "deaf"}

(* A running process has not ended. *)
EndedIsDown == agent # "down" => ended = "none"

QueueFitsEnrolment ==
    agent \in {"starting", "enrolling"} =>
        /\ queue \/ hurried
        /\ (\E b \in Backend : conn[b] = "closing") => hurried

(* A request is in one place, and one place has it once. *)
PlacedOnce ==
    /\ \A m \in Pending : m.id <= sent
    /\ \A m, n \in Pending : m.id = n.id => m = n
    /\ \A b \in Backend : waiting \cap buffer[b] = {}
    /\ \A b, c \in Backend : b # c => buffer[b] \cap buffer[c] = {}

(* Requests wait for want of a consumer, and nothing has been delivered to  *)
(* the backend of an enrolment.                                             *)
WaitsForConsumer ==
    /\ waiting # {} => Consumers(conn) = {}
    /\ agent \in {"starting", "enrolling"} => conn[backend] = "open"

PlaceInv == PlacedOnce /\ WaitsForConsumer

IInv ==
    /\ TypeOK /\ BackendFitsState /\ ConnFitsBackend /\ EndedIsDown
    /\ QueueFitsEnrolment /\ LeftBehindOnlyByCallback /\ NeverSelfInflicted
    /\ QueueLostOnlyWhileClosing /\ CommandedIsListed
=============================================================================
