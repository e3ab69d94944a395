---------------------------- MODULE NodeThreads -----------------------------
(***************************************************************************)
(* One node used by several threads: chamge/node.c with its mutex and its  *)
(* signal.  examples/arbiter-dummy.c has two, the thread of the main loop  *)
(* and one that reads the keyboard.                                        *)
(*                                                                         *)
(* A request looks at the state without the mutex, calls its class method, *)
(* which may take long, and only then takes the mutex, assigns the state   *)
(* and emits state-changed with the mutex held.  A lazy enrolment, which   *)
(* the main loop runs, emits after it has released the mutex.              *)
(*                                                                         *)
(* The class methods may fail, as those of edges and hubs do.  Activation  *)
(* takes the steps of the arbiter's backend, which adds its idle source    *)
(* before it sets activated; the devices' backends set it first.           *)
(***************************************************************************)
CONSTANTS
    Thread,    \* the threads of the application
    Loop,      \* the one that runs the main loop
    Nobody,    \* the mutex is free, or nobody has activated the node
    Asks       \* the handler of state-changed may take the mutex: it gets
               \* the "state" property or sends the node another request

ASSUME ThreadAssumption == Loop \in Thread /\ Nobody \notin Thread
ASSUME AsksAssumption   == Asks \in BOOLEAN

VARIABLES
    pc,         \* where each thread is in node.c
    op,         \* the request it is in
    said,       \* the argument of its emission of state-changed
    lock,       \* ChamgeNodePrivate.mutex
    state,      \* ChamgeNodePrivate.state
    backend,    \* the class has a backend
    source,     \* the backend's idle source is attached to the main loop
    activated,  \* the backend's flag of that name
    announced,  \* the argument of the latest state-changed
    author,     \* the request that assigned the state last
    speaker,    \* the request that announced it last
    overtaken,  \* threads whose request has seen another assign the state
    raced,      \* requests have been in progress at the same time
    activator   \* the thread that has activated the backend last

history == <<author, speaker, overtaken, raced, activator>>
vars == <<pc, op, said, lock, state, backend, source, activated, announced, history>>

NodeState == {"NULL", "ENROLLED", "ACTIVATED"}
Request   == {"enroll", "activate", "deactivate", "delist"}

(* One invariant on types. *)
TypeOK ==
    /\ pc \in [Thread -> {"idle", "get", "method", "source", "lock", "handler",
                          "frozen", "unlocked", "late"}]
    /\ op \in [Thread -> Request \cup {"none", "timer"}]
    /\ said \in [Thread -> NodeState]
    /\ lock \in Thread \cup {Nobody}
    /\ state \in NodeState
    /\ backend \in BOOLEAN /\ source \in BOOLEAN /\ activated \in BOOLEAN
    /\ announced \in NodeState
    /\ author \in Request \cup {"none", "timer"}
    /\ speaker \in Request \cup {"none", "timer"}
    /\ overtaken \in SUBSET Thread
    /\ raced \in BOOLEAN
    /\ activator \in Thread \cup {Nobody}

Init ==
    /\ pc = [t \in Thread |-> "idle"]
    /\ op = [t \in Thread |-> "none"]
    /\ said = [t \in Thread |-> "NULL"]
    /\ lock = Nobody
    /\ state = "NULL"
    /\ backend = FALSE /\ source = FALSE /\ activated = FALSE
    /\ announced = "NULL"
    /\ author = "none" /\ speaker = "none"
    /\ overtaken = {} /\ raced = FALSE /\ activator = Nobody
-----------------------------------------------------------------------------
(* What a request asks of the state before it starts, and what it makes of *)
(* it when its class method has succeeded.                                 *)
From(o) == CASE o \in {"enroll", "timer"} -> {"NULL"}
             [] o = "activate"            -> {"ENROLLED"}
             [] o = "deactivate"          -> {"ACTIVATED"}
             [] o = "delist"              -> NodeState

To(o) == CASE o \in {"enroll", "timer", "deactivate"} -> "ENROLLED"
           [] o = "activate"                          -> "ACTIVATED"
           [] o = "delist"                            -> "NULL"

(* In a request, and in one between its check and its assignment. *)
Requesting(t) == pc[t] \notin {"idle", "get"}

Busy(t) == pc[t] \in {"method", "source", "lock"}

Goes(t, p) == pc' = [pc EXCEPT ![t] = p]

(* Faulty: the state is not looked at. *)
StartUnchecked(t, o) ==
    /\ pc[t] = "idle"
    /\ Goes(t, "method")
    /\ op' = [op EXCEPT ![t] = o]
    /\ raced' = (raced \/ \E u \in Thread : Requesting(u))
    /\ UNCHANGED <<said, lock, state, backend, source, activated, announced, author,
                   speaker, overtaken, activator>>

(* The checks of a request, without the mutex.  Refused, it is a stutter.  *)
Start(t, o) ==
    /\ pc[t] = "idle" /\ state \in From(o)
    /\ Goes(t, "method")
    /\ op' = [op EXCEPT ![t] = o]
    /\ raced' = (raced \/ \E u \in Thread : Requesting(u))
    /\ UNCHANGED <<said, lock, state, backend, source, activated, announced, author,
                   speaker, overtaken, activator>>

(* A timeout source armed by a lazy enrolment fires in the main loop. *)
TimerFires == Start(Loop, "timer")

(* The class method fails: so it does without a backend.  Enroll has then  *)
(* made one, and delist has dropped the one there was.                     *)
MethodFails(t) ==
    /\ pc[t] = "method"
    /\ Goes(t, "idle")
    /\ overtaken' = overtaken \ {t}
    /\ backend' = (op[t] \in {"enroll", "timer"} \/ (backend /\ op[t] # "delist"))
    /\ source' = (source /\ op[t] # "delist")
    /\ activated' = (activated /\ op[t] # "delist")
    /\ UNCHANGED <<op, said, lock, state, announced, author, speaker, raced, activator>>

EnrollDone(t) ==
    /\ pc[t] = "method" /\ op[t] \in {"enroll", "timer"}
    /\ Goes(t, "lock")
    /\ backend' = TRUE
    /\ UNCHANGED <<op, said, lock, state, source, activated, announced, history>>

(* The source first ... *)
SourceAdded(t) ==
    /\ pc[t] = "method" /\ op[t] = "activate" /\ backend
    /\ Goes(t, "source")
    /\ source' = TRUE
    /\ UNCHANGED <<op, said, lock, state, backend, activated, announced, history>>

(* ... then the flag it looks at. *)
ActivateDone(t) ==
    /\ pc[t] = "source"
    /\ Goes(t, "lock")
    /\ activated' = TRUE
    /\ activator' = t
    /\ UNCHANGED <<op, said, lock, state, backend, source, announced, author, speaker,
                   overtaken, raced>>

DeactivateDone(t) ==
    /\ pc[t] = "method" /\ op[t] = "deactivate" /\ backend
    /\ Goes(t, "lock")
    /\ source' = FALSE /\ activated' = FALSE
    /\ UNCHANGED <<op, said, lock, state, backend, announced, history>>

DelistDone(t) ==
    /\ pc[t] = "method" /\ op[t] = "delist" /\ backend
    /\ Goes(t, "lock")
    /\ backend' = FALSE /\ source' = FALSE /\ activated' = FALSE
    /\ UNCHANGED <<op, said, lock, state, announced, history>>

(* Faulty: the main loop runs while the class method waits. *)
DispatchNested ==
    /\ source /\ ~activated
    /\ source' = FALSE
    /\ UNCHANGED <<pc, op, said, lock, state, backend, activated, announced, history>>

(* The main loop runs the idle source, which removes itself when activated *)
(* is not set.                                                             *)
Dispatch ==
    /\ pc[Loop] = "idle" /\ source /\ ~activated
    /\ source' = FALSE
    /\ UNCHANGED <<pc, op, said, lock, state, backend, activated, announced, history>>

(* Faulty: the mutex is released before the emission. *)
AssignAndRelease(t) ==
    /\ pc[t] = "lock" /\ lock = Nobody
    /\ state' = To(op[t])
    /\ author' = op[t]
    /\ overtaken' = (overtaken \ {t}) \cup {u \in Thread \ {t} : Busy(u)}
    /\ said' = [said EXCEPT ![t] = To(op[t])]
    /\ IF op[t] = "timer" THEN Goes(t, "unlocked") ELSE Goes(t, "handler")
    /\ UNCHANGED <<op, lock, backend, source, activated, announced, speaker, raced, activator>>

(* The mutex is taken and the state assigned, whatever it has become.      *)
(* A request keeps the mutex and emits; a lazy enrolment releases it.      *)
Assign(t) ==
    /\ pc[t] = "lock" /\ lock = Nobody
    /\ state' = To(op[t])
    /\ author' = op[t]
    /\ overtaken' = (overtaken \ {t}) \cup {u \in Thread \ {t} : Busy(u)}
    /\ IF op[t] = "timer"
       THEN Goes(t, "unlocked") /\ UNCHANGED <<lock, said>>
       ELSE /\ Goes(t, "handler")
            /\ lock' = t
            /\ said' = [said EXCEPT ![t] = To(op[t])]
    /\ UNCHANGED <<op, backend, source, activated, announced, speaker, raced, activator>>

(* Faulty: the argument is the request. *)
AnnounceRequest(t) ==
    /\ announced' = op[t]
    /\ speaker' = op[t]

Announce(t) ==
    /\ announced' = said[t]
    /\ speaker' = op[t]

(* Faulty: the mutex is not released. *)
HandlerReturnsLocked(t) ==
    /\ pc[t] = "handler"
    /\ Announce(t)
    /\ Goes(t, "idle")
    /\ UNCHANGED <<op, said, lock, state, backend, source, activated, author, overtaken,
                   raced, activator>>

HandlerReturns(t) ==
    /\ pc[t] = "handler"
    /\ Announce(t)
    /\ Goes(t, "idle")
    /\ lock' = Nobody
    /\ UNCHANGED <<op, said, state, backend, source, activated, author, overtaken,
                   raced, activator>>

(* The mutex is not recursive: the thread waits for itself. *)
HandlerAsks(t) ==
    /\ pc[t] = "handler" /\ Asks
    /\ Announce(t)
    /\ Goes(t, "frozen")
    /\ UNCHANGED <<op, said, lock, state, backend, source, activated, author, overtaken,
                   raced, activator>>

(* The lazy enrolment reads the state again for its announcement, and then *)
(* announces it, to a handler that may ask: it only waits for the mutex.   *)
ReadsState(t) ==
    /\ pc[t] = "unlocked"
    /\ said' = [said EXCEPT ![t] = state]
    /\ Goes(t, "late")
    /\ UNCHANGED <<op, lock, state, backend, source, activated, announced, history>>

AnnouncesLate(t) ==
    /\ pc[t] = "late"
    /\ Announce(t)
    /\ Goes(t, "idle") \/ (Asks /\ Goes(t, "get"))
    /\ UNCHANGED <<op, said, lock, state, backend, source, activated, author, overtaken,
                   raced, activator>>

(* g_object_get of "state". *)
Get(t) ==
    /\ pc[t] = "idle"
    /\ Goes(t, "get")
    /\ UNCHANGED <<op, said, lock, state, backend, source, activated, announced, history>>

Gets(t) ==
    /\ pc[t] = "get" /\ lock = Nobody
    /\ Goes(t, "idle")
    /\ UNCHANGED <<op, said, lock, state, backend, source, activated, announced, history>>

MethodReturns(t) ==
    \/ MethodFails(t) \/ EnrollDone(t) \/ SourceAdded(t) \/ ActivateDone(t)
    \/ DeactivateDone(t) \/ DelistDone(t)

Emits(t) == HandlerReturns(t) \/ HandlerAsks(t) \/ ReadsState(t) \/ AnnouncesLate(t)

TakesMutex(t) == Assign(t) \/ Gets(t)

Next ==
    \/ TimerFires \/ Dispatch
    \/ \E t \in Thread :
          \/ \E o \in Request : Start(t, o)
          \/ Get(t) \/ MethodReturns(t) \/ TakesMutex(t) \/ Emits(t)

Spec == Init /\ [][Next]_vars

(* Every thread runs, every class method comes back, and a thread that     *)
(* waits for the mutex gets it if it is released again and again.          *)
FairSpec ==
    /\ Spec
    /\ \A t \in Thread :
          /\ WF_vars(MethodReturns(t)) /\ WF_vars(Emits(t))
          /\ SF_vars(TakesMutex(t))
-----------------------------------------------------------------------------
Lifecycle == INSTANCE NodeLifecycle WITH DelistFrom <- {"ENROLLED", "ACTIVATED"}

(* The check of a request and its assignment are not one critical section   *)
(* (node.c:246 and 285).  A request that no other request overtakes between *)
(* the two still moves the state along the lifecycle.                       *)
OnlyOvertakenBreakLifecycle ==
    [][\A t \in Thread : Assign(t) /\ t \notin overtaken =>
          Lifecycle!Next \/ UNCHANGED state]_vars

(* Requests one at a time, from whatever threads, keep the whole lifecycle: *)
(* what ChamgeNode says of the thread of the main loop alone holds of any   *)
(* use of the node in which no two requests overlap.                        *)
SerialKeepsLifecycle == [][~raced => [Lifecycle!Next]_state]_vars

(* A handler that asks the node (node.c:286) stops it for good: its thread  *)
(* never comes back, nor does any thread that needs the mutex, and the      *)
(* state never changes again.                                               *)
FrozenForGood ==
    [][\A t \in Thread : pc[t] = "frozen" =>
          /\ pc'[t] = "frozen" /\ state' = state
          /\ \A u \in Thread : pc[u] \in {"lock", "get"} => pc'[u] = pc[u]]_vars

(* Whenever the mutex is free, the application has last heard of the        *)
(* present state, unless a lazy enrolment was the last to assign it or to   *)
(* speak: it emits without the mutex (node.c:229-231), so its news may come *)
(* after newer ones.                                                        *)
HeardInOrder ==
    lock = Nobody /\ author # "timer" /\ speaker # "timer" => announced = state

(* Requests one at a time, from whatever thread: an arbiter that the thread *)
(* of the main loop has activated keeps its source.  Another thread may     *)
(* lose it to the main loop between the steps of amqp-arbiter-backend.c:    *)
(* 507-508.                                                                 *)
ListensIfLoopActivates ==
    /\ \A t \in Thread : ~Requesting(t)
    /\ ~raced /\ activator = Loop
    /\ state = "ACTIVATED" /\ backend
    => source

(* Every request and every get comes back, unless the handler of another    *)
(* request asks the node (node.c:286).  A lazy enrolment's handler may ask. *)
RequestsReturn ==
    \A t \in Thread :
       pc[t] # "idle" ~>
          (pc[t] = "idle" \/ \E u \in Thread : pc[u] = "frozen" /\ op[u] # "timer")
-----------------------------------------------------------------------------
(* The inductive invariant behind the safety properties.                   *)

(* A request that was not overtaken finds the state as it has checked it.  *)
StateAsChecked ==
    \A t \in Thread : Busy(t) /\ t \notin overtaken => state \in From(op[t])

(* Each place in node.c goes with certain requests.                        *)
OpFitsPlace ==
    \A t \in Thread :
        /\ Requesting(t) => op[t] # "none"
        /\ pc[t] = "source" => op[t] = "activate"
        /\ pc[t] \in {"handler", "frozen"} => op[t] # "timer"
        /\ pc[t] \in {"unlocked", "late"} => op[t] = "timer"

(* Who emits under the mutex holds it, and announces what is the case.     *)
HolderSpeaks ==
    \A t \in Thread :
        /\ lock = t <=> pc[t] \in {"handler", "frozen"}
        /\ lock = t => said[t] = state

(* Requests one at a time: what the only one in progress has done so far.  *)
Steady ==
    ~raced =>
        /\ \A t, u \in Thread : Requesting(t) /\ Requesting(u) => t = u
        /\ overtaken = {}
        /\ state = "ACTIVATED" /\ backend =>
              activated \/ \E t \in Thread : pc[t] = "lock" /\ op[t] = "deactivate"
        /\ activated /\ activator = Loop => source
        /\ pc[Loop] = "source" => source
        /\ \A t \in Thread : pc[t] = "lock" /\ op[t] = "activate" => activated

IInv ==
    /\ TypeOK /\ StateAsChecked /\ OpFitsPlace /\ HolderSpeaks /\ Steady
    /\ HeardInOrder /\ ListensIfLoopActivates
=============================================================================
