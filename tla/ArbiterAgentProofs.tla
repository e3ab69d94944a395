------------------------- MODULE ArbiterAgentProofs -------------------------
(* The safety of the arbiter's process for any sets of devices and of       *)
(* backends and any number of requests.                                     *)
EXTENDS ArbiterAgent, TLAPS

USE BackendAssumption, RequestAssumption DEF BackendAssumption, RequestAssumption
-----------------------------------------------------------------------------
(* An enrolment that has declared its queue keeps all parts of the invariant. *)
LEMMA DeclareInv ==
    ASSUME IInv, Declare, ended' = "none", agent \in {"down", "up"},
           state = "NULL", backend = NoBackend, agent' \in {"starting", "enrolling"}
    PROVE  IInv'
<1> USE DEF IInv
<1>1. PICK b \in Backend \ held : /\ conn[b] = "none" /\ backend' = b
                                  /\ conn' = [conn EXCEPT ![b] = "open"]
  BY DEF Declare
<1>2. TypeOK'
  BY <1>1 DEF Declare, TypeOK
<1>3. b \notin serving
  BY <1>1 DEF LeftBehindOnlyByCallback, TypeOK
<1>4. BackendFitsState' /\ ConnFitsBackend'
  BY <1>1, <1>3 DEF Declare, TypeOK, BackendFitsState, ConnFitsBackend, Live
<1>5. LeftBehindOnlyByCallback'
  BY <1>1, <1>3 DEF Declare, TypeOK, LeftBehindOnlyByCallback, Live
<1>6. QueueFitsEnrolment'
  BY <1>1 DEF Declare, TypeOK, QueueFitsEnrolment
<1>7. QED
  BY <1>2, <1>4, <1>5, <1>6
  DEF Declare, EndedIsDown, NeverSelfInflicted, QueueLostOnlyWhileClosing, CommandedIsListed

(* A publication adds one well-formed request, to the queue or to a buffer. *)
LEMMA PublishInv ==
    ASSUME IInv, NEW d \in Device, NEW op \in Op, Publish(d, op)
    PROVE  IInv'
<1> DEFINE m == [id |-> sent + 1, dev |-> d, op |-> op]
<1> USE DEF IInv
<1>1. sent + 1 \in ReqId /\ sent' \in 0..MaxReq
  BY DEF Publish, TypeOK, ReqId
<1>2. m \in Request
  BY <1>1 DEF Request
<1>3. \/ waiting' = waiting \cup {m} /\ UNCHANGED buffer
      \/ UNCHANGED waiting /\ \E b \in Consumers(conn) :
            buffer' = IF conn[b] = "closing" THEN buffer
                      ELSE [buffer EXCEPT ![b] = @ \cup {m}]
  BY DEF Publish
<1>4. TypeOK'
  BY <1>1, <1>2, <1>3 DEF Publish, TypeOK, Consumers, processVars
<1>5. ConnFitsBackend'
  BY <1>3 DEF Publish, TypeOK, ConnFitsBackend, Consumers, Live, processVars
<1>6. QED
  BY <1>4, <1>5 DEF Publish, processVars, BackendFitsState, QueueFitsEnrolment, EndedIsDown,
     LeftBehindOnlyByCallback, Live, NeverSelfInflicted, QueueLostOnlyWhileClosing,
     CommandedIsListed

(* The invariant holds initially.                                           *)
LEMMA InvInit == Init => IInv
<1> SUFFICES ASSUME Init PROVE IInv
  OBVIOUS
<1>1. TypeOK
  <2>1. conn \in [Backend -> {"none", "open", "consuming", "deaf", "closing"}]
    BY DEF Init
  <2>2. buffer \in [Backend -> SUBSET Request]
    BY DEF Init
  <2>3. sent \in 0..MaxReq
    BY DEF Init
  <2>4. QED
    BY <2>1, <2>2, <2>3 DEF Init, TypeOK
<1>2. BackendFitsState /\ ConnFitsBackend /\ LeftBehindOnlyByCallback
  BY DEF Init, BackendFitsState, ConnFitsBackend, LeftBehindOnlyByCallback, Live
<1>3. QED
  BY <1>1, <1>2 DEF Init, IInv, EndedIsDown, QueueFitsEnrolment, NeverSelfInflicted,
     QueueLostOnlyWhileClosing, CommandedIsListed

(* Every step keeps it.                                                     *)
LEMMA InvNext == IInv /\ [Next]_vars => IInv'
<1> SUFFICES ASSUME IInv, [Next]_vars PROVE IInv'
  OBVIOUS
<1> USE DEF IInv, TypeOK, BackendFitsState, ConnFitsBackend, QueueFitsEnrolment, EndedIsDown,
            LeftBehindOnlyByCallback, NeverSelfInflicted, QueueLostOnlyWhileClosing,
            CommandedIsListed, Live
<1>1. CASE Startup
  BY <1>1, DeclareInv DEF Startup
<1>2. CASE Enroll
  BY <1>2, DeclareInv DEF Enroll
<1>3. CASE EnrollReturns
  BY <1>3 DEF EnrollReturns
<1>4. CASE QueueVanished
  BY <1>4 DEF QueueVanished, Ends, Cut
<1>5. CASE Refused
  BY <1>5 DEF Refused, Ends, Cut
<1>6. CASE Activate
  BY <1>6 DEF Activate, brokerVars
<1>7. CASE Deactivate
  BY <1>7 DEF Deactivate, brokerVars
<1>8. CASE Delist
  BY <1>8 DEF Delist, Dispose, Cut
<1>9. ASSUME NEW c \in Command, UserCommand(c) PROVE IInv'
  BY <1>9 DEF UserCommand, Allows, Command, Method, brokerVars
<1>10. CASE CommandReturns
  BY <1>10 DEF CommandReturns, brokerVars
<1>11. CASE Exits
  BY <1>11 DEF Exits, Ends, Cut
<1>12. ASSUME NEW d \in Device, NEW op \in Op, Publish(d, op) PROVE IInv'
  BY <1>12, PublishInv
<1>13. ASSUME NEW m \in Pending, GivesUp(m) PROVE IInv'
  BY <1>13 DEF GivesUp, Pending, Request, processVars
<1>14. ASSUME NEW b \in Backend, BrokerNotices(b) PROVE IInv'
  BY <1>14 DEF BrokerNotices, DropConsumer, Consumers, processVars
<1>15. ASSUME NEW b \in Backend, NEW m \in buffer[b], Handle(b, m) PROVE IInv'
  <2>1. m \in Request
    BY <1>15
  <2>2. listed' \in SUBSET Device /\ held' \in SUBSET Backend /\ held \subseteq held'
    BY <1>15, <2>1 DEF Handle, Relist, Leaks, Request, Op
  <2>0. agent' \in {"up", "stuck"} /\ agent = "up"
    BY <1>15 DEF Handle
  <2>3. CASE m.id \in orphan /\ conn[b] = "consuming"
    BY <1>15, <2>0, <2>2, <2>3 DEF Handle, DropConsumer, Leaks
  <2>4. CASE ~(m.id \in orphan /\ conn[b] = "consuming")
    BY <1>15, <2>0, <2>2, <2>4 DEF Handle, Leaks
  <2>5. QED
    BY <2>3, <2>4
<1>16. CASE UNCHANGED vars
  BY <1>16 DEF vars, processVars, brokerVars
<1>17. QED
  BY <1>1, <1>2, <1>3, <1>4, <1>5, <1>6, <1>7, <1>8, <1>9, <1>10, <1>11,
     <1>12, <1>13, <1>14, <1>15, <1>16 DEF Next, Serves

(* IInv holds in every reachable state of the arbiter's process.            *)
THEOREM Invariance == Spec => []IInv
BY InvInit, InvNext, PTL DEF Spec
-----------------------------------------------------------------------------
(* The variables keep their types.                                          *)
THEOREM TypeCorrect == Spec => []TypeOK
<1>1. IInv => TypeOK
  BY DEF IInv
<1>2. QED
  BY Invariance, <1>1, PTL

(* What is left of a delisted backend is there because a callback has taken *)
(* a reference to it.                                                       *)
THEOREM LeftBehind == Spec => []LeftBehindOnlyByCallback
<1>1. IInv => LeftBehindOnlyByCallback
  BY DEF IInv
<1>2. QED
  BY Invariance, <1>1, PTL

(* A D-Bus call ends the agent only if the broker refuses its login or       *)
(* deletes the enroll queue under it because an older connection was still  *)
(* closing when the queue was declared; never because its node refuses.     *)
THEOREM AgentSurvivesCalls == Spec => [](NeverSelfInflicted /\ QueueLostOnlyWhileClosing)
<1>1. IInv => NeverSelfInflicted /\ QueueLostOnlyWhileClosing
  BY DEF IInv
<1>2. QED
  BY Invariance, <1>1, PTL

(* Only the end of an older connection takes the queue from an enrolment.   *)
THEOREM QueueLost == Spec => []QueueLostOnlyWhileClosing
<1>1. IInv => QueueLostOnlyWhileClosing
  BY DEF IInv
<1>2. QED
  BY Invariance, <1>1, PTL

(* A checked command is under way only while its device is listed.          *)
THEOREM CommandsAreListed == Spec => []CommandedIsListed
<1>1. IInv => CommandedIsListed
  BY DEF IInv
<1>2. QED
  BY Invariance, <1>1, PTL

(* Requests are handled out of turn only where a left-behind backend takes  *)
(* part: any other request waits in the buffer of the arbiter's own.        *)
THEOREM HandlingInTurn == Spec => HandledInTurn
<1> DEFINE InTurn == \A b \in Backend : \A m \in buffer[b] : Handle(b, m) =>
                        \A c \in Backend : \A n \in buffer[c] :
                           n.id < m.id => b \in held \/ c \in held
<1>1. ASSUME IInv, NEW b \in Backend, NEW m \in buffer[b], Handle(b, m),
             NEW c \in Backend, NEW n \in buffer[c], n.id < m.id, b \notin held
      PROVE  c \in held
  <2>1. b = backend
    BY <1>1 DEF Handle, IInv, LeftBehindOnlyByCallback
  <2>2. m.id \in ReqId /\ n.id \in ReqId
    BY <1>1 DEF IInv, TypeOK, Request
  <2>3. c # b
    BY <1>1, <2>2 DEF Handle, Oldest, ReqId
  <2>4. Live(c)
    BY <1>1 DEF IInv, ConnFitsBackend, Live
  <2>5. QED
    BY <1>1, <2>1, <2>3, <2>4 DEF IInv, LeftBehindOnlyByCallback
<1>2. IInv /\ [Next]_vars => [InTurn]_vars
  BY <1>1
<1>3. QED
  BY Invariance, <1>2, PTL DEF Spec, HandledInTurn
-----------------------------------------------------------------------------
(* Where the requests are.  The second half of the invariant: a request is  *)
(* in one place at most, and what waits has no consumer.                    *)

(* What Pending means, before and after a step.                             *)
LEMMA PendingPlaces ==
    /\ \A m : m \in Pending <=> m \in waiting \/ \E b \in Backend : m \in buffer[b]
    /\ \A m : m \in Pending' <=> m \in waiting' \/ \E b \in Backend : m \in buffer'[b]
BY DEF Pending

(* A step that only takes requests away keeps each in one place.            *)
LEMMA FewerPlaced ==
    ASSUME PlacedOnce, sent' = sent, waiting' \subseteq waiting,
           \A b \in Backend : buffer'[b] \subseteq buffer[b]
    PROVE  PlacedOnce' /\ Pending' \subseteq Pending
<1>1. Pending' \subseteq Pending
  BY PendingPlaces
<1>2. PlacedOnce'
  BY <1>1 DEF PlacedOnce
<1>3. QED
  BY <1>1, <1>2

(* The end of the process forgets what it had not read, and nothing else.   *)
LEMMA EndsPlace ==
    ASSUME IInv, PlaceInv, NEW why, Ends(why)
    PROVE  PlaceInv' /\ Pending' \subseteq Pending /\ waiting' = waiting /\ sent' = sent
<1>1. /\ waiting' = waiting /\ sent' = sent
      /\ \A b \in Backend : buffer'[b] \subseteq buffer[b]
  BY DEF Ends
<1>2. PlacedOnce' /\ Pending' \subseteq Pending
  BY <1>1, FewerPlaced DEF PlaceInv
<1>3. Consumers(conn)' = Consumers(conn)
  BY DEF Ends, Cut, Consumers, IInv, TypeOK
<1>4. WaitsForConsumer'
  BY <1>1, <1>3 DEF PlaceInv, WaitsForConsumer, Ends
<1>5. QED
  BY <1>1, <1>2, <1>4 DEF PlaceInv

(* The declaration of the queue moves no request.                           *)
LEMMA DeclarePlace ==
    ASSUME IInv, PlaceInv, Declare
    PROVE  PlaceInv' /\ Pending' = Pending
<1>1. waiting' = waiting /\ sent' = sent /\ buffer' = buffer
  BY DEF Declare
<1>2. PlacedOnce' /\ Pending' = Pending
  BY <1>1 DEF PlaceInv, PlacedOnce, Pending
<1>3. Consumers(conn)' = Consumers(conn) /\ conn'[backend'] = "open"
  BY DEF Declare, Consumers, IInv, TypeOK
<1>4. QED
  BY <1>1, <1>2, <1>3 DEF PlaceInv, WaitsForConsumer

(* A new consumer is handed what waits; nothing had been delivered to it.   *)
LEMMA EnrolledPlace ==
    ASSUME IInv, PlaceInv, EnrollReturns
    PROVE  PlaceInv' /\ Pending' = Pending
<1>1. backend \in Backend /\ buffer[backend] = {}
  BY DEF EnrollReturns, IInv, TypeOK, BackendFitsState, ConnFitsBackend, PlaceInv,
     WaitsForConsumer
<1>2. /\ waiting' = {} /\ buffer'[backend] = waiting
      /\ \A b \in Backend \ {backend} : buffer'[b] = buffer[b]
  BY <1>1 DEF EnrollReturns, IInv, TypeOK
<1>3. Pending' = Pending
  BY <1>1, <1>2, PendingPlaces
<1>4. PlacedOnce'
  BY <1>1, <1>2, <1>3 DEF EnrollReturns, PlaceInv, PlacedOnce
<1>5. WaitsForConsumer'
  BY <1>2 DEF EnrollReturns, WaitsForConsumer
<1>6. QED
  BY <1>3, <1>4, <1>5 DEF PlaceInv

(* A publication adds the next number, in one place or, lost at once, none. *)
LEMMA PublishPlace ==
    ASSUME IInv, PlaceInv, NEW d \in Device, NEW op \in Op, Publish(d, op)
    PROVE  PlaceInv' /\ Pending \subseteq Pending' /\ \A n \in Pending' \ Pending : n.id > sent
<1> DEFINE m == [id |-> sent + 1, dev |-> d, op |-> op]
<1>1. sent \in Nat /\ sent' = sent + 1 /\ m.id = sent + 1
  BY DEF Publish, IInv, TypeOK
<1>2. \A n \in Pending : n.id \in Nat /\ n.id <= sent
  BY PendingPlaces DEF IInv, TypeOK, Request, ReqId, PlaceInv, PlacedOnce
<1>3. m \notin Pending
  BY <1>1, <1>2
<1>4. CASE Consumers(conn) = {} /\ waiting' = waiting \cup {m} /\ buffer' = buffer
  <2>1. Pending' = Pending \cup {m}
    BY <1>4, PendingPlaces
  <2>2. \A b \in Backend : m \notin buffer[b]
    BY <1>3, PendingPlaces
  <2> HIDE DEF m
  <2>3. PlacedOnce'
    <3>1. \A n \in Pending' : n.id <= sent'
      BY <1>1, <1>2, <2>1
    <3>2. \A n, k \in Pending' : n.id = k.id => n = k
      BY <1>1, <1>2, <2>1 DEF PlaceInv, PlacedOnce
    <3>3. QED
      BY <1>4, <2>2, <3>1, <3>2 DEF PlaceInv, PlacedOnce
  <2>4. WaitsForConsumer'
    BY <1>4 DEF Publish, processVars, PlaceInv, WaitsForConsumer, Consumers
  <2>5. QED
    BY <1>1, <2>1, <2>3, <2>4 DEF PlaceInv
<1>5. ASSUME NEW b \in Consumers(conn), conn[b] # "closing",
             waiting' = waiting, buffer' = [buffer EXCEPT ![b] = @ \cup {m}]
      PROVE  PlaceInv' /\ Pending \subseteq Pending' /\ \A n \in Pending' \ Pending : n.id > sent
  <2>0. b \in Backend
    BY <1>5 DEF Consumers
  <2> HIDE DEF m
  <2>1. /\ buffer'[b] = buffer[b] \cup {m}
        /\ \A c \in Backend \ {b} : buffer'[c] = buffer[c]
    BY <1>5, <2>0 DEF IInv, TypeOK
  <2>2. Pending' = Pending \cup {m}
    BY <1>5, <2>0, <2>1, PendingPlaces
  <2>3. m \notin waiting /\ \A c \in Backend : m \notin buffer[c]
    BY <1>3, PendingPlaces
  <2>4. PlacedOnce'
    <3>1. \A n \in Pending' : n.id <= sent'
      BY <1>1, <1>2, <2>2
    <3>2. \A n, k \in Pending' : n.id = k.id => n = k
      BY <1>1, <1>2, <2>2 DEF PlaceInv, PlacedOnce
    <3>3. \A c \in Backend : waiting' \cap buffer'[c] = {}
      BY <1>5, <2>1, <2>3 DEF PlaceInv, PlacedOnce
    <3>4. \A c, e \in Backend : c # e => buffer'[c] \cap buffer'[e] = {}
      BY <2>1, <2>3 DEF PlaceInv, PlacedOnce
    <3>5. QED
      BY <3>1, <3>2, <3>3, <3>4 DEF PlacedOnce
  <2>5. WaitsForConsumer'
    BY <1>5 DEF Publish, processVars, PlaceInv, WaitsForConsumer, Consumers
  <2>6. QED
    BY <1>1, <2>2, <2>4, <2>5 DEF PlaceInv
<1>6. CASE waiting' = waiting /\ buffer' = buffer
  <2>1. Pending' = Pending
    BY <1>6 DEF Pending
  <2>2. PlacedOnce'
    BY <1>1, <1>2, <1>6, <2>1 DEF PlaceInv, PlacedOnce
  <2>3. WaitsForConsumer'
    BY <1>6 DEF Publish, processVars, PlaceInv, WaitsForConsumer, Consumers
  <2>4. QED
    BY <2>1, <2>2, <2>3 DEF PlaceInv
<1>7. QED
  BY <1>4, <1>5, <1>6 DEF Publish

(* The deletion of the queue, by the last of its consumers, deletes nothing *)
(* that waits: while there was a consumer nothing did.                      *)
LEMMA DropPlace ==
    ASSUME PlaceInv, NEW b \in Backend, conn[b] \in {"consuming", "closing"},
           NEW c, DropConsumer(c)
    PROVE  waiting = {} /\ waiting' = {}
BY DEF DropConsumer, PlaceInv, WaitsForConsumer, Consumers

(* One run of the idle source takes its request out of its buffer.          *)
LEMMA HandlePlace ==
    ASSUME IInv, PlaceInv, NEW b \in Backend, NEW m \in buffer[b], Handle(b, m)
    PROVE  PlaceInv' /\ Pending' = Pending \ {m}
<1>1. waiting' = waiting
  BY DropPlace DEF Handle
<1>2. /\ buffer'[b] = buffer[b] \ {m} /\ sent' = sent
      /\ \A c \in Backend \ {b} : buffer'[c] = buffer[c]
  BY DEF Handle, IInv, TypeOK
<1>3. PlacedOnce'
  BY <1>1, <1>2, FewerPlaced DEF PlaceInv
<1>4. Pending' = Pending \ {m}
  BY <1>1, <1>2, PendingPlaces DEF PlaceInv, PlacedOnce
<1>5. WaitsForConsumer'
  <2>1. CASE m.id \in orphan /\ conn[b] = "consuming"
    <3>1. waiting' = {}
      BY <2>1, DropPlace DEF Handle
    <3>2. QED
      BY <3>1 DEF Handle, WaitsForConsumer
  <2>2. CASE ~(m.id \in orphan /\ conn[b] = "consuming")
    BY <2>2 DEF Handle, PlaceInv, WaitsForConsumer, Consumers
  <2>3. QED
    BY <2>1, <2>2
<1>6. QED
  BY <1>3, <1>4, <1>5 DEF PlaceInv

(* The broker's discovery that a connection is gone moves no request.       *)
LEMMA NoticePlace ==
    ASSUME IInv, PlaceInv, NEW b \in Backend, BrokerNotices(b)
    PROVE  PlaceInv' /\ Pending' = Pending
<1>1. waiting' = waiting /\ waiting' = {} /\ buffer' = buffer /\ sent' = sent
  BY DropPlace DEF BrokerNotices
<1>2. PlacedOnce' /\ Pending' = Pending
  BY <1>1 DEF PlaceInv, PlacedOnce, Pending
<1>3. agent \in {"starting", "enrolling"} => conn'[backend] = "open"
  BY DEF BrokerNotices, DropConsumer, PlaceInv, WaitsForConsumer, IInv, TypeOK,
     BackendFitsState
<1>4. QED
  BY <1>1, <1>2, <1>3 DEF PlaceInv, WaitsForConsumer, BrokerNotices, processVars

(* A delist forgets what its backend had not read, if nothing holds it.     *)
LEMMA DelistPlace ==
    ASSUME IInv, PlaceInv, Delist
    PROVE  /\ PlaceInv' /\ Pending' \subseteq Pending
           /\ \A m \in Pending \ Pending' : m \in buffer[backend] /\ backend \notin held
<1>1. /\ waiting' = waiting /\ sent' = sent /\ backend \in Backend
      /\ \A b \in Backend : buffer'[b] \subseteq buffer[b]
      /\ \A b \in Backend : buffer'[b] = buffer[b] \/ (b = backend /\ b \notin held)
  BY DEF Delist, Dispose, IInv, TypeOK
<1>2. PlacedOnce' /\ Pending' \subseteq Pending
  BY <1>1, FewerPlaced DEF PlaceInv
<1>3. Consumers(conn)' = Consumers(conn)
  BY DEF Delist, Dispose, Cut, Consumers, IInv, TypeOK
<1>4. WaitsForConsumer'
  BY <1>1, <1>3 DEF PlaceInv, WaitsForConsumer, Delist
<1>5. \A m \in Pending \ Pending' : m \in buffer[backend] /\ backend \notin held
  BY <1>1, PendingPlaces
<1>6. QED
  BY <1>2, <1>4, <1>5 DEF PlaceInv

(* A step that touches neither the connections nor the requests.            *)
LEMMA RestPlace ==
    ASSUME PlaceInv, UNCHANGED <<conn, sent, waiting, buffer, backend>>,
           agent' = agent \/ agent' \in {"up", "commanding"}
    PROVE  PlaceInv' /\ Pending' = Pending
<1>1. Pending' = Pending
  BY DEF Pending
<1>2. Consumers(conn)' = Consumers(conn)
  BY DEF Consumers
<1>3. QED
  BY <1>1, <1>2 DEF PlaceInv, PlacedOnce, WaitsForConsumer

(* What a step does to the requests: they stay in place, or it is one of    *)
(* the four steps that say otherwise.                                       *)
LEMMA PlaceStep ==
    ASSUME IInv, PlaceInv, [Next]_vars
    PROVE  /\ PlaceInv'
           /\ \/ Pending' = Pending
              \/ agent' = "down" /\ Pending' \subseteq Pending /\ waiting' = waiting
              \/ Delist
              \/ \E d \in Device, op \in Op : Publish(d, op)
              \/ \E b \in Backend : \E m \in buffer[b] : Handle(b, m)
<1> DEFINE Ended == agent' = "down" /\ Pending' \subseteq Pending /\ waiting' = waiting
<1>0. ASSUME NEW why, Ends(why) PROVE PlaceInv' /\ Ended
  BY <1>0, EndsPlace DEF Ends
<1>1. CASE Startup
  BY <1>1, DeclarePlace DEF Startup
<1>2. CASE Enroll
  BY <1>2, <1>0, DeclarePlace DEF Enroll
<1>3. CASE EnrollReturns
  BY <1>3, EnrolledPlace
<1>4. CASE QueueVanished \/ Refused \/ Exits
  BY <1>4, <1>0 DEF QueueVanished, Refused, Exits
<1>5. CASE Activate
  <2>1. CASE backend # NoBackend
    BY <1>5, <2>1, RestPlace DEF Activate, brokerVars
  <2>2. CASE backend = NoBackend
    BY <1>5, <2>2, <1>0 DEF Activate
  <2>3. QED
    BY <2>1, <2>2
<1>6. CASE Deactivate \/ CommandReturns \/ \E c \in Command : UserCommand(c)
  BY <1>6, RestPlace DEF Deactivate, CommandReturns, UserCommand, brokerVars
<1>7. CASE Delist
  BY <1>7, DelistPlace
<1>8. ASSUME NEW d \in Device, NEW op \in Op, Publish(d, op) PROVE PlaceInv'
  BY <1>8, PublishPlace
<1>9. ASSUME NEW m \in Pending, GivesUp(m) PROVE PlaceInv' /\ Pending' = Pending
  BY <1>9, RestPlace DEF GivesUp, processVars
<1>10. ASSUME NEW b \in Backend, BrokerNotices(b) PROVE PlaceInv' /\ Pending' = Pending
  BY <1>10, NoticePlace
<1>11. ASSUME NEW b \in Backend, NEW m \in buffer[b], Handle(b, m) PROVE PlaceInv'
  BY <1>11, HandlePlace
<1>12. CASE UNCHANGED vars
  BY <1>12, RestPlace DEF vars, processVars, brokerVars
<1>13. QED
  BY <1>1, <1>2, <1>3, <1>4, <1>5, <1>6, <1>7, <1>8, <1>9, <1>10, <1>11,
     <1>12 DEF Next, Serves

(* Every request is in one place, whatever backends come and go.            *)
THEOREM Placement == Spec => []PlaceInv
<1>1. Init => PlaceInv
  <2> SUFFICES ASSUME Init PROVE PlaceInv
    OBVIOUS
  <2>1. Pending = {} /\ waiting = {} /\ agent = "down"
    BY DEF Init, Pending
  <2>2. \A b \in Backend : buffer[b] = {}
    BY DEF Init
  <2>3. QED
    BY <2>1, <2>2 DEF PlaceInv, PlacedOnce, WaitsForConsumer
<1>2. IInv /\ PlaceInv /\ [Next]_vars => PlaceInv'
  BY PlaceStep
<1>3. QED
  BY <1>1, <1>2, Invariance, PTL DEF Spec

(* No request is handled twice, on however many backends.                   *)
THEOREM AtMostOnce == Spec => HandledOnce
<1> DEFINE Once ==
      /\ \A b \in Backend : \A m \in buffer[b] :
             Handle(b, m) => \A n \in Pending' : n.id # m.id
      /\ \A n \in Pending' \ Pending : n.id > sent
<1>1. ASSUME IInv, PlaceInv, NEW b \in Backend, NEW m \in buffer[b], Handle(b, m)
      PROVE  \A n \in Pending' : n.id # m.id
  <2>1. Pending' = Pending \ {m} /\ m \in Pending
    BY <1>1, HandlePlace, PendingPlaces
  <2>2. QED
    BY <1>1, <2>1 DEF PlaceInv, PlacedOnce
<1>2. ASSUME IInv, PlaceInv, [Next]_vars, NEW n \in Pending' \ Pending
      PROVE  n.id > sent
  <2>1. CASE Delist
    BY <1>2, <2>1, DelistPlace
  <2>2. ASSUME NEW d \in Device, NEW op \in Op, Publish(d, op) PROVE n.id > sent
    BY <1>2, <2>2, PublishPlace
  <2>3. ASSUME NEW b \in Backend, NEW m \in buffer[b], Handle(b, m) PROVE FALSE
    BY <1>2, <2>3, HandlePlace
  <2>4. QED
    BY <1>2, <2>1, <2>2, <2>3, PlaceStep
<1>3. IInv /\ PlaceInv /\ [Next]_vars => [Once]_vars
  BY <1>1, <1>2
<1>4. QED
  BY <1>3, Invariance, Placement, PTL DEF Spec, HandledOnce

(* No request is forgotten but with the backend it was delivered to.        *)
THEOREM ForgettingNeedsBackend == Spec => ForgottenOnlyWithBackend
<1> DEFINE Excused(m) ==
      \E b \in Backend : /\ m \in buffer[b]
                        /\ \/ Handle(b, m)
                           \/ agent' = "down"
                           \/ Delist /\ b = backend /\ b \notin held
<1>1. ASSUME IInv, PlaceInv, [Next]_vars, NEW m \in Pending \ Pending'
      PROVE  Excused(m)
  <2>1. CASE agent' = "down" /\ waiting' = waiting
    <3>1. \E b \in Backend : m \in buffer[b]
      BY <1>1, <2>1, PendingPlaces
    <3>2. QED
      BY <2>1, <3>1
  <2>2. CASE Delist
    <3>1. m \in buffer[backend] /\ backend \notin held /\ backend \in Backend
      BY <1>1, <2>2, DelistPlace DEF Delist, IInv, TypeOK
    <3>2. QED
      BY <2>2, <3>1
  <2>3. ASSUME NEW d \in Device, NEW op \in Op, Publish(d, op) PROVE FALSE
    BY <1>1, <2>3, PublishPlace
  <2>4. ASSUME NEW b \in Backend, NEW n \in buffer[b], Handle(b, n) PROVE Excused(m)
    <3>1. m = n
      BY <1>1, <2>4, HandlePlace
    <3>2. QED
      BY <2>4, <3>1
  <2>5. QED
    BY <1>1, <2>1, <2>2, <2>3, <2>4, PlaceStep
<1>2. IInv /\ PlaceInv /\ [Next]_vars => [\A m \in Pending \ Pending' : Excused(m)]_vars
  BY <1>1
<1>3. QED
  BY <1>2, Invariance, Placement, PTL DEF Spec, ForgottenOnlyWithBackend
=============================================================================
