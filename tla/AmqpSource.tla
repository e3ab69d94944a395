----------------------------- MODULE AmqpSource -----------------------------
(***************************************************************************)
(* The event source that brings an edge its user commands:                 *)
(* chamge/amqp-source.c with its callback in amqp-edge-backend.c, on one   *)
(* connection of rabbitmq-c.                                               *)
(*                                                                         *)
(* The library keeps what it has read in two places: bytes in the buffer   *)
(* of its socket, and the frames that it set aside while it waited for the *)
(* answer to a method of its own.  It takes from the set-aside frames      *)
(* first, then from the buffer, and reads the socket when both are empty.  *)
(* The source looks at the socket and at the frames, not at the buffer.    *)
(***************************************************************************)
EXTENDS Naturals, Sequences, SequencesExt

CONSTANT MaxMsg     \* bound on the messages that arrive in a behaviour

ASSUME MessageAssumption == MaxMsg \in Nat

VARIABLES
    socket,    \* what has arrived at the descriptor
    buf,       \* what the library has read of it and not decoded
    frames,    \* messages the library has set aside
    loop,      \* where the main loop is with the source
    cur,       \* the message of the running callback
    done,      \* messages handled, in their order
    sent,      \* number of messages sent
    asked,     \* the broker owes an answer to a passive declare
    link       \* the connection is up

vars == <<socket, buf, frames, loop, cur, done, sent, asked, link>>

Msg    == 1..MaxMsg
Answer == 0            \* queue.declare-ok, or channel.close

(* One invariant on types. *)
TypeOK ==
    /\ socket \in Seq(Msg \cup {Answer})
    /\ buf \in Seq(Msg \cup {Answer})
    /\ frames \in Seq(Msg)
    /\ loop \in {"prepare", "poll", "dispatch", "callback", "declare"}
    /\ cur \in Msg \cup {0}
    /\ done \in Seq(Msg)
    /\ sent \in 0..MaxMsg
    /\ asked \in BOOLEAN
    /\ link \in BOOLEAN

Init ==
    /\ socket = <<>> /\ buf = <<>> /\ frames = <<>>
    /\ loop = "prepare"
    /\ cur = 0
    /\ done = <<>>
    /\ sent = 0
    /\ asked = FALSE
    /\ link = TRUE
-----------------------------------------------------------------------------
(* The peer. *)
Arrive ==
    /\ link /\ sent < MaxMsg
    /\ sent' = sent + 1
    /\ socket' = Append(socket, sent + 1)
    /\ UNCHANGED <<buf, frames, loop, cur, done, asked, link>>

Answers ==
    /\ link /\ asked
    /\ asked' = FALSE
    /\ socket' = Append(socket, Answer)
    /\ UNCHANGED <<buf, frames, loop, cur, done, sent, link>>

(* The connection ends; what has arrived can still be read. *)
Breaks ==
    /\ link
    /\ link' = FALSE
    /\ asked' = FALSE
    /\ UNCHANGED <<socket, buf, frames, loop, cur, done, sent>>
-----------------------------------------------------------------------------
(* recv: a part of what has arrived, at most what the library's buffer     *)
(* holds.                                                                  *)
Receive(s, b) ==
    \E n \in 1..Len(socket) :
       /\ b = SubSeq(socket, 1, n)
       /\ s = SubSeq(socket, n + 1, Len(socket))


(* chamge_amqp_source_prepare: ready if frames are set aside. *)
Prepare ==
    /\ loop = "prepare"
    /\ loop' = IF frames # <<>> THEN "dispatch" ELSE "poll"
    /\ UNCHANGED <<socket, buf, frames, cur, done, sent, asked, link>>

(* Faulty: the descriptor is watched for data only.                 *)
WakeOnData ==
    /\ loop = "poll" /\ socket # <<>>
    /\ loop' = "dispatch"
    /\ UNCHANGED <<socket, buf, frames, cur, done, sent, asked, link>>

(* chamge_amqp_source_check: the descriptor has data, or its end. *)
Wake ==
    /\ loop = "poll"
    /\ socket # <<>> \/ ~link
    /\ loop' = "dispatch"
    /\ UNCHANGED <<socket, buf, frames, cur, done, sent, asked, link>>

(* Faulty: what is in the buffer comes before what was set aside. *)
ConsumeBufferFirst(m) ==
    \/ /\ buf # <<>> /\ m = Head(buf)
       /\ buf' = Tail(buf)
       /\ UNCHANGED <<socket, frames>>
    \/ /\ buf = <<>> /\ frames # <<>> /\ m = Head(frames)
       /\ frames' = Tail(frames)
       /\ UNCHANGED <<socket, buf>>
    \/ /\ frames = <<>> /\ buf = <<>>
       /\ \E b \in {SubSeq(socket, 1, n) : n \in 1..Len(socket)} :
             /\ m = Head(b)
             /\ buf' = Tail(b)
             /\ Receive(socket', b)
       /\ UNCHANGED frames

(* amqp_consume_message: the next message. *)
Consume(m) ==
    \/ /\ frames # <<>> /\ m = Head(frames)
       /\ frames' = Tail(frames)
       /\ UNCHANGED <<socket, buf>>
    \/ /\ frames = <<>> /\ buf # <<>> /\ m = Head(buf)
       /\ buf' = Tail(buf)
       /\ UNCHANGED <<socket, frames>>
    \/ /\ frames = <<>> /\ buf = <<>>
       /\ \E b \in {SubSeq(socket, 1, n) : n \in 1..Len(socket)} :
             /\ m = Head(b)
             /\ buf' = Tail(b)
             /\ Receive(socket', b)
       /\ UNCHANGED frames

(* chamge_amqp_source_dispatch with a message. *)
Dispatch ==
    /\ loop = "dispatch"
    /\ \E m \in Msg : Consume(m) /\ cur' = m
    /\ loop' = "callback"
    /\ UNCHANGED <<done, sent, asked, link>>

(* With nothing to read from a broken connection, the callback gets an     *)
(* abnormal reply and keeps the source.                                    *)
DispatchesError ==
    /\ loop = "dispatch" /\ ~link
    /\ frames = <<>> /\ buf = <<>> /\ socket = <<>>
    /\ loop' = "prepare"
    /\ UNCHANGED <<socket, buf, frames, cur, done, sent, asked, link>>


(* _process_amqp_message up to the declaration of the reply queue; a       *)
(* message that is not a proper command ends it early.                     *)
Handle ==
    /\ loop = "callback"
    /\ done' = Append(done, cur)
    /\ cur' = 0
    /\ \/ loop' = "declare" /\ asked' = link
       \/ loop' = "prepare" /\ UNCHANGED asked
    /\ UNCHANGED <<socket, buf, frames, sent, link>>

(* Faulty: the answer is set aside as well. *)
WaitKeepsAnswer ==
    /\ loop = "declare"
    /\ buf # <<>>
    /\ frames' = Append(frames, Head(buf))
    /\ buf' = Tail(buf)
    /\ loop' = IF Head(buf) = Answer THEN "prepare" ELSE "declare"
    /\ UNCHANGED <<socket, cur, done, sent, asked, link>>

(* The library waits for the broker's answer.  Messages before it are set  *)
(* aside, what was read behind it stays in the buffer.                     *)
SetAside ==
    /\ loop = "declare"
    /\ buf # <<>> /\ Head(buf) # Answer
    /\ frames' = Append(frames, Head(buf))
    /\ buf' = Tail(buf)
    /\ UNCHANGED <<socket, loop, cur, done, sent, asked, link>>

Answered ==
    /\ loop = "declare"
    /\ buf # <<>> /\ Head(buf) = Answer
    /\ buf' = Tail(buf)
    /\ loop' = "prepare"
    /\ UNCHANGED <<socket, frames, cur, done, sent, asked, link>>

Reads ==
    /\ loop = "declare" /\ buf = <<>>
    /\ Receive(socket', buf')
    /\ UNCHANGED <<frames, loop, cur, done, sent, asked, link>>

DeclareFails ==
    /\ loop = "declare" /\ ~link
    /\ buf = <<>> /\ socket = <<>>
    /\ loop' = "prepare"
    /\ UNCHANGED <<socket, buf, frames, cur, done, sent, asked, link>>

MainLoop ==
    \/ Prepare \/ Wake \/ Dispatch \/ DispatchesError \/ Handle
    \/ SetAside \/ Answered \/ Reads \/ DeclareFails

Next == Arrive \/ Answers \/ Breaks \/ MainLoop

Spec == Init /\ [][Next]_vars

(* The main loop runs, and the broker answers. *)
FairSpec == Spec /\ WF_vars(MainLoop) /\ WF_vars(Answers)
-----------------------------------------------------------------------------
(* Messages are handled once each and in the order of their arrival, by     *)
(* whichever way through the library each has come.                         *)
InOrder == \A i \in DOMAIN done : done[i] = i

(* No message is lost: each that was sent has been handled, is being        *)
(* handled, or is at one of the three places on its way.                    *)
NothingLost ==
    \A m \in 1..sent :
        \/ m \in DOMAIN done /\ done[m] = m
        \/ m = cur
        \/ m \in ToSet(frames) \/ m \in ToSet(buf) \/ m \in ToSet(socket)

(* The main loop is never blocked for good in the source, and never woken   *)
(* for nothing: dispatching, it has a message or the end of the connection  *)
(* to deliver; waiting for the answer to its declare, it has something to   *)
(* read, is owed the answer, or sees the connection end.                    *)
LoopServed ==
    /\ loop = "dispatch" => \/ frames # <<>> \/ ~link
                            \/ buf \o socket # <<>> /\ Head(buf \o socket) \in Msg
    /\ loop = "declare"  => asked \/ ~link \/ buf # <<>> \/ socket # <<>>



(* When the connection ends, all that had arrived is still handled: the     *)
(* descriptor stays ready and the source stays (amqp-source.c:47).          *)
LostLinkDrains ==
    \A m \in Msg : ~link /\ m <= sent ~> m \in ToSet(done)

(* README.md:49: an activated node is ready to accept requests.  Its main   *)
(* loop does not sleep on a command it has received.                        *)
AwakeForCommands == loop = "poll" /\ socket = <<>> => buf = <<>>
-----------------------------------------------------------------------------
(* The inductive invariant behind InOrder: messages are numbered from those *)
(* handled on, through the callback, the frames, the buffer and the socket. *)

Begun == IF cur = 0 THEN Len(done) ELSE Len(done) + 1

CurIsNext ==
    /\ cur # 0 <=> loop = "callback"
    /\ cur # 0 => cur = Len(done) + 1

FramesFollow == \A i \in 1..Len(frames) : frames[i] = Begun + i

(* q holds the messages after n up to last, and the answer if place is a   *)
(* position in it.                                                         *)
Follows(q, n, place, last) ==
    /\ \A i \in 1..Len(q) :
          q[i] = IF i < place THEN n + i ELSE IF i = place THEN Answer ELSE n + i - 1
    /\ last = IF place <= Len(q) THEN n + Len(q) - 1 ELSE n + Len(q)

(* The answer is under way only to a callback that waits for it. *)
PipeFollows ==
    \E place \in 1..(Len(buf) + Len(socket) + 1) :
       /\ Follows(buf \o socket, Begun + Len(frames), place, sent)
       /\ place <= Len(buf \o socket) => loop = "declare" /\ ~asked

AnswerAwaited == asked => link /\ loop = "declare"

(* What the main loop counts on in each of its places: it sleeps with       *)
(* nothing set aside, was woken for a message or the end of the connection, *)
(* and waits for an answer that is owed, under way, or never to come.       *)
LoopSupplied ==
    /\ loop = "poll"     => frames = <<>>
    /\ loop = "dispatch" => frames # <<>> \/ socket # <<>> \/ ~link
    /\ loop = "declare"  => asked \/ ~link \/ (\E i \in 1..Len(buf) : buf[i] = Answer)
                                \/ (\E i \in 1..Len(socket) : socket[i] = Answer)

IInv ==
    /\ TypeOK /\ InOrder /\ CurIsNext /\ FramesFollow /\ PipeFollows /\ AnswerAwaited
=============================================================================
