-------------------------- MODULE AmqpSourceProofs --------------------------
(* Messages come through the event source in order, for any number of them. *)
EXTENDS AmqpSource, SequenceTheorems, TLAPS

Item == Msg \cup {Answer}

(* Facts about sequences in general: what is appended behind, taken from   *)
(* the front, or cut in two.                                               *)
LEMMA AppendBehind ==
    ASSUME NEW S, NEW b \in Seq(S), NEW s \in Seq(S), NEW x \in S
    PROVE  b \o Append(s, x) = Append(b \o s, x)
<1>1. Append(s, x) = s \o <<x>> /\ <<x>> \in Seq(S)
  BY AppendIsConcat
<1>2. b \o s \in Seq(S)
  BY ConcatProperties
<1>3. Append(b \o s, x) = (b \o s) \o <<x>>
  BY <1>2, AppendIsConcat
<1>4. QED
  BY <1>1, <1>3, ConcatAssociative

LEMMA TakeFromFront ==
    ASSUME NEW S, NEW b \in Seq(S), NEW s \in Seq(S), b # <<>>
    PROVE  /\ Head(b \o s) = Head(b)
           /\ Tail(b \o s) = Tail(b) \o s
           /\ b \o s # <<>>
<1> DEFINE q == b \o s
<1>1. /\ q \in Seq(S) /\ Len(q) = Len(b) + Len(s)
      /\ \A i \in 1..Len(b) + Len(s) : q[i] = IF i <= Len(b) THEN b[i] ELSE s[i - Len(b)]
  BY ConcatProperties
<1>2. Len(b) \in Nat \ {0} /\ Len(s) \in Nat
  BY EmptySeq, LenProperties
<1>3. q # <<>>
  BY <1>1, <1>2, EmptySeq
<1>4. Head(q) = Head(b)
  BY <1>1, <1>2
<1>5. /\ Tail(b) \in Seq(S) /\ Len(Tail(b)) = Len(b) - 1
      /\ \A i \in 1..Len(Tail(b)) : Tail(b)[i] = b[i + 1]
  BY HeadTailProperties
<1>6. /\ Tail(q) \in Seq(S) /\ Len(Tail(q)) = Len(q) - 1
      /\ \A i \in 1..Len(Tail(q)) : Tail(q)[i] = q[i + 1]
  BY <1>1, <1>3, HeadTailProperties
<1>7. /\ Tail(b) \o s \in Seq(S) /\ Len(Tail(b) \o s) = Len(Tail(b)) + Len(s)
      /\ \A i \in 1..Len(Tail(b)) + Len(s) :
            (Tail(b) \o s)[i] = IF i <= Len(Tail(b)) THEN Tail(b)[i] ELSE s[i - Len(Tail(b))]
  BY <1>5, ConcatProperties
<1>8. ASSUME NEW i \in 1..Len(Tail(q)) PROVE Tail(q)[i] = (Tail(b) \o s)[i]
  <2> HIDE DEF q
  <2>1. i \in 1..Len(Tail(b)) + Len(s) /\ i + 1 \in 1..Len(b) + Len(s)
    BY <1>1, <1>2, <1>5, <1>6
  <2>2. Tail(q)[i] = IF i + 1 <= Len(b) THEN b[i + 1] ELSE s[i + 1 - Len(b)]
    BY <2>1, <1>1, <1>6
  <2>3. CASE i <= Len(Tail(b))
    BY <2>1, <2>2, <2>3, <1>2, <1>5, <1>7
  <2>4. CASE ~(i <= Len(Tail(b)))
    <3>1. i + 1 - Len(b) = i - Len(Tail(b)) /\ ~(i + 1 <= Len(b))
      BY <2>4, <1>2, <1>5
    <3>2. QED
      BY <3>1, <2>1, <2>2, <2>4, <1>7
  <2>5. QED
    BY <2>3, <2>4
<1>9. Tail(q) = Tail(b) \o s
  <2> HIDE DEF q
  <2>1. Len(Tail(q)) = Len(Tail(b) \o s)
    BY <1>1, <1>2, <1>5, <1>6, <1>7
  <2>2. QED
    BY <2>1, <1>6, <1>7, <1>8, SeqEqual
<1>10. QED
  BY <1>3, <1>4, <1>9

LEMMA CutInTwo ==
    ASSUME NEW S, NEW s \in Seq(S), NEW k \in 1..Len(s)
    PROVE  /\ SubSeq(s, 1, k) \in Seq(S)
           /\ SubSeq(s, 1, k) # <<>>
           /\ SubSeq(s, k + 1, Len(s)) \in Seq(S)
           /\ SubSeq(s, 1, k) \o SubSeq(s, k + 1, Len(s)) = s
<1>1. Len(s) \in Nat /\ \A i \in 1..Len(s) : s[i] \in S
  BY LenProperties, ElementOfSeq
<1>2. SubSeq(s, 1, k) \in Seq(S) /\ Len(SubSeq(s, 1, k)) = k
  BY <1>1, SubSeqProperties
<1>3. SubSeq(s, k + 1, Len(s)) \in Seq(S)
  BY <1>1, SubSeqProperties
<1>4. SubSeq(s, 1, k) # <<>>
  BY <1>2, EmptySeq
<1>5. SubSeq(s, 1, k) \o SubSeq(s, k + 1, Len(s)) = SubSeq(s, 1, Len(s))
  BY <1>1, ConcatAdjacentSubSeq
<1>6. QED
  BY <1>2, <1>3, <1>4, <1>5, SubSeqFull
-----------------------------------------------------------------------------
(* What follows in the pipe when something is taken from it or appended.   *)
LEMMA MessageTaken ==
    ASSUME NEW q \in Seq(Item), NEW n \in Nat, NEW last \in Nat,
           q # <<>>, NEW place \in 2..(Len(q) + 1), Follows(q, n, place, last)
    PROVE  /\ Head(q) = n + 1
           /\ Follows(Tail(q), n + 1, place - 1, last)
<1>1. Len(q) \in Nat \ {0} /\ Head(q) = q[1]
  BY EmptySeq
<1>2. Head(q) = n + 1
  BY <1>1 DEF Follows
<1>3. Len(Tail(q)) = Len(q) - 1 /\ \A i \in 1..Len(Tail(q)) : Tail(q)[i] = q[i + 1]
  BY HeadTailProperties
<1>4. ASSUME NEW i \in 1..Len(Tail(q))
      PROVE  Tail(q)[i] = IF i < place - 1 THEN n + 1 + i
                          ELSE IF i = place - 1 THEN Answer ELSE n + 1 + i - 1
  BY <1>1, <1>3 DEF Follows
<1>5. QED
  BY <1>1, <1>2, <1>3, <1>4 DEF Follows

LEMMA AnswerTaken ==
    ASSUME NEW q \in Seq(Item), NEW n \in Nat, NEW last \in Nat,
           q # <<>>, Follows(q, n, 1, last)
    PROVE  /\ Head(q) = Answer
           /\ Follows(Tail(q), n, Len(Tail(q)) + 1, last)
<1>1. Len(q) \in Nat \ {0} /\ Head(q) = q[1]
  BY EmptySeq
<1>2. Head(q) = Answer
  BY <1>1 DEF Follows
<1>3. Len(Tail(q)) = Len(q) - 1 /\ \A i \in 1..Len(Tail(q)) : Tail(q)[i] = q[i + 1]
  BY HeadTailProperties
<1>4. ASSUME NEW i \in 1..Len(Tail(q)) PROVE Tail(q)[i] = n + i /\ i < Len(Tail(q)) + 1
  BY <1>1, <1>3 DEF Follows
<1>5. last = n + Len(Tail(q)) /\ ~(Len(Tail(q)) + 1 <= Len(Tail(q)))
  BY <1>1, <1>3 DEF Follows
<1>6. Follows(Tail(q), n, Len(Tail(q)) + 1, last)
  BY <1>4, <1>5 DEF Follows
<1>7. QED
  BY <1>2, <1>6

LEMMA MessageArrives ==
    ASSUME NEW q \in Seq(Item), NEW n \in Nat, NEW last \in Nat, last + 1 \in Item,
           NEW place \in 1..(Len(q) + 1), Follows(q, n, place, last)
    PROVE  Follows(Append(q, last + 1), n,
                   IF place = Len(q) + 1 THEN place + 1 ELSE place, last + 1)
<1>1. /\ Len(q) \in Nat /\ Len(Append(q, last + 1)) = Len(q) + 1
      /\ \A i \in 1..Len(q) : Append(q, last + 1)[i] = q[i]
      /\ Append(q, last + 1)[Len(q) + 1] = last + 1
  BY AppendProperties, LenProperties
<1>2. QED
  BY <1>1 DEF Follows

LEMMA AnswerArrives ==
    ASSUME NEW q \in Seq(Item), NEW n \in Nat, NEW last \in Nat,
           Follows(q, n, Len(q) + 1, last)
    PROVE  Follows(Append(q, Answer), n, Len(q) + 1, last)
<1>1. /\ Len(q) \in Nat /\ Len(Append(q, Answer)) = Len(q) + 1
      /\ \A i \in 1..Len(q) : Append(q, Answer)[i] = q[i]
      /\ Append(q, Answer)[Len(q) + 1] = Answer
  BY AppendProperties, LenProperties DEF Item
<1>2. QED
  BY <1>1 DEF Follows
-----------------------------------------------------------------------------
LEMMA InvInit == Init => IInv
<1> SUFFICES ASSUME Init PROVE IInv
  OBVIOUS
<1>1. TypeOK
  <2>1. socket \in Seq(Msg \cup {Answer}) /\ buf \in Seq(Msg \cup {Answer})
    BY EmptySeq DEF Init
  <2>2. frames \in Seq(Msg) /\ done \in Seq(Msg)
    BY EmptySeq DEF Init
  <2>3. sent \in 0..MaxMsg
    BY MessageAssumption DEF Init
  <2>4. QED
    BY <2>1, <2>2, <2>3 DEF Init, TypeOK
<1>2. InOrder /\ CurIsNext /\ FramesFollow /\ AnswerAwaited
  BY DEF Init, InOrder, CurIsNext, FramesFollow, AnswerAwaited
<1>3. /\ Len(buf) = 0 /\ Len(socket) = 0 /\ Len(frames) = 0 /\ Begun = 0
      /\ buf \o socket = <<>> /\ Len(buf \o socket) = 0 /\ sent = 0
  BY DEF Init, Begun
<1>4. Follows(buf \o socket, Begun + Len(frames), 1, sent)
  BY <1>3 DEF Follows
<1>5. PipeFollows
  BY <1>3, <1>4 DEF PipeFollows
<1>6. QED
  BY <1>1, <1>2, <1>5 DEF IInv

(* What the invariant says of the pipe, with the numbers it counts with.   *)
LEMMA PipeNow ==
    ASSUME IInv
    PROVE  /\ buf \in Seq(Item) /\ socket \in Seq(Item) /\ frames \in Seq(Msg)
           /\ buf \o socket \in Seq(Item)
           /\ Len(buf \o socket) = Len(buf) + Len(socket)
           /\ Len(buf) \in Nat /\ Len(socket) \in Nat /\ Len(frames) \in Nat
           /\ Len(done) \in Nat /\ sent \in Nat
           /\ Begun \in Nat /\ Begun + Len(frames) \in Nat
           /\ \E place \in 1..(Len(buf \o socket) + 1) :
                 /\ Follows(buf \o socket, Begun + Len(frames), place, sent)
                 /\ place <= Len(buf \o socket) => loop = "declare" /\ ~asked
<1>1. /\ buf \in Seq(Item) /\ socket \in Seq(Item) /\ frames \in Seq(Msg)
      /\ done \in Seq(Msg) /\ sent \in Nat
  BY MessageAssumption DEF IInv, TypeOK, Item
<1>2. buf \o socket \in Seq(Item) /\ Len(buf \o socket) = Len(buf) + Len(socket)
  BY <1>1, ConcatProperties
<1>3. /\ Len(buf) \in Nat /\ Len(socket) \in Nat /\ Len(frames) \in Nat
      /\ Len(done) \in Nat
  BY <1>1, LenProperties
<1>4. Begun \in Nat /\ Begun + Len(frames) \in Nat
  BY <1>3 DEF Begun
<1>5. QED
  BY <1>1, <1>2, <1>3, <1>4 DEF IInv, PipeFollows

(* A pipe whose messages still follow keeps the invariant's clause on it.  *)
LEMMA PipeThen ==
    ASSUME buf' \in Seq(Item), socket' \in Seq(Item),
           NEW place \in 1..(Len((buf \o socket)') + 1),
           Follows((buf \o socket)', (Begun + Len(frames))', place, sent'),
           place <= Len((buf \o socket)') => loop' = "declare" /\ ~asked'
    PROVE  PipeFollows'
<1>1. Len((buf \o socket)') = Len(buf') + Len(socket')
  BY ConcatProperties
<1>2. QED
  BY <1>1 DEF PipeFollows
-----------------------------------------------------------------------------
(* One lemma for each action. *)
LEMMA ArriveInv == IInv /\ Arrive => IInv'
<1> SUFFICES ASSUME IInv, Arrive PROVE IInv'
  OBVIOUS
<1>1. sent + 1 \in Msg /\ sent + 1 \in Item /\ sent' = sent + 1 /\ socket' \in Seq(Item)
  BY PipeNow, MessageAssumption DEF IInv, TypeOK, Arrive, Msg, Item
<1>2. TypeOK'
  BY <1>1, MessageAssumption DEF IInv, TypeOK, Arrive, Item, Msg
<1>3. (InOrder /\ CurIsNext /\ FramesFollow /\ AnswerAwaited)'
  BY DEF IInv, Arrive, InOrder, CurIsNext, FramesFollow, Begun, AnswerAwaited
<1>4. /\ (buf \o socket)' = Append(buf \o socket, sent + 1)
      /\ (Begun + Len(frames))' = Begun + Len(frames)
  <2>1. buf \o Append(socket, sent + 1) = Append(buf \o socket, sent + 1)
    <3>1. buf \in Seq(Item) /\ socket \in Seq(Item) /\ sent + 1 \in Item
      BY <1>1, PipeNow
    <3>2. QED
      BY <3>1, AppendBehind
  <2>2. (buf \o socket)' = buf \o Append(socket, sent + 1)
    BY DEF Arrive
  <2>3. (Begun + Len(frames))' = Begun + Len(frames)
    BY DEF Arrive, Begun
  <2>4. QED
    BY <2>1, <2>2, <2>3
<1>5. PICK place \in 1..(Len(buf \o socket) + 1) :
         /\ Follows(buf \o socket, Begun + Len(frames), place, sent)
         /\ place <= Len(buf \o socket) => loop = "declare" /\ ~asked
  BY PipeNow
<1> DEFINE next == IF place = Len(buf \o socket) + 1 THEN place + 1 ELSE place
<1>6. Follows((buf \o socket)', (Begun + Len(frames))', next, sent')
  BY <1>1, <1>4, <1>5, PipeNow, MessageArrives
<1>7. Len((buf \o socket)') = Len(buf \o socket) + 1 /\ Len(buf \o socket) \in Nat
  BY <1>1, <1>4, PipeNow, AppendProperties
<1>8. /\ next \in 1..(Len((buf \o socket)') + 1)
      /\ next <= Len((buf \o socket)') => place <= Len(buf \o socket)
  BY <1>7
<1>9. next <= Len((buf \o socket)') => loop' = "declare" /\ ~asked'
  BY <1>5, <1>8 DEF Arrive
<1>10. buf' \in Seq(Item)
  BY PipeNow DEF Arrive
<1>11. PipeFollows'
  <2> HIDE DEF next
  <2>1. QED
    BY <1>1, <1>6, <1>8, <1>9, <1>10, PipeThen
<1>12. QED
  BY <1>2, <1>3, <1>11 DEF IInv

LEMMA AnswersInv == IInv /\ Answers => IInv'
<1> SUFFICES ASSUME IInv, Answers PROVE IInv'
  OBVIOUS
<1>1. TypeOK' /\ socket' \in Seq(Item) /\ buf' \in Seq(Item)
  <2>1. Answer \in Item /\ socket' = Append(socket, Answer) /\ buf' = buf
    BY DEF Item, Answers
  <2>2. socket' \in Seq(Item) /\ buf' \in Seq(Item)
    BY <2>1, PipeNow, AppendProperties
  <2>3. QED
    BY <2>2 DEF IInv, TypeOK, Answers, Item
<1>2. (InOrder /\ CurIsNext /\ FramesFollow /\ AnswerAwaited)'
  BY DEF IInv, Answers, InOrder, CurIsNext, FramesFollow, Begun, AnswerAwaited
<1>3. (buf \o socket)' = Append(buf \o socket, Answer) /\ (Begun + Len(frames))' = Begun + Len(frames)
  BY PipeNow, AppendBehind DEF Answers, Begun, Item
<1>4. Follows(buf \o socket, Begun + Len(frames), Len(buf \o socket) + 1, sent)
  <2>1. PICK place \in 1..(Len(buf \o socket) + 1) :
           /\ Follows(buf \o socket, Begun + Len(frames), place, sent)
           /\ place <= Len(buf \o socket) => loop = "declare" /\ ~asked
    BY PipeNow
  <2>2. place = Len(buf \o socket) + 1
    <3>1. asked /\ Len(buf \o socket) \in Nat
      BY PipeNow DEF Answers
    <3>2. QED
      BY <2>1, <3>1
  <2>3. QED
    BY <2>1, <2>2
<1>5. Follows((buf \o socket)', (Begun + Len(frames))', Len(buf \o socket) + 1, sent')
  BY <1>3, <1>4, PipeNow, AnswerArrives DEF Answers
<1>6. Len((buf \o socket)') = Len(buf \o socket) + 1
  BY <1>3, PipeNow, AppendProperties DEF Item
<1>7. Len(buf \o socket) + 1 \in 1..(Len((buf \o socket)') + 1) /\ loop' = "declare" /\ ~asked'
  BY <1>6, PipeNow DEF Answers, IInv, AnswerAwaited
<1>8. PipeFollows'
  BY <1>1, <1>5, <1>7, PipeThen
<1>9. QED
  BY <1>1, <1>2, <1>8 DEF IInv

(* Actions that leave the library alone, and wait for no answer before.    *)
LEMMA LoopInv ==
    IInv /\ (Breaks \/ Prepare \/ Wake \/ DispatchesError \/ DeclareFails) => IInv'
<1> SUFFICES ASSUME IInv, Breaks \/ Prepare \/ Wake \/ DispatchesError \/ DeclareFails
             PROVE  IInv'
  OBVIOUS
<1>1. /\ UNCHANGED <<socket, buf, frames, cur, done, sent>> /\ asked' \in BOOLEAN
      /\ asked' => asked /\ loop' = loop /\ link' = link
      /\ link' \in BOOLEAN /\ loop' \in {"prepare", "poll", "dispatch", "callback", "declare"}
      /\ loop' = "callback" <=> loop = "callback"
      /\ loop' # loop => loop # "declare" \/ (buf = <<>> /\ socket = <<>>)
  <2>1. /\ asked \in BOOLEAN /\ link \in BOOLEAN
        /\ loop \in {"prepare", "poll", "dispatch", "callback", "declare"}
        /\ asked => link /\ loop = "declare"
    BY DEF IInv, TypeOK, AnswerAwaited
  <2>2. CASE Breaks
    BY <2>1, <2>2 DEF Breaks
  <2>3. CASE Prepare
    <3>1. asked = FALSE
      BY <2>1, <2>3 DEF Prepare
    <3>2. QED
      BY <2>1, <2>3, <3>1 DEF Prepare
  <2>4. CASE Wake
    <3>1. asked = FALSE
      BY <2>1, <2>4 DEF Wake
    <3>2. QED
      BY <2>1, <2>4, <3>1 DEF Wake
  <2>5. CASE DispatchesError
    <3>1. asked = FALSE
      BY <2>1, <2>5 DEF DispatchesError
    <3>2. QED
      BY <2>1, <2>5, <3>1 DEF DispatchesError
  <2>6. CASE DeclareFails
    <3>1. asked = FALSE
      BY <2>1, <2>6 DEF DeclareFails
    <3>2. QED
      BY <2>1, <2>6, <3>1 DEF DeclareFails
  <2>7. QED
    BY <2>2, <2>3, <2>4, <2>5, <2>6
<1>2. TypeOK'
  BY <1>1 DEF IInv, TypeOK
<1>3. (InOrder /\ CurIsNext /\ FramesFollow /\ AnswerAwaited)'
  BY <1>1 DEF IInv, InOrder, CurIsNext, FramesFollow, Begun, AnswerAwaited
<1>4. PipeFollows'
  <2>1. PICK place \in 1..(Len(buf \o socket) + 1) :
           /\ Follows(buf \o socket, Begun + Len(frames), place, sent)
           /\ place <= Len(buf \o socket) => loop = "declare" /\ ~asked
    BY PipeNow
  <2>2. /\ (buf \o socket)' = buf \o socket
        /\ (Begun + Len(frames))' = Begun + Len(frames) /\ sent' = sent
    BY <1>1 DEF Begun
  <2>3. place <= Len(buf \o socket) => Len(buf) # 0 \/ Len(socket) # 0
    BY PipeNow
  <2>4. place <= Len(buf \o socket) => loop' = "declare" /\ ~asked'
    BY <1>1, <2>1, <2>3
  <2>5. buf' \in Seq(Item) /\ socket' \in Seq(Item)
    BY <1>1, PipeNow
  <2>6. QED
    BY <2>1, <2>2, <2>4, <2>5, PipeThen
<1>5. QED
  BY <1>2, <1>3, <1>4 DEF IInv

LEMMA HandleInv == IInv /\ Handle => IInv'
<1> SUFFICES ASSUME IInv, Handle PROVE IInv'
  OBVIOUS
<1>1. cur \in Msg /\ cur = Len(done) + 1 /\ done \in Seq(Msg)
  BY DEF IInv, TypeOK, CurIsNext, Handle
<1>2. /\ done' \in Seq(Msg) /\ Len(done') = Len(done) + 1
      /\ \A i \in 1..Len(done) : done'[i] = done[i]
      /\ done'[Len(done) + 1] = cur
  BY <1>1, AppendProperties DEF Handle
<1>3. cur # 0 /\ cur' = 0 /\ Begun' = Begun
  BY <1>1, <1>2, PipeNow DEF Begun, Handle
<1>4. TypeOK'
  BY <1>2 DEF IInv, TypeOK, Handle
<1>5. InOrder'
  <2>1. DOMAIN done = 1..Len(done) /\ DOMAIN done' = 1..Len(done')
    BY <1>1, <1>2, LenProperties
  <2>2. QED
    BY <1>1, <1>2, <2>1, PipeNow DEF IInv, InOrder
<1>6. (CurIsNext /\ AnswerAwaited)'
  BY <1>3 DEF IInv, Handle, CurIsNext, AnswerAwaited
<1>7. FramesFollow'
  BY <1>3 DEF IInv, Handle, FramesFollow
<1>8. PipeFollows'
  <2>1. PICK place \in 1..(Len(buf \o socket) + 1) :
           /\ Follows(buf \o socket, Begun + Len(frames), place, sent)
           /\ place <= Len(buf \o socket) => loop = "declare" /\ ~asked
    BY PipeNow
  <2>2. ~(place <= Len(buf \o socket))
    BY <2>1 DEF Handle
  <2>3. /\ (buf \o socket)' = buf \o socket
        /\ (Begun + Len(frames))' = Begun + Len(frames) /\ sent' = sent
    BY <1>3 DEF Handle
  <2>4. buf' \in Seq(Item) /\ socket' \in Seq(Item)
    BY PipeNow DEF Handle
  <2>5. QED
    BY <2>1, <2>2, <2>3, <2>4, PipeThen
<1>9. QED
  BY <1>4, <1>5, <1>6, <1>7, <1>8 DEF IInv

(* Nothing of an answer is in the pipe while a message is dispatched.      *)
LEMMA PipeOfMessages ==
    ASSUME IInv, loop # "declare"
    PROVE  Follows(buf \o socket, Begun + Len(frames), Len(buf \o socket) + 1, sent)
<1>1. PICK place \in 1..(Len(buf \o socket) + 1) :
         /\ Follows(buf \o socket, Begun + Len(frames), place, sent)
         /\ place <= Len(buf \o socket) => loop = "declare" /\ ~asked
  BY PipeNow
<1>2. place = Len(buf \o socket) + 1
  BY <1>1, PipeNow
<1>3. QED
  BY <1>1, <1>2

(* The first message of the pipe is dispatched, from wherever it is read.  *)
LEMMA FromPipeInv ==
    ASSUME IInv, loop = "dispatch", loop' = "callback", UNCHANGED <<done, sent, asked, link>>,
           frames = <<>>, UNCHANGED frames,
           NEW q \in Seq(Item), q = buf \o socket, q # <<>>,
           cur' = Head(q), cur' \in Msg,
           buf' \in Seq(Item), socket' \in Seq(Item), (buf \o socket)' = Tail(q)
    PROVE  IInv'
<1>1. Len(frames) = 0 /\ cur = 0 /\ Begun = Len(done)
  BY DEF IInv, CurIsNext, Begun
<1>2. Follows(q, Len(done), Len(q) + 1, sent) /\ Len(q) \in Nat \ {0}
  BY <1>1, PipeOfMessages, PipeNow, EmptySeq
<1>3. cur' = Len(done) + 1 /\ Follows(Tail(q), Len(done) + 1, Len(q), sent)
  <2>1. /\ Len(q) + 1 \in 2..(Len(q) + 1) /\ (Len(q) + 1) - 1 = Len(q)
        /\ Len(done) \in Nat /\ sent \in Nat
    BY <1>2, PipeNow
  <2>2. Head(q) = Len(done) + 1 /\ Follows(Tail(q), Len(done) + 1, (Len(q) + 1) - 1, sent)
    BY <1>2, <2>1, MessageTaken
  <2>3. QED
    BY <2>1, <2>2
<1>4. Begun' = Len(done) + 1 /\ (Begun + Len(frames))' = Len(done) + 1
  BY <1>1, <1>3, PipeNow DEF Begun
<1>5. Len(Tail(q)) = Len(q) - 1
  BY HeadTailProperties
<1>6. PipeFollows'
  <2>1. Len(q) \in 1..(Len((buf \o socket)') + 1) /\ ~(Len(q) <= Len((buf \o socket)'))
    BY <1>2, <1>5
  <2>2. Follows((buf \o socket)', (Begun + Len(frames))', Len(q), sent')
    BY <1>3, <1>4
  <2>3. QED
    BY <2>1, <2>2, PipeThen
<1>7. TypeOK'
  BY DEF IInv, TypeOK, Item
<1>8. (InOrder /\ CurIsNext /\ FramesFollow /\ AnswerAwaited)'
  BY <1>1, <1>3, PipeNow DEF IInv, InOrder, CurIsNext, FramesFollow, AnswerAwaited
<1>9. QED
  BY <1>6, <1>7, <1>8 DEF IInv

LEMMA DispatchInv == IInv /\ Dispatch => IInv'
<1> SUFFICES ASSUME IInv, Dispatch PROVE IInv'
  OBVIOUS
<1>1. PICK m \in Msg : Consume(m) /\ cur' = m
  BY DEF Dispatch
<1>2. loop = "dispatch" /\ loop' = "callback" /\ UNCHANGED <<done, sent, asked, link>>
  BY DEF Dispatch
<1>3. CASE frames # <<>> /\ m = Head(frames) /\ frames' = Tail(frames)
           /\ UNCHANGED <<socket, buf>>
  <2>1. /\ frames' \in Seq(Msg) /\ Len(frames') = Len(frames) - 1
        /\ \A i \in 1..Len(frames') : frames'[i] = frames[i + 1]
    BY <1>3, PipeNow, HeadTailProperties
  <2>2. Len(frames) \in Nat \ {0} /\ m = frames[1] /\ cur = 0 /\ Begun = Len(done)
    BY <1>2, <1>3, PipeNow, EmptySeq DEF IInv, CurIsNext, Begun
  <2>3. cur' = Len(done) + 1 /\ cur' # 0
    BY <1>1, <2>2, PipeNow DEF IInv, FramesFollow
  <2>4. Begun' = Begun + 1 /\ (Begun + Len(frames))' = Begun + Len(frames)
    BY <1>2, <2>1, <2>2, <2>3, PipeNow DEF Begun
  <2>5. FramesFollow'
    BY <2>1, <2>2, <2>4, PipeNow DEF IInv, FramesFollow
  <2>6. (InOrder /\ CurIsNext /\ AnswerAwaited)'
    BY <1>2, <2>3 DEF IInv, InOrder, CurIsNext, AnswerAwaited
  <2>7. TypeOK'
    BY <1>1, <1>2, <1>3, <2>1 DEF IInv, TypeOK
  <2>8. PipeFollows'
    <3>1. /\ (buf \o socket)' = buf \o socket /\ buf' \in Seq(Item) /\ socket' \in Seq(Item)
          /\ sent' = sent
      BY <1>2, <1>3, PipeNow
    <3>2. Follows(buf \o socket, Begun + Len(frames), Len(buf \o socket) + 1, sent)
      BY <1>2, PipeOfMessages
    <3>3. /\ Len(buf \o socket) + 1 \in 1..(Len(buf \o socket) + 1)
          /\ ~(Len(buf \o socket) + 1 <= Len(buf \o socket))
      BY PipeNow
    <3>4. QED
      BY <2>4, <3>1, <3>2, <3>3, PipeThen
  <2>9. QED
    BY <2>5, <2>6, <2>7, <2>8 DEF IInv
<1>4. CASE frames = <<>> /\ buf # <<>> /\ m = Head(buf) /\ buf' = Tail(buf)
           /\ UNCHANGED <<socket, frames>>
  <2>1. /\ Head(buf \o socket) = Head(buf) /\ buf \o socket # <<>>
        /\ Tail(buf \o socket) = Tail(buf) \o socket
    BY <1>4, PipeNow, TakeFromFront
  <2>2. buf' \in Seq(Item) /\ socket' \in Seq(Item) /\ (buf \o socket)' = Tail(buf \o socket)
    BY <1>4, <2>1, PipeNow, HeadTailProperties
  <2>3. QED
    BY <1>1, <1>2, <1>4, <2>1, <2>2, PipeNow, FromPipeInv
<1>5. CASE frames = <<>> /\ buf = <<>> /\ UNCHANGED frames
           /\ \E b \in {SubSeq(socket, 1, n) : n \in 1..Len(socket)} :
                 m = Head(b) /\ buf' = Tail(b) /\ Receive(socket', b)
  <2>1. PICK b : m = Head(b) /\ buf' = Tail(b) /\ Receive(socket', b)
    BY <1>5
  <2>2. PICK k \in 1..Len(socket) :
           b = SubSeq(socket, 1, k) /\ socket' = SubSeq(socket, k + 1, Len(socket))
    BY <2>1 DEF Receive
  <2>3. b \in Seq(Item) /\ b # <<>> /\ socket' \in Seq(Item) /\ b \o socket' = socket
    BY <2>2, PipeNow, CutInTwo
  <2>4. buf \o socket = socket
    BY <1>5, PipeNow, ConcatEmptySeq
  <2>5. Head(socket) = m /\ Tail(socket) = (buf \o socket)' /\ socket # <<>>
    BY <2>1, <2>3, TakeFromFront
  <2>6. buf' \in Seq(Item)
    BY <2>1, <2>3, HeadTailProperties
  <2>7. QED
    BY <1>1, <1>2, <1>5, <2>3, <2>4, <2>5, <2>6, PipeNow, FromPipeInv
<1>6. QED
  BY <1>1, <1>3, <1>4, <1>5 DEF Consume
-----------------------------------------------------------------------------
(* The wait for an answer. *)
LEMMA SetAsideInv == IInv /\ SetAside => IInv'
<1> SUFFICES ASSUME IInv, SetAside PROVE IInv'
  OBVIOUS
<1> DEFINE q == buf \o socket
<1>1. /\ Head(q) = Head(buf) /\ q # <<>> /\ Tail(q) = Tail(buf) \o socket
  BY PipeNow, TakeFromFront DEF SetAside
<1>2. /\ buf' \in Seq(Item) /\ socket' \in Seq(Item) /\ (buf \o socket)' = Tail(q)
      /\ Head(buf) \in Item
  BY <1>1, PipeNow, HeadTailProperties DEF SetAside
<1>3. /\ Head(buf) \in Msg /\ frames' \in Seq(Msg) /\ Len(frames') = Len(frames) + 1
      /\ \A i \in 1..Len(frames) : frames'[i] = frames[i]
      /\ frames'[Len(frames) + 1] = Head(buf)
  BY <1>2, PipeNow, AppendProperties DEF SetAside, Item
<1>4. PICK place \in 1..(Len(q) + 1) :
         /\ Follows(q, Begun + Len(frames), place, sent)
         /\ place <= Len(q) => loop = "declare" /\ ~asked
  BY PipeNow
<1>5. Len(q) \in Nat \ {0} /\ q \in Seq(Item)
  BY <1>1, PipeNow, EmptySeq
<1> HIDE DEF q
<1>6. place \in 2..(Len(q) + 1)
  <2>1. place # 1
    BY <1>1, <1>4, <1>5, PipeNow, AnswerTaken DEF SetAside
  <2>2. QED
    BY <1>5, <2>1
<1>7. /\ Head(q) = Begun + Len(frames) + 1
      /\ Follows(Tail(q), Begun + Len(frames) + 1, place - 1, sent)
  BY <1>1, <1>4, <1>5, <1>6, PipeNow, MessageTaken
<1>8. Begun' = Begun /\ (Begun + Len(frames))' = Begun + Len(frames) + 1
  <2>1. Begun' = Begun
    BY DEF SetAside, Begun
  <2>2. Begun \in Nat /\ Len(frames) \in Nat
    BY PipeNow
  <2>3. QED
    BY <1>3, <2>1, <2>2
<1>9. FramesFollow'
  <2>1. ASSUME NEW i \in 1..Len(frames') PROVE frames'[i] = Begun + i
    <3>1. Begun \in Nat /\ Len(frames) \in Nat
      BY PipeNow
    <3>2. CASE i \in 1..Len(frames)
      BY <1>3, <3>2 DEF IInv, FramesFollow
    <3>3. CASE i = Len(frames) + 1
      BY <1>1, <1>3, <1>7, <3>1, <3>3
    <3>4. QED
      BY <1>3, <3>1, <3>2, <3>3
  <2>2. QED
    BY <1>8, <2>1 DEF FramesFollow
<1>10. (InOrder /\ CurIsNext /\ AnswerAwaited)'
  BY DEF IInv, SetAside, InOrder, CurIsNext, AnswerAwaited
<1>11. TypeOK'
  BY <1>2, <1>3 DEF IInv, TypeOK, SetAside, Item
<1>12. PipeFollows'
  <2>1. Len(Tail(q)) = Len(q) - 1
    BY <1>1, <1>5, HeadTailProperties
  <2>2. /\ place - 1 \in 1..(Len((buf \o socket)') + 1)
        /\ place - 1 <= Len((buf \o socket)') => place <= Len(q)
    <3>1. Len((buf \o socket)') = Len(q) - 1
      BY <1>2, <2>1, Zenon
    <3>2. QED
      BY <1>5, <1>6, <3>1
  <2>3. place - 1 <= Len((buf \o socket)') => loop' = "declare" /\ ~asked'
    BY <1>4, <2>2 DEF SetAside
  <2>4. Follows((buf \o socket)', (Begun + Len(frames))', place - 1, sent')
    BY <1>2, <1>7, <1>8 DEF SetAside
  <2>5. QED
    BY <1>2, <2>2, <2>3, <2>4, PipeThen
<1>13. QED
  BY <1>9, <1>10, <1>11, <1>12 DEF IInv

LEMMA AnsweredInv == IInv /\ Answered => IInv'
<1> SUFFICES ASSUME IInv, Answered PROVE IInv'
  OBVIOUS
<1> DEFINE q == buf \o socket
<1>1. /\ Head(q) = Answer /\ q # <<>> /\ Tail(q) = Tail(buf) \o socket
  BY PipeNow, TakeFromFront DEF Answered
<1>2. buf' \in Seq(Item) /\ socket' \in Seq(Item) /\ (buf \o socket)' = Tail(q)
  BY <1>1, PipeNow, HeadTailProperties DEF Answered
<1>3. PICK place \in 1..(Len(q) + 1) :
         /\ Follows(q, Begun + Len(frames), place, sent)
         /\ place <= Len(q) => loop = "declare" /\ ~asked
  BY PipeNow
<1>4. Len(q) \in Nat \ {0} /\ q \in Seq(Item)
  BY <1>1, PipeNow, EmptySeq
<1> HIDE DEF q
<1>5. place = 1
  <2>1. ~(place \in 2..(Len(q) + 1))
    <3>1. Begun + Len(frames) + 1 # Answer
      BY PipeNow DEF Answer
    <3>2. QED
      BY <1>1, <1>3, <1>4, <3>1, PipeNow, MessageTaken
  <2>2. QED
    BY <1>4, <2>1
<1>6. Follows(Tail(q), Begun + Len(frames), Len(Tail(q)) + 1, sent) /\ ~asked
  BY <1>1, <1>3, <1>4, <1>5, PipeNow, AnswerTaken
<1>7. (Begun + Len(frames))' = Begun + Len(frames)
  BY DEF Answered, Begun
<1>8. (InOrder /\ CurIsNext /\ FramesFollow /\ AnswerAwaited)'
  BY <1>6 DEF IInv, Answered, InOrder, CurIsNext, FramesFollow, Begun, AnswerAwaited
<1>9. TypeOK'
  BY <1>2 DEF IInv, TypeOK, Answered, Item
<1>10. PipeFollows'
  <2>1. Len(Tail(q)) = Len(q) - 1
    BY <1>1, <1>4, HeadTailProperties
  <2>2. /\ Len(Tail(q)) + 1 \in 1..(Len((buf \o socket)') + 1)
        /\ ~(Len(Tail(q)) + 1 <= Len((buf \o socket)'))
    <3>1. Len((buf \o socket)') = Len(Tail(q))
      BY <1>2, Zenon
    <3>2. QED
      BY <1>4, <2>1, <3>1
  <2>3. Follows((buf \o socket)', (Begun + Len(frames))', Len(Tail(q)) + 1, sent')
    BY <1>2, <1>6, <1>7 DEF Answered
  <2>4. QED
    BY <1>2, <2>2, <2>3, PipeThen
<1>11. QED
  BY <1>8, <1>9, <1>10 DEF IInv

LEMMA ReadsInv == IInv /\ Reads => IInv'
<1> SUFFICES ASSUME IInv, Reads PROVE IInv'
  OBVIOUS
<1>1. PICK k \in 1..Len(socket) :
         buf' = SubSeq(socket, 1, k) /\ socket' = SubSeq(socket, k + 1, Len(socket))
  BY DEF Reads, Receive
<1>2. buf' \in Seq(Item) /\ socket' \in Seq(Item) /\ (buf \o socket)' = socket
  BY <1>1, PipeNow, CutInTwo
<1>3. buf \o socket = socket
  BY PipeNow, ConcatEmptySeq DEF Reads
<1>4. TypeOK'
  BY <1>2 DEF IInv, TypeOK, Reads, Item
<1>5. (InOrder /\ CurIsNext /\ FramesFollow /\ AnswerAwaited)'
  BY DEF IInv, Reads, InOrder, CurIsNext, FramesFollow, Begun, AnswerAwaited
<1>6. /\ (buf \o socket)' = buf \o socket
      /\ (Begun + Len(frames))' = Begun + Len(frames)
      /\ sent' = sent /\ loop' = loop /\ asked' = asked
  BY <1>2, <1>3 DEF Reads, Begun
<1>7. PipeFollows'
  <2>1. PICK place \in 1..(Len(buf \o socket) + 1) :
           /\ Follows(buf \o socket, Begun + Len(frames), place, sent)
           /\ place <= Len(buf \o socket) => loop = "declare" /\ ~asked
    BY PipeNow
  <2>2. QED
    BY <1>2, <1>6, <2>1, PipeThen
<1>8. QED
  BY <1>4, <1>5, <1>7 DEF IInv
-----------------------------------------------------------------------------
(* The invariant holds in every behaviour: messages are numbered without a *)
(* gap from the handled ones to those still at the descriptor.             *)
THEOREM Invariance == Spec => []IInv
<1>1. IInv /\ [Next]_vars => IInv'
  <2> SUFFICES ASSUME IInv, [Next]_vars PROVE IInv'
    OBVIOUS
  <2>1. CASE UNCHANGED vars
    BY <2>1 DEF vars, IInv, TypeOK, InOrder, CurIsNext, FramesFollow, Begun,
                PipeFollows, AnswerAwaited
  <2>2. CASE Next
    BY <2>2, ArriveInv, AnswersInv, LoopInv, HandleInv, DispatchInv, SetAsideInv,
       AnsweredInv, ReadsInv DEF Next, MainLoop
  <2>3. QED
    BY <2>1, <2>2
<1>2. QED
  BY InvInit, <1>1, PTL DEF Spec

(* The source's and the library's state keeps its types. *)
THEOREM TypeCorrect == Spec => []TypeOK
<1>1. IInv => TypeOK
  BY DEF IInv
<1>2. QED
  BY Invariance, <1>1, PTL

(* Messages are handled once each and in the order of their arrival,       *)
(* whichever way through the library each has come.                        *)
THEOREM MessagesInOrder == Spec => []InOrder
<1>1. IInv => InOrder
  BY DEF IInv
<1>2. QED
  BY Invariance, <1>1, PTL
-----------------------------------------------------------------------------
(* What the main loop counts on in each place, kept by every step. *)
LEMMA SuppliedInit == Init => LoopSupplied
BY DEF Init, LoopSupplied

LEMMA SuppliedByPeer ==
    ASSUME IInv, LoopSupplied, Arrive \/ Answers \/ Breaks
    PROVE  LoopSupplied'
<1>1. CASE Breaks
  BY <1>1 DEF Breaks, LoopSupplied
<1>2. ASSUME NEW x \in Item, socket' = Append(socket, x), UNCHANGED <<buf, frames, loop, link>>,
             asked' = asked \/ x = Answer
      PROVE  LoopSupplied'
  <2>1. /\ Len(socket') = Len(socket) + 1 /\ socket'[Len(socket) + 1] = x
        /\ Len(socket) \in Nat
        /\ \A i \in 1..Len(socket) : i \in 1..Len(socket') /\ socket'[i] = socket[i]
    BY <1>2, PipeNow, AppendProperties
  <2>2. socket' # <<>>
    BY <2>1
  <2>3. Len(socket) + 1 \in 1..Len(socket')
    BY <2>1
  <2>4. QED
    BY <1>2, <2>1, <2>2, <2>3 DEF LoopSupplied
<1>3. CASE Arrive
  <2>1. sent + 1 \in Item
    BY <1>3, PipeNow, MessageAssumption DEF Arrive, Item, Msg, IInv, TypeOK
  <2>2. QED
    BY <1>2, <1>3, <2>1 DEF Arrive
<1>4. CASE Answers
  <2>1. Answer \in Item
    BY DEF Item
  <2>2. QED
    BY <1>2, <1>4, <2>1 DEF Answers
<1>5. QED
  BY <1>1, <1>3, <1>4

LEMMA SuppliedByLoop ==
    ASSUME IInv, LoopSupplied,
           Prepare \/ Wake \/ Dispatch \/ DispatchesError \/ Handle \/ Answered \/ DeclareFails
    PROVE  LoopSupplied'
<1>1. CASE Prepare
  BY <1>1 DEF Prepare, LoopSupplied
<1>2. CASE Wake
  BY <1>2 DEF Wake, LoopSupplied
<1>3. CASE Handle
  BY <1>3 DEF Handle, LoopSupplied
<1>4. CASE Dispatch \/ DispatchesError \/ Answered \/ DeclareFails
  <2>1. loop' \in {"callback", "prepare"}
    BY <1>4 DEF Dispatch, DispatchesError, Answered, DeclareFails
  <2>2. QED
    BY <2>1 DEF LoopSupplied
<1>5. QED
  BY <1>1, <1>2, <1>3, <1>4

LEMMA SuppliedByWait ==
    ASSUME IInv, LoopSupplied, SetAside \/ Reads
    PROVE  LoopSupplied'
<1>1. loop = "declare" /\ UNCHANGED <<loop, asked, link>>
  BY DEF SetAside, Reads
<1>2. CASE asked \/ ~link
  BY <1>1, <1>2 DEF LoopSupplied
<1>3. CASE SetAside /\ \E i \in 1..Len(buf) : buf[i] = Answer
  <2>1. PICK i \in 1..Len(buf) : buf[i] = Answer
    BY <1>3
  <2>2. /\ Head(buf) = buf[1] /\ Head(buf) # Answer /\ Len(buf) \in Nat
        /\ Len(buf') = Len(buf) - 1 /\ \A j \in 1..Len(buf') : buf'[j] = buf[j + 1]
    BY <1>3, PipeNow, HeadTailProperties DEF SetAside
  <2>3. i - 1 \in 1..Len(buf') /\ buf'[i - 1] = Answer
    BY <2>1, <2>2
  <2>4. QED
    BY <1>1, <2>3 DEF LoopSupplied
<1>4. CASE SetAside /\ \E i \in 1..Len(socket) : socket[i] = Answer
  BY <1>1, <1>4 DEF SetAside, LoopSupplied
<1>5. CASE Reads /\ \E i \in 1..Len(buf) : buf[i] = Answer
  <2>1. Len(buf) = 0
    BY <1>5 DEF Reads
  <2>2. QED
    BY <1>5, <2>1
<1>6. CASE Reads /\ \E i \in 1..Len(socket) : socket[i] = Answer
  <2>1. PICK i \in 1..Len(socket) : socket[i] = Answer
    BY <1>6
  <2>2. PICK k \in 1..Len(socket) :
           buf' = SubSeq(socket, 1, k) /\ socket' = SubSeq(socket, k + 1, Len(socket))
    BY <1>6 DEF Reads, Receive
  <2>3. Len(socket) \in Nat /\ \A j \in 1..Len(socket) : socket[j] \in Item
    BY PipeNow, ElementOfSeq
  <2>4. Len(buf') = k /\ \A j \in 1..k : buf'[j] = socket[j]
    <3>1. /\ 1 \in Int /\ k \in Int /\ 1 <= k /\ k - 1 + 1 = k
          /\ \A j \in 1..k : socket[j] \in Item /\ 1 + j - 1 = j
      BY <2>3
    <3>2. /\ Len(SubSeq(socket, 1, k)) = IF 1 <= k THEN k - 1 + 1 ELSE 0
          /\ \A j \in 1..(k - 1 + 1) : SubSeq(socket, 1, k)[j] = socket[1 + j - 1]
      BY <3>1, SubSeqProperties
    <3>3. QED
      BY <2>2, <3>1, <3>2
  <2>5. /\ Len(socket') = Len(socket) - k
        /\ \A j \in 1..(Len(socket) - k) : socket'[j] = socket[k + j]
    <3>1. /\ k + 1 \in Int /\ Len(socket) \in Int
          /\ Len(socket) - (k + 1) + 1 = Len(socket) - k
          /\ \A j \in (k + 1)..Len(socket) : socket[j] \in Item
          /\ \A j \in 1..(Len(socket) - k) : (k + 1) + j - 1 = k + j
      BY <2>3
    <3>2. /\ Len(socket') = IF k + 1 <= Len(socket) THEN Len(socket) - (k + 1) + 1 ELSE 0
          /\ \A j \in 1..(Len(socket) - (k + 1) + 1) : socket'[j] = socket[(k + 1) + j - 1]
      BY <2>2, <3>1, SubSeqProperties
    <3>3. QED
      BY <2>3, <3>1, <3>2
  <2>6. CASE i <= k
    <3>1. i \in 1..Len(buf') /\ buf'[i] = Answer
      BY <2>1, <2>3, <2>4, <2>6
    <3>2. QED
      BY <1>1, <3>1 DEF LoopSupplied
  <2>7. CASE i > k
    <3>1. i - k \in 1..Len(socket') /\ socket'[i - k] = Answer
      BY <2>1, <2>3, <2>5, <2>7
    <3>2. QED
      BY <1>1, <3>1 DEF LoopSupplied
  <2>8. QED
    BY <2>3, <2>6, <2>7
<1>7. QED
  BY <1>1, <1>2, <1>3, <1>4, <1>5, <1>6 DEF LoopSupplied

(* In each of its places the main loop has what it counts on. *)
THEOREM Supplied == Spec => []LoopSupplied
<1>1. IInv /\ LoopSupplied /\ [Next]_vars => LoopSupplied'
  <2> SUFFICES ASSUME IInv, LoopSupplied, [Next]_vars PROVE LoopSupplied'
    OBVIOUS
  <2>1. CASE UNCHANGED vars
    BY <2>1 DEF vars, LoopSupplied
  <2>2. CASE Next
    BY <2>2, SuppliedByPeer, SuppliedByLoop, SuppliedByWait DEF Next, MainLoop
  <2>3. QED
    BY <2>1, <2>2
<1>2. QED
  BY SuppliedInit, Invariance, <1>1, PTL DEF Spec

(* The main loop is never blocked for good in the source, and never woken  *)
(* for nothing (amqp-source.c: prepare, check and dispatch; the passive    *)
(* declare of the callback).                                               *)
THEOREM LoopIsServed == Spec => []LoopServed
<1>1. IInv /\ LoopSupplied => LoopServed
  <2> SUFFICES ASSUME IInv, LoopSupplied PROVE LoopServed
    OBVIOUS
  <2>1. ASSUME loop = "dispatch", frames = <<>>, link
        PROVE  buf \o socket # <<>> /\ Head(buf \o socket) \in Msg
    <3> DEFINE q == buf \o socket
    <3>1. socket # <<>>
      BY <2>1 DEF LoopSupplied
    <3>2. q \in Seq(Item) /\ Len(q) \in Nat \ {0} /\ q # <<>>
      <4>1. Len(socket) \in Nat \ {0} /\ Len(buf) \in Nat
        BY <3>1, PipeNow, EmptySeq
      <4>2. q \in Seq(Item) /\ Len(q) = Len(buf) + Len(socket)
        BY PipeNow
      <4>3. QED
        BY <4>1, <4>2, EmptySeq
    <3>3. Follows(q, Begun + Len(frames), Len(q) + 1, sent) /\ Begun + Len(frames) \in Nat
          /\ sent \in Nat
      BY <2>1, PipeOfMessages, PipeNow
    <3> HIDE DEF q
    <3>4. Head(q) = Begun + Len(frames) + 1
      <4>1. Len(q) + 1 \in 2..(Len(q) + 1)
        BY <3>2
      <4>2. QED
        BY <3>2, <3>3, <4>1, MessageTaken
    <3>5. Head(q) # Answer /\ Head(q) \in Item
      BY <3>2, <3>3, <3>4, HeadTailProperties DEF Answer
    <3>6. QED
      BY <3>2, <3>5 DEF Item, q
  <2>2. ASSUME loop = "declare" PROVE asked \/ ~link \/ buf # <<>> \/ socket # <<>>
    <3>1. CASE \E i \in 1..Len(buf) : buf[i] = Answer
      <4>1. Len(buf) # 0
        BY <3>1
      <4>2. QED
        BY <4>1
    <3>2. CASE \E i \in 1..Len(socket) : socket[i] = Answer
      <4>1. Len(socket) # 0
        BY <3>2
      <4>2. QED
        BY <4>1
    <3>3. QED
      BY <2>2, <3>1, <3>2 DEF LoopSupplied
  <2>3. QED
    BY <2>1, <2>2 DEF LoopServed
<1>2. QED
  BY Invariance, Supplied, <1>1, PTL
-----------------------------------------------------------------------------
(* Every message up to the last one sent is at a place of the pipe.        *)
LEMMA AtSomePlace ==
    ASSUME IInv, NEW m \in 1..sent, m > Begun + Len(frames)
    PROVE  \E i \in 1..Len(buf \o socket) : (buf \o socket)[i] = m
<1> DEFINE q == buf \o socket
           n == Begun + Len(frames)
<1>1. /\ Len(q) \in Nat /\ n \in Nat /\ sent \in Nat
  BY PipeNow
<1>2. PICK place \in 1..(Len(q) + 1) : Follows(q, n, place, sent)
  BY PipeNow
<1> HIDE DEF q, n
<1>3. m > n
  BY DEF n
<1>4. CASE m - n < place
  <2>1. m - n \in 1..Len(q) /\ n + (m - n) = m
    BY <1>1, <1>2, <1>3, <1>4
  <2>2. q[m - n] = n + (m - n)
    BY <1>2, <1>4, <2>1 DEF Follows
  <2>3. QED
    BY <2>1, <2>2 DEF q
<1>5. CASE m - n >= place
  <2>1. sent = IF place <= Len(q) THEN n + Len(q) - 1 ELSE n + Len(q)
    BY <1>2 DEF Follows
  <2>2. m - n + 1 \in 1..Len(q) /\ ~(m - n + 1 < place) /\ m - n + 1 # place
        /\ n + (m - n + 1) - 1 = m
    BY <1>1, <1>2, <1>3, <1>5, <2>1
  <2>3. q[m - n + 1] = n + (m - n + 1) - 1
    BY <1>2, <2>2 DEF Follows
  <2>4. QED
    BY <2>2, <2>3 DEF q
<1>6. QED
  BY <1>1, <1>2, <1>4, <1>5

(* No message is lost on its way through the library and the source: each  *)
(* that was sent has been handled, is being handled, or is at one of the   *)
(* three places on its way.                                                *)
THEOREM NoMessageLost == Spec => []NothingLost
<1>1. IInv => NothingLost
  <2> SUFFICES ASSUME IInv, NEW m \in 1..sent
               PROVE  \/ m \in DOMAIN done /\ done[m] = m
                      \/ m = cur
                      \/ m \in ToSet(frames) \/ m \in ToSet(buf) \/ m \in ToSet(socket)
    BY DEF NothingLost
  <2>1. /\ done \in Seq(Msg) /\ DOMAIN done = 1..Len(done) /\ Len(done) \in Nat
        /\ DOMAIN frames = 1..Len(frames) /\ Len(frames) \in Nat
        /\ DOMAIN buf = 1..Len(buf) /\ DOMAIN socket = 1..Len(socket)
        /\ Len(buf) \in Nat /\ Len(socket) \in Nat /\ Begun \in Nat /\ sent \in Nat
    BY PipeNow, LenProperties DEF IInv, TypeOK
  <2>2. CASE m <= Len(done)
    BY <2>1, <2>2 DEF IInv, InOrder
  <2>3. CASE m > Len(done) /\ m <= Begun
    BY <2>1, <2>3 DEF IInv, CurIsNext, Begun
  <2>4. CASE m > Begun /\ m <= Begun + Len(frames)
    <3>1. m - Begun \in 1..Len(frames) /\ Begun + (m - Begun) = m
      BY <2>1, <2>4
    <3>2. frames[m - Begun] = m
      BY <3>1 DEF IInv, FramesFollow
    <3>3. QED
      BY <2>1, <3>1, <3>2 DEF ToSet
  <2>5. CASE m > Begun + Len(frames)
    <3>1. PICK i \in 1..Len(buf \o socket) : (buf \o socket)[i] = m
      BY <2>5, AtSomePlace
    <3>2. /\ Len(buf \o socket) = Len(buf) + Len(socket)
          /\ (buf \o socket)[i] = IF i <= Len(buf) THEN buf[i] ELSE socket[i - Len(buf)]
      BY <3>1, PipeNow, ConcatProperties
    <3>3. CASE i <= Len(buf)
      <4>1. i \in DOMAIN buf /\ buf[i] = m
        BY <2>1, <3>1, <3>2, <3>3
      <4>2. QED
        BY <4>1 DEF ToSet
    <3>4. CASE i > Len(buf)
      <4>1. i - Len(buf) \in DOMAIN socket /\ socket[i - Len(buf)] = m
        BY <2>1, <3>1, <3>2, <3>4
      <4>2. QED
        BY <4>1 DEF ToSet
    <3>5. QED
      BY <2>1, <3>1, <3>2, <3>3, <3>4
  <2>6. QED
    BY <2>1, <2>2, <2>3, <2>4, <2>5
<1>2. QED
  BY Invariance, <1>1, PTL
=============================================================================
