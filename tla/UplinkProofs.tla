---------------------------- MODULE UplinkProofs ----------------------------
(***************************************************************************)
(* Proofs about Uplink, for queues and pools of every size, any number of  *)
(* frames and every policy: type correctness, the conservation of buffers, *)
(* that the receive task never asks for a buffer in vain, the order and    *)
(* the fate of every frame, and that the uplink is a lossy FIFO channel.   *)
(*                                                                         *)
(* That the pool suffices follows from the conservation of buffers, which  *)
(* is inductive once it is known what each task holds at which step        *)
(* (Holdings): one frame at most, and none but at the steps named for it.  *)
(* On top of that the books on frames are straight (Books, of              *)
(* OrderLemmas), and order, fate and refinement follow from them, as does  *)
(* that a chunk is no longer than the frames sent, which bounds the work   *)
(* of a stopped receive task. That the teardown's join is answered follows *)
(* from IInv: the pool suffices, and the driver is stopped before the join. *)
(***************************************************************************)
EXTENDS Uplink, OrderLemmas, TLAPS

USE BuffersAssumption, PoliciesAssumption, FramesAssumption
USE DEF busVars, linkVars, recvVars

\* The receive task has a frame in hand only while it delivers it, the main
\* task only while it dispatches it, and the driver is stopped before the join.
Holdings ==
  /\ Len(hand) = Count(receiver = "delivering")
  /\ main # "aborted" => Len(current) = Count(main = "sending")
  /\ Len(current) <= 1
  /\ receiver = "done" => stopped
  /\ main = "done" => receiver = "done"
  /\ receiver \in {"idle", "reading", "done"} => chunk = <<>>

IInv == TypeOK /\ Holdings /\ BuffersConserved
-----------------------------------------------------------------------------
(* Sequences.                                                               *)

\* Taking the first element leaves a sequence shorter by one.
LEMMA TakeFirst ==
  ASSUME NEW S, NEW s \in Seq(S), s # <<>>
  PROVE  /\ Head(s) \in S /\ Tail(s) \in Seq(S) /\ Len(Tail(s)) = Len(s) - 1
         /\ Len(s) \in Nat \ {0} /\ Len(Tail(s)) \in Nat
OBVIOUS

\* A sequence of one element.
LEMMA Singleton ==
  ASSUME NEW S, NEW e \in S
  PROVE  <<e>> \in Seq(S) /\ Len(<<e>>) = 1 /\ <<e>>[1] = e
OBVIOUS

\* A sequence of length 1 is its first element.
LEMMA FirstOfOne ==
  ASSUME NEW S, NEW s \in Seq(S), Len(s) = 1
  PROVE  s = <<s[1]>> /\ s[1] \in S
<1>1. s[1] \in S
  OBVIOUS
<1>2. <<s[1]>> \in Seq(S) /\ Len(<<s[1]>>) = 1 /\ \A i \in 1 .. 1 : s[i] = <<s[1]>>[i]
  BY <1>1
<1> QED
  BY <1>1, <1>2, SeqEqual

\* The parts a read splits the stream into.
LEMMA Parts ==
  ASSUME NEW S, NEW s \in Seq(S), NEW n \in 0 .. Len(s)
  PROVE  SubSeq(s, 1, n) \in Seq(S) /\ SubSeq(s, n + 1, Len(s)) \in Seq(S)
<1>1. \A i \in 1 .. n : s[i] \in S
  OBVIOUS
<1>2. \A i \in n + 1 .. Len(s) : s[i] \in S
  OBVIOUS
<1> QED
  BY <1>1, <1>2, SubSeqProperties

\* Ids of frames are turns of frames.
LEMMA IdsTyped ==
  ASSUME NEW s \in Seq(Frames)
  PROVE  Ids(s) \in Seq(1 .. MaxFrames) /\ Len(Ids(s)) = Len(s)
<1>1. \A i \in 1 .. Len(s) : s[i] \in Frames
  OBVIOUS
<1>2. \A i \in 1 .. Len(s) : s[i].id \in 1 .. MaxFrames
  BY <1>1 DEF Frames
<1>3. Ids(s) = [i \in 1 .. Len(s) |-> s[i].id]
  BY DEF Ids
<1> QED
  BY <1>2, <1>3

\* Concatenation.
LEMMA Concat ==
  ASSUME NEW S, NEW s \in Seq(S), NEW t \in Seq(S)
  PROVE  s \o t \in Seq(S) /\ Len(s \o t) = Len(s) + Len(t)
BY ConcatProperties
-----------------------------------------------------------------------------
(* The invariant.                                                           *)

LEMMA InitInvariant == Init => IInv
<1> SUFFICES ASSUME Init PROVE IInv
  OBVIOUS
<1>1. fate \in [1 .. MaxFrames -> Fates]
  BY DEF Init, Fates
<1>2. TypeOK
  <2>1. <<>> \in Seq(Frames) /\ <<>> \in Seq(1 .. MaxFrames) /\ Len(<<>>) = 0
    OBVIOUS
  <2>2. /\ queue = <<>> /\ Len(queue) <= QueueSize
        /\ lent \in 0 .. NumBuffers /\ sent \in 0 .. MaxFrames
    BY <2>1 DEF Init
  <2> QED
    BY <1>1, <2>1, <2>2 DEF Init, TypeOK
<1>3. Len(hand) = 0 /\ Len(queue) = 0 /\ Len(current) = 0
  BY DEF Init
<1>4. Holdings
  BY <1>3 DEF Init, Holdings, Count
<1>5. BuffersConserved
  BY <1>3 DEF Init, BuffersConserved, Count
<1> QED
  BY <1>2, <1>4, <1>5 DEF IInv

\* Clients and connections touch neither tasks nor buffers.
LEMMA LinkStep ==
  ASSUME IInv, (\E good \in BOOLEAN : ClientSends(good)) \/ Disconnect
  PROVE  IInv'
<1> USE DEF IInv, TypeOK, Holdings, BuffersConserved, Count
<1>1. ASSUME NEW good \in BOOLEAN, ClientSends(good) PROVE IInv'
  <2>1. [id |-> sent + 1, good |-> good] \in Frames
    BY <1>1 DEF ClientSends, Frames
  <2>2. stream' \in Seq(Frames) /\ sent' \in 0 .. MaxFrames
    BY <1>1, <2>1 DEF ClientSends
  <2> QED
    BY <1>1, <2>2 DEF ClientSends
<1>2. CASE Disconnect
  <2>1. fate' \in [1 .. MaxFrames -> Fates]
    BY <1>2 DEF Disconnect, Fates
  <2>2. stream' \in Seq(Frames)
    BY <1>2 DEF Disconnect
  <2> QED
    BY <1>2, <2>1, <2>2 DEF Disconnect
<1> QED
  BY <1>1, <1>2

LEMMA ReceiveStep ==
  ASSUME IInv, Receive
  PROVE  IInv'
<1> USE DEF IInv, TypeOK, Holdings, BuffersConserved, Count
<1>1. CASE AllocateRecv
  BY <1>1 DEF AllocateRecv, Allocate
<1>2. ASSUME NEW n \in 0 .. Len(stream), Read(n) PROVE IInv'
  <2>1. chunk' \in Seq(Frames) /\ stream' \in Seq(Frames)
    BY <1>2, Parts DEF Read
  <2> QED
    BY <1>2, <2>1 DEF Read
<1>3. CASE RejectFrame
  <2>1. chunk' \in Seq(Frames) /\ fate' \in [1 .. MaxFrames -> Fates]
    BY <1>3, TakeFirst DEF RejectFrame, Fates
  <2> QED
    BY <1>3, <2>1 DEF RejectFrame
<1>4. CASE AcceptFrame
  <2>1. chunk' \in Seq(Frames) /\ hand' \in Seq(Frames) /\ Len(hand') = 1
    BY <1>4, TakeFirst, Singleton DEF AcceptFrame
  <2> QED
    BY <1>4, <2>1 DEF AcceptFrame, Allocate
<1>5. CASE Deliver
  <2>1. queue' \in Seq(Frames) /\ Len(queue') = Len(queue) + 1
    BY <1>5, Concat DEF Deliver
  <2> QED
    BY <1>5, <2>1 DEF Deliver
<1>6. CASE DropFrame
  <2>1. fate' \in [1 .. MaxFrames -> Fates]
    BY <1>6 DEF DropFrame, Fates
  <2> QED
    BY <1>6, <2>1 DEF DropFrame, FrameReturn
<1>7. CASE AbortOnFull
  BY <1>7 DEF AbortOnFull
<1>8. CASE EndChunk
  BY <1>8 DEF EndChunk, RecvReturn
<1>9. CASE ReceiverEnds
  BY <1>9 DEF ReceiverEnds, RecvReturn
<1> QED
  BY <1>1, <1>2, <1>3, <1>4, <1>5, <1>6, <1>7, <1>8, <1>9 DEF Receive

LEMMA MainStep ==
  ASSUME IInv, MainTask
  PROVE  IInv'
<1> USE DEF IInv, TypeOK, Holdings, BuffersConserved, Count
<1>1. CASE RunLoop
  BY <1>1 DEF RunLoop
<1>2. CASE ProcessEmpty
  BY <1>2 DEF ProcessEmpty
<1>3. CASE Dispatch
  <2>1. /\ queue' \in Seq(Frames) /\ Len(queue') = Len(queue) - 1
        /\ current' \in Seq(Frames) /\ Len(current') = 1
    BY <1>3, TakeFirst, Singleton DEF Dispatch
  <2>2. Len(current) = 0
    BY <1>3 DEF Dispatch
  <2>3. Len(queue) \in Nat /\ Len(hand) \in Nat
    OBVIOUS
  <2>4. TypeOK'
    BY <1>3, <2>1, <2>3 DEF Dispatch
  <2>5. Holdings'
    BY <1>3, <2>1 DEF Dispatch
  <2>6. BuffersConserved'
    <3> HIDE DEF IInv, TypeOK, Holdings, Count
    <3>1. BuffersConserved /\ UNCHANGED <<receiver, hand, lent>>
      BY <1>3 DEF Dispatch, IInv
    <3>2. Count(receiver \in {"reading", "parsing", "delivering"}) \in Nat
      BY DEF Count
    <3>3. Len(hand') = Len(hand) /\ receiver' = receiver /\ lent' = lent
      BY <3>1
    <3> QED
      BY <2>1, <2>2, <2>3, <3>1, <3>2, <3>3
  <2> QED
    BY <2>4, <2>5, <2>6
<1>4. CASE Transmit
  <2>1. fate' \in [1 .. MaxFrames -> Fates]
    BY <1>4 DEF Transmit, Fates
  <2>2. dispatched' \in Seq(1 .. MaxFrames)
    BY <1>4, IdsTyped, Concat DEF Transmit
  <2>3. current' \in Seq(Frames) /\ Len(current') = 0 /\ Len(current) = 1
    BY <1>4 DEF Transmit
  <2>4. lent \in Nat /\ lent > 0 /\ Len(queue) \in Nat /\ Len(hand) \in Nat
    BY <2>3
  <2>5. TypeOK'
    BY <1>4, <2>1, <2>2, <2>3, <2>4 DEF Transmit, FrameReturn
  <2>6. Holdings'
    BY <1>4, <2>3 DEF Transmit
  <2>7. BuffersConserved'
    <3> HIDE DEF IInv, TypeOK, Holdings, Count
    <3>1. BuffersConserved /\ lent' = lent - 1 /\ UNCHANGED <<receiver, hand, queue>>
      BY <1>4 DEF Transmit, FrameReturn, IInv
    <3>2. Count(receiver \in {"reading", "parsing", "delivering"}) \in Nat
      BY DEF Count
    <3>3. Len(hand') = Len(hand) /\ Len(queue') = Len(queue) /\ receiver' = receiver
      BY <3>1
    <3> QED
      BY <2>3, <2>4, <3>1, <3>2, <3>3
  <2> QED
    BY <2>5, <2>6, <2>7
<1>5. CASE StopDriver
  BY <1>5 DEF StopDriver
<1>6. CASE Join
  BY <1>6 DEF Join
<1> QED
  BY <1>1, <1>2, <1>3, <1>4, <1>5, <1>6 DEF MainTask

LEMMA Invariance == Spec => []IInv
<1>1. IInv /\ [Next]_vars => IInv'
  <2>1. CASE UNCHANGED vars
    BY <2>1 DEF vars, IInv, TypeOK, Holdings, BuffersConserved, Count
  <2> QED
    BY <2>1, LinkStep, ReceiveStep, MainStep DEF Next
<1> QED
  BY <1>1, InitInvariant, PTL DEF Spec
-----------------------------------------------------------------------------
(* The books on frames.                                                     *)

FrameBooks == Books(dispatched, InTransit, sent, MaxFrames, fate, "dispatched")

LEMMA FrameTurns ==
  ASSUME NEW s \in Seq(Frames)
  PROVE  Ids(s) \in Seq(Nat) /\ Ids(s) = Turns(s)
<1>1. Turned(Frames, Nat)
  BY DEF Turned, Frames
<1>2. Ids(s) = Turns(s)
  BY DEF Ids, Turns
<1> QED
  BY <1>1, <1>2, TurnsTyped

LEMMA FrameIds ==
  /\ Ids(<<>>) = <<>>
  /\ \A f \in Frames : Ids(<<f>>) = <<f.id>> /\ <<f.id>> \in Seq(Nat)
  /\ \A s, t \in Seq(Frames) : Ids(s \o t) = Ids(s) \o Ids(t)
<1>1. Turned(Frames, Nat)
  BY DEF Turned, Frames
<1>2. \A s : Ids(s) = Turns(s)
  BY DEF Ids, Turns
<1>3. \A f \in Frames : <<f.id>> \in Seq(Nat)
  BY DEF Frames
<1> QED
  BY <1>1, <1>2, <1>3, TurnsOfEmpty, TurnsOfOne, TurnsOfConcat

\* The first frame of a queue, and the rest of it.
LEMMA FirstFrame ==
  ASSUME NEW s \in Seq(Frames), s # <<>>
  PROVE  /\ Head(s) \in Frames /\ Head(s).id \in 1 .. MaxFrames
         /\ Ids(s) = <<Head(s).id>> \o Ids(Tail(s))
         /\ <<Head(s).id>> \in Seq(Nat) /\ Ids(Tail(s)) \in Seq(Nat)
         /\ Ids(<<Head(s)>>) = <<Head(s).id>>
<1>1. /\ Head(s) \in Frames /\ Tail(s) \in Seq(Frames) /\ <<Head(s)>> \in Seq(Frames)
      /\ s = <<Head(s)>> \o Tail(s)
  BY HeadFirst
<1>2. Ids(<<Head(s)>> \o Tail(s)) = Ids(<<Head(s)>>) \o Ids(Tail(s))
  BY <1>1, FrameIds
<1>3. Ids(<<Head(s)>>) = <<Head(s).id>> /\ <<Head(s).id>> \in Seq(Nat)
  BY <1>1, FrameIds
<1>4. Ids(Tail(s)) \in Seq(Nat) /\ Head(s).id \in 1 .. MaxFrames
  BY <1>1, FrameTurns DEF Frames
<1> QED
  BY <1>1, <1>2, <1>3, <1>4

\* A sequence of one frame.
LEMMA OneFrame ==
  ASSUME NEW s \in Seq(Frames), Len(s) = 1
  PROVE  ToSet(Ids(s)) = {s[1].id} /\ s[1] \in Frames
<1>1. s = <<s[1]>> /\ s[1] \in Frames
  BY FirstOfOne
<1>2. Ids(s) = <<s[1].id>>
  BY <1>1, FrameIds
<1> QED
  BY <1>1, <1>2, SetOfOne

LEMMA FourJoined ==
  ASSUME NEW c \in Seq(Nat), NEW q \in Seq(Nat), NEW h \in Seq(Nat), NEW k \in Seq(Nat)
  PROVE  c \o q \o h \o k \in Seq(Nat)
<1>1. c \o q \in Seq(Nat)
  BY JoinNat
<1>2. c \o q \o h \in Seq(Nat)
  BY <1>1, JoinNat
<1> QED
  BY <1>2, JoinNat

LEMMA UplinkTyped ==
  ASSUME TypeOK
  PROVE  /\ Ids(current) \in Seq(Nat) /\ Ids(queue) \in Seq(Nat) /\ Ids(hand) \in Seq(Nat)
         /\ Ids(chunk) \in Seq(Nat) /\ Ids(stream) \in Seq(Nat)
BY FrameTurns DEF TypeOK

LEMMA InitBooks == Init => FrameBooks
<1> SUFFICES ASSUME Init PROVE FrameBooks
  OBVIOUS
<1>1. <<>> \in Seq(Nat) /\ <<>> \o <<>> = <<>> /\ \A n : <<>> \in Seq(1 .. n)
  BY ConcatEmptySeq
<1>2. InTransit = <<>> /\ dispatched \o InTransit = <<>>
  BY <1>1, FrameIds DEF Init, InTransit
<1>3. Increasing(<<>>)
  BY DEF Increasing
<1>4. sent = 0 /\ dispatched = <<>> /\ \A i \in 1 .. MaxFrames : i > sent /\ fate[i] = "none"
  BY DEF Init
<1> QED
  BY <1>1, <1>2, <1>3, <1>4, SetOfEmpty DEF FrameBooks, Books

\* Steps that move frames on, or none.
LEMMA MoveBooks ==
  ASSUME FrameBooks, InTransit' = InTransit, UNCHANGED <<dispatched, sent, fate>>
  PROVE  FrameBooks'
BY DEF FrameBooks

\* The client and the connection.
LEMMA LinkBooks ==
  ASSUME IInv, FrameBooks, (\E good \in BOOLEAN : ClientSends(good)) \/ Disconnect
  PROVE  FrameBooks'
<1> DEFINE X == Ids(current) \o Ids(queue) \o Ids(hand) \o Ids(chunk)
           S == Ids(stream)
<1>1. TypeOK /\ X \in Seq(Nat) /\ S \in Seq(Nat) /\ InTransit = X \o S
  BY UplinkTyped, FourJoined DEF IInv, InTransit
<1>2. ASSUME NEW good \in BOOLEAN, ClientSends(good) PROVE FrameBooks'
  <2> DEFINE f == [id |-> sent + 1, good |-> good]
  <2>1. sent < MaxFrames /\ sent \in Nat /\ f \in Frames /\ stream' = Append(stream, f) /\ f.id = sent + 1
    BY <1>1, <1>2 DEF ClientSends, Frames, TypeOK
  <2>2. UNCHANGED <<current, queue, hand, chunk, dispatched, fate>> /\ sent' = sent + 1
    BY <1>2 DEF ClientSends
  <2>3. stream' = stream \o <<f>> /\ <<f>> \in Seq(Frames) /\ stream \in Seq(Frames)
    BY <1>1, <2>1, AppendConcatenates DEF TypeOK
  <2>4. Ids(stream') = S \o <<sent + 1>> /\ <<sent + 1>> \in Seq(Nat)
    BY <2>1, <2>3, FrameIds
  <2>5. InTransit' = X \o (S \o <<sent + 1>>)
    BY <2>2, <2>4 DEF InTransit
  <2>6. X \o (S \o <<sent + 1>>) = (X \o S) \o <<sent + 1>>
    <3> HIDE DEF X, S
    <3> QED
      BY <1>1, <2>4, ConcatNat
  <2> QED
    BY <1>1, <2>1, <2>2, <2>5, <2>6, BooksSetOut DEF FrameBooks
<1>3. CASE Disconnect
  <2>1. /\ stream' = <<>> /\ UNCHANGED <<current, queue, hand, chunk, dispatched, sent>>
        /\ fate' = [i \in DOMAIN fate |-> IF i \in ToSet(S) THEN "lost" ELSE fate[i]]
    BY <1>3 DEF Disconnect
  <2>2. \A i \in 1 .. MaxFrames :
          IF i \in ToSet(S) THEN fate'[i] # "none" /\ fate'[i] # "dispatched" ELSE fate'[i] = fate[i]
    BY <1>1, <2>1 DEF TypeOK
  <2>3. InTransit' = X \o <<>>
    BY <2>1, FrameIds DEF InTransit
  <2> HIDE DEF X, S
  <2>4. <<>> \in Seq(Nat) /\ X \o S \o <<>> = X \o S
    BY <1>1, ConcatNat, ConcatEmptySeq
  <2>5. Books(dispatched, X \o S \o <<>>, sent, MaxFrames, fate, "dispatched")
    BY <1>1, <2>4 DEF FrameBooks
  <2>6. Books(dispatched, X \o <<>>, sent, MaxFrames, fate', "dispatched")
    BY <1>1, <2>2, <2>4, <2>5, BooksLost
  <2> QED
    BY <2>1, <2>3, <2>6 DEF FrameBooks
<1> QED
  BY <1>2, <1>3

\* Cutting one frame out of the uplink.
LEMMA FrameGone ==
  ASSUME NEW r, NEW n, NEW f \in [1 .. MaxFrames -> Fates],
         NEW i \in 1 .. MaxFrames, NEW end \in {"rejected", "dropped"},
         NEW x \in Seq(Nat), NEW z \in Seq(Nat),
         Books(r, x \o <<i>> \o z, n, MaxFrames, f, "dispatched")
  PROVE  Books(r, x \o z, n, MaxFrames, [f EXCEPT ![i] = end], "dispatched")
<1> DEFINE y == <<i>>
           g == [f EXCEPT ![i] = end]
<1>1. y \in Seq(Nat) /\ MaxFrames \in Nat
  OBVIOUS
<1>2. \A j \in 1 .. MaxFrames :
        IF j \in ToSet(y) THEN g[j] # "none" /\ g[j] # "dispatched" ELSE g[j] = f[j]
  BY SetOfOne
<1>3. Books(r, x \o y \o z, n, MaxFrames, f, "dispatched")
  OBVIOUS
<1> HIDE DEF y, g
<1>4. Books(r, x \o z, n, MaxFrames, g, "dispatched")
  BY <1>1, <1>2, <1>3, BooksLost
<1> QED
  BY <1>4 DEF g

\* The receive task.
LEMMA ReceiveBooks ==
  ASSUME IInv, FrameBooks, Receive
  PROVE  FrameBooks'
<1> DEFINE C == Ids(current)
           Q == Ids(queue)
           H == Ids(hand)
           K == Ids(chunk)
           S == Ids(stream)
<1>1. /\ TypeOK /\ C \in Seq(Nat) /\ Q \in Seq(Nat) /\ H \in Seq(Nat) /\ K \in Seq(Nat) /\ S \in Seq(Nat)
      /\ InTransit = C \o Q \o H \o K \o S
  BY UplinkTyped DEF IInv, InTransit
<1>2. /\ C \o Q \in Seq(Nat) /\ C \o Q \o H \in Seq(Nat) /\ K \o S \in Seq(Nat)
      /\ InTransit = (C \o Q \o H) \o (K \o S)
  <2> HIDE DEF C, Q, H, K, S
  <2>1. C \o Q \in Seq(Nat) /\ K \o S \in Seq(Nat)
    BY <1>1, JoinNat
  <2>2. C \o Q \o H \in Seq(Nat)
    BY <1>1, <2>1, JoinNat
  <2>3. (C \o Q \o H) \o K \o S = (C \o Q \o H) \o (K \o S)
    BY <1>1, <2>2, AssocNat
  <2> QED
    BY <1>1, <2>1, <2>2, <2>3
<1>3. CASE AllocateRecv \/ AbortOnFull \/ EndChunk \/ ReceiverEnds
  <2>1. UNCHANGED <<current, queue, hand, chunk, stream, dispatched, sent, fate>>
    BY <1>3 DEF AllocateRecv, AbortOnFull, EndChunk, ReceiverEnds
  <2> QED
    BY <2>1, MoveBooks DEF InTransit
<1>4. ASSUME NEW n \in 0 .. Len(stream), Read(n) PROVE FrameBooks'
  <2>1. /\ chunk = <<>> /\ chunk' = SubSeq(stream, 1, n) /\ stream' = SubSeq(stream, n + 1, Len(stream))
        /\ UNCHANGED <<current, queue, hand, dispatched, sent, fate>>
    BY <1>4 DEF Read, IInv, Holdings
  <2>2. stream \in Seq(Frames) /\ chunk' \in Seq(Frames) /\ stream' \in Seq(Frames)
    BY <1>1, <2>1, Parts DEF TypeOK
  <2>3. chunk' \o stream' = stream
    <3>1. Len(stream) \in Nat /\ 1 \in 1 .. Len(stream) + 1 /\ n \in 1 - 1 .. Len(stream)
          /\ Len(stream) \in n .. Len(stream)
      BY <2>2
    <3>2. chunk' \o stream' = SubSeq(stream, 1, Len(stream))
      BY <2>1, <2>2, <3>1, ConcatAdjacentSubSeq
    <3> QED
      BY <2>2, <3>2, SubSeqFull
  <2>4. S = Ids(chunk') \o Ids(stream') /\ Ids(chunk') \in Seq(Nat) /\ Ids(stream') \in Seq(Nat)
    BY <2>2, <2>3, FrameIds, FrameTurns
  <2>5. K = <<>> /\ <<>> \o S = S
    BY <1>1, <2>1, FrameIds, ConcatEmptySeq
  <2>6. InTransit = (C \o Q \o H) \o S
    BY <1>2, <2>5
  <2>7. InTransit' = (C \o Q \o H) \o Ids(chunk') \o Ids(stream')
    BY <2>1 DEF InTransit
  <2>8. \A k, s \in Seq(Nat) : (C \o Q \o H) \o k \o s = (C \o Q \o H) \o (k \o s)
    <3> HIDE DEF C, Q, H
    <3> QED
      BY <1>2, ConcatNat
  <2> QED
    BY <2>1, <2>4, <2>6, <2>7, <2>8, MoveBooks
<1>5. CASE RejectFrame \/ AcceptFrame
  <2> DEFINE h == Head(chunk)
             L == Ids(chunk')
  <2>1. /\ chunk # <<>> /\ chunk' = Tail(chunk) /\ receiver = "parsing"
        /\ UNCHANGED <<current, queue, stream, dispatched, sent>>
    BY <1>5 DEF RejectFrame, AcceptFrame
  <2>2. /\ h.id \in 1 .. MaxFrames /\ K = <<h.id>> \o L /\ <<h.id>> \in Seq(Nat) /\ L \in Seq(Nat)
        /\ Ids(<<h>>) = <<h.id>>
    BY <1>1, <2>1, FirstFrame DEF TypeOK
  <2>3. H = <<>> /\ C \o Q \o H = C \o Q
    <3>1. hand = <<>>
      BY <1>1, <2>1 DEF IInv, Holdings, Count, TypeOK
    <3>2. H = <<>>
      BY <3>1, FrameIds
    <3> QED
      BY <1>2, <3>2, ConcatEmptySeq
  <2> DEFINE X == C \o Q
  <2>4. X \in Seq(Nat) /\ S \in Seq(Nat) /\ InTransit = X \o (<<h.id>> \o L) \o S
    BY <1>1, <1>2, <2>2, <2>3
  <2>5. X \o (<<h.id>> \o L) \o S = X \o <<h.id>> \o L \o S /\ X \o <<h.id>> \in Seq(Nat)
    <3> HIDE DEF X, L, S, h
    <3> QED
      BY <2>2, <2>4, ConcatNat
  <2>6. CASE AcceptFrame
    <3>1. hand' = <<h>> /\ fate' = fate
      BY <2>6 DEF AcceptFrame
    <3>2. InTransit' = X \o <<h.id>> \o L \o S
      BY <2>1, <2>2, <3>1 DEF InTransit
    <3> QED
      BY <2>1, <2>4, <2>5, <3>1, <3>2, MoveBooks
  <2>7. CASE RejectFrame
    <3>1. UNCHANGED hand /\ fate' = [fate EXCEPT ![h.id] = "rejected"]
      BY <2>7 DEF RejectFrame
    <3>2. InTransit' = X \o L \o S
      BY <2>1, <2>3, <3>1 DEF InTransit
    <3>3. /\ X \o L \o S = X \o (L \o S) /\ L \o S \in Seq(Nat)
          /\ X \o <<h.id>> \o L \o S = X \o <<h.id>> \o (L \o S)
      <4> HIDE DEF X, L, S, h
      <4>1. L \o S \in Seq(Nat)
        BY <2>2, <2>4, JoinNat
      <4>2. X \o L \o S = X \o (L \o S)
        BY <2>2, <2>4, AssocNat
      <4>3. X \o <<h.id>> \o L \o S = X \o <<h.id>> \o (L \o S)
        BY <2>2, <2>4, <2>5, AssocNat
      <4> QED
        BY <4>1, <4>2, <4>3
    <3> HIDE DEF X, L, S, h
    <3>4. InTransit = X \o <<h.id>> \o (L \o S) /\ InTransit' = X \o (L \o S)
      BY <2>4, <2>5, <3>2, <3>3
    <3>5. Books(dispatched, X \o <<h.id>> \o (L \o S), sent, MaxFrames, fate, "dispatched")
      BY <3>4 DEF FrameBooks
    <3>6. fate \in [1 .. MaxFrames -> Fates]
      BY <1>1 DEF TypeOK
    <3>7. Books(dispatched, X \o (L \o S), sent, MaxFrames, fate', "dispatched")
      BY <2>2, <2>4, <3>1, <3>3, <3>5, <3>6, FrameGone
    <3> QED
      BY <2>1, <3>4, <3>7 DEF FrameBooks
  <2> QED
    BY <1>5, <2>6, <2>7
<1>6. CASE Deliver
  <2>1. /\ queue' = queue \o hand /\ hand' = <<>>
        /\ UNCHANGED <<current, chunk, stream, dispatched, sent, fate>>
    BY <1>6 DEF Deliver
  <2>2. Ids(queue') = Q \o H /\ Ids(hand') = <<>>
    BY <1>1, <2>1, FrameIds DEF TypeOK
  <2>3. C \o (Q \o H) = C \o Q \o H /\ C \o Q \o H \o <<>> = C \o Q \o H
    <3> HIDE DEF C, Q, H, K, S
    <3> QED
      BY <1>1, <1>2, AssocNat, ConcatEmptySeq
  <2>4. InTransit' = InTransit
    BY <1>1, <2>1, <2>2, <2>3 DEF InTransit
  <2> QED
    BY <2>1, <2>4, MoveBooks
<1>7. CASE DropFrame
  <2>1. /\ receiver = "delivering" /\ hand' = <<>> /\ fate' = [fate EXCEPT ![hand[1].id] = "dropped"]
        /\ UNCHANGED <<current, queue, chunk, stream, dispatched, sent>>
    BY <1>7 DEF DropFrame
  <2>2. Len(hand) = 1 /\ hand \in Seq(Frames)
    BY <1>1, <2>1 DEF IInv, Holdings, Count, TypeOK
  <2>3. hand = <<hand[1]>> /\ hand[1] \in Frames /\ hand[1].id \in 1 .. MaxFrames
    <3>1. hand = <<hand[1]>> /\ hand[1] \in Frames
      BY <2>2, FirstOfOne
    <3> QED
      BY <3>1 DEF Frames
  <2>4. H = <<hand[1].id>>
    BY <2>3, FrameIds
  <2>5. Ids(hand') = <<>> /\ C \o Q \o <<>> = C \o Q
    BY <1>2, <2>1, FrameIds, ConcatEmptySeq
  <2>6. InTransit' = C \o Q \o K \o S
    BY <2>1, <2>5 DEF InTransit
  <2>7. C \o Q \o K \o S = C \o Q \o (K \o S)
    <3> HIDE DEF C, Q, H, K, S
    <3> DEFINE X == C \o Q
    <3>1. X \in Seq(Nat) /\ K \in Seq(Nat) /\ S \in Seq(Nat)
      BY <1>1, <1>2
    <3> HIDE DEF X
    <3>2. X \o K \o S = X \o (K \o S)
      BY <3>1, AssocNat
    <3> QED
      BY <3>2 DEF X
  <2> HIDE DEF C, Q, H, K, S
  <2> DEFINE X == C \o Q
             Z == K \o S
             i == hand[1].id
  <2>8. InTransit = X \o <<i>> \o Z /\ InTransit' = X \o Z /\ X \in Seq(Nat) /\ Z \in Seq(Nat)
    BY <1>1, <1>2, <2>4, <2>6, <2>7
  <2>9. i \in 1 .. MaxFrames /\ fate' = [fate EXCEPT ![i] = "dropped"]
    BY <2>1, <2>3
  <2> HIDE DEF X, Z, i
  <2>10. Books(dispatched, X \o <<i>> \o Z, sent, MaxFrames, fate, "dispatched")
    BY <2>8 DEF FrameBooks
  <2>11. fate \in [1 .. MaxFrames -> Fates]
    BY <1>1 DEF TypeOK
  <2>12. Books(dispatched, X \o Z, sent, MaxFrames, fate', "dispatched")
    BY <2>8, <2>9, <2>10, <2>11, FrameGone
  <2> QED
    BY <2>1, <2>8, <2>12 DEF FrameBooks
<1> QED
  BY <1>3, <1>4, <1>5, <1>6, <1>7 DEF Receive

\* The main task.
LEMMA MainBooks ==
  ASSUME IInv, FrameBooks, MainTask
  PROVE  FrameBooks'
<1> DEFINE C == Ids(current)
           Q == Ids(queue)
           H == Ids(hand)
           K == Ids(chunk)
           S == Ids(stream)
<1>1. /\ TypeOK /\ C \in Seq(Nat) /\ Q \in Seq(Nat) /\ H \in Seq(Nat) /\ K \in Seq(Nat) /\ S \in Seq(Nat)
      /\ InTransit = C \o Q \o H \o K \o S
  BY UplinkTyped DEF IInv, InTransit
<1>2. CASE RunLoop \/ ProcessEmpty \/ StopDriver \/ Join
  <2>1. UNCHANGED <<current, queue, hand, chunk, stream, dispatched, sent, fate>>
    BY <1>2 DEF RunLoop, ProcessEmpty, StopDriver, Join
  <2> QED
    BY <2>1, MoveBooks DEF InTransit
<1>3. CASE Dispatch
  <2>1. /\ queue # <<>> /\ queue' = Tail(queue) /\ current' = <<Head(queue)>> /\ main = "process"
        /\ UNCHANGED <<hand, chunk, stream, dispatched, sent, fate>>
    BY <1>3 DEF Dispatch
  <2>2. /\ Q = <<Head(queue).id>> \o Ids(queue') /\ Ids(current') = <<Head(queue).id>>
        /\ <<Head(queue).id>> \in Seq(Nat) /\ Ids(queue') \in Seq(Nat)
    BY <1>1, <2>1, FirstFrame DEF TypeOK
  <2>3. C = <<>>
    <3>1. current = <<>>
      BY <1>1, <2>1 DEF IInv, Holdings, Count, TypeOK
    <3> QED
      BY <3>1, FrameIds
  <2>4. C \o Q = Ids(current') \o Ids(queue')
    BY <1>1, <2>2, <2>3, ConcatEmptySeq
  <2>5. InTransit' = InTransit
    BY <1>1, <2>1, <2>4 DEF InTransit
  <2> QED
    BY <2>1, <2>5, MoveBooks
<1>4. CASE Transmit
  <2>1. /\ main = "sending" /\ dispatched' = dispatched \o C /\ current' = <<>>
        /\ fate' = [fate EXCEPT ![current[1].id] = "dispatched"]
        /\ UNCHANGED <<queue, hand, chunk, stream, sent>>
    BY <1>4 DEF Transmit
  <2>2. Len(current) = 1 /\ current \in Seq(Frames)
    BY <1>1, <2>1 DEF IInv, Holdings, Count, TypeOK
  <2>3. current = <<current[1]>> /\ current[1] \in Frames /\ current[1].id \in 1 .. MaxFrames
    <3>1. current = <<current[1]>> /\ current[1] \in Frames
      BY <2>2, FirstOfOne
    <3> QED
      BY <3>1 DEF Frames
  <2>4. C = <<current[1].id>> /\ ToSet(C) = {current[1].id}
    BY <2>3, FrameIds, SetOfOne
  <2>5. \A i \in 1 .. MaxFrames : fate'[i] = IF i \in ToSet(C) THEN "dispatched" ELSE fate[i]
    BY <1>1, <2>1, <2>3, <2>4 DEF TypeOK
  <2>6. Ids(current') = <<>> /\ <<>> \o Q = Q
    BY <1>1, <2>1, FrameIds, ConcatEmptySeq
  <2>7. InTransit' = Q \o H \o K \o S
    BY <2>1, <2>6 DEF InTransit
  <2> DEFINE Z == Q \o H \o K \o S
  <2>8. Z \in Seq(Nat) /\ InTransit = C \o Z
    <3> HIDE DEF C, Q, H, K, S
    <3>1. /\ Q \o H \o K \o S \in Seq(Nat)
          /\ C \o Q \o H \o K \o S = C \o (Q \o H \o K \o S)
      <4>1. C \in Seq(Nat) /\ Q \in Seq(Nat) /\ H \in Seq(Nat) /\ K \in Seq(Nat) /\ S \in Seq(Nat)
        BY <1>1
      <4>2. Q \o H \in Seq(Nat)
        BY <4>1, JoinNat
      <4>3. Q \o H \o K \in Seq(Nat)
        BY <4>1, <4>2, JoinNat
      <4>4. Q \o H \o K \o S \in Seq(Nat)
        BY <4>1, <4>3, JoinNat
      <4>5. C \o (Q \o H) = C \o Q \o H
        BY <4>1, AssocNat
      <4>6. C \o (Q \o H) \o K = C \o (Q \o H \o K)
        BY <4>1, <4>2, AssocNat
      <4>7. C \o (Q \o H \o K) \o S = C \o (Q \o H \o K \o S)
        BY <4>1, <4>3, AssocNat
      <4> QED
        BY <4>4, <4>5, <4>6, <4>7
    <3> QED
      BY <1>1, <3>1
  <2> HIDE DEF C, Z
  <2>9. Books(dispatched \o C, Z, sent, MaxFrames, fate', "dispatched")
    BY <1>1, <2>5, <2>8, BooksArrive DEF FrameBooks
  <2> QED
    BY <2>1, <2>7, <2>9 DEF FrameBooks, Z
<1> QED
  BY <1>2, <1>3, <1>4 DEF MainTask

LEMMA BooksStep ==
  ASSUME IInv, FrameBooks, [Next]_vars
  PROVE  FrameBooks'
<1>1. CASE UNCHANGED vars
  <2>1. UNCHANGED <<current, queue, hand, chunk, stream, dispatched, sent, fate>>
    BY <1>1 DEF vars
  <2> QED
    BY <2>1, MoveBooks DEF InTransit
<1> QED
  BY <1>1, LinkBooks, ReceiveBooks, MainBooks DEF Next

LEMMA BooksInvariance == Spec => []FrameBooks
<1>1. IInv /\ FrameBooks /\ [Next]_vars => FrameBooks'
  BY BooksStep
<1> QED
  BY <1>1, InitBooks, Invariance, PTL DEF Spec
-----------------------------------------------------------------------------
(* Theorems.                                                                *)

\* The types of Uplink's state, the queue within its size among them.
THEOREM TypeCorrect == Spec => []TypeOK
<1>1. IInv => TypeOK
  BY DEF IInv
<1> QED
  BY <1>1, Invariance, PTL

\* No buffer of commsBufferManager leaks or is returned twice, on any path of
\* topology.fpp's uplink connections.
THEOREM NoBufferLeaks == Spec => []BuffersConserved
<1>1. IInv => BuffersConserved
  BY DEF IInv
<1> QED
  BY <1>1, Invariance, PTL

\* A pool of three buffers more than the queue's size never runs out when the
\* receive task asks; the configuration has 50 for a queue of 10.
THEOREM PoolSuffices == Spec => []AllocationsSucceed
<1>1. IInv => AllocationsSucceed
  <2>1. IInv => Len(hand) \in Nat /\ Len(current) \in Nat /\ Len(queue) \in Nat
    BY DEF IInv, TypeOK
  <2> QED
    BY <2>1 DEF IInv, TypeOK, Holdings, BuffersConserved, AllocationsSucceed, Count
<1> QED
  BY <1>1, Invariance, PTL

\* Every frame is on its way in order, dispatched, or gone for one reason.
THEOREM EveryFrameAccounted == Spec => []FramesAccounted
<1>1. ASSUME IInv, FrameBooks PROVE FramesAccounted
  <2>1. Increasing(dispatched \o InTransit)
    BY <1>1 DEF FrameBooks, Books
  <2>2. ASSUME NEW i \in 1 .. sent
        PROVE  /\ fate[i] = "none" <=> i \in ToSet(InTransit)
               /\ fate[i] = "dispatched" <=> i \in ToSet(dispatched)
    <3>1. i \in 1 .. MaxFrames /\ ~(i > sent)
      BY <1>1 DEF IInv, TypeOK
    <3> QED
      BY <1>1, <3>1 DEF FrameBooks, Books
  <2> QED
    BY <2>1, <2>2 DEF FramesAccounted, Increasing
<1> QED
  BY <1>1, Invariance, BooksInvariance, PTL

\* When the memory goes, no task holds a buffer.
THEOREM TeardownIsSafe == Spec => []NoBufferInHand
<1>1. IInv => NoBufferInHand
  <2>1. IInv => Len(hand) \in Nat /\ Len(current) \in Nat /\ Len(queue) \in Nat
    BY DEF IInv, TypeOK
  <2> QED
    BY <2>1 DEF IInv, TypeOK, Holdings, BuffersConserved, NoBufferInHand, Count
<1> QED
  BY <1>1, Invariance, PTL

\* Nothing comes late: what is missing before a dispatched frame is gone.
THEOREM GapsAreFinal == Spec => []GapsAreLosses
<1>1. ASSUME IInv, FrameBooks, NEW k \in DOMAIN dispatched, NEW i \in 1 .. dispatched[k]
      PROVE  i \in ToSet(dispatched) \/ fate[i] \in {"lost", "rejected", "dropped"}
  <2>1. i \in 1 .. MaxFrames /\ fate[i] # "none"
        /\ (fate[i] = "dispatched" <=> i \in ToSet(dispatched))
    BY <1>1, BooksPast DEF FrameBooks
  <2>2. fate[i] \in Fates
    BY <1>1, <2>1 DEF IInv, TypeOK
  <2> QED
    BY <2>1, <2>2 DEF Fates
<1>2. IInv /\ FrameBooks => GapsAreLosses
  BY <1>1 DEF GapsAreLosses
<1> QED
  BY <1>2, Invariance, BooksInvariance, PTL

\* What is on its way is nowhere else, and open.
LEMMA OpenFrames ==
  ASSUME IInv, FrameBooks
  PROVE  /\ DOMAIN fate = 1 .. MaxFrames
         /\ \A i \in ToSet(Ids(current)) \union ToSet(Ids(hand))
                     \union ToSet(Ids(chunk)) \union ToSet(Ids(stream)) : fate[i] = "none"
<1> DEFINE C == Ids(current)
           Q == Ids(queue)
           H == Ids(hand)
           K == Ids(chunk)
           S == Ids(stream)
<1>1. /\ C \in Seq(Nat) /\ Q \in Seq(Nat) /\ H \in Seq(Nat) /\ K \in Seq(Nat) /\ S \in Seq(Nat)
      /\ InTransit = C \o Q \o H \o K \o S
  BY UplinkTyped DEF IInv, InTransit
<1>2. \A i \in ToSet(InTransit) : fate[i] = "none"
  BY BooksOpen DEF FrameBooks
<1>3. DOMAIN fate = 1 .. MaxFrames
  BY DEF IInv, TypeOK
<1> HIDE DEF C, Q, H, K, S
<1>4. \A s, t \in Seq(Nat) : s \o t \in Seq(Nat) /\ ToSet(s \o t) = ToSet(s) \union ToSet(t)
  BY JoinNat, SetOfConcat
<1>5. C \o Q \in Seq(Nat) /\ ToSet(C \o Q) = ToSet(C) \union ToSet(Q)
  BY <1>1, <1>4
<1>6. C \o Q \o H \in Seq(Nat) /\ ToSet(C \o Q \o H) = ToSet(C \o Q) \union ToSet(H)
  BY <1>1, <1>4, <1>5
<1>7. /\ ToSet(C \o Q \o H \o K) = ToSet(C \o Q \o H) \union ToSet(K)
      /\ ToSet(InTransit) = ToSet(C \o Q \o H \o K) \union ToSet(S)
  BY <1>1, <1>4, <1>6
<1>8. \A i \in ToSet(C) \union ToSet(H) \union ToSet(K) \union ToSet(S) : fate[i] = "none"
  BY <1>2, <1>5, <1>6, <1>7
<1> QED
  BY <1>3, <1>8 DEF C, H, K, S

\* A step ends the way of frames that are on it, and of no other.
THEOREM OneFate == Spec => FatesAreFinal
<1> DEFINE Final == \A i \in 1 .. MaxFrames : fate[i] # "none" => fate'[i] = fate[i]
<1>1. IInv /\ FrameBooks /\ [Next]_vars => [Final]_vars
  <2> SUFFICES ASSUME IInv, FrameBooks, [Next]_vars PROVE Final
    OBVIOUS
  <2>1. TypeOK
    BY DEF IInv
  <2>2. CASE fate' = fate
    BY <2>2
  <2>3. CASE Disconnect
    <3>1. fate' = [i \in DOMAIN fate |-> IF i \in ToSet(Ids(stream)) THEN "lost" ELSE fate[i]]
      BY <2>3 DEF Disconnect
    <3> QED
      BY <3>1, OpenFrames
  <2>4. CASE RejectFrame
    <3>1. chunk \in Seq(Frames) /\ chunk # <<>> /\ fate' = [fate EXCEPT ![Head(chunk).id] = "rejected"]
      BY <2>1, <2>4 DEF RejectFrame, TypeOK
    <3>2. Head(chunk).id \in ToSet(Ids(chunk))
      <4>1. /\ Ids(chunk) = <<Head(chunk).id>> \o Ids(Tail(chunk))
            /\ <<Head(chunk).id>> \in Seq(Nat) /\ Ids(Tail(chunk)) \in Seq(Nat)
        BY <3>1, FirstFrame
      <4>2. ToSet(<<Head(chunk).id>>) = {Head(chunk).id}
        BY SetOfOne
      <4>3. ToSet(<<Head(chunk).id>> \o Ids(Tail(chunk)))
              = ToSet(<<Head(chunk).id>>) \union ToSet(Ids(Tail(chunk)))
        BY <4>1, SetOfConcat
      <4> QED
        BY <4>1, <4>2, <4>3
    <3> QED
      BY <3>1, <3>2, OpenFrames
  <2>5. CASE DropFrame
    <3>1. /\ Len(hand) = 1 /\ hand \in Seq(Frames)
          /\ fate' = [fate EXCEPT ![hand[1].id] = "dropped"]
      BY <2>1, <2>5 DEF DropFrame, IInv, Holdings, Count, TypeOK
    <3>2. ToSet(Ids(hand)) = {hand[1].id}
      BY <3>1, OneFrame
    <3> QED
      BY <3>1, <3>2, OpenFrames
  <2>6. CASE Transmit
    <3>1. /\ Len(current) = 1 /\ current \in Seq(Frames)
          /\ fate' = [fate EXCEPT ![current[1].id] = "dispatched"]
      BY <2>1, <2>6 DEF Transmit, IInv, Holdings, Count, TypeOK
    <3>2. ToSet(Ids(current)) = {current[1].id}
      BY <3>1, OneFrame
    <3> QED
      BY <3>1, <3>2, OpenFrames
  <2>7. CASE (\E good \in BOOLEAN : ClientSends(good)) \/ UNCHANGED vars
    BY <2>2, <2>7 DEF ClientSends, vars
  <2>8. CASE \/ AllocateRecv \/ (\E n \in 0 .. Len(stream) : Read(n)) \/ AcceptFrame
             \/ Deliver \/ AbortOnFull \/ EndChunk \/ ReceiverEnds
    BY <2>2, <2>8
       DEF AllocateRecv, Read, AcceptFrame, Deliver, AbortOnFull, EndChunk, ReceiverEnds
  <2>9. CASE RunLoop \/ ProcessEmpty \/ Dispatch \/ StopDriver \/ Join
    BY <2>2, <2>9 DEF RunLoop, ProcessEmpty, Dispatch, StopDriver, Join
  <2> QED
    BY <2>3, <2>4, <2>5, <2>6, <2>7, <2>8, <2>9 DEF Next, Receive, MainTask
<1> QED
  BY <1>1, Invariance, BooksInvariance, PTL DEF Spec, FatesAreFinal

\* The turns of a chunk increase, so it holds each frame once.
LEMMA ShortChunk == Spec => [](Len(chunk) <= MaxFrames)
<1>1. ASSUME IInv, FrameBooks PROVE Len(chunk) <= MaxFrames
  <2> DEFINE c == Ids(chunk)
             l == Ids(current) \o Ids(queue) \o Ids(hand)
             r == Ids(stream)
  <2>1. /\ c \in Seq(1 .. MaxFrames) /\ Len(c) = Len(chunk) /\ c \in Seq(Nat)
        /\ l \in Seq(Nat) /\ r \in Seq(Nat)
    BY <1>1, IdsTyped, FrameTurns, ConcatNat, JoinNat DEF IInv, TypeOK
  <2>2. /\ dispatched \in Seq(Nat) /\ Increasing(dispatched \o ((l \o c) \o r))
    <3>1. dispatched \in Seq(1 .. MaxFrames) /\ Increasing(dispatched \o ((l \o c) \o r))
      BY <1>1 DEF FrameBooks, Books, InTransit, IInv, TypeOK
    <3> QED
      BY <3>1, Wider, FramesAssumption
  <2> HIDE DEF c, l, r
  <2>3. l \o c \in Seq(Nat) /\ (l \o c) \o r \in Seq(Nat)
    BY <2>1, JoinNat
  <2>4. Increasing((l \o c) \o r)
    BY <2>2, <2>3, IncreasingConcat
  <2>5. Increasing(l \o c)
    BY <2>1, <2>3, <2>4, IncreasingConcat
  <2>6. Increasing(c)
    BY <2>1, <2>5, IncreasingConcat
  <2> QED
    BY <2>1, <2>6, IncreasingShort, FramesAssumption
<1> QED
  BY <1>1, Invariance, BooksInvariance, PTL

\* The receive task, once stopped, runs out of work: with one frame less in its
\* chunk or one call of the chain behind it at every step. Its last read finds at
\* most MaxFrames frames, for the turns of a chunk increase.
THEOREM ReceiverRunsOut == Spec => StoppedReceiverRunsOut
<1> DEFINE Moves == stopped /\ (receiver' # receiver \/ chunk' # chunk)
<1>1. IInv /\ (Len(chunk) <= MaxFrames)' /\ [Next]_vars => [Moves => Work' < Work]_vars
  <2> SUFFICES ASSUME IInv, (Len(chunk) <= MaxFrames)', [Next]_vars, Moves PROVE Work' < Work
    OBVIOUS
  <2>1. /\ chunk \in Seq(Frames) /\ stream \in Seq(Frames) /\ Len(chunk) \in Nat
        /\ MaxFrames \in Nat
    BY FramesAssumption DEF IInv, TypeOK
  <2>2. \/ RejectFrame \/ AcceptFrame \/ Deliver \/ DropFrame \/ EndChunk \/ ReceiverEnds
        \/ \E n \in 0 .. Len(stream) : Read(n)
    BY DEF Next, Receive, MainTask, ClientSends, Disconnect, AllocateRecv, AbortOnFull,
       RunLoop, ProcessEmpty, Dispatch, Transmit, StopDriver, Join, vars
  <2>3. /\ receiver = "idle" => Work = 1
        /\ receiver = "parsing" => Work = 2 + 2 * Len(chunk)
        /\ receiver = "delivering" => Work = 3 + 2 * Len(chunk)
        /\ receiver = "reading" => Work = 2 * MaxFrames + 3
        /\ receiver' = "done" => Work' = 0
        /\ receiver' = "idle" => Work' = 1
        /\ receiver' = "parsing" => Work' = 2 + 2 * Len(chunk')
        /\ receiver' = "delivering" => Work' = 3 + 2 * Len(chunk')
    BY DEF Work
  <2>4. CASE RejectFrame \/ AcceptFrame
    <3>1. /\ chunk # <<>> /\ chunk' = Tail(chunk) /\ receiver = "parsing"
          /\ receiver' \in {"parsing", "delivering"}
      BY <2>4 DEF RejectFrame, AcceptFrame
    <3>2. Len(chunk') = Len(chunk) - 1
      BY <2>1, <3>1, TakeFirst
    <3>3. Work = 2 + 2 * Len(chunk) /\ Work' <= 3 + 2 * (Len(chunk) - 1)
      <4>1. Work = 2 + 2 * Len(chunk)
        BY <2>3, <3>1
      <4>2. CASE receiver' = "parsing"
        <5>1. Work' = 2 + 2 * (Len(chunk) - 1)
          BY <2>3, <3>2, <4>2
        <5> QED
          BY <2>1, <4>1, <5>1
      <4>3. CASE receiver' = "delivering"
        <5>1. Work' = 3 + 2 * (Len(chunk) - 1)
          BY <2>3, <3>2, <4>3
        <5> QED
          BY <2>1, <4>1, <5>1
      <4> QED
        BY <3>1, <4>2, <4>3
    <3>4. Work' \in Int
      <4>1. Len(chunk') \in Int
        BY <2>1, <3>2
      <4> QED
        BY <2>3, <3>1, <4>1
    <3> QED
      BY <2>1, <3>3, <3>4
  <2>5. CASE Deliver \/ DropFrame
    <3>1. receiver = "delivering" /\ receiver' = "parsing" /\ chunk' = chunk
      BY <2>5 DEF Deliver, DropFrame
    <3>2. Len(chunk') = Len(chunk)
      BY <3>1
    <3> QED
      BY <2>1, <2>3, <3>1, <3>2
  <2>6. CASE EndChunk
    <3>1. receiver = "parsing" /\ receiver' = "idle" /\ Len(chunk) \in Nat
      BY <2>1, <2>6 DEF EndChunk
    <3> QED
      BY <2>3, <3>1
  <2>7. CASE ReceiverEnds
    <3>1. receiver \in {"idle", "reading"} /\ receiver' = "done"
      BY <2>7 DEF ReceiverEnds
    <3> QED
      BY <2>1, <2>3, <3>1
  <2>8. CASE \E n \in 0 .. Len(stream) : Read(n)
    <3>1. PICK n \in 0 .. Len(stream) : Read(n)
      BY <2>8
    <3>2. /\ receiver = "reading" /\ receiver' = "parsing" /\ chunk' \in Seq(Frames)
          /\ Len(chunk') \in Nat
      BY <2>1, <3>1 DEF Read
    <3> QED
      BY <2>1, <2>3, <3>2
  <2> QED
    BY <2>2, <2>4, <2>5, <2>6, <2>7, <2>8
<1> QED
  BY <1>1, Invariance, ShortChunk, PTL DEF Spec, StoppedReceiverRunsOut

\* The uplink implements a lossy FIFO channel: what reaches the software bus
\* was sent by a client, and is dispatched in order and once.
THEOREM UplinkIsLossyFifo == Spec => ImplementsLossyFifo
<1>1. Init => Contract!Init
  BY DEF Init, Contract!Init
<1>2. ASSUME IInv, FrameBooks, FrameBooks', [Next]_vars
      PROVE  [Contract!Next]_Contract!fvars
  <2> USE DEF Contract!fvars
  <2>1. ASSUME NEW good \in BOOLEAN, ClientSends(good) PROVE Contract!Publish
    BY <2>1 DEF ClientSends, busVars, Contract!Publish
  <2>2. CASE Transmit
    <3> DEFINE C == Ids(current)
    <3>1. sent' = sent /\ dispatched' = dispatched \o C /\ main = "sending"
      BY <2>2 DEF Transmit, linkVars
    <3>2. C \in Seq(Nat) /\ Len(C) = 1
      <4>1. current \in Seq(Frames) /\ Len(current) = 1
        BY <1>2, <3>1 DEF IInv, Holdings, Count, TypeOK
      <4> QED
        BY <4>1, IdsTyped, FrameTurns
    <3>3. dispatched \in Seq(1 .. sent) /\ dispatched' \in Seq(1 .. sent) /\ sent \in Nat
      BY <1>2, <3>1 DEF FrameBooks, Books, IInv, TypeOK
    <3>4. dispatched \in Seq(Nat)
      BY <3>3, Wider
    <3> HIDE DEF C
    <3>5. Len(dispatched') = Len(dispatched) + 1 /\ Len(dispatched) \in Nat
      <4>1. Len(dispatched \o C) = Len(dispatched) + Len(C)
        BY <3>2, <3>4, ConcatProperties
      <4> QED
        BY <3>1, <3>2, <3>4, <4>1
    <3>6. SubSeq(dispatched', 1, Len(dispatched)) = dispatched
      <4>1. CASE dispatched = <<>>
        BY <4>1, SubSeqEmpty
      <4>2. CASE dispatched # <<>>
        <5>1. 1 \in 1 .. Len(dispatched) /\ Len(dispatched) \in 1 .. Len(dispatched)
          BY <3>4, <3>5, <4>2
        <5>2. SubSeq(dispatched', 1, Len(dispatched)) = SubSeq(dispatched, 1, Len(dispatched))
          BY <3>1, <3>2, <3>4, <5>1, SubSeqOfConcat1
        <5> QED
          BY <3>4, <5>2, SubSeqFull
      <4> QED
        BY <4>1, <4>2
    <3>7. Contract!Increasing(dispatched')
      <4>1. dispatched' \in Seq(Nat) /\ InTransit' \in Seq(Nat)
        <5>1. dispatched' \in Seq(1 .. sent') /\ InTransit' \in Seq(1 .. sent') /\ sent' \in Nat
          BY <1>2, <3>1, <3>3 DEF FrameBooks, Books
        <5> QED
          BY <5>1, Wider
      <4>2. Increasing(dispatched' \o InTransit')
        BY <1>2 DEF FrameBooks, Books
      <4>3. Increasing(dispatched')
        BY <4>1, <4>2, IncreasingConcat
      <4> QED
        BY <4>1, <4>3 DEF Increasing, Contract!Increasing
    <3> QED
      <4>1. Len(dispatched') > Len(dispatched)
        BY <3>5
      <4>2. Contract!Arrive
        BY <3>1, <3>3, <3>6, <3>7, <4>1 DEF Contract!Arrive
      <4> QED
        BY <4>2 DEF Contract!Next
  <2>3. CASE UNCHANGED vars
    BY <2>3 DEF vars
  <2>4. CASE Receive
    BY <2>4 DEF Receive, AllocateRecv, Read, RejectFrame, AcceptFrame, Deliver, DropFrame,
                AbortOnFull, EndChunk, ReceiverEnds
  <2>5. CASE Disconnect
    BY <2>5 DEF Disconnect
  <2>6. CASE RunLoop \/ ProcessEmpty \/ Dispatch \/ StopDriver \/ Join
    BY <2>6 DEF RunLoop, ProcessEmpty, Dispatch, StopDriver, Join
  <2> QED
    BY <1>2, <2>1, <2>2, <2>3, <2>4, <2>5, <2>6 DEF Next, MainTask, Contract!Next
<1> QED
  BY <1>1, <1>2, Invariance, BooksInvariance, PTL DEF Spec, ImplementsLossyFifo, Contract!Spec

\* The main task comes to the join by way of StopDriver.
LEMMA StoppedBeforeJoin == Spec => [](main \in {"join", "done"} => stopped)
<1> DEFINE Told == main \in {"join", "done"} => stopped
<1>1. Init => Told
  BY DEF Init
<1>2. Told /\ [Next]_vars => Told'
  <2> SUFFICES ASSUME Told, [Next]_vars PROVE Told'
    OBVIOUS
  <2>1. CASE (\E good \in BOOLEAN : ClientSends(good)) \/ Disconnect
    BY <2>1 DEF ClientSends, Disconnect
  <2>2. CASE Receive
    BY <2>2 DEF Receive, AllocateRecv, Read, RejectFrame, AcceptFrame, Deliver, DropFrame,
                AbortOnFull, EndChunk, ReceiverEnds
  <2>3. CASE MainTask
    BY <2>3 DEF MainTask, RunLoop, ProcessEmpty, Dispatch, Transmit, StopDriver, Join
  <2>4. CASE UNCHANGED vars
    BY <2>4 DEF vars
  <2> QED
    BY <2>1, <2>2, <2>3, <2>4 DEF Next
<1> QED
  BY <1>1, <1>2, PTL DEF Spec

\* The join finds the receive task with its next step open: a buffer is left
\* for the frame it parses, and a full queue stops it under one policy only.
THEOREM JoinAnswered == Spec => []JoinIsAnswered
<1>1. ASSUME IInv, AllocationsSucceed, main \in {"join", "done"} => stopped
      PROVE  JoinIsAnswered
  <2>1. /\ receiver \in {"idle", "reading", "parsing", "delivering", "done"}
        /\ Len(queue) \in Nat /\ Len(queue) <= QueueSize
        /\ policy \in {"assert", "block", "hook"}
    BY <1>1 DEF IInv, TypeOK
  <2> QED
    BY <1>1, <2>1 DEF AllocationsSucceed, JoinIsAnswered, WaitsForever
<1> QED
  BY <1>1, Invariance, PoolSuffices, StoppedBeforeJoin, PTL

\* What cfsBridge holds, by the task that holds it.
LEMMA AcceptedParts ==
  ASSUME IInv
  PROVE  /\ Accepted = Ids(current) \o Ids(queue)
         /\ Ids(current) \in Seq(Nat) /\ Ids(queue) \in Seq(Nat) /\ Accepted \in Seq(Nat)
<1>1. Accepted = Ids(current) \o Ids(queue)
  BY FrameIds DEF Accepted, IInv, TypeOK
<1> QED
  BY <1>1, UplinkTyped, JoinNat DEF IInv

\* The frame the receive task hands over is a frame sent that cfsBridge has
\* neither dispatched nor got before: the turns increase along the uplink.
LEMMA HandIsNew ==
  ASSUME IInv, FrameBooks, NEW i, Ids(hand) = <<i>>
  PROVE  i \in 1 .. sent \ (ToSet(dispatched) \union ToSet(Accepted))
<1> DEFINE C == Ids(current)
           Q == Ids(queue)
           H == Ids(hand)
           Z == Ids(chunk) \o Ids(stream)
<1>1. /\ C \in Seq(Nat) /\ Q \in Seq(Nat) /\ H \in Seq(Nat) /\ Z \in Seq(Nat)
      /\ InTransit = C \o Q \o H \o Z /\ Accepted = C \o Q
  <2>1. /\ C \in Seq(Nat) /\ Q \in Seq(Nat) /\ H \in Seq(Nat)
        /\ Ids(chunk) \in Seq(Nat) /\ Ids(stream) \in Seq(Nat)
        /\ InTransit = C \o Q \o H \o Ids(chunk) \o Ids(stream)
    BY UplinkTyped DEF IInv, InTransit
  <2> HIDE DEF C, Q, H
  <2>2. C \o Q \o H \in Seq(Nat)
    BY <2>1, JoinNat
  <2> QED
    BY <2>1, <2>2, JoinNat, AssocNat, AcceptedParts DEF C, Q
<1>2. dispatched \in Seq(Nat) /\ InTransit \in Seq(1 .. sent) /\ Increasing(dispatched \o InTransit)
  BY Wider DEF FrameBooks, Books, IInv, TypeOK
<1> HIDE DEF C, Q, H, Z
<1>3. /\ C \o Q \in Seq(Nat) /\ C \o Q \o H \in Seq(Nat) /\ H \o Z \in Seq(Nat)
      /\ C \o Q \o H \o Z = (C \o Q) \o (H \o Z)
  <2>1. C \in Seq(Nat) /\ Q \in Seq(Nat) /\ H \in Seq(Nat) /\ Z \in Seq(Nat)
    BY <1>1
  <2>2. C \o Q \in Seq(Nat) /\ H \o Z \in Seq(Nat)
    BY <2>1, JoinNat
  <2>3. C \o Q \o H \in Seq(Nat)
    BY <2>1, <2>2, JoinNat
  <2>4. C \o Q \o H \o Z = (C \o Q) \o (H \o Z)
    BY <2>1, <2>2, AssocNat
  <2> QED
    BY <2>2, <2>3, <2>4
<1>4. ToSet(H \o Z) = ToSet(H) \union ToSet(Z) /\ ToSet(H) = {i}
  <2>1. H \in Seq(Nat) /\ Z \in Seq(Nat)
    BY <1>1
  <2>2. ToSet(H \o Z) = ToSet(H) \union ToSet(Z)
    BY <2>1, SetOfConcat
  <2>3. H = <<i>>
    BY DEF H
  <2> QED
    BY <2>2, <2>3, SetOfOne
<1>5. i \in ToSet(InTransit) /\ ToSet(InTransit) \in SUBSET (1 .. sent)
  <2>1. C \o Q \in Seq(Nat) /\ H \o Z \in Seq(Nat)
    BY <1>3
  <2>2. ToSet((C \o Q) \o (H \o Z)) = ToSet(C \o Q) \union ToSet(H \o Z)
    <3>1. \A s, t \in Seq(Nat) : ToSet(s \o t) = ToSet(s) \union ToSet(t)
      BY SetOfConcat
    <3> QED
      BY <2>1, <3>1
  <2>3. ToSet(InTransit) \in SUBSET (1 .. sent)
    BY <1>2, SetOfSeq
  <2>4. InTransit = (C \o Q) \o (H \o Z)
    BY <1>1, <1>3
  <2>5. i \in ToSet(InTransit)
    BY <1>4, <2>2, <2>4
  <2> QED
    BY <2>3, <2>5
<1>6. i \notin ToSet(dispatched)
  <2>1. InTransit \in Seq(Nat)
    BY <1>1, <1>3, JoinNat
  <2> QED
    BY <1>2, <1>5, <2>1, IncreasingDisjoint
<1>7. i \notin ToSet(C \o Q)
  <2>1. Increasing((C \o Q) \o (H \o Z))
    <3>1. InTransit \in Seq(Nat)
      BY <1>1, <1>3, JoinNat
    <3>2. Increasing(InTransit)
      BY <1>2, <3>1, IncreasingConcat
    <3> QED
      BY <1>1, <1>3, <3>2
  <2> QED
    BY <1>3, <1>4, <2>1, IncreasingDisjoint
<1> QED
  BY <1>1, <1>5, <1>6, <1>7

\* cfsBridge keeps what it accepts, in order: the queue's step and its stutter.
THEOREM AcceptedKeepsOrder == Spec => AcceptedIsFifo
<1> DEFINE Fifo ==
      \/ /\ dispatched' = dispatched
         /\ \/ Accepted' = Accepted
            \/ \E i \in 1 .. sent \ (ToSet(dispatched) \union ToSet(Accepted)) :
                 Accepted' = Append(Accepted, i)
      \/ /\ Accepted # <<>>
         /\ dispatched' = Append(dispatched, Head(Accepted))
         /\ Accepted' = Tail(Accepted)
<1>1. ASSUME IInv, IInv', FrameBooks, [Next]_vars PROVE Fifo
  <2> DEFINE C == Ids(current)
             Q == Ids(queue)
  <2>1. /\ Accepted = C \o Q /\ Accepted' = Ids(current') \o Ids(queue')
        /\ C \in Seq(Nat) /\ Q \in Seq(Nat)
        /\ hand \in Seq(Frames) /\ queue \in Seq(Frames) /\ current \in Seq(Frames)
    <3>1. Accepted = C \o Q /\ C \in Seq(Nat) /\ Q \in Seq(Nat)
      BY <1>1, AcceptedParts
    <3>2. Accepted' = Ids(current') \o Ids(queue')
      BY <1>1, FrameIds DEF Accepted, IInv, TypeOK
    <3> QED
      BY <1>1, <3>1, <3>2 DEF IInv, TypeOK
  <2>2. CASE Deliver
    <3>1. /\ receiver = "delivering" /\ queue' = queue \o hand
          /\ UNCHANGED <<current, dispatched>>
      BY <2>2 DEF Deliver
    <3>2. Len(hand) = 1
      BY <1>1, <3>1 DEF IInv, Holdings, Count
    <3>3. hand = <<hand[1]>> /\ hand[1] \in Frames
      BY <2>1, <3>2, FirstOfOne
    <3> DEFINE i == hand[1].id
    <3>4. Ids(hand) = <<i>> /\ <<i>> \in Seq(Nat) /\ i \in Nat
      BY <3>3, FrameIds DEF Frames
    <3>5. Accepted' = C \o (Q \o <<i>>)
      BY <2>1, <3>1, <3>4, FrameIds
    <3>6. i \in 1 .. sent \ (ToSet(dispatched) \union ToSet(Accepted))
      BY <1>1, <3>4, HandIsNew
    <3> HIDE DEF C, Q, i
    <3>7. C \o (Q \o <<i>>) = (C \o Q) \o <<i>> /\ C \o Q \in Seq(Nat)
      BY <2>1, <3>4, AssocNat, JoinNat
    <3>8. Accepted' = Append(Accepted, i)
      BY <2>1, <3>4, <3>5, <3>7, AppendConcatenates
    <3> QED
      BY <3>1, <3>6, <3>8
  <2>3. CASE Dispatch
    <3>1. /\ main = "process" /\ queue # <<>> /\ queue' = Tail(queue)
          /\ current' = <<Head(queue)>> /\ dispatched' = dispatched
      BY <2>3 DEF Dispatch
    <3>2. /\ Q = <<Head(queue).id>> \o Ids(queue') /\ Ids(current') = <<Head(queue).id>>
      BY <2>1, <3>1, FirstFrame
    <3>3. C = <<>>
      <4>1. current = <<>>
        BY <1>1, <3>1 DEF IInv, Holdings, Count, TypeOK
      <4> QED
        BY <4>1, FrameIds
    <3>4. C \o Q = Q
      BY <2>1, <3>3, ConcatEmptySeq
    <3> QED
      BY <2>1, <3>1, <3>2, <3>4
  <2>4. CASE Transmit
    <3>1. /\ main = "sending" /\ dispatched' = dispatched \o C /\ current' = <<>>
          /\ queue' = queue
      BY <2>4 DEF Transmit
    <3>2. Len(current) = 1
      BY <1>1, <3>1 DEF IInv, Holdings, Count, TypeOK
    <3>3. current = <<current[1]>> /\ current[1] \in Frames
      BY <2>1, <3>2, FirstOfOne
    <3> DEFINE i == current[1].id
    <3>4. C = <<i>> /\ i \in 1 .. MaxFrames
      BY <3>3, FrameIds DEF Frames
    <3>5. Accepted' = Q
      BY <2>1, <3>1, FrameIds, ConcatEmptySeq
    <3>6. dispatched \in Seq(1 .. MaxFrames)
      BY <1>1 DEF IInv, TypeOK
    <3> HIDE DEF C, Q, i
    <3>7. dispatched' = Append(dispatched, i)
      BY <3>1, <3>4, <3>6, AppendConcatenates
    <3>8. <<i>> \o Q # <<>> /\ Head(<<i>> \o Q) = i /\ Tail(<<i>> \o Q) = Q
      BY <2>1, <3>4
    <3> QED
      BY <2>1, <3>4, <3>5, <3>7, <3>8
  <2>5. CASE ~(Deliver \/ Dispatch \/ Transmit)
    <3>1. UNCHANGED <<current, queue, dispatched>>
      BY <1>1, <2>5 DEF Next, Receive, MainTask, ClientSends, Disconnect, AllocateRecv, Read,
         RejectFrame, AcceptFrame, DropFrame, AbortOnFull, EndChunk, ReceiverEnds, RunLoop,
         ProcessEmpty, StopDriver, Join, vars
    <3> QED
      BY <3>1 DEF Accepted
  <2> QED
    BY <2>2, <2>3, <2>4, <2>5
<1>2. IInv /\ IInv' /\ FrameBooks /\ [Next]_vars => [Fifo]_vars
  BY <1>1
<1> QED
  BY <1>2, Invariance, BooksInvariance, PTL DEF Spec, AcceptedIsFifo

\* The channel's promises hold of the uplink.
Relied == INSTANCE LossyFifoProofs WITH published <- sent, received <- dispatched

\* What reached the software bus was sent by a client, in order and once, and a
\* frame that was not dispatched before a later one never will be.
THEOREM BusMayRely == Spec => []Contract!Promises /\ Contract!NothingComesLate
<1>1. Relied!Spec => []Relied!Promises
  BY Relied!ChannelPromises
<1>2. Relied!Spec => Relied!NothingComesLate
  BY Relied!ChannelGapsStay
<1> USE DEF Contract!fvars, Relied!fvars, Contract!Increasing, Relied!Increasing
<1>3. /\ Contract!Init <=> Relied!Init
      /\ Contract!Promises <=> Relied!Promises
      /\ Contract!PassedOver = Relied!PassedOver
  BY DEF Contract!Init, Relied!Init, Contract!Promises, Relied!Promises,
         Contract!PassedOver, Relied!PassedOver
<1>4. [Contract!Next]_Contract!fvars => [Relied!Next]_Relied!fvars
  BY DEF Contract!Next, Relied!Next, Contract!Publish, Relied!Publish,
         Contract!Arrive, Relied!Arrive
<1>5. Contract!NothingComesLate <=> Relied!NothingComesLate
  BY PTL DEF Contract!NothingComesLate, Relied!NothingComesLate, Contract!PassedOver, Relied!PassedOver
<1> QED
  BY <1>1, <1>2, <1>3, <1>4, <1>5, UplinkIsLossyFifo, PTL
  DEF ImplementsLossyFifo, Contract!Spec, Relied!Spec
-----------------------------------------------------------------------------
(* The receive task's contract.                                             *)

\* The main task tells the driver to stop once, and joins what has ended.
THEOREM ReceiverKeepsContract == Spec => KeepsReceiverContract
<1>1. Init => Receiver!Init
  BY DEF Init, Receiver!Init, ReceiveTask
<1>2. ASSUME IInv, [Next]_vars, main = "stop" => ~stopped
      PROVE  [Receiver!Next]_Receiver!rvars
  <2> USE DEF Receiver!Next, Receiver!rvars, Receiver!Tell, Receiver!End, Receiver!Join,
              ReceiveTask
  <2>1. CASE ReceiverEnds
    <3>1. main # "done" /\ receiver # "done"
      BY <1>2, <2>1 DEF ReceiverEnds, IInv, Holdings
    <3> QED
      BY <2>1, <3>1 DEF ReceiverEnds
  <2>2. CASE StopDriver
    BY <1>2, <2>2 DEF StopDriver
  <2>3. CASE Join
    BY <2>3 DEF Join
  <2>4. CASE AbortOnFull
    <3>1. main # "done" /\ receiver # "done"
      BY <1>2, <2>4 DEF AbortOnFull, IInv, Holdings
    <3> QED
      BY <2>4, <3>1 DEF AbortOnFull
  <2>5. CASE AllocateRecv \/ (\E n \in 0 .. Len(stream) : Read(n)) \/ RejectFrame
             \/ AcceptFrame \/ Deliver \/ DropFrame \/ EndChunk
    BY <2>5 DEF AllocateRecv, Read, RejectFrame, AcceptFrame, Deliver, DropFrame, EndChunk
  <2>6. CASE RunLoop \/ ProcessEmpty \/ Dispatch \/ Transmit
    BY <2>6 DEF RunLoop, ProcessEmpty, Dispatch, Transmit
  <2>7. CASE (\E good \in BOOLEAN : ClientSends(good)) \/ Disconnect \/ UNCHANGED vars
    BY <2>7 DEF ClientSends, Disconnect, vars
  <2> QED
    BY <1>2, <2>1, <2>2, <2>3, <2>4, <2>5, <2>6, <2>7 DEF Next, Receive, MainTask
<1>3. Spec => [](main = "stop" => ~stopped)
  <2> DEFINE Running == main \notin {"join", "done", "aborted"} => ~stopped
  <2>1. Init => Running
    BY DEF Init
  <2>2. Running /\ [Next]_vars => Running'
    <3> SUFFICES ASSUME Running, [Next]_vars PROVE Running'
      OBVIOUS
    <3>1. CASE (\E good \in BOOLEAN : ClientSends(good)) \/ Disconnect \/ UNCHANGED vars
      BY <3>1 DEF ClientSends, Disconnect, vars
    <3>2. CASE Receive
      BY <3>2 DEF Receive, AllocateRecv, Read, RejectFrame, AcceptFrame, Deliver, DropFrame,
                  AbortOnFull, EndChunk, ReceiverEnds
    <3>3. CASE MainTask
      BY <3>3 DEF MainTask, RunLoop, ProcessEmpty, Dispatch, Transmit, StopDriver, Join
    <3> QED
      BY <3>1, <3>2, <3>3 DEF Next
  <2>3. Running => (main = "stop" => ~stopped)
    OBVIOUS
  <2> QED
    BY <2>1, <2>2, <2>3, PTL DEF Spec
<1>4. IInv /\ (main = "stop" => ~stopped) /\ [Next]_vars => [Receiver!Next]_Receiver!rvars
  BY <1>2
<1> QED
  BY <1>1, <1>3, <1>4, Invariance, PTL DEF Spec, KeepsReceiverContract, Receiver!Spec
=============================================================================
