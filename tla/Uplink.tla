------------------------------- MODULE Uplink -------------------------------
(***************************************************************************)
(* The uplink of the bridge as topology.fpp, ComCcsdsNoRouter.fpp and      *)
(* Main.cpp put it together: client -> comDriver -> comStub ->             *)
(* frameAccumulator -> tcDeframer in the driver's receive task, then       *)
(* through the queue of cfsBridge to the software bus in the main task,    *)
(* one message per turn of its loop; and every buffer back to              *)
(* commsBufferManager. The main task leaves the loop at any turn and joins *)
(* the receive task, with frames wherever they happen to be.               *)
(*                                                                         *)
(* The components are F Prime's, outside this repository. What they do     *)
(* with a message that finds the queue full is a choice made there, so the *)
(* model covers each one that keeps track of buffers: an assertion that    *)
(* ends the application, a sender that waits, a hook that hands it back.   *)
(*                                                                         *)
(* A frame is its turn in the stream of bytes and whether the deframer     *)
(* accepts it. A read returns the ends of any number of frames, none       *)
(* included. All buffers are alike: each bin holds a frame.                *)
(***************************************************************************)
EXTENDS Naturals, Sequences, SequencesExt

CONSTANTS
  QueueSize,   \* Default.QUEUE_SIZE
  NumBuffers,  \* commsBuffCount + commsFileBuffCount
  Policies,    \* what may happen to a message that finds the queue full
  MaxFrames    \* bound: frames clients send

\* A buffer being read into, a frame in each task's hands and a full queue.
ASSUME BuffersAssumption  == QueueSize \in Nat \ {0} /\ NumBuffers \in Nat
                             /\ NumBuffers >= QueueSize + 3
ASSUME PoliciesAssumption == Policies \subseteq {"assert", "block", "hook"}
ASSUME FramesAssumption   == MaxFrames \in Nat

VARIABLES
  policy,      \* the one cfsBridge was built with
  sent,        \* number of frames clients have sent
  stream,      \* frames on the connection
  receiver,    \* the receive task: what it does next
  chunk,       \* frames completed by its last read that it has not taken yet
  hand,        \* the frame it hands to cfsBridge, if any (at most one)
  queue,       \* the frames in cfsBridge's queue
  main,        \* the main task: what it does next
  current,     \* the frame it dispatches, if any (at most one)
  stopped,     \* TRUE once the driver has been told to stop
  lent,        \* buffers commsBufferManager has given out
  dispatched,  \* history: frames sent on the software bus, in order
  fate         \* history: what became of the frames

busVars  == <<main, current, stopped, dispatched>>
linkVars == <<policy, sent, stream>>
recvVars == <<receiver, chunk, hand>>
vars == <<linkVars, recvVars, queue, busVars, lent, fate>>

Frames == [id : 1 .. MaxFrames, good : BOOLEAN]
Fates  == {"none", "lost", "rejected", "dropped", "dispatched"}

Ids(s) == [i \in DOMAIN s |-> s[i].id]

Init ==
  /\ policy \in Policies
  /\ sent = 0 /\ stream = <<>>
  /\ receiver = "idle" /\ chunk = <<>> /\ hand = <<>>
  /\ queue = <<>>
  /\ main = "loop" /\ current = <<>> /\ stopped = FALSE
  /\ lent = 0
  /\ dispatched = <<>> /\ fate = [i \in 1 .. MaxFrames |-> "none"]

\* A failed assertion ends the application, all its tasks with it.
Alive == main # "aborted"
-----------------------------------------------------------------------------
(* What the topology connects.                                              *)

\* comDriver.allocate, frameAccumulator.bufferAllocate -> commsBufferManager
Allocate == lent < NumBuffers /\ lent' = lent + 1

\* Mutant: comStub.dataReturnOut is left unconnected.
RecvReturn_Unwired == UNCHANGED lent

\* frameAccumulator.dataReturnOut -> comStub -> comDriver.recvReturnIn, whose
\* deallocate is commsBufferManager.bufferSendIn
RecvReturn == lent' = lent - 1

\* Mutant: cfsBridge.dataReturnOut is left unconnected.
FrameReturn_Unwired == UNCHANGED lent

\* cfsBridge.dataReturnOut -> tcDeframer -> frameAccumulator, whose
\* bufferDeallocate is commsBufferManager.bufferSendIn
FrameReturn == lent' = lent - 1
-----------------------------------------------------------------------------
(* The client and the connection.                                           *)

ClientSends(good) ==
  /\ Alive /\ sent < MaxFrames
  /\ sent' = sent + 1
  /\ stream' = Append(stream, [id |-> sent + 1, good |-> good])
  /\ UNCHANGED <<policy, recvVars, queue, busVars, lent, fate>>

\* The connection ends, and what was not read from it is gone.
Disconnect ==
  /\ Alive /\ stream # <<>>
  /\ stream' = <<>>
  /\ fate' = [i \in DOMAIN fate |-> IF i \in ToSet(Ids(stream)) THEN "lost" ELSE fate[i]]
  /\ UNCHANGED <<policy, sent, recvVars, queue, busVars, lent>>
-----------------------------------------------------------------------------
(* The receive task.                                                        *)

AllocateRecv ==
  /\ Alive /\ receiver = "idle" /\ ~stopped
  /\ receiver' = "reading"
  /\ Allocate
  /\ UNCHANGED <<linkVars, chunk, hand, queue, busVars, fate>>

\* comDriver.recv -> comStub.drvReceiveIn -> frameAccumulator.dataIn
Read(n) ==
  /\ Alive /\ receiver = "reading"
  /\ receiver' = "parsing"
  /\ chunk' = SubSeq(stream, 1, n)
  /\ stream' = SubSeq(stream, n + 1, Len(stream))
  /\ UNCHANGED <<policy, sent, hand, queue, busVars, lent, fate>>

\* frameAccumulator.dataOut -> tcDeframer.dataIn, which returns a bad frame
\* in the same call: its buffer is lent and given back.
RejectFrame ==
  /\ Alive /\ receiver = "parsing" /\ chunk # <<>> /\ ~Head(chunk).good
  /\ chunk' = Tail(chunk)
  /\ fate' = [fate EXCEPT ![Head(chunk).id] = "rejected"]
  /\ lent < NumBuffers
  /\ UNCHANGED <<linkVars, receiver, hand, queue, busVars, lent>>

AcceptFrame ==
  /\ Alive /\ receiver = "parsing" /\ chunk # <<>> /\ Head(chunk).good
  /\ chunk' = Tail(chunk) /\ hand' = <<Head(chunk)>>
  /\ receiver' = "delivering"
  /\ Allocate
  /\ UNCHANGED <<linkVars, queue, busVars, fate>>

\* Mutant: the queue grows as needed.
Deliver_NoLimit ==
  /\ Alive /\ receiver = "delivering"
  /\ receiver' = "parsing"
  /\ queue' = queue \o hand /\ hand' = <<>>
  /\ UNCHANGED <<linkVars, chunk, busVars, lent, fate>>

\* Mutant: the frame is handed over again.
Deliver_Again ==
  /\ Alive /\ receiver = "delivering" /\ Len(queue) < QueueSize
  /\ queue' = queue \o hand
  /\ UNCHANGED <<linkVars, receiver, hand, chunk, busVars, lent, fate>>

\* Mutant: the latest message is dispatched first.
Deliver_First ==
  /\ Alive /\ receiver = "delivering" /\ Len(queue) < QueueSize
  /\ receiver' = "parsing"
  /\ queue' = hand \o queue /\ hand' = <<>>
  /\ UNCHANGED <<linkVars, chunk, busVars, lent, fate>>

\* tcDeframer.dataOut -> cfsBridge.dataIn
Deliver ==
  /\ Alive /\ receiver = "delivering" /\ Len(queue) < QueueSize
  /\ receiver' = "parsing"
  /\ queue' = queue \o hand /\ hand' = <<>>
  /\ UNCHANGED <<linkVars, chunk, busVars, lent, fate>>

\* The queue is full: the hook hands the buffer back.
DropFrame ==
  /\ Alive /\ receiver = "delivering" /\ Len(queue) = QueueSize /\ policy = "hook"
  /\ receiver' = "parsing"
  /\ fate' = [fate EXCEPT ![hand[1].id] = "dropped"]
  /\ hand' = <<>>
  /\ FrameReturn
  /\ UNCHANGED <<linkVars, chunk, queue, busVars>>

AbortOnFull ==
  /\ Alive /\ receiver = "delivering" /\ Len(queue) = QueueSize /\ policy = "assert"
  /\ main' = "aborted"
  /\ UNCHANGED <<linkVars, recvVars, queue, current, stopped, dispatched, lent, fate>>

\* The accumulator has taken the frames: the buffer read into goes back.
EndChunk ==
  /\ Alive /\ receiver = "parsing" /\ chunk = <<>>
  /\ receiver' = "idle"
  /\ RecvReturn
  /\ UNCHANGED <<linkVars, chunk, hand, queue, busVars, fate>>

\* A stopped task ends between two reads, or out of one.
ReceiverEnds ==
  /\ Alive /\ stopped /\ receiver \in {"idle", "reading"}
  /\ receiver' = "done"
  /\ IF receiver = "reading" THEN RecvReturn ELSE UNCHANGED lent
  /\ UNCHANGED <<linkVars, chunk, hand, queue, busVars, fate>>
-----------------------------------------------------------------------------
(* The main task.                                                           *)

\* CFE_ES_RunLoop: another turn, or the way to the teardown.
RunLoop ==
  /\ main = "loop"
  /\ main' \in {"process", "stop"}
  /\ UNCHANGED <<linkVars, recvVars, queue, current, stopped, dispatched, lent, fate>>

\* Mutant: process() does not look at the queue.
ProcessEmpty_Always ==
  /\ main = "process"
  /\ main' = "loop"
  /\ UNCHANGED <<linkVars, recvVars, queue, current, stopped, dispatched, lent, fate>>

\* cfsBridge.process() with an empty queue; the rest of the turn is not about
\* the uplink.
ProcessEmpty ==
  /\ main = "process" /\ queue = <<>>
  /\ main' = "loop"
  /\ UNCHANGED <<linkVars, recvVars, queue, current, stopped, dispatched, lent, fate>>

\* cfsBridge.process() takes one message.
Dispatch ==
  /\ main = "process" /\ queue # <<>>
  /\ main' = "sending"
  /\ current' = <<Head(queue)>> /\ queue' = Tail(queue)
  /\ UNCHANGED <<linkVars, recvVars, stopped, dispatched, lent, fate>>

\* Its packet is transmitted on the software bus, and its buffer returned.
Transmit ==
  /\ main = "sending"
  /\ main' = "loop"
  /\ dispatched' = dispatched \o Ids(current)
  /\ fate' = [fate EXCEPT ![current[1].id] = "dispatched"]
  /\ current' = <<>>
  /\ FrameReturn
  /\ UNCHANGED <<linkVars, recvVars, queue, stopped>>

\* Mutant: teardownTopology does not stop the driver.
StopDriver_Skipped ==
  /\ main = "stop"
  /\ main' = "join"
  /\ UNCHANGED <<linkVars, recvVars, queue, current, stopped, dispatched, lent, fate>>

\* teardownTopology: comDriver.terminate and stop
StopDriver ==
  /\ main = "stop"
  /\ main' = "join" /\ stopped' = TRUE
  /\ UNCHANGED <<linkVars, recvVars, queue, current, dispatched, lent, fate>>

\* teardownTopology: comDriver.join, then tearDownComponents
Join ==
  /\ main = "join" /\ receiver = "done"
  /\ main' = "done"
  /\ UNCHANGED <<linkVars, recvVars, queue, current, stopped, dispatched, lent, fate>>

Receive ==
  \/ AllocateRecv \/ (\E n \in 0 .. Len(stream) : Read(n))
  \/ RejectFrame \/ AcceptFrame \/ Deliver \/ DropFrame \/ AbortOnFull
  \/ EndChunk \/ ReceiverEnds

MainTask == RunLoop \/ ProcessEmpty \/ Dispatch \/ Transmit \/ StopDriver \/ Join

Next == (\E good \in BOOLEAN : ClientSends(good)) \/ Disconnect \/ Receive \/ MainTask

Spec == Init /\ [][Next]_vars

\* The scheduler runs both tasks. A read returns at the latest when the driver
\* is stopped: no data need ever come.
Fairness ==
  /\ WF_vars(MainTask)
  /\ WF_vars(RejectFrame \/ AcceptFrame \/ Deliver \/ DropFrame \/ AbortOnFull \/ EndChunk)
  /\ WF_vars(ReceiverEnds)

FairSpec == Spec /\ Fairness
-----------------------------------------------------------------------------
(* Properties.                                                              *)

TypeOK ==
  /\ policy \in Policies
  /\ sent \in 0 .. MaxFrames /\ stream \in Seq(Frames)
  /\ receiver \in {"idle", "reading", "parsing", "delivering", "done"}
  /\ chunk \in Seq(Frames) /\ hand \in Seq(Frames)
  /\ queue \in Seq(Frames) /\ Len(queue) <= QueueSize
  /\ main \in {"loop", "process", "sending", "stop", "join", "done", "aborted"}
  /\ current \in Seq(Frames) /\ stopped \in BOOLEAN /\ lent \in 0 .. NumBuffers
  /\ dispatched \in Seq(1 .. MaxFrames) /\ fate \in [1 .. MaxFrames -> Fates]

Count(b) == IF b THEN 1 ELSE 0

\* Each buffer given out is where it can come back from: read into, with a
\* frame in one task's hands, or in the queue. None leaks through a rejected
\* frame, a full queue or a stop.
BuffersConserved ==
  lent = Count(receiver \in {"reading", "parsing", "delivering"})
           + Len(hand) + Len(queue) + Len(current)

\* However frames burst in against one dispatch per turn, the receive task
\* finds a buffer whenever it asks for one: the queue fills first.
AllocationsSucceed ==
  /\ receiver = "idle" => lent < NumBuffers
  /\ receiver = "parsing" => lent < NumBuffers

\* The uplink in its order, from the frame being dispatched to the stream.
InTransit == Ids(current) \o Ids(queue) \o Ids(hand) \o Ids(chunk) \o Ids(stream)

\* Every frame is accounted for: on its way in the order it was sent and
\* behind all that were dispatched, or its end has one cause. None reaches the
\* software bus twice, late, or after it was rejected.
FramesAccounted ==
  LET all == dispatched \o InTransit
  IN  /\ \A i, j \in DOMAIN all : i < j => all[i] < all[j]
      /\ \A i \in 1 .. sent :
           /\ fate[i] = "none" <=> i \in ToSet(InTransit)
           /\ fate[i] = "dispatched" <=> i \in ToSet(dispatched)

\* Whatever has not reached the software bus by the time a later frame does is
\* gone for good, for a cause of its own: no command comes late.
GapsAreLosses ==
  \A k \in DOMAIN dispatched : \A i \in 1 .. dispatched[k] :
    i \in ToSet(dispatched) \/ fate[i] \in {"lost", "rejected", "dropped"}

\* A frame has one fate: what became of it is never revised, not even when the
\* connection it came on ends.
FatesAreFinal ==
  [][\A i \in 1 .. MaxFrames : fate[i] # "none" => fate'[i] = fate[i]]_vars

\* When tearDownComponents takes the buffers' memory, the receive task has ended
\* and the only buffers not given back lie in the queue: no task holds one.
NoBufferInHand == main = "done" => receiver = "done" /\ lent = Len(queue)

\* A bound on the steps the receive task still takes before it ends, once it
\* begins no other read.
Work ==
  [done       |-> 0,
   idle       |-> 1,
   parsing    |-> 2 + 2 * Len(chunk),
   delivering |-> 3 + 2 * Len(chunk),
   reading    |-> 2 * MaxFrames + 3][receiver]

\* A stopped receive task begins no other read, and each of its steps leaves it
\* less to do: nothing but a full queue can keep the join waiting.
StoppedReceiverRunsOut ==
  [][stopped /\ (receiver' # receiver \/ chunk' # chunk) => Work' < Work]_vars

Contract == INSTANCE LossyFifo WITH published <- sent, received <- dispatched

\* The software bus gets what clients sent, in order and once.
ImplementsLossyFifo == Contract!Spec

\* What cfsBridge has accepted is dispatched as long as the loop runs.
AcceptedIsDispatched ==
  \A i \in 1 .. MaxFrames :
    i \in ToSet(Ids(queue)) ~> (fate[i] = "dispatched" \/ main \in {"stop", "join", "done", "aborted"})

\* The receive task waits for room in a queue that nobody empties any more.
WaitsForever == policy = "block" /\ receiver = "delivering" /\ Len(queue) = QueueSize

\* Once the loop is left the receive task is joined, wherever its frames are;
\* what could prevent it is a sender that waits on the full queue.
ShutdownCompletes ==
  main = "stop" ~> (main \in {"done", "aborted"} \/ (main = "join" /\ WaitsForever))

\* The join is answered: at every point the receive task can be at, its next
\* step is open, with a buffer for the frame it parses, or it waits for room
\* that nobody makes. With StoppedReceiverRunsOut, ShutdownCompletes asks no
\* more than that the scheduler runs the task.
JoinIsAnswered ==
  main = "join" =>
    \/ receiver = "done"
    \/ receiver \in {"idle", "reading"} /\ stopped
    \/ receiver = "parsing" /\ (chunk = <<>> \/ lent < NumBuffers)
    \/ receiver = "delivering" /\ (Len(queue) < QueueSize \/ policy \in {"assert", "hook"})
    \/ WaitsForever

\* What cfsBridge has accepted and not yet sent on the software bus.
Accepted == Ids(current \o queue)

\* Whatever the tasks interleave, cfsBridge is a FIFO that forgets nothing it
\* accepted: a frame leaves only from its front, to the software bus, and
\* enters only at its end, and once (the safety half of AcceptedIsDispatched).
AcceptedIsFifo ==
  [][\/ /\ dispatched' = dispatched
        /\ \/ Accepted' = Accepted
           \/ \E i \in 1 .. sent \ (ToSet(dispatched) \union ToSet(Accepted)) :
                Accepted' = Append(Accepted, i)
     \/ /\ Accepted # <<>>
        /\ dispatched' = Append(dispatched, Head(Accepted))
        /\ Accepted' = Tail(Accepted)]_vars

\* The receive task, as BridgeLifecycle has it, too.
ReceiveTask ==
  IF main = "done" THEN "joined" ELSE IF receiver = "done" THEN "ended" ELSE "running"

Receiver == INSTANCE ReceiverContract WITH task <- ReceiveTask, told <- stopped

\* With frames in its hands or not, whatever the policy for a full queue, the
\* receive task ends only when told to, and is joined only when it has ended.
KeepsReceiverContract == Receiver!Spec
=============================================================================
