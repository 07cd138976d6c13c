------------------------------ MODULE Downlink ------------------------------
(***************************************************************************)
(* The downlink of the bridge as Main.cpp, topology.fpp and                *)
(* ComCcsdsNoRouter.fpp put it together: software bus pipe -> cfsBridge -> *)
(* tlmStripper -> aggregator -> framer -> comStub -> comDriver -> client,  *)
(* the communication status on its way back, the buffers on theirs, and    *)
(* the rate group that flushes partial frames.                             *)
(*                                                                         *)
(* Three tasks take part: the main task (the loop of FPRIME_GDS_Main, of   *)
(* which process() and cycleTopology() matter here), the aggregator's task *)
(* and the driver's receive task, which reports a new client. The          *)
(* components are F Prime's, outside this repository: modelled is what the *)
(* wiring relies on. The bridge passes a packet on only with permission,   *)
(* and each status it is given is permission for one packet; aggregator    *)
(* and comStub wait for a status after each frame, which comStub owes      *)
(* after a failed send until the driver reports a client again.            *)
(*                                                                         *)
(* A packet is its turn of publication and its size in units of a frame; a *)
(* size of 0 stands for one too short for a primary header. Framing adds   *)
(* nothing that could be lost by itself and is left out.                   *)
(***************************************************************************)
EXTENDS Naturals, Sequences, SequencesExt

CONSTANTS
  PipeDepth,     \* FPRIME_GDS_PLATFORM_PIPE_DEPTH
  FrameSize,     \* TmDataFieldSize, in units of packets' sizes
  Sizes,         \* sizes of packets on the software bus
  MaxPublished   \* bound: packets published

ASSUME PipeAssumption  == PipeDepth \in Nat \ {0}
ASSUME SizesAssumption == FrameSize \in Nat \ {0} /\ Sizes \subseteq 0 .. FrameSize
ASSUME BoundAssumption == MaxPublished \in Nat

VARIABLES
  published,   \* number of packets published so far
  pipe,        \* the software bus pipe of cfsBridge
  loop,        \* where the main task is: "setup", or the call it makes next
  permission,  \* TRUE while cfsBridge may pass a packet on
  lent,        \* packets whose buffers cfsBridge has not got back
  input,       \* the packets in the aggregator's queue
  tick,        \* TRUE while a timeout message is in it
  statuses,    \* the status messages in it
  started,     \* TRUE once the aggregator has seen its first good status
  aggregator,  \* what its task does: fill, send, wait for a status
  frame,       \* the frame it fills
  held,        \* the packet that did not fit into it, if any (at most one)
  sentOk,      \* what the driver returned to comStub
  reinit,      \* comStub owes a status until the driver is ready
  client,      \* the connection: none, accepted, reported ready
  received,    \* history: packets clients received
  fate         \* history: what became of packets that left the downlink

busVars  == <<published, pipe>>
turnVars == <<permission, lent>>
aggVars  == <<started, aggregator, frame, held>>
linkVars == <<sentOk, reinit, client>>
history  == <<received, fate>>
vars == <<busVars, loop, turnVars, input, tick, statuses, aggVars, linkVars, history>>

Packets  == [id : 1 .. MaxPublished, size : Sizes]
Statuses == {"SUCCESS", "FAILURE"}
Fates    == {"none", "dropped", "malformed", "lost", "received"}

Ids(s) == [i \in DOMAIN s |-> s[i].id]
IdSet(s) == {s[i].id : i \in DOMAIN s}

\* The room packets take up in a frame.
Room(s) == FoldSeq(LAMBDA p, used : p.size + used, 0, s)

Init ==
  /\ published = 0 /\ pipe = <<>>
  /\ loop = "setup"
  /\ permission = FALSE /\ lent = {}
  /\ input = <<>> /\ tick = FALSE /\ statuses = <<>>
  /\ started = FALSE /\ aggregator = "waiting" /\ frame = <<>> /\ held = <<>>
  /\ sentOk = FALSE /\ reinit = TRUE /\ client = "none"
  /\ received = <<>> /\ fate = [i \in 1 .. MaxPublished |-> "none"]
-----------------------------------------------------------------------------
(* What the topology connects.                                              *)

\* Mutant: aggregator.comStatusOut is left unconnected.
GiveTurn_Unwired == UNCHANGED permission

\* aggregator.comStatusOut -> cfsBridge.comStatusIn
GiveTurn == permission' = TRUE

\* Mutant: aggregator.dataReturnOut is left unconnected.
ReturnBuffer_Unwired(p) == UNCHANGED lent

\* aggregator.dataReturnOut -> tlmStripper -> cfsBridge.dataReturnIn
ReturnBuffer(p) == lent' = lent \ {p.id}

\* Mutant: aggregator.timeout is left unconnected.
Timeout_Unwired == UNCHANGED tick

\* pollingTimer.CycleOut -> rateGroup -> aggregator.timeout. A message that
\* finds another one queued changes nothing.
Timeout == tick' = TRUE

\* comStub.comStatusOut -> framer -> aggregator.comStatusIn
ComStatus(status) == statuses' = Append(statuses, status)

\* Mutant: comDriver.ready is left unconnected.
DrvConnected_Unwired == UNCHANGED <<reinit, statuses>>

\* comDriver.ready -> comStub.drvConnected: the status that is owed.
DrvConnected ==
  IF reinit THEN reinit' = FALSE /\ ComStatus("SUCCESS")
            ELSE UNCHANGED <<reinit, statuses>>
-----------------------------------------------------------------------------
(* The software bus and the main task.                                      *)

\* Mutant: the pipe takes any number of messages.
Publish_NoLimit(size) ==
  /\ published < MaxPublished
  /\ published' = published + 1
  /\ pipe' = Append(pipe, [id |-> published + 1, size |-> size])
  /\ UNCHANGED <<loop, turnVars, input, tick, statuses, aggVars, linkVars, history>>

\* Another application publishes a packet. A full pipe does not take it.
Publish(size) ==
  /\ published < MaxPublished
  /\ published' = published + 1
  /\ IF Len(pipe) < PipeDepth
     THEN pipe' = Append(pipe, [id |-> published + 1, size |-> size]) /\ UNCHANGED fate
     ELSE fate' = [fate EXCEPT ![published + 1] = "dropped"] /\ UNCHANGED pipe
  /\ UNCHANGED <<loop, turnVars, input, tick, statuses, aggVars, linkVars, received>>

\* From the subscriptions to the loop the pipe fills, but nobody reads it.
SetupDone ==
  /\ loop = "setup"
  /\ loop' = "process"
  /\ UNCHANGED <<busVars, turnVars, input, tick, statuses, aggVars, linkVars, history>>

\* cfsBridge.process() with no packet or no permission to pass one on.
ProcessIdle ==
  /\ loop = "process" /\ loop' = "cycle"
  /\ ~permission \/ pipe = <<>>
  /\ UNCHANGED <<busVars, turnVars, input, tick, statuses, aggVars, linkVars, history>>

\* cfsBridge.process() passes a packet through the stripper. One too short for
\* it comes straight back, and the permission is gone: no status will follow.
Process ==
  /\ loop = "process" /\ loop' = "cycle"
  /\ permission /\ pipe # <<>>
  /\ permission' = FALSE
  /\ pipe' = Tail(pipe)
  /\ IF Head(pipe).size = 0
     THEN /\ fate' = [fate EXCEPT ![Head(pipe).id] = "malformed"]
          /\ UNCHANGED <<lent, input>>
     ELSE /\ lent' = lent \union {Head(pipe).id}
          /\ input' = Append(input, Head(pipe))
          /\ UNCHANGED fate
  /\ UNCHANGED <<published, tick, statuses, aggVars, linkVars, received>>

\* cycleTopology(), which is a tick of the rate group once per interval.
CycleTick ==
  /\ loop = "cycle" /\ loop' = "process"
  /\ Timeout
  /\ UNCHANGED <<busVars, turnVars, input, statuses, aggVars, linkVars, history>>

CycleIdle ==
  /\ loop = "cycle" /\ loop' = "process"
  /\ UNCHANGED <<busVars, turnVars, input, tick, statuses, aggVars, linkVars, history>>
-----------------------------------------------------------------------------
(* The aggregator's task. It packs packets whole into frames.               *)

\* Mutant: a packet that does not fit is thrown away, its buffer returned.
TakePacket_DropsUnfit ==
  /\ aggregator = "filling" /\ input # <<>>
  /\ input' = Tail(input)
  /\ IF Room(frame) + Head(input).size <= FrameSize
     THEN /\ frame' = Append(frame, Head(input))
          /\ UNCHANGED aggregator
     ELSE aggregator' = "sending" /\ UNCHANGED frame
  /\ ReturnBuffer(Head(input))
  /\ GiveTurn
  /\ UNCHANGED <<busVars, loop, tick, statuses, started, held, linkVars, history>>

\* A packet that fits is copied and its buffer returned; one that does not is
\* held, and the frame goes out. A frame may also go out because it is full.
TakePacket ==
  /\ aggregator = "filling" /\ input # <<>>
  /\ input' = Tail(input)
  /\ IF Room(frame) + Head(input).size <= FrameSize
     THEN /\ frame' = Append(frame, Head(input))
          /\ aggregator' \in {"filling"} \union
               (IF Room(frame) + Head(input).size = FrameSize THEN {"sending"} ELSE {})
          /\ ReturnBuffer(Head(input))
          /\ GiveTurn
          /\ UNCHANGED held
     ELSE /\ held' = <<Head(input)>>
          /\ aggregator' = "sending"
          /\ UNCHANGED <<turnVars, frame>>
  /\ UNCHANGED <<busVars, loop, tick, statuses, started, linkVars, history>>

\* A timeout sends a frame that has begun to fill, and means nothing else.
TakeTick ==
  /\ aggregator \in {"filling", "waiting"} /\ tick
  /\ tick' = FALSE
  /\ aggregator' = IF aggregator = "filling" /\ frame # <<>> THEN "sending" ELSE aggregator
  /\ UNCHANGED <<busVars, loop, turnVars, input, statuses, started, frame, held, linkVars, history>>

\* Mutant: the driver sends a frame again that it has sent.
DriverSend_Twice(ok) ==
  /\ aggregator = "sending" /\ aggregator' = "reporting"
  /\ ok => client # "none"
  /\ sentOk' = ok
  /\ received' = IF ok THEN received \o Ids(frame) \o Ids(frame) ELSE received
  /\ fate' = [i \in DOMAIN fate |->
                IF i \notin IdSet(frame) THEN fate[i] ELSE IF ok THEN "received" ELSE "lost"]
  /\ frame' = <<>>
  /\ UNCHANGED <<busVars, loop, turnVars, input, tick, statuses, started, held, reinit, client>>

\* framer -> comStub -> comDriver.send, in the aggregator's task. Without a
\* client it fails; what was sent may still be lost with the connection.
DriverSend(ok) ==
  /\ aggregator = "sending" /\ aggregator' = "reporting"
  /\ ok => client # "none"
  /\ sentOk' = ok
  /\ \E arrives \in {FALSE, ok} :
       /\ received' = IF arrives THEN received \o Ids(frame) ELSE received
       /\ fate' = [i \in DOMAIN fate |->
                     IF i \notin IdSet(frame) THEN fate[i]
                     ELSE IF arrives THEN "received" ELSE "lost"]
  /\ frame' = <<>>
  /\ UNCHANGED <<busVars, loop, turnVars, input, tick, statuses, started, held, reinit, client>>

\* comStub reports how the send went and, if it failed, owes a status. The
\* driver may have found a new client, and said so, in the meantime.
Report ==
  /\ aggregator = "reporting" /\ aggregator' = "waiting"
  /\ reinit' = ~sentOk
  /\ ComStatus(IF sentOk THEN "SUCCESS" ELSE "FAILURE")
  /\ UNCHANGED <<busVars, loop, turnVars, input, tick, started, frame, held, sentOk, client, history>>

\* Mutant: a failed send is taken for a sent frame.
TakeStatus_AnyStatus ==
  /\ aggregator = "waiting" /\ statuses # <<>>
  /\ statuses' = Tail(statuses)
  /\ aggregator' = "filling" /\ started' = TRUE
  /\ frame' = held /\ held' = <<>>
  /\ IF held # <<>> THEN ReturnBuffer(held[1]) /\ GiveTurn
     ELSE UNCHANGED lent /\ (IF started THEN UNCHANGED permission ELSE GiveTurn)
  /\ UNCHANGED <<busVars, loop, input, tick, linkVars, history>>

\* A good status ends the wait. The held packet opens the next frame; the first
\* status of all gives the bridge its first turn.
TakeStatus ==
  /\ aggregator = "waiting" /\ statuses # <<>>
  /\ statuses' = Tail(statuses)
  /\ IF Head(statuses) = "SUCCESS"
     THEN /\ aggregator' = "filling" /\ started' = TRUE
          /\ frame' = held /\ held' = <<>>
          /\ IF held # <<>> THEN ReturnBuffer(held[1]) /\ GiveTurn
             ELSE UNCHANGED lent /\ (IF started THEN UNCHANGED permission ELSE GiveTurn)
     ELSE UNCHANGED <<aggVars, turnVars>>
  /\ UNCHANGED <<busVars, loop, input, tick, linkVars, history>>
-----------------------------------------------------------------------------
(* The driver's receive task, and the client.                               *)

Connect ==
  /\ client = "none" /\ client' = "accepted"
  /\ UNCHANGED <<busVars, loop, turnVars, input, tick, statuses, aggVars, sentOk, reinit, history>>

Ready ==
  /\ client = "accepted" /\ client' = "ready"
  /\ DrvConnected
  /\ UNCHANGED <<busVars, loop, turnVars, input, tick, aggVars, sentOk, history>>

Leave ==
  /\ client = "ready" /\ client' = "none"
  /\ UNCHANGED <<busVars, loop, turnVars, input, tick, statuses, aggVars, sentOk, reinit, history>>

MainTask   == SetupDone \/ ProcessIdle \/ Process \/ CycleTick \/ CycleIdle
Aggregator == TakePacket \/ TakeTick \/ (\E ok \in BOOLEAN : DriverSend(ok)) \/ Report \/ TakeStatus
Receiver   == Connect \/ Ready \/ Leave

Next == (\E size \in Sizes : Publish(size)) \/ MainTask \/ Aggregator \/ Receiver

Spec == Init /\ [][Next]_vars

\* The scheduler runs both tasks, no kind of message starves another in the
\* aggregator's queue, the timer's interval keeps elapsing, and the driver
\* reports a client it has accepted. Clients and publishers owe nothing.
Fairness ==
  /\ WF_vars(MainTask) /\ SF_vars(CycleTick)
  /\ WF_vars(TakePacket) /\ WF_vars(TakeTick) /\ WF_vars(TakeStatus)
  /\ WF_vars(\E ok \in BOOLEAN : DriverSend(ok)) /\ WF_vars(Report)
  /\ WF_vars(Ready)

FairSpec == Spec /\ Fairness
-----------------------------------------------------------------------------
(* Properties.                                                              *)

TypeOK ==
  /\ published \in 0 .. MaxPublished
  /\ pipe \in Seq(Packets) /\ Len(pipe) <= PipeDepth
  /\ loop \in {"setup", "process", "cycle"}
  /\ permission \in BOOLEAN /\ lent \in SUBSET (1 .. MaxPublished)
  /\ input \in Seq(Packets) /\ tick \in BOOLEAN /\ statuses \in Seq(Statuses)
  /\ started \in BOOLEAN /\ aggregator \in {"filling", "sending", "reporting", "waiting"}
  /\ frame \in Seq(Packets) /\ held \in Seq(Packets)
  /\ sentOk \in BOOLEAN /\ reinit \in BOOLEAN /\ client \in {"none", "accepted", "ready"}
  /\ received \in Seq(1 .. MaxPublished) /\ fate \in [1 .. MaxPublished -> Fates]

Malformed == \E i \in DOMAIN fate : fate[i] = "malformed"
Count(b) == IF b THEN 1 ELSE 0

\* The bridge's permission is neither multiplied nor lost between two tasks:
\* it has it, a packet it passed on does, the first status is still to come,
\* or a packet the stripper turned back took it.
PermissionConserved ==
  Count(permission) + Len(input) + Len(held) + Count(~started) + Count(Malformed) = 1

\* The bridge lacks exactly the buffers of packets the aggregator has not yet
\* copied: no buffer leaks, whatever happens to frames and connections.
BuffersComeBack == lent = IdSet(input) \union IdSet(held)

\* The downlink in its order, from what was received to what is in the pipe.
InTransit == Ids(frame) \o Ids(held) \o Ids(input) \o Ids(pipe)

\* Every packet is accounted for: on its way, in the order of publication and
\* behind all that was received, or received, or its loss has one cause. None
\* overtakes another, none is in two places.
LossesAccounted ==
  LET all == received \o InTransit
  IN  /\ \A i, j \in DOMAIN all : i < j => all[i] < all[j]
      /\ \A i \in 1 .. published :
           /\ fate[i] = "none" <=> i \in ToSet(InTransit)
           /\ fate[i] = "received" <=> i \in ToSet(received)

\* While the aggregator waits, one good status is owed by comStub or on its way,
\* never two, at most one bad one before it; at any other time there is none,
\* and none is owed. Three tasks pass it on: a good status too few would stop
\* the downlink for good, one too many would let a frame go out unanswered.
StatusOwed ==
  IF aggregator = "waiting"
  THEN statuses \in IF reinit THEN {<<>>, <<"FAILURE">>}
                              ELSE {<<"SUCCESS">>, <<"FAILURE", "SUCCESS">>}
  ELSE statuses = <<>> /\ ~reinit

\* No frame is handed to a driver that failed the last one and has found no
\* client since: between the two, a status has come and gone through two tasks.
SendsOnlyWhenReady == aggregator = "sending" => ~reinit

\* The bridge and comStub never crowd the aggregator's queue: one packet and two
\* statuses are the most that wait there, however the tasks are scheduled.
FewMessages == Len(input) <= 1 /\ Len(statuses) <= 2

\* The downlink never stands still without a cause one can name: its frame is
\* on its way, or the aggregator's next message is in its queue, or is owed to it
\* by the bridge, which has its turn, or by comStub, until a client connects; or
\* a malformed packet took the turn. (What ReconnectsRestoreFlow rests on.)
StallsExplained ==
  \/ aggregator \in {"sending", "reporting"}
  \/ aggregator = "filling" /\ (input # <<>> \/ permission \/ Malformed)
  \/ aggregator = "waiting" /\ (statuses # <<>> \/ reinit)

\* The packets of a frame meet one end: the ground gets them all, or they are
\* lost together, and none of them before the frame is sent.
FramesAreAtomic ==
  [][\A i, j \in IdSet(frame) : fate'[i] = fate'[j]]_vars

\* Whatever the ground has not received by the time it receives a later packet is
\* lost for good, for a cause of its own: nothing comes late.
GapsAreLosses ==
  \A k \in DOMAIN received : \A i \in 1 .. received[k] :
    i \in ToSet(received) \/ fate[i] \in {"dropped", "malformed", "lost"}

\* A packet has one fate: what became of it is never revised, neither by a
\* frame that is sent later nor by a packet turned away at the pipe.
FatesAreFinal ==
  [][\A i \in 1 .. MaxPublished : fate[i] # "none" => fate'[i] = fate[i]]_vars

\* A packet that the stripper turned back took the bridge's turn for good: with
\* PermissionConserved, the bridge never passes a packet on again.
TurnStaysTaken == [][Malformed => Malformed']_vars

LossyFifo == INSTANCE LossyFifo

\* What the ground receives is what was published, in order and once.
ImplementsLossyFifo == LossyFifo!Spec

\* A frame that has begun to fill is sent, although no packet may follow.
PartialFramesLeave == frame # <<>> ~> frame = <<>>

\* However often sends fail and clients leave, the downlink recovers: while
\* clients keep coming back, each packet arrives or is lost, unless the turn
\* was lost to a malformed packet.
ReconnectsRestoreFlow ==
  []<>(client = "none") /\ []<>(client = "ready") =>
    \A i \in 1 .. MaxPublished : (published >= i) ~> (fate[i] # "none" \/ Malformed)
=============================================================================
