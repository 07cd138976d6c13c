# A TLA+ model of the F Prime GDS bridge for cFS

This directory holds a model of `fprime_gds`, the cFS application that bridges the cFS software bus
to the F Prime GDS over TCP. It consists of TLA+ modules translated from the source, TLC runs of
small instances, and proofs checked by TLAPS that hold for every value of the constants.

## The system

Two applications share the repository.

* **The bridge** (`GdsBridge/`), C++ on F Prime. cFE starts `FPRIME_GDS_Main` in a task of its own.
  It configures the bridge component (software bus pipe, five APID subscriptions), installs a delete
  handler, sets the topology up and runs a loop: dispatch one uplink message, advance the polling
  timer, sleep 100 us. Two more tasks exist while it runs: the task of the active component
  `aggregator`, and the receive task of the TCP server `comDriver`.
* **The C application** (`fsw/`), the ground command application the bridge grew from: a pipe, two
  counters, four commands, a housekeeping request and one table. The dispatcher is chosen at build
  time (plain C, or generated from the EDS). `CMakeLists.txt` keeps these files in `APP_SRC_FILES`,
  and the unit tests build them.

### Inventory

| Part | State | Operations | Interacts with | What makes it correct |
|---|---|---|---|---|
| Entry point, `GdsBridge/Main.cpp` | `g_topologyState`, `run_status`, subscriptions, delete handler | `FPRIME_GDS_Main`, `FPRIME_GDS_Init`, `FPRIME_GDS_Shutdown`, `FPRIME_GDS_delete_callback` | ES (run loop, exit, deletion), EVS, topology | initialisation is all or nothing; the exit status is the true reason; nothing survives removal |
| Topology, `GdsBridge/Top` | the components' set-up, timer, tasks | `setupTopology`, `cycleTopology`, `teardownTopology` | every component; called from two tasks | tasks only run on a complete topology; memory outlives tasks; teardown may be repeated and ends |
| `CfsTlmStripper` | none of its own: it rewrites buffers it is lent | `dataIn`, `dataReturnIn`, `comStatusIn` | cfsBridge, aggregator | a stripped packet says what it said; in place; others untouched; every buffer returns |
| Downlink wiring (`topology.fpp`, `ComCcsdsNoRouter.fpp`) | pipe, aggregator queue (10) and frame, communication status | bridge -> stripper -> aggregator -> framer -> comStub -> driver; status back; flush by rate group | main task, aggregator task, client | no packet duplicated or reordered, status never lost for good, partial frames leave |
| Uplink wiring | receive buffers (20 + 30), accumulator, queue of cfsBridge (10) | receive task -> accumulator -> deframer -> bridge; dispatch by the main loop | receive task, main task, client | buffers return; bounded queue; commands in order |
| C application, `fsw/src` | `FPRIME_GDS_Data` (counters, packet, run status, pipe, table handle) | `FPRIME_GDS_Main`, `_Init`, `_TaskPipe` (two), `_ProcessGroundCommand`, `_VerifyCmdLength`, five handlers, `_TblValidationFunc`, `_GetCrc` | software bus, table services, ES, EVS | loop needs a complete initialisation; counters tell the truth; tables valid and updatable; honest exit |
| Coverage tests, `unit-test/coveragetest`, `unit-test/common` | the stubs' state (`UT_*`), the event check, the application's globals, which survive from test to test | the tests of the four executables that call their unit, their set-up | the units of `fsw/src`, stubs of all else | assertions true of the code in any order of the tests; every branch taken; arranged failures happen |
| Configuration, EDS, table image, tests of the stripper, build | none at run time | | | |

Hard behaviours: deletion of the main task by ES at any step, with a second teardown in ES's task;
joins of tasks that are blocked in a socket; tasks that run while the main loop has stopped;
a client that connects and disconnects at will; initialisation that fails half-way; header
rewriting inside a shared buffer; 8- and 16-bit arithmetic; tables changed by the ground at any
time; a task that waits without a timeout. `PROJECT.json` lists them as hazards, each at its line,
with the properties that cover it.

## Modules

| Module | Models | Checked by | Proved in |
|---|---|---|---|
| `AppContract` | what ES may rely on: an abstract application | refinement target | `AppContractProofs` |
| `BridgeLifecycle` | `Main.cpp`, `GdsBridgeTopology.cpp` | `MCBridgeLifecycle` | `BridgeLifecycleProofs` |
| `CfsTlmStripper` | `CfsTlmStripper.cpp`, `.hpp` | `MCCfsTlmStripper` | `CfsTlmStripperProofs` |
| `GroundApp` | `fsw/src/*.c` | `MCGroundApp` | `GroundAppProofs` |
| `TableContract` | what the ground may rely on when it changes the table | refinement target | `GroundAppProofs` |
| `ReceiverContract` | what the topology may rely on when it starts and stops the driver's task | refinement target | in the proofs of the two models that implement it |
| `LossyFifo` | what either direction of the bridge promises: an abstract channel | refinement target | `LossyFifoProofs` |
| `Downlink` | `Main.cpp` (subscriptions, loop), `topology.fpp`, `ComCcsdsNoRouter.fpp`: packets to the client | `MCDownlink` | `DownlinkProofs` |
| `Uplink` | the same files: frames from the client, and the teardown's join | `MCUplink` | `UplinkProofs` |
| `CoverageUnits` | the units as the coverage tests link them, stubs, `unit-test/common` | through `CoverageTests` | |
| `CoverageTests` | `unit-test/coveragetest/*.c` | `MCCoverageTests` | |
| `OrderLemmas` | nothing: lemmas about queues in order, for the two proofs above | | itself |

Operators named `X_Y` under a comment "Mutant" are defective versions of `X`. No specification uses
them; they show that each property fails when the code has the bug they stand for.

**BridgeLifecycle.** `pc["main"]` is the next call of the main task and `pc["es"]` that of the delete
handler. Each action is one call in the source: `RegisterEvents`, `ConfigureBridge`, `SubscribeApid`
(one iteration), `InstallDeleteHandler`, `InitComponents` ... `StartDriver` (setupTopology),
`AnnounceInit`, `RunLoop`, `ProcessQueue`, `CycleTopology`, and `StopTasks` ...
`TearDownComponents`, which both agents run. `topology`, `memory`, `timer`, `aggregator`,
`receiver`, `listening` are what those calls build and undo. `Contract` is the refinement mapping to
`AppContract`: `Phase` folds the control state, `Alive` the two tasks, `held` the memory.

**CfsTlmStripper.** A buffer is a byte storage with a window (`first`, `size`), like `Fw::Buffer`, so
that "in place" and "nothing else is overwritten" are statements about the same bytes. `DataIn`,
`DataReturnIn`, `ComStatusIn` are the three handlers; `Strip` is the `if (strip)` block with its
length arithmetic (`LengthToken` keeps the two bytes of the 64-bit difference the code writes).
`sent` and `arrived` are history: the packet as it arrived, and the buffers in which one did. `malformed` are
the buffers whose last packet the event `MalformedPacket` was emitted for; `ShortBuffersComeBack` requires that
these are the ones whose last packet was too short, no fewer and no more.

**GroundApp.** `FPRIME_GDS_Init` is a chain of calls (`InitCall`, `TblLoad`, `Announce`); the loop is
`RunLoop`, `ReceiveBuffer` (which handles what it received: the handlers but one make no call that
others can interleave with) and `ReleaseAddress`, the second half of `FPRIME_GDS_ProcessCmd`. Between
its two halves the ground may load and activate tables. `EdsEnabled` chooses the dispatcher.
`executed`, `refused`, `reported` and `failure` are history variables. Both dispatchers' branch for
an unknown message ID is in `Reason`, but is not reachable: the application subscribes to two IDs.
`Contract` maps the table to `TableContract`.

**Downlink.** A packet is its turn of publication and a size in units of a frame (0: too short for a
primary header). It goes through `pipe`, `input` (the aggregator's queue), `held` (the one packet that
did not fit) and `frame`. Three tasks act. The main task reads the pipe (`Process`, `ProcessIdle`) and
advances the timer (`CycleTick`, `CycleIdle`); the aggregator's task is `TakePacket`, `TakeTick`,
`TakeStatus`, `DriverSend`, `Report`; the driver's receive task is `Connect`, `Ready`, `Leave`. Each
connection of `topology.fpp` that carries one of these steps is an operator of its own (`GiveTurn`,
`ReturnBuffer`, `Timeout`, `ComStatus`, `DrvConnected`), and the mutants leave one unconnected: that is
what a mistake in this file looks like. `DriverSend` and `Report` are two steps, since a new client may
be reported between the return of the send and the status. `received` and `fate` are history.

**Uplink.** A frame is its turn and whether the deframer accepts it. A read returns the ends of any
number of frames (`Read`), which the receive task parses one by one (`RejectFrame`, `AcceptFrame`,
`Deliver`); the main task dispatches one message per turn (`RunLoop`, `ProcessEmpty`, `Dispatch`,
`Transmit`) and may leave the loop at any of them (`StopDriver`, `Join`). `lent` counts the buffers of
`commsBufferManager`. What F Prime does with a message that finds the queue full is chosen by `policy`:
`AbortOnFull`, waiting (`Deliver` is not enabled), or `DropFrame`.

**AppContract, TableContract.** Two views of an application from outside. The executive sees an application that
starts, serves, closes and is gone, with its tasks and its memory (`Acquire`, `Spawn`, `Serve`, `Close`,
`Reap`, `Release`, `Vanish`). The ground sees a table: it offers images, the ones in range may be
activated (`Offer`, `Activate`), and an activated one replaces the image in use (`Replace`), though not while
the application works on it (`Use`, `Done`). How requests, validations, housekeeping and the
release of addresses bring that about is `GroundApp`'s business.

**LossyFifo.** Turns are published one after the other, and what arrives extends an increasing sequence
of them by one packet or several, all published before. `Downlink` instantiates it under the names it
uses itself, `Uplink` with `published <- sent, received <- dispatched`. `Promises` and `NothingComesLate`
say what follows for whoever is at either end.

**ReceiverContract.** The receive task of the driver is in two models: in `BridgeLifecycle` with both
agents that may stop it, in `Uplink` with the frames it reads. The contract is where they meet: the
task is started by a driver not yet told to stop, ends only when told, and is joined once it has
ended. Both map their own state to it (`ReceiveTask`), so that neither model lets the task do what the
other excludes.

**CoverageUnits, CoverageTests.** The C application once more, now as its tests see it: `CoverageUnits`
gives, for each function of `fsw/src`, the state of the process after a call (stub counters, injected
statuses, captured events, the branches taken), with the stubs in place of all it calls.
`CoverageTests` holds the statements of every test; `StartTest` takes any test that has not run, the
actions up to `EndTest` execute its statements one by one. The stubs and the event check of `unit-test/common` keep
their state; the framework is reset before each test, the application's globals are not.

## Runs

| Run | Question | Result |
|---|---|---|
| `lifecycle` | all interleavings of the four threads, five APIDs | 8 properties hold, 865 states |
| `stripper` | every kind of packet at sizes 0, 5, 6, 16, 17, 20, 272, two buffers | 5 properties hold, 27,075 states |
| `stripper_requirement_001` | requirement 001 as worded | violated by a 16-byte packet |
| `ground_app` | plain dispatcher, pipe of 2, four commands, counters mod 3 | 5 properties hold, 495,954 states |
| `ground_app_eds` | EDS dispatcher, three commands, counters mod 2: counters, table updates land, exits happen | 3 properties hold, 233,910 states |
| `unknown_code` | the comment on the dispatcher's default case | violated |
| `initialized_event` | the "Initialized" event | violated |
| `coverage_tests` | all tests of each executable, in every order | 4 properties hold, 2,188 states |
| `coverage_tests_text` | all assertions of the tests | violated by one |
| `coverage_tests_sub_calls` | every sub-call of `FPRIME_GDS_Init` is made to fail | violated: one is not |
| `downlink` | pipe of 2, frames of 2 units, 5 packets of sizes 0, 1, 2, any connections and failures | 8 properties hold, 220,948 states |
| `uplink` | queue of 2, 5 buffers, 5 frames, three policies, shutdown at any turn | 7 properties hold, 148,096 states |

What `downlink` and `uplink` show of the wiring:

* *Order and accounts.* `LossesAccounted` and `FramesAccounted` say where each packet is: in one queue,
  behind all that arrived, or ended for one reason. `ImplementsLossyFifo` follows the clients' side only.
* *The bridge's turn.* `PermissionConserved` says that the permission to pass a packet on is neither
  multiplied nor lost, however statuses of sends and of new clients interleave. It also records an
  exception: a packet that is too short for the stripper takes the turn with it, since no status comes
  for it. If `CfsBridge` waits for a status after each packet, as the connection to its `comStatusIn`
  suggests, that stops the downlink. It is an assumption of the model, not a finding: the component is
  outside this repository.
* *Reconnecting.* `StatusOwed` and `ReconnectsRestoreFlow`: while the aggregator waits, exactly one good
  status is owed or on its way, so a failed send is followed by no other until a client was
  reported, and the flow recovers as long as clients keep coming back. If the new client is
  reported between a failed send and its status, the downlink waits for the next reconnection; the
  second property therefore assumes that clients reconnect again and again.
* *Buffers of the uplink.* `AllocationsSucceed`: a pool of the queue's depth and three is enough, whatever
  bursts come in against one dispatch per turn. The configuration has 50 buffers for a queue of 10.
* *Shutdown.* `ShutdownCompletes` (of `Uplink`): the join ends with frames wherever they are, unless the
  receive task waits for room in a queue that nobody empties any more, which needs the policy "block".

**Bounds.** `NumApids = 5` is the length of the list in the code; the life cycle needs no other
bound. The sizes for the stripper are the values on both sides of each comparison, one ordinary size, and
272, whose length field borrows from its high byte; one more packet has a length field below the
secondary header's size. Two buffers suffice for a buffer in flight while another is re-used. For the
C application three is small enough for counters to wrap and a pipe of two to fill; four commands
reach every sequence of refusals, failures, resets and wraps that differ; images 10 and 11 lie on both
sides of the limit; under the EDS dispatcher, where liveness is checked as well, counters have two
values and three commands arrive. `MaxCommands` is the only artificial bound there, and it is in the guard of
`CommandArrives`.

For the downlink, a frame of two units holds two small packets or a large one, so that packets fit,
fill the frame, or are held; a pipe of two overflows; five packets are enough for one in each stage
(pipe, queue, held, frame, gone). For the uplink a queue of two fills while a frame is in
each task's hands, and five buffers are the least the assumption of `Uplink` allows: any fewer and the
allocation would fail. `MaxPublished` and `MaxFrames` are in the guards of `Publish` and `ClientSends`.
The coverage tests need no bound: their statements are finitely many.

`CHECK_DEADLOCK FALSE` is set where the program really ends: after removal, exit, shutdown, or the last
test. The downlink never stops, and is checked for deadlock.

**Fairness.** *Bridge*: weak fairness of the main task, of ES's deletion after a request and its
teardown (the scheduler runs them; ES has a kill timer); of the return of a send (the socket's
timeout); of the end of the receive task once stopped; and strong fairness of `AggregatorExit`, since the
exit message is in a FIFO queue and so reached however many sends precede it. No fairness for
clients, requests, or failures. *C application*: weak fairness of its task and strong fairness of
`HkArrives`, the periodic housekeeping request: `CFE_SB_ReceiveBuffer` waits for ever, so without
requests an exit request is never noticed and no table update is made. That is what the two liveness
properties say, and it is an assumption about the mission's scheduler. *Downlink*: weak fairness of
the main task, of each kind of step of the aggregator's (its queue is served in turn), and of `Ready`
(the driver reports a client it has accepted); strong fairness of `CycleTick`, since the interval keeps
elapsing although most turns of the loop find that it has not. *Uplink*: weak fairness of the main
task, of the receive task's work on what it has read, and of its end once the driver is stopped; none
of reads, since data need never come. In both, clients, publishers and connections owe nothing.

## Where code and documents differ

1. `docs/sdd.md:46`: the secondary header is removed from *each* telemetry packet that has one. The
   code (`CfsTlmStripper.cpp:37`) leaves it on a packet without payload. (Removing it would leave an
   empty packet data field, which CCSDS forbids; the requirement does not say so.)
2. `fprime_gds_dispatch.c:113`: the comment says an unknown code was found by the length test before.
   It was not, and is not counted. The EDS dispatcher does count it, so the two builds report
   different error counters for the same commands.
3. `fprime_gds.c:194`: the event "Initialized", "successful init event" in
   `coveragetest_fprime_gds.c:175`, is also sent when registering or loading the table failed.
   That test line counts the event after a failed registration, as the code has it: what does not hold is
   the event's own text.
4. `coveragetest_fprime_gds.c:129` expects the pipe error event to read "SAMPLE APP: SB Pipe Read Error,
   App Will Exit"; `fprime_gds.c:91` sends "FPRIME APP: ...". The assertion at line 139 fails; all others
   hold.
5. `coveragetest_fprime_gds.c:153`: "Trigger a failure for each of the sub-calls". `CFE_TBL_Load`
   (`fprime_gds.c:188`), whose status `FPRIME_GDS_Init` returns, is never made to fail.

Not findings, but visible in the models: the coverage test of the EDS dispatcher calls nothing, although
the head of its file says it exercises all code paths; a comment at
`coveragetest_fprime_gds_dispatch.c:175` says that a command ends up in `FPRIME_GDS_Process()`, which
is a stub there; `FPRIME_GDS_ProcessCmd` accepts positive (informational)
statuses from `CFE_TBL_GetAddress` but treats them as errors from `CFE_TBL_ReleaseAddress`.

## Proofs

The proofs hold for every value of the constants under the named assumptions of each module: that
`NumApids` is positive, pipes, queues and frames have room for something, the pool is as deep as the
queue and three more, a counter's modulus is positive, and `NoImage` is no number.

`BridgeLifecycleProofs` proves the type invariant, the further safety invariants, an action property and
the refinements of `AppContract` and `ReceiverContract`. None of the invariants is inductive: whether memory
may be freed depends on which calls were already made, by whom. `IInv` therefore says, per value of
each `pc`, what is built: `InitInv` (nothing before the handler), `SetupInv` (what each call of
setupTopology finds), `ServeInv`, `MainTeardownInv`, and `EsTeardownInv`, which claims only what
ES's own calls have undone, since it may have started anywhere. `InvariantStep` has one lemma per group
of actions; the refinement has one lemma per action that is a step of the contract (`ConfigAcquires`,
`StartTasksSpawns`, `JoinReaps`, `DeletionCloses`, ...) and the `Quiet...` lemmas for the others.
`JoinsAreSafe` is the safety half of the shutdown: at either join, in either teardown, the task
joined has its exit message, or its driver is stopped and no longer listens. Its invariant `JoinsInv` is
inductive on top of `IInv` and follows each agent from the call that tells a task to end to the
call that waits for it, though the other agent may have run part of the same teardown.
`ShutdownIsFinite` is the rest of what single steps can say: once the application closes, every call
lowers `CallsLeft`, which counts the calls before both agents and the subscriptions to come. That the
delete handler starts over a teardown which the main task was deleted in the middle of does not raise it:
either agent has a count of its own, and a deleted task has no call left.
`ReceiverKeepsContract` rests on what `JoinsInv` knows of the driver, and on
`NotToldYet` and `ToldInOrder`: until setupTopology has started it, nobody told it to stop.

`AppContractProofs` shows that the contract is worth keeping: `Promises` (no task without memory, service
with all tasks, nothing held after failure or removal) and `NothingNew` (a closing application takes
nothing more). `BridgePromises` carries both over to the bridge by instantiating that module under the
refinement mapping, so that they are proved of the abstract application only.

`CfsTlmStripperProofs` proves all six invariants for arbitrary buffers and packets of any size.
It first computes `Strip` byte by byte (`StripBytes`), with flags and 16-bit lengths
reduced to arithmetic (`FlagCleared`, `TwoBytes`, `LengthTyped`). The inductive invariant relates each
buffer to the packet it last carried: `data = Forwarded(sent)` downstream, and for a short one that it is
with the bridge, untouched, and reported.

`GroundAppProofs` proves the type invariant, four safety invariants (`LoopNeedsInit`,
`ActiveTableValid`, `AddressGivenBack`, `ExitStatusHonest`), the action properties
`HousekeepingTruthful` and `UpdatesTakeEffect`, and the refinement `Spec => TableContract!Spec`, for
counters of any width, pipes of any depth, any limit and set of table images, and either dispatcher.
Its `IInv` has four parts: `ControlTyped`; `ObtainedInv`, what
`FPRIME_GDS_Init` holds at each of its calls, without which nothing follows at the loop; `StatusInv`;
and `SoundState`, the part a request changes. There, an image is found valid, activated or active only
if it is in range (`SoundTable`), and both counters are the history modulo their width
(`SoundCounts`), which rests on `IncrementCounts`: incrementing a wrapped counter is wrapping the
incremented count. `RequestHandled` shows once that every request keeps `SoundState`. `TableKeepsContract`
maps each step of the application to one of the contract or to none: loading the table file to `Boot`, which
needs that no image was active before (a part of `ObtainedInv`), the ground's load and
activation to `Offer` and `Activate`, a housekeeping request to `Replace` if an update is
pending, and the two halves of a PROCESS command to `Use` and `Done`. `UpdatesTakeEffect` says step by step
what `UpdatesLand` says in the long run. `TablePromises` carries to the application what
`ContractKeepsPromises` proves of the contract alone: the waiting image needs no check any more,
and the image in use gives way to no other. `ExitIsFinite` shows that a leaving task (ES wants it to exit,
or its run status says so) never changes its mind and that each of its calls lowers `CallsLeft`, so
that a read of the empty pipe is the only place it can stay at.

`DownlinkProofs` proves the type invariant, seven further invariants, the action properties
`FatesAreFinal`, `FramesAreAtomic` and `TurnStaysTaken`, and the refinement `Spec => LossyFifo!Spec`, for pipes and
frames of any size and any number of packets. Its `IInv` joins three parts to the properties. `Holdings`
says at which steps a packet is held and a frame filled. `StatusOwed`, itself a property of the run, is
the heart of it: without it a second good status could send a frame
to a driver that is not ready, or give the bridge a second turn. `PacketBooks` (`Books` of
`OrderLemmas`) says that what was received, followed by the stages in order, is an increasing
sequence of turns whose members are just the packets not lost. Moving a packet from the front of one
stage to the end of the next leaves this concatenation as it is; a loss cuts the packet out; an arrival moves
the border between received and under way. `OrderLemmas` proves these four facts once
(`BooksSetOut`, `BooksTurnedAway`, `BooksLost`, `BooksArrive`), for both directions. From the books also
follow `GapsAreLosses` (`BooksPast`: what was passed over is not under way any more) and
`FatesAreFinal`, and from the turn of the bridge `FewMessages`. `OneTurn` adds to the turn's conservation that
a malformed packet keeps it (`TurnStaysTaken`), since its fate is final. `NoUnexplainedStall` reads `StatusOwed`
and `PermissionConserved` together: whatever the aggregator waits for is in its queue, or is owed to it by
someone the invariant names. `FramesEndWhole` needs that a packet in a frame has no fate yet (`FrameIsOpen`),
which is again the books.

`LossyFifoProofs` proves of the abstract channel what a user of it wants to know (`Promises`,
`NothingComesLate`). `GroundMayRely` and `BusMayRely` instantiate that module under the two
refinement mappings, so that both directions have it from one proof.

`UplinkProofs` proves the type invariant, six further invariants, three action properties and the
refinements of `LossyFifo` and `ReceiverContract`, for every depth of the queue, every
policy and any number of frames. It goes in two layers: `IInv` (types, what each task holds at which
step, conservation of buffers) is inductive without knowing anything about order, and `FrameBooks` is
inductive on top of it. `PoolSuffices` is then arithmetic: with all stages full the buffers lent are the
queue's depth and two when the receive task asks for one, and `BuffersAssumption` grants one more.
`TeardownIsSafe` says of the memory that `tearDownComponents` frees right after the join that no task
holds a piece of it. `ReceiverRunsOut` is the safety half of the join's end: each step of a stopped
receive task lowers the measure `Work`. The task may have one read before it, and what that read brings is
bounded because the turns in a chunk increase, so that it has no more frames than there are turns
(`ShortChunk`, from the pigeonhole lemma `IncreasingShort` of `OrderLemmas`). `JoinAnswered` says that
there is always such a step to take, for any depth of queue and pool, unless the task waits for room in
the queue that nobody makes (`WaitsForever`, under the policy "block"). What remains for the
model checker is that the task takes its steps. `AcceptedKeepsOrder` is the safety half of
`AcceptedIsDispatched`: cfsBridge takes a frame in at one end, once, and gives it away at the other.

Proved for every instance, and in no run:

| Module | Properties |
|---|---|
| `BridgeLifecycle` | `TasksNeedTopology`, `ShutdownRunsOut`, `KeepsReceiverContract` |
| `CfsTlmStripper` | `OthersUntouched` |
| `GroundApp` | `AddressGivenBack`, `ActiveTableValid`, `UpdatesTakeEffect`, `ExitRunsOut` |
| `Downlink` | `SendsOnlyWhenReady`, `FewMessages`, `GapsAreLosses`, `FatesAreFinal`, `StallsExplained`, `FramesAreAtomic`, `TurnStaysTaken` |
| `Uplink` | `NoBufferInHand`, `StoppedReceiverRunsOut`, `GapsAreLosses`, `FatesAreFinal`, `JoinIsAnswered`, `AcceptedIsFifo`, `KeepsReceiverContract` |
| `AppContract`, `TableContract`, `LossyFifo` | their promises |

`ActiveTableValid`, `TasksNeedTopology` and `SendsOnlyWhenReady` gave their place in the runs to
`KeepsTableContract`, `JoinsEnd` and `StatusOwed`, which say more.

Only model-checked:

* All liveness (`ShutdownCompletes` of both modules, `UpdatesLand`, `ExitReached`, `PartialFramesLeave`,
  `ReconnectsRestoreFlow`, `AcceptedIsDispatched`): fairness and ENABLED are beyond the prover.
  What is a matter of single steps is proved: for `ShutdownCompletes` that the calls run out and the
  joins are answered (`ShutdownIsFinite`, `JoinsAreSafe`; `ReceiverRunsOut`, `JoinAnswered`), for
  `ExitReached` `ExitIsFinite`, for `UpdatesLand` `HousekeepingUpdates`, for `AcceptedIsDispatched`
  `AcceptedKeepsOrder`, for `ReconnectsRestoreFlow` `NoUnexplainedStall`.
* The properties of `CoverageTests`. Its units are built from recursive operators, which the prover does not
  support, and there is nothing to generalise: the tests are what they are, and the run covers them all.

## Assumptions and what is not modelled

* cFE, OSAL and the F Prime components (`CfsBridge`, `ComAggregator`, `TcpServer`, ...) are not in
  this repository: they are modelled from how this code uses them, and marked external in the map.
* The deletion of a task takes effect at once; a POSIX build defers it to a cancellation point, where
  the deleted task could make a further call beside the handler.
* The listening socket is open when `comDriver.start` returns; in the driver it is the receive task
  that opens it.
* Queues in `BridgeLifecycle` are not bounded; the queue of cfsBridge is in `Uplink`.
* `Downlink` assumes of the F Prime components what the wiring relies on: a packet per status; a frame
  whose send failed is not sent again; timeouts that find one queued change nothing, and a status that is
  not needed for the turn is not passed on. Packets larger than a frame are not modelled. Of the
  aggregator's queue of ten, one packet, two statuses and the exit message are ever in use besides
  timeouts; whether timeouts may fill the rest is decided by its port, outside this repository.
* `Uplink` covers three policies of a full queue, since this repository does not determine it. Dropping a message
  without handing its buffer back would lose a buffer per message, and is not among them. All buffers
  are alike, though the code has two sizes. How the accumulator finds the start of a frame in the bytes
  is not modelled.
* Deletion of the main task by ES is in `BridgeLifecycle` only.
* ES's kill timer is not part of `GroundApp`: the model says what the application does by itself.
* Not modelled: packet contents above CCSDS headers, event texts, configuration headers, the EDS
  database and the code generated from it (`EdsEnabled` chooses the EDS dispatcher of `fsw/src`),
  build files, the unit tests of the stripper (single calls with packets that are among those of the
  run `stripper`), and the coverage test of the EDS dispatcher, which calls nothing.

## Plan

1. *(done)* `AppContract`, `BridgeLifecycle`: the life cycle and its refinement.
2. *(done)* `CfsTlmStripper`: header stripping at byte level.
3. *(done)* `GroundApp`: the C application.
4. *(done)* `LossyFifo`, `Downlink`: order, accounts, permission, buffers, flush and reconnection.
5. *(done)* `Uplink`: buffers, bounded queue, dispatch and shutdown with frames in flight.
6. *(done)* `CoverageUnits`, `CoverageTests`: what the tests say of the code, and what they reach.
7. *(done)* `OrderLemmas`, `DownlinkProofs`, `UplinkProofs`: conservation, order, refinement.
8. *(done)* `TableContract`, `AppContractProofs`; joins that end, fates that are final, the bounds on the
   aggregator's queue and on the work of a stopped receive task.
9. *(done)* `LossyFifoProofs`, `ReceiverContract`; measures of both shutdowns, answered joins, explained
   stalls, frames that end whole, the promises of the table and of the channel.
10. `BridgeSystem`: `BridgeLifecycle` over `Downlink` and `Uplink`, so that ES deletes the main task with
   packets in flight in both directions.
11. The unit tests of the stripper, as `CoverageTests` has those of the C application.
