--------------------------- MODULE BridgeLifecycle ---------------------------
(***************************************************************************)
(* The life of the GDS bridge as a cFS application: GdsBridge/Main.cpp      *)
(* (entry point, initialisation, run loop, shutdown, delete callback) over *)
(* GdsBridge/Top/GdsBridgeTopology.cpp (topology set-up and teardown).      *)
(*                                                                         *)
(* Four threads interleave, one call of the C++ code per step:             *)
(*   - the application's main task, which initialises, runs the loop and   *)
(*     tears the topology down when the loop ends;                         *)
(*   - the cFE executive (ES), which may ask the application to exit, and  *)
(*     deletes its main task at any point after that; the deletion runs    *)
(*     the installed delete handler, a second, independent teardown;       *)
(*   - the aggregator's task, started by startTasks();                     *)
(*   - the TCP driver's receive task, started by comDriver.start().        *)
(* ES and the two framework tasks are external code: they are modelled     *)
(* from how Main.cpp and the topology use them.                            *)
(***************************************************************************)
EXTENDS Naturals

CONSTANT NumApids  \* length of downlinkApids[] in FPRIME_GDS_Init

ASSUME NumApidsAssumption == NumApids \in Nat \ {0}

VARIABLES
  pc,          \* next call of each agent that runs application code
  subscribed,  \* number of downlink APIDs subscribed so far
  reports,     \* what initialisation reported (EVS events, system log)
  handler,     \* TRUE once the delete handler is installed
  topology,    \* set-up stages the components have been through
  memory,      \* the components' allocated memory
  timer,       \* TRUE while the polling timer of the rate group runs
  aggregator,  \* the aggregator's task
  exitMsg,     \* TRUE when an exit message is in the aggregator's queue
  receiver,    \* the driver's receive task
  listening,   \* TRUE while the TCP server's listening socket is open
  stopReq,     \* TRUE once the driver was told to stop
  runStatus,   \* run_status of FPRIME_GDS_Main
  exitStatus,  \* the status passed to CFE_ES_ExitApp
  request      \* ES's pending control request

initVars   == <<subscribed, reports, handler>>
buildVars  == <<topology, memory, timer>>
taskVars   == <<aggregator, exitMsg, receiver, listening, stopReq>>
statusVars == <<runStatus, exitStatus, request>>
vars == <<pc, initVars, buildVars, taskVars, statusVars>>

\* The agents that run application code: the main task, and the ES task
\* that runs FPRIME_GDS_delete_callback.
Agents == {"main", "es"}

InitLabels  == {"registerEvents", "configureBridge", "subscribe"}
SetupLabels == {"installHandler", "initComponents", "connectComponents",
                "configComponents", "configureDriver", "startTimer",
                "startTasks", "startDriver", "announce"}
LoopLabels  == {"runLoop", "process", "cycle"}
TeardownLabels == {"stopTasks", "freeThreads", "stopTimer", "terminateDriver",
                   "stopDriver", "joinDriver", "tearDownComponents"}

MainLabels == InitLabels \union SetupLabels \union LoopLabels
                \union TeardownLabels
                \union {"exitFailure", "exitApp", "parked", "deleted"}
EsLabels   == TeardownLabels \union {"idle", "cleanUpApp", "done"}

\* What initialisation can report; "apid" is the index of the APID named in
\* a subscription error and 0 in the other reports.
Reports == [event : {"syslog", "pipeError", "subscribeError", "initialized"},
            apid : 0 .. NumApids - 1]

Initialized == [event |-> "initialized", apid |-> 0]

Stages == {"initialized", "connected", "configured", "driverConfigured"}

\* aggregator: no task / waiting on its queue / blocked in the chain
\* framer -> comStub -> comDriver.send / returned / joined
AggregatorStates == {"absent", "waiting", "sending", "exited", "joined"}

\* receiver: no task / waiting for a client / serving one / returned / joined
ReceiverStates == {"absent", "accepting", "connected", "exited", "joined"}

\* Requests ES makes on an operator's command, and those an application makes.
EsRequests  == {"sysDelete", "sysRestart"}
RunStatuses == EsRequests \union {"run", "exit", "error"}

AggregatorAlive == aggregator \notin {"absent", "joined"}
ReceiverAlive   == receiver \notin {"absent", "joined"}

At(a, label)   == pc[a] = label
Goto(a, label) == pc' = [pc EXCEPT ![a] = label]

Report(event, apid) == reports' = reports \union {[event |-> event, apid |-> apid]}

Init ==
  /\ pc = [a \in Agents |-> IF a = "main" THEN "registerEvents" ELSE "idle"]
  /\ subscribed = 0
  /\ reports = {}
  /\ handler = FALSE
  /\ topology = {}
  /\ memory = "unallocated"
  /\ timer = FALSE
  /\ aggregator = "absent"
  /\ exitMsg = FALSE
  /\ receiver = "absent"
  /\ listening = FALSE
  /\ stopReq = FALSE
  /\ runStatus = "run"
  /\ exitStatus = "none"
  /\ request = "run"

-----------------------------------------------------------------------------
(* FPRIME_GDS_Init: each call either succeeds or reports and fails.         *)

\* A failed call is reported; FPRIME_GDS_Main then exits with an error.
Fails(event, apid) ==
  /\ Goto("main", "exitFailure")
  /\ Report(event, apid)

RegisterEvents ==
  /\ At("main", "registerEvents")
  /\ \/ Goto("main", "configureBridge") /\ UNCHANGED reports
     \/ Fails("syslog", 0)
  /\ UNCHANGED <<subscribed, handler, buildVars, taskVars, statusVars>>

\* Mutant: the error is reported and initialisation goes on.
ConfigureBridge_Continues ==
  /\ At("main", "configureBridge")
  /\ Goto("main", "subscribe")
  /\ Report("pipeError", 0) \/ UNCHANGED reports
  /\ UNCHANGED <<subscribed, handler, buildVars, taskVars, statusVars>>

\* cfsBridge.configure creates the software bus pipe.
ConfigureBridge ==
  /\ At("main", "configureBridge")
  /\ \/ Goto("main", "subscribe") /\ UNCHANGED reports
     \/ Fails("pipeError", 0)
  /\ UNCHANGED <<subscribed, handler, buildVars, taskVars, statusVars>>

\* Mutant: the loop runs once too often.
SubscribeApid_OffByOne ==
  /\ At("main", "subscribe")
  /\ subscribed' = subscribed + 1
  /\ Goto("main", IF subscribed = NumApids THEN "installHandler" ELSE "subscribe")
  /\ UNCHANGED <<reports, handler, buildVars, taskVars, statusVars>>

\* One iteration of the subscription loop; failedIndex is the index of the
\* iteration, that is, the number of APIDs subscribed before it.
SubscribeApid ==
  /\ At("main", "subscribe")
  /\ \/ /\ subscribed' = subscribed + 1
        /\ Goto("main", IF subscribed + 1 = NumApids
                        THEN "installHandler" ELSE "subscribe")
        /\ UNCHANGED reports
     \/ Fails("subscribeError", subscribed) /\ UNCHANGED subscribed
  /\ UNCHANGED <<handler, buildVars, taskVars, statusVars>>

\* Mutant: the delete handler is never installed.
InstallDeleteHandler_Missing ==
  /\ At("main", "installHandler")
  /\ Goto("main", "initComponents")
  /\ UNCHANGED <<initVars, buildVars, taskVars, statusVars>>

InstallDeleteHandler ==
  /\ At("main", "installHandler")
  /\ Goto("main", "initComponents")
  /\ handler' = TRUE
  /\ UNCHANGED <<subscribed, reports, buildVars, taskVars, statusVars>>

\* The event that ends FPRIME_GDS_Init.
AnnounceInit ==
  /\ At("main", "announce")
  /\ Goto("main", "runLoop")
  /\ Report("initialized", 0)
  /\ UNCHANGED <<subscribed, handler, buildVars, taskVars, statusVars>>

-----------------------------------------------------------------------------
(* setupTopology.                                                           *)

SetupStage(label, stage, next) ==
  /\ At("main", label)
  /\ Goto("main", next)
  /\ topology' = topology \union {stage}
  /\ UNCHANGED <<initVars, timer, taskVars, statusVars>>

\* initComponents and setBaseIds; initialising a component creates its queue.
InitComponents ==
  /\ SetupStage("initComponents", "initialized", "connectComponents")
  /\ UNCHANGED memory

ConnectComponents ==
  /\ SetupStage("connectComponents", "connected", "configComponents")
  /\ UNCHANGED memory

\* aggregator, frameAccumulator and commsBufferManager allocate here.
ConfigComponents ==
  /\ SetupStage("configComponents", "configured", "configureDriver")
  /\ memory' = "allocated"

\* FPRIME_GDS_Main always sets a host name and a port.
ConfigureDriver ==
  /\ SetupStage("configureDriver", "driverConfigured", "startTimer")
  /\ UNCHANGED memory

StartTimer ==
  /\ At("main", "startTimer")
  /\ Goto("main", "startTasks")
  /\ timer' = TRUE
  /\ UNCHANGED <<initVars, topology, memory, taskVars, statusVars>>

\* loadParameters and startTasks.
StartTasks ==
  /\ At("main", "startTasks")
  /\ Goto("main", "startDriver")
  /\ aggregator' = "waiting"
  /\ UNCHANGED <<initVars, buildVars, exitMsg, receiver, listening, stopReq,
                 statusVars>>

StartDriver ==
  /\ At("main", "startDriver")
  /\ Goto("main", "announce")
  /\ receiver' = "accepting"
  /\ listening' = TRUE
  /\ UNCHANGED <<initVars, buildVars, aggregator, exitMsg, stopReq, statusVars>>

-----------------------------------------------------------------------------
(* FPRIME_GDS_Main's loop.                                                  *)

\* Mutant: ES's reason does not reach run_status.
RunLoop_ReasonLost ==
  /\ At("main", "runLoop")
  /\ Goto("main", IF runStatus = "run" /\ request = "run"
                  THEN "process" ELSE "stopTasks")
  /\ UNCHANGED <<initVars, buildVars, taskVars, statusVars>>

\* CFE_ES_RunLoop: the application goes on while neither it nor ES wants it
\* to stop; otherwise run_status becomes the reason.
RunLoop ==
  /\ At("main", "runLoop")
  /\ IF runStatus = "run" /\ request = "run"
     THEN Goto("main", "process") /\ UNCHANGED <<runStatus, request>>
     ELSE /\ Goto("main", "stopTasks")
          /\ IF runStatus = "run"
             THEN runStatus' = request /\ UNCHANGED request
             ELSE request' = runStatus /\ UNCHANGED runStatus
  /\ UNCHANGED <<initVars, buildVars, taskVars, exitStatus>>

\* cfsBridge.process(): an exit message ends the loop; an empty queue, a
\* dispatched message and a failed one (logged) do not.
ProcessQueue ==
  /\ At("main", "process")
  /\ Goto("main", "cycle")
  /\ \E status \in {"ok", "empty", "error", "exit"} :
       runStatus' = IF status = "exit" THEN "exit" ELSE runStatus
  /\ UNCHANGED <<initVars, buildVars, taskVars, exitStatus, request>>

\* cycleTopology and the delay.
CycleTopology ==
  /\ At("main", "cycle")
  /\ Goto("main", "runLoop")
  /\ UNCHANGED <<initVars, buildVars, taskVars, statusVars>>

-----------------------------------------------------------------------------
(* teardownTopology, run by the main task at the end of the loop and by ES  *)
(* in FPRIME_GDS_delete_callback.                                           *)

\* Mutant: the delete handler takes the tasks to be stopped.
StopTasks_Once(a) ==
  /\ At(a, "stopTasks")
  /\ Goto(a, "freeThreads")
  /\ exitMsg' = (exitMsg \/ a = "main")
  /\ UNCHANGED <<initVars, buildVars, aggregator, receiver, listening, stopReq,
                 statusVars>>

\* An exit message for the active component, if its queue exists.
StopTasks(a) ==
  /\ At(a, "stopTasks")
  /\ Goto(a, "freeThreads")
  /\ exitMsg' = ("initialized" \in topology)
  /\ UNCHANGED <<initVars, buildVars, aggregator, receiver, listening, stopReq,
                 statusVars>>

\* Mutant: teardown goes on without waiting for the aggregator's task.
FreeThreads_NoJoin(a) ==
  /\ At(a, "freeThreads")
  /\ Goto(a, "stopTimer")
  /\ UNCHANGED <<initVars, buildVars, taskVars, statusVars>>

\* Joining a task that was never started, or was joined before, returns.
FreeThreads(a) ==
  /\ At(a, "freeThreads")
  /\ aggregator \in {"absent", "exited", "joined"}
  /\ Goto(a, "stopTimer")
  /\ aggregator' = IF aggregator = "exited" THEN "joined" ELSE aggregator
  /\ UNCHANGED <<initVars, buildVars, exitMsg, receiver, listening, stopReq,
                 statusVars>>

StopTimer(a) ==
  /\ At(a, "stopTimer")
  /\ Goto(a, "terminateDriver")
  /\ timer' = FALSE
  /\ UNCHANGED <<initVars, topology, memory, taskVars, statusVars>>

\* Mutant: the server goes on listening.
TerminateDriver_StillListens(a) ==
  /\ At(a, "terminateDriver")
  /\ Goto(a, "stopDriver")
  /\ UNCHANGED <<initVars, buildVars, taskVars, statusVars>>

TerminateDriver(a) ==
  /\ At(a, "terminateDriver")
  /\ Goto(a, "stopDriver")
  /\ listening' = FALSE
  /\ UNCHANGED <<initVars, buildVars, aggregator, exitMsg, receiver, stopReq,
                 statusVars>>

StopDriver(a) ==
  /\ At(a, "stopDriver")
  /\ Goto(a, "joinDriver")
  /\ stopReq' = TRUE
  /\ UNCHANGED <<initVars, buildVars, aggregator, exitMsg, receiver, listening,
                 statusVars>>

JoinDriver(a) ==
  /\ At(a, "joinDriver")
  /\ receiver \in {"absent", "exited", "joined"}
  /\ Goto(a, "tearDownComponents")
  /\ receiver' = IF receiver = "exited" THEN "joined" ELSE receiver
  /\ UNCHANGED <<initVars, buildVars, aggregator, exitMsg, listening, stopReq,
                 statusVars>>

\* Mutant: the components keep their memory.
TearDownComponents_Leaks(a) ==
  /\ At(a, "tearDownComponents")
  /\ Goto(a, IF a = "main" THEN "exitApp" ELSE "cleanUpApp")
  /\ UNCHANGED <<initVars, buildVars, taskVars, statusVars>>

TearDownComponents(a) ==
  /\ At(a, "tearDownComponents")
  /\ Goto(a, IF a = "main" THEN "exitApp" ELSE "cleanUpApp")
  /\ memory' = IF memory = "allocated" THEN "released" ELSE memory
  /\ UNCHANGED <<initVars, topology, timer, taskVars, statusVars>>

Teardown(a) ==
  \/ StopTasks(a)
  \/ FreeThreads(a)
  \/ StopTimer(a)
  \/ TerminateDriver(a)
  \/ StopDriver(a)
  \/ JoinDriver(a)
  \/ TearDownComponents(a)

\* CFE_ES_ExitApp: the main task waits there to be deleted. After a failed
\* initialisation it is called with APP_ERROR and nothing is torn down.
ExitApp ==
  /\ \/ At("main", "exitFailure") /\ exitStatus' = "error"
     \/ At("main", "exitApp") /\ exitStatus' = runStatus
  /\ Goto("main", "parked")
  /\ request' = IF request = "run" THEN exitStatus' ELSE request
  /\ UNCHANGED <<initVars, buildVars, taskVars, runStatus>>

-----------------------------------------------------------------------------
(* The executive.                                                           *)

RequestExit ==
  /\ request = "run"
  /\ request' \in EsRequests
  /\ UNCHANGED <<pc, initVars, buildVars, taskVars, runStatus, exitStatus>>

\* ES deletes the main task once it has exited, or when it has not reacted to
\* a request in time, wherever it is; the delete handler then runs in ES.
DeleteMainTask ==
  /\ request # "run"
  /\ At("es", "idle")
  /\ pc' = [pc EXCEPT !["main"] = "deleted",
                      !["es"] = IF handler THEN "stopTasks" ELSE "cleanUpApp"]
  /\ UNCHANGED <<initVars, buildVars, taskVars, statusVars>>

\* ES removes the application record.
CleanUpApp ==
  /\ At("es", "cleanUpApp")
  /\ Goto("es", "done")
  /\ UNCHANGED <<initVars, buildVars, taskVars, statusVars>>

-----------------------------------------------------------------------------
(* The framework's tasks and the ground client.                             *)

AggregatorSend ==
  /\ aggregator = "waiting"
  /\ aggregator' = "sending"
  /\ UNCHANGED <<pc, initVars, buildVars, exitMsg, receiver, listening, stopReq,
                 statusVars>>

\* A send ends at the latest when the socket's send timeout expires.
SendReturns ==
  /\ aggregator = "sending"
  /\ aggregator' = "waiting"
  /\ UNCHANGED <<pc, initVars, buildVars, exitMsg, receiver, listening, stopReq,
                 statusVars>>

AggregatorExit ==
  /\ aggregator = "waiting"
  /\ exitMsg
  /\ aggregator' = "exited"
  /\ exitMsg' = FALSE
  /\ UNCHANGED <<pc, initVars, buildVars, receiver, listening, stopReq, statusVars>>

SetReceiver(state) ==
  /\ receiver' = state
  /\ UNCHANGED <<pc, initVars, buildVars, aggregator, exitMsg, listening, stopReq,
                 statusVars>>

ClientConnect ==
  /\ receiver = "accepting"
  /\ listening
  /\ SetReceiver("connected")

\* The driver goes back to waiting for a client.
ClientDisconnect ==
  /\ receiver = "connected"
  /\ SetReceiver("accepting")

\* stop() shuts a client's socket down; only the closed listening socket ends
\* a wait for a client.
ReceiverExit ==
  /\ stopReq
  /\ receiver = "connected" \/ (receiver = "accepting" /\ ~listening)
  /\ SetReceiver("exited")

-----------------------------------------------------------------------------
MainInit ==
  \/ RegisterEvents
  \/ ConfigureBridge
  \/ SubscribeApid
  \/ InstallDeleteHandler
  \/ InitComponents
  \/ ConnectComponents
  \/ ConfigComponents
  \/ ConfigureDriver
  \/ StartTimer
  \/ StartTasks
  \/ StartDriver
  \/ AnnounceInit

MainLoop == RunLoop \/ ProcessQueue \/ CycleTopology

MainTask == MainInit \/ MainLoop \/ Teardown("main") \/ ExitApp

Executive == RequestExit \/ DeleteMainTask \/ Teardown("es") \/ CleanUpApp

Framework ==
  \/ AggregatorSend
  \/ SendReturns
  \/ AggregatorExit
  \/ ClientConnect
  \/ ClientDisconnect
  \/ ReceiverExit

Next == MainTask \/ Executive \/ Framework

\* Threads that can run do run; ES carries a request out (its kill timer
\* expires); a send does not outlast its timeout; and the exit message, behind
\* at most a queue of others, is eventually the next message.
Fairness ==
  /\ WF_vars(MainTask)
  /\ WF_vars(DeleteMainTask)
  /\ WF_vars(Teardown("es"))
  /\ WF_vars(CleanUpApp)
  /\ WF_vars(SendReturns)
  /\ SF_vars(AggregatorExit)
  /\ WF_vars(ReceiverExit)

Spec == Init /\ [][Next]_vars

FairSpec == Spec /\ Fairness
-----------------------------------------------------------------------------
(* Properties.                                                              *)

TypeOK ==
  /\ pc \in [Agents -> MainLabels \union EsLabels]
  /\ pc["main"] \in MainLabels
  /\ pc["es"] \in EsLabels
  /\ subscribed \in 0 .. NumApids
  /\ reports \in SUBSET Reports
  /\ handler \in BOOLEAN
  /\ topology \in SUBSET Stages
  /\ memory \in {"unallocated", "allocated", "released"}
  /\ timer \in BOOLEAN
  /\ aggregator \in AggregatorStates
  /\ exitMsg \in BOOLEAN
  /\ receiver \in ReceiverStates
  /\ listening \in BOOLEAN
  /\ stopReq \in BOOLEAN
  /\ runStatus \in RunStatuses
  /\ exitStatus \in RunStatuses \union {"none"}
  /\ request \in RunStatuses

\* "Tasks must be stopped and joined before any active resources may be
\* deallocated": whichever agent tears down, and wherever in the set-up or in
\* the other teardown the main task was deleted, no task runs on memory that
\* is not allocated (teardownTopology's order).
ResourcesOutliveTasks ==
  AggregatorAlive \/ ReceiverAlive => memory = "allocated"

\* A task runs only in a topology whose components are initialised, connected
\* and configured (setupTopology's order).
TasksNeedTopology ==
  AggregatorAlive \/ ReceiverAlive => topology = Stages

\* Initialisation is all or nothing: the application that gives up has told
\* why exactly once, and has neither a delete handler nor any part of the
\* topology; the one that serves has every subscription, the handler and both
\* tasks (FPRIME_GDS_Init and its caller).
InitAllOrNothing ==
  /\ pc["main"] = "exitFailure" =>
       /\ \E r \in Reports : reports = {r} /\ r.event # "initialized"
       /\ ~handler /\ topology = {} /\ memory = "unallocated"
  /\ pc["main"] \in LoopLabels =>
       /\ reports = {Initialized}
       /\ subscribed = NumApids
       /\ handler
       /\ AggregatorAlive /\ ReceiverAlive /\ listening /\ timer

\* When ES has removed the application nothing of it is left, whether it
\* failed, ended by itself, or was deleted at any point of its life.
NothingLeftBehind ==
  pc["es"] = "done" =>
    /\ ~AggregatorAlive /\ ~ReceiverAlive
    /\ memory # "allocated" /\ ~timer /\ ~listening

\* The application exits with an error exactly when its initialisation
\* failed, and otherwise with the reason that ended its loop.
ExitStatusHonest ==
  pc["main"] = "parked" =>
    /\ exitStatus = "error" <=> Initialized \notin reports
    /\ exitStatus # "error" => exitStatus = request /\ exitStatus # "run"

\* Neither join waits for a task that nobody told to end, or that the call
\* which would wake it has not reached: the exit message is still there, or
\* sent again, when the second teardown joins, and the listening socket is
\* closed (what the order of the calls in teardownTopology is for).
JoinsEnd ==
  \A a \in Agents :
    /\ At(a, "freeThreads") /\ aggregator \in {"waiting", "sending"} => exitMsg
    /\ At(a, "joinDriver") /\ receiver \in {"accepting", "connected"} =>
         stopReq /\ ~listening

\* The application always comes to its end once it is asked to, or wants to:
\* no join waits for ever (the order of stops and joins in teardownTopology,
\* which run up to twice).
ShutdownCompletes == (request # "run") ~> (pc["es"] = "done")

\* Once ES asks, or the application itself wants to stop.
Closing == request # "run" \/ runStatus # "run"

\* The calls ahead of each agent at most, the one it is at included, when the
\* application is closing; a loop of subscriptions counts apart.
MainCallsLeft ==
  [registerEvents |-> 24, configureBridge |-> 23, subscribe |-> 22,
   installHandler |-> 21, initComponents |-> 20, connectComponents |-> 19,
   configComponents |-> 18, configureDriver |-> 17, startTimer |-> 16,
   startTasks |-> 15, startDriver |-> 14, announce |-> 13,
   process |-> 12, cycle |-> 11, runLoop |-> 10,
   stopTasks |-> 9, freeThreads |-> 8, stopTimer |-> 7, terminateDriver |-> 6,
   stopDriver |-> 5, joinDriver |-> 4, tearDownComponents |-> 3,
   exitApp |-> 2, exitFailure |-> 2, parked |-> 1, deleted |-> 0]

EsCallsLeft ==
  [idle |-> 9, stopTasks |-> 8, freeThreads |-> 7, stopTimer |-> 6,
   terminateDriver |-> 5, stopDriver |-> 4, joinDriver |-> 3,
   tearDownComponents |-> 2, cleanUpApp |-> 1, done |-> 0]

CallsLeft ==
  MainCallsLeft[pc["main"]] + EsCallsLeft[pc["es"]] + (NumApids - subscribed)

\* A closing application stays closing and runs out of calls: no call sends
\* either agent back to one it made before, the loop is not turned again, and
\* a teardown that was cut short is started over once and not twice. With
\* JoinsEnd, ShutdownCompletes then asks no more than that threads run.
ShutdownRunsOut ==
  [][Closing => /\ Closing'
                /\ \/ UNCHANGED <<pc, subscribed>>
                   \/ CallsLeft' < CallsLeft]_vars

-----------------------------------------------------------------------------
(* The bridge keeps the contract of a cFS application.                      *)

Phase ==
  IF At("es", "done") THEN "gone"
  ELSE IF \/ ~At("es", "idle")
          \/ pc["main"] \in TeardownLabels \union {"exitApp"}
          \/ At("main", "parked") /\ handler
       THEN "closing"
  ELSE IF At("main", "parked") THEN "failed"
  ELSE IF pc["main"] \in LoopLabels THEN "serving"
  ELSE "starting"

Alive == {t \in {"aggregator", "receiver"} :
            IF t = "aggregator" THEN AggregatorAlive ELSE ReceiverAlive}

Contract == INSTANCE AppContract WITH
  Tasks <- {"aggregator", "receiver"},
  phase <- Phase,
  alive <- Alive,
  held  <- (memory = "allocated")

\* Every behaviour of the bridge is one the contract allows.
KeepsContract == Contract!Spec

-----------------------------------------------------------------------------
(* The driver's receive task, as Uplink has it, too.                        *)

ReceiveTask ==
  CASE receiver = "absent" -> "absent"
    [] receiver = "exited" -> "ended"
    [] receiver = "joined" -> "joined"
    [] OTHER -> "running"

Receiver == INSTANCE ReceiverContract WITH task <- ReceiveTask, told <- stopReq

\* Although two agents may tear down, the driver is never started after it was
\* told to stop, its task ends only when told to, and is joined once it has.
KeepsReceiverContract == Receiver!Spec
=============================================================================
