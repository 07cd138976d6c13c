------------------------ MODULE BridgeLifecycleProofs ------------------------
(***************************************************************************)
(* Proofs about BridgeLifecycle, for every number of APIDs: its safety      *)
(* invariants, and that it implements AppContract.                         *)
(*                                                                         *)
(* None of the invariants is inductive by itself: that memory is released  *)
(* after the joins depends on where each of the two agents that may tear   *)
(* down is, and on what the main task had done when it was deleted. IInv   *)
(* states that: one conjunct per stretch of the main task's program, and    *)
(* one per stretch of ES's teardown, which starts from any of them.        *)
(***************************************************************************)
EXTENDS BridgeLifecycle, TLAPS

\* The sets and abbreviations that every step is read through.
USE DEF Agents, InitLabels, SetupLabels, LoopLabels, TeardownLabels, MainLabels,
        EsLabels, Stages, AggregatorStates, ReceiverStates, RunStatuses,
        EsRequests, At, Goto, initVars, buildVars, taskVars, statusVars

NothingBuilt ==
  /\ topology = {} /\ memory = "unallocated"
  /\ aggregator = "absent" /\ receiver = "absent"
  /\ ~timer /\ ~listening

NoTask   == aggregator = "absent" /\ receiver = "absent" /\ ~listening
Prepared == topology = Stages /\ memory = "allocated"

\* The two agents: ES acts on the application only after it deleted the main
\* task, and tears down only what an installed handler lets it reach.
AgentsInv ==
  /\ pc["es"] = "idle" <=> pc["main"] # "deleted"
  /\ pc["es"] \in TeardownLabels => handler

\* Up to the delete handler's installation nothing is built.
InitInv ==
  /\ ~handler => NothingBuilt
  /\ pc["main"] \in InitLabels \union {"installHandler", "exitFailure"} => ~handler
  /\ ~handler => pc["main"] \in InitLabels \union
                   {"installHandler", "exitFailure", "parked", "deleted"}
  /\ pc["main"] \in InitLabels \union {"installHandler"} => reports = {}
  /\ pc["main"] \in {"registerEvents", "configureBridge"} => subscribed = 0
  /\ pc["main"] = "subscribe" => subscribed < NumApids
  /\ pc["main"] \in SetupLabels => reports = {} /\ subscribed = NumApids
  /\ pc["main"] = "exitFailure" =>
       \E r \in Reports : reports = {r} /\ r.event # "initialized"
  /\ pc["main"] = "parked" /\ ~handler =>
       Initialized \notin reports

\* What is built before each call of setupTopology.
SetupInv ==
  /\ pc["main"] = "initComponents" => NothingBuilt
  /\ pc["main"] = "connectComponents" =>
       topology = {"initialized"} /\ memory = "unallocated" /\ NoTask
  /\ pc["main"] = "configComponents" =>
       topology = {"initialized", "connected"} /\ memory = "unallocated" /\ NoTask
  /\ pc["main"] = "configureDriver" =>
       /\ topology = {"initialized", "connected", "configured"}
       /\ memory = "allocated" /\ NoTask
  /\ pc["main"] = "startTimer" => Prepared /\ NoTask
  /\ pc["main"] = "startTasks" => Prepared /\ NoTask /\ timer
  /\ pc["main"] = "startDriver" =>
       Prepared /\ AggregatorAlive /\ receiver = "absent" /\ ~listening /\ timer
  /\ pc["main"] = "announce" =>
       Prepared /\ AggregatorAlive /\ ReceiverAlive /\ listening /\ timer

\* While the bridge serves everything runs.
ServeInv ==
  pc["main"] \in LoopLabels =>
    /\ Prepared /\ AggregatorAlive /\ ReceiverAlive /\ listening /\ timer
    /\ reports = {Initialized}
    /\ subscribed = NumApids /\ handler

\* The main task's own teardown.
MainTeardownInv ==
  /\ pc["main"] \in {"stopTasks", "freeThreads"} =>
       Prepared /\ AggregatorAlive /\ ReceiverAlive
  /\ pc["main"] \in {"stopTimer", "terminateDriver", "stopDriver", "joinDriver"} =>
       Prepared /\ ~AggregatorAlive /\ ReceiverAlive
  /\ pc["main"] = "tearDownComponents" =>
       Prepared /\ ~AggregatorAlive /\ ~ReceiverAlive
  /\ pc["main"] \in {"exitApp", "parked"} =>
       memory # "allocated" /\ ~AggregatorAlive /\ ~ReceiverAlive
  /\ pc["main"] \in TeardownLabels \union {"exitApp"} =>
       /\ runStatus = request /\ request \notin {"run", "error"}
       /\ Initialized \in reports

\* What ES's teardown has undone, whatever it found.
EsTeardownInv ==
  /\ pc["es"] \in {"stopTimer", "terminateDriver", "stopDriver", "joinDriver",
                   "tearDownComponents", "cleanUpApp", "done"} => ~AggregatorAlive
  /\ pc["es"] \in {"terminateDriver", "stopDriver", "joinDriver",
                   "tearDownComponents", "cleanUpApp", "done"} => ~timer
  /\ pc["es"] \in {"stopDriver", "joinDriver", "tearDownComponents",
                   "cleanUpApp", "done"} => ~listening
  /\ pc["es"] \in {"tearDownComponents", "cleanUpApp", "done"} => ~ReceiverAlive
  /\ pc["es"] \in {"cleanUpApp", "done"} => memory # "allocated"

StatusInv ==
  /\ runStatus # "error"
  /\ request = "error" => ~handler /\ pc["main"] \in {"parked", "deleted"}
  /\ ExitStatusHonest

IInv ==
  /\ TypeOK
  /\ AgentsInv
  /\ InitInv
  /\ SetupInv
  /\ ServeInv
  /\ MainTeardownInv
  /\ EsTeardownInv
  /\ StatusInv
  /\ ResourcesOutliveTasks
  /\ TasksNeedTopology
-----------------------------------------------------------------------------
\* The report of a failed call is the only one, is not the final
\* "initialized", and names an APID of the list.
LEMMA FailedCall ==
  ASSUME NEW e \in {"syslog", "pipeError", "subscribeError"},
         NEW i \in 0 .. NumApids - 1,
         reports = {}, Fails(e, i)
  PROVE  /\ pc' = [pc EXCEPT !["main"] = "exitFailure"]
         /\ reports' \in SUBSET Reports
         /\ \E r \in Reports : reports' = {r} /\ r.event # "initialized"
<1>1. [event |-> e, apid |-> i] \in Reports
  BY DEF Reports
<1>2. reports' = {[event |-> e, apid |-> i]}
  BY DEF Fails, Report
<1> QED
  BY <1>1, <1>2 DEF Fails

\* Index 0 is an index of the list: the reports that name no APID are typed.
LEMMA FirstIndex == 0 \in 0 .. NumApids - 1 /\ Initialized \in Reports
BY NumApidsAssumption DEF Initialized, Reports

LEMMA InitEstablishes == Init => IInv
<1> SUFFICES ASSUME Init PROVE IInv
  OBVIOUS
<1> USE DEF Init
<1>1. TypeOK
  <2>1. /\ handler \in BOOLEAN /\ timer \in BOOLEAN /\ exitMsg \in BOOLEAN
        /\ listening \in BOOLEAN /\ stopReq \in BOOLEAN
    BY Zenon
  <2> QED
    BY <2>1, NumApidsAssumption DEF TypeOK
<1>2. AgentsInv /\ SetupInv /\ ServeInv /\ MainTeardownInv /\ EsTeardownInv
  BY DEF AgentsInv, SetupInv, ServeInv, MainTeardownInv, EsTeardownInv
<1>3. InitInv /\ StatusInv
  BY DEF InitInv, NothingBuilt, StatusInv, ExitStatusHonest
<1>4. ResourcesOutliveTasks /\ TasksNeedTopology
  BY DEF ResourcesOutliveTasks, TasksNeedTopology, AggregatorAlive, ReceiverAlive
<1> QED
  BY <1>1, <1>2, <1>3, <1>4 DEF IInv

-----------------------------------------------------------------------------
\* Initialisation and set-up.
LEMMA InitSteps ==
  ASSUME IInv, MainInit
  PROVE  IInv'
<1> USE DEF IInv, TypeOK, AgentsInv, InitInv, SetupInv, ServeInv,
            MainTeardownInv, EsTeardownInv, StatusInv, ExitStatusHonest,
            ResourcesOutliveTasks, TasksNeedTopology, AggregatorAlive,
            ReceiverAlive, NothingBuilt, NoTask, Prepared
<1>1. CASE RegisterEvents
  <2>1. CASE Fails("syslog", 0)
    <3>1. /\ pc' = [pc EXCEPT !["main"] = "exitFailure"]
          /\ reports' \in SUBSET Reports
          /\ \E r \in Reports : reports' = {r} /\ r.event # "initialized"
      BY <1>1, <2>1, FailedCall, FirstIndex DEF RegisterEvents
    <3> QED
      BY <1>1, <2>1, <3>1 DEF RegisterEvents
  <2>2. CASE ~Fails("syslog", 0)
    BY <1>1, <2>2, NumApidsAssumption DEF RegisterEvents
  <2> QED
    BY <2>1, <2>2
<1>2. CASE ConfigureBridge
  <2>1. CASE Fails("pipeError", 0)
    <3>1. /\ pc' = [pc EXCEPT !["main"] = "exitFailure"]
          /\ reports' \in SUBSET Reports
          /\ \E r \in Reports : reports' = {r} /\ r.event # "initialized"
      BY <1>2, <2>1, FailedCall, FirstIndex DEF ConfigureBridge
    <3> QED
      BY <1>2, <2>1, <3>1 DEF ConfigureBridge
  <2>2. CASE ~Fails("pipeError", 0)
    BY <1>2, <2>2, NumApidsAssumption DEF ConfigureBridge
  <2> QED
    BY <2>1, <2>2
<1>3. CASE SubscribeApid
  <2>1. CASE Fails("subscribeError", subscribed)
    <3>1. /\ pc' = [pc EXCEPT !["main"] = "exitFailure"]
          /\ reports' \in SUBSET Reports
          /\ \E r \in Reports : reports' = {r} /\ r.event # "initialized"
      BY <1>3, <2>1, FailedCall, NumApidsAssumption DEF SubscribeApid
    <3> QED
      BY <1>3, <2>1, <3>1 DEF SubscribeApid
  <2>2. CASE ~Fails("subscribeError", subscribed)
    BY <1>3, <2>2, NumApidsAssumption DEF SubscribeApid
  <2> QED
    BY <2>1, <2>2
<1>4. CASE InstallDeleteHandler
  BY <1>4 DEF InstallDeleteHandler
<1>5. CASE InitComponents
  BY <1>5 DEF InitComponents, SetupStage
<1>6. CASE ConnectComponents
  BY <1>6 DEF ConnectComponents, SetupStage
<1>7. CASE ConfigComponents
  BY <1>7 DEF ConfigComponents, SetupStage
<1>8. CASE ConfigureDriver
  BY <1>8 DEF ConfigureDriver, SetupStage
<1>9. CASE StartTimer
  BY <1>9 DEF StartTimer
<1>10. CASE StartTasks
  BY <1>10 DEF StartTasks
<1>11. CASE StartDriver
  BY <1>11 DEF StartDriver
<1>12. CASE AnnounceInit
  <2>1. reports' = {Initialized}
    BY <1>12 DEF AnnounceInit, Report, Initialized
  <2> QED
    BY <1>12, <2>1, FirstIndex DEF AnnounceInit
<1> QED
  BY <1>1, <1>2, <1>3, <1>4, <1>5, <1>6, <1>7, <1>8, <1>9, <1>10, <1>11, <1>12 DEF MainInit

-----------------------------------------------------------------------------
\* The loop and the exit.
LEMMA LoopSteps ==
  ASSUME IInv, MainLoop \/ ExitApp
  PROVE  IInv'
<1> USE DEF IInv, TypeOK, AgentsInv, InitInv, SetupInv, ServeInv,
            MainTeardownInv, EsTeardownInv, StatusInv, ExitStatusHonest,
            ResourcesOutliveTasks, TasksNeedTopology, AggregatorAlive,
            ReceiverAlive, NothingBuilt, NoTask, Prepared
<1>1. CASE RunLoop
  BY <1>1 DEF RunLoop
<1>2. CASE ProcessQueue
  BY <1>2 DEF ProcessQueue
<1>3. CASE CycleTopology
  BY <1>3 DEF CycleTopology
<1>4. CASE ExitApp
  <2>1. CASE At("main", "exitFailure")
    <3>1. Initialized \notin reports
      BY <2>1 DEF Initialized
    <3>2. request' \in RunStatuses /\ exitStatus' = "error"
      BY <1>4, <2>1 DEF ExitApp
    <3> QED
      BY <1>4, <2>1, <3>1, <3>2 DEF ExitApp
  <2>2. CASE At("main", "exitApp")
    BY <1>4, <2>2 DEF ExitApp
  <2> QED
    BY <1>4, <2>1, <2>2 DEF ExitApp
<1> QED
  BY <1>1, <1>2, <1>3, <1>4 DEF MainLoop

-----------------------------------------------------------------------------
\* The teardown, by either agent.
LEMMA TeardownSteps ==
  ASSUME IInv, NEW a \in Agents, Teardown(a)
  PROVE  IInv'
<1> USE DEF IInv, TypeOK, AgentsInv, InitInv, SetupInv, ServeInv,
            MainTeardownInv, EsTeardownInv, StatusInv, ExitStatusHonest,
            ResourcesOutliveTasks, TasksNeedTopology, AggregatorAlive,
            ReceiverAlive, NothingBuilt, NoTask, Prepared
<1>1. CASE StopTasks(a)
  BY <1>1 DEF StopTasks
<1>2. CASE FreeThreads(a)
  BY <1>2 DEF FreeThreads
<1>3. CASE StopTimer(a)
  <2>1. timer' \in BOOLEAN
    BY <1>3, Zenon DEF StopTimer
  <2> QED
    BY <1>3, <2>1 DEF StopTimer
<1>4. CASE TerminateDriver(a)
  <2>1. listening' \in BOOLEAN
    BY <1>4, Zenon DEF TerminateDriver
  <2> QED
    BY <1>4, <2>1 DEF TerminateDriver
<1>5. CASE StopDriver(a)
  BY <1>5 DEF StopDriver
<1>6. CASE JoinDriver(a)
  BY <1>6 DEF JoinDriver
<1>7. CASE TearDownComponents(a)
  BY <1>7 DEF TearDownComponents
<1> QED
  BY <1>1, <1>2, <1>3, <1>4, <1>5, <1>6, <1>7 DEF Teardown

-----------------------------------------------------------------------------
\* The executive, the teardown it runs apart.
LEMMA ExecutiveSteps ==
  ASSUME IInv, RequestExit \/ DeleteMainTask \/ CleanUpApp
  PROVE  IInv'
<1> USE DEF IInv, TypeOK, AgentsInv, InitInv, SetupInv, ServeInv,
            MainTeardownInv, EsTeardownInv, StatusInv, ExitStatusHonest,
            ResourcesOutliveTasks, TasksNeedTopology, AggregatorAlive,
            ReceiverAlive, NothingBuilt, NoTask, Prepared
<1>1. CASE RequestExit
  BY <1>1 DEF RequestExit
<1>2. CASE DeleteMainTask
  BY <1>2 DEF DeleteMainTask
<1>3. CASE CleanUpApp
  BY <1>3 DEF CleanUpApp
<1> QED
  BY <1>1, <1>2, <1>3

-----------------------------------------------------------------------------
\* The framework's tasks.
LEMMA FrameworkSteps ==
  ASSUME IInv, Framework
  PROVE  IInv'
<1> USE DEF IInv, TypeOK, AgentsInv, InitInv, SetupInv, ServeInv,
            MainTeardownInv, EsTeardownInv, StatusInv, ExitStatusHonest,
            ResourcesOutliveTasks, TasksNeedTopology, AggregatorAlive,
            ReceiverAlive, NothingBuilt, NoTask, Prepared
<1>1. CASE AggregatorSend
  BY <1>1 DEF AggregatorSend
<1>2. CASE SendReturns
  BY <1>2 DEF SendReturns
<1>3. CASE AggregatorExit
  <2>1. exitMsg' \in BOOLEAN
    BY <1>3, Zenon DEF AggregatorExit
  <2> QED
    BY <1>3, <2>1 DEF AggregatorExit
<1>4. CASE ClientConnect
  BY <1>4 DEF ClientConnect, SetReceiver
<1>5. CASE ClientDisconnect
  BY <1>5 DEF ClientDisconnect, SetReceiver
<1>6. CASE ReceiverExit
  BY <1>6 DEF ReceiverExit, SetReceiver
<1> QED
  BY <1>1, <1>2, <1>3, <1>4, <1>5, <1>6 DEF Framework

-----------------------------------------------------------------------------
\* What a step leaves unchanged keeps the invariant.
LEMMA StutterSteps ==
  ASSUME IInv, UNCHANGED vars
  PROVE  IInv'
BY DEF vars, IInv, TypeOK, AgentsInv, InitInv, SetupInv, ServeInv,
       MainTeardownInv, EsTeardownInv, StatusInv, ExitStatusHonest,
       ResourcesOutliveTasks, TasksNeedTopology, AggregatorAlive,
       ReceiverAlive, NothingBuilt, NoTask, Prepared

LEMMA InvariantStep == IInv /\ [Next]_vars => IInv'
<1> SUFFICES ASSUME IInv, [Next]_vars PROVE IInv'
  OBVIOUS
<1>1. CASE MainTask
  BY <1>1, InitSteps, LoopSteps, TeardownSteps DEF MainTask
<1>2. CASE Executive
  BY <1>2, ExecutiveSteps, TeardownSteps DEF Executive
<1>3. CASE Framework
  BY <1>3, FrameworkSteps
<1>4. CASE UNCHANGED vars
  BY <1>4, StutterSteps
<1> QED
  BY <1>1, <1>2, <1>3, <1>4 DEF Next

LEMMA Invariant == Spec => []IInv
BY InitEstablishes, InvariantStep, PTL DEF Spec

-----------------------------------------------------------------------------
(* The joins: on top of IInv, what the calls ahead of a join have done. The *)
(* main task's teardown may have been cut short anywhere; ES's starts over. *)

JoinsInv ==
  /\ JoinsEnd
  /\ pc["main"] \in {"stopDriver", "joinDriver"} => ~listening
  /\ \A a \in Agents : At(a, "joinDriver") => stopReq

\* Calls outside the teardown, and the other tasks, leave the joins alone.
LEMMA JoinsOtherSteps ==
  ASSUME IInv, JoinsInv,
         MainInit \/ MainLoop \/ ExitApp \/ RequestExit \/ DeleteMainTask \/ CleanUpApp
           \/ Framework \/ UNCHANGED vars
  PROVE  JoinsInv'
<1> USE DEF JoinsInv, JoinsEnd, IInv, TypeOK, AgentsInv
<1>1. CASE MainInit
  <2>1. /\ pc' = [pc EXCEPT !["main"] = pc'["main"]]
        /\ pc["main"] \in InitLabels \union SetupLabels
        /\ pc'["main"] \in InitLabels \union SetupLabels \union {"runLoop", "exitFailure"}
    BY <1>1 DEF MainInit, RegisterEvents, ConfigureBridge, SubscribeApid, InstallDeleteHandler,
                InitComponents, ConnectComponents, ConfigComponents, ConfigureDriver, StartTimer,
                StartTasks, StartDriver, AnnounceInit, SetupStage, Fails
  <2>2. pc["es"] = "idle"
    BY <2>1
  <2> QED
    BY <2>1, <2>2
<1>2. CASE MainLoop
  BY <1>2 DEF MainLoop, RunLoop, ProcessQueue, CycleTopology
<1>3. CASE ExitApp
  BY <1>3 DEF ExitApp
<1>4. CASE RequestExit \/ DeleteMainTask \/ CleanUpApp
  BY <1>4 DEF RequestExit, DeleteMainTask, CleanUpApp
<1>5. CASE Framework
  BY <1>5 DEF Framework, AggregatorSend, SendReturns, AggregatorExit, ClientConnect,
              ClientDisconnect, ReceiverExit, SetReceiver
<1>6. CASE UNCHANGED vars
  BY <1>6 DEF vars
<1> QED
  BY <1>1, <1>2, <1>3, <1>4, <1>5, <1>6

\* Each call of a teardown prepares the join behind it.
LEMMA JoinsTeardownSteps ==
  ASSUME IInv, JoinsInv, NEW a \in Agents, Teardown(a)
  PROVE  JoinsInv'
<1> USE DEF JoinsInv, JoinsEnd, IInv, TypeOK, AgentsInv, EsTeardownInv
<1>1. CASE StopTasks(a)
  <2>1. AggregatorAlive => "initialized" \in topology
    BY DEF TasksNeedTopology
  <2> QED
    BY <1>1, <2>1 DEF StopTasks, AggregatorAlive
<1>2. CASE FreeThreads(a)
  BY <1>2 DEF FreeThreads
<1>3. CASE StopTimer(a)
  BY <1>3 DEF StopTimer
<1>4. CASE TerminateDriver(a)
  BY <1>4 DEF TerminateDriver
<1>5. CASE StopDriver(a)
  BY <1>5 DEF StopDriver
<1>6. CASE JoinDriver(a)
  BY <1>6 DEF JoinDriver
<1>7. CASE TearDownComponents(a)
  BY <1>7 DEF TearDownComponents
<1> QED
  BY <1>1, <1>2, <1>3, <1>4, <1>5, <1>6, <1>7 DEF Teardown

\* Whoever tears down, and wherever the main task was deleted before, a join
\* waits only for a task that has been told to end.
THEOREM JoinsAreSafe == Spec => []JoinsEnd
<1>1. Init => JoinsInv
  BY DEF Init, JoinsInv, JoinsEnd
<1>2. IInv /\ JoinsInv /\ [Next]_vars => JoinsInv'
  <2> SUFFICES ASSUME IInv, JoinsInv, [Next]_vars PROVE JoinsInv'
    OBVIOUS
  <2>1. CASE \E a \in Agents : Teardown(a)
    BY <2>1, JoinsTeardownSteps
  <2>2. CASE ~\E a \in Agents : Teardown(a)
    BY <2>2, JoinsOtherSteps DEF Next, MainTask, Executive
  <2> QED
    BY <2>1, <2>2
<1>3. JoinsInv => JoinsEnd
  BY DEF JoinsInv
<1> QED
  BY <1>1, <1>2, <1>3, Invariant, PTL DEF Spec

-----------------------------------------------------------------------------
(* The calls a closing application has left.                                *)

LEMMA CallsAreCounted ==
  /\ \A l \in MainLabels : MainCallsLeft[l] \in Nat
  /\ \A l \in EsLabels : EsCallsLeft[l] \in Nat
BY DEF MainCallsLeft, EsCallsLeft

\* A call of the main task or of ES that is worth more than the one it leads to.
LEMMA CallMade ==
  ASSUME IInv, IInv',
         \/ /\ pc'["es"] = pc["es"]
            /\ MainCallsLeft[pc'["main"]] < MainCallsLeft[pc["main"]]
            /\ subscribed' >= subscribed
         \/ /\ pc'["main"] = pc["main"]
            /\ EsCallsLeft[pc'["es"]] < EsCallsLeft[pc["es"]]
            /\ subscribed' = subscribed
  PROVE  CallsLeft' < CallsLeft
<1>1. /\ pc["main"] \in MainLabels /\ pc["es"] \in EsLabels
      /\ pc'["main"] \in MainLabels /\ pc'["es"] \in EsLabels
      /\ subscribed \in Nat /\ subscribed' \in Nat
  BY NumApidsAssumption DEF IInv, TypeOK
<1>2. /\ MainCallsLeft[pc["main"]] \in Nat /\ EsCallsLeft[pc["es"]] \in Nat
      /\ MainCallsLeft[pc'["main"]] \in Nat /\ EsCallsLeft[pc'["es"]] \in Nat
  BY <1>1, CallsAreCounted
<1> HIDE DEF MainLabels, EsLabels
<1> QED
  BY <1>1, <1>2, NumApidsAssumption DEF CallsLeft

\* Each call of the main task but the one that begins another turn of the
\* loop leads on.
LEMMA MainCallsLeadOn ==
  ASSUME IInv, IInv', MainInit \/ MainLoop \/ ExitApp, Closing
  PROVE  CallsLeft' < CallsLeft
<1> USE DEF IInv, TypeOK
<1>1. CASE SubscribeApid
  <2>1. CASE pc'["main"] = "subscribe"
    <3>1. /\ pc' = pc /\ subscribed' = subscribed + 1
      BY <1>1, <2>1 DEF SubscribeApid, Fails
    <3>2. MainCallsLeft["subscribe"] \in Nat /\ EsCallsLeft[pc["es"]] \in Nat
      BY CallsAreCounted
    <3> QED
      BY <1>1, <3>1, <3>2, NumApidsAssumption DEF CallsLeft, SubscribeApid
  <2>2. CASE pc'["main"] # "subscribe"
    BY <1>1, <2>2, CallMade DEF SubscribeApid, Fails, MainCallsLeft
  <2> QED
    BY <2>1, <2>2
<1>2. CASE MainInit /\ ~SubscribeApid
  <2> USE DEF MainCallsLeft
  <2>1. CASE RegisterEvents \/ ConfigureBridge \/ InstallDeleteHandler \/ AnnounceInit
    BY <2>1, CallMade DEF RegisterEvents, ConfigureBridge, InstallDeleteHandler, AnnounceInit,
                          Fails
  <2>2. CASE InitComponents \/ ConnectComponents \/ ConfigComponents \/ ConfigureDriver
    BY <2>2, CallMade DEF InitComponents, ConnectComponents, ConfigComponents,
                          ConfigureDriver, SetupStage
  <2>3. CASE StartTimer \/ StartTasks \/ StartDriver
    BY <2>3, CallMade DEF StartTimer, StartTasks, StartDriver
  <2> QED
    BY <1>2, <2>1, <2>2, <2>3 DEF MainInit
<1>3. CASE MainLoop
  BY <1>3, CallMade DEF MainLoop, RunLoop, ProcessQueue, CycleTopology, Closing,
                        MainCallsLeft
<1>4. CASE ExitApp
  BY <1>4, CallMade DEF ExitApp, MainCallsLeft
<1> QED
  BY <1>1, <1>2, <1>3, <1>4

\* So does each call of a teardown, whoever makes it.
LEMMA TeardownLeadsOn ==
  ASSUME IInv, IInv', NEW a \in Agents, Teardown(a)
  PROVE  CallsLeft' < CallsLeft
<1>1. /\ subscribed' = subscribed
      /\ pc' = [pc EXCEPT ![a] = pc'[a]]
      /\ \/ pc[a] = "stopTasks" /\ pc'[a] = "freeThreads"
         \/ pc[a] = "freeThreads" /\ pc'[a] = "stopTimer"
         \/ pc[a] = "stopTimer" /\ pc'[a] = "terminateDriver"
         \/ pc[a] = "terminateDriver" /\ pc'[a] = "stopDriver"
         \/ pc[a] = "stopDriver" /\ pc'[a] = "joinDriver"
         \/ pc[a] = "joinDriver" /\ pc'[a] = "tearDownComponents"
         \/ /\ pc[a] = "tearDownComponents"
            /\ pc'[a] = IF a = "main" THEN "exitApp" ELSE "cleanUpApp"
  BY DEF Teardown, StopTasks, FreeThreads, StopTimer, TerminateDriver, StopDriver,
         JoinDriver, TearDownComponents, IInv, TypeOK
<1>2. CASE a = "main"
  <2>1. /\ pc'["es"] = pc["es"]
        /\ MainCallsLeft[pc'["main"]] < MainCallsLeft[pc["main"]]
    BY <1>1, <1>2 DEF MainCallsLeft, IInv, TypeOK
  <2>2. subscribed' >= subscribed
    BY <1>1, NumApidsAssumption DEF IInv, TypeOK
  <2> QED
    BY <2>1, <2>2, CallMade
<1>3. CASE a = "es"
  <2>1. /\ pc'["main"] = pc["main"]
        /\ EsCallsLeft[pc'["es"]] < EsCallsLeft[pc["es"]]
    BY <1>1, <1>3 DEF EsCallsLeft, IInv, TypeOK
  <2> QED
    BY <1>1, <2>1, CallMade
<1> QED
  BY <1>2, <1>3

\* ES deletes the main task once, and starts its own teardown then.
LEMMA ExecutiveLeadsOn ==
  ASSUME IInv, IInv', DeleteMainTask \/ CleanUpApp
  PROVE  CallsLeft' < CallsLeft
<1> USE DEF IInv, TypeOK
<1>1. CASE DeleteMainTask
  <2>1. /\ MainCallsLeft["deleted"] = 0
        /\ \A l \in MainLabels : MainCallsLeft[l] >= 0
    BY DEF MainCallsLeft
  <2>2. EsCallsLeft[pc'["es"]] < EsCallsLeft[pc["es"]]
    BY <1>1 DEF DeleteMainTask, EsCallsLeft
  <2>3. /\ pc'["main"] = "deleted" /\ pc["main"] \in MainLabels
        /\ pc["es"] \in EsLabels /\ pc'["es"] \in EsLabels
        /\ subscribed' = subscribed /\ subscribed \in Nat
    BY <1>1, NumApidsAssumption DEF DeleteMainTask
  <2>4. /\ MainCallsLeft[pc["main"]] \in Nat
        /\ EsCallsLeft[pc["es"]] \in Nat /\ EsCallsLeft[pc'["es"]] \in Nat
    BY <2>3, CallsAreCounted
  <2> HIDE DEF IInv, TypeOK, MainLabels, EsLabels
  <2> QED
    BY <2>1, <2>2, <2>3, <2>4, NumApidsAssumption DEF CallsLeft
<1>2. CASE CleanUpApp
  BY <1>2, CallMade DEF CleanUpApp, EsCallsLeft
<1> QED
  BY <1>1, <1>2

\* A closing application stays closing: the reason is passed on, never lost.
LEMMA ClosingLasts ==
  ASSUME IInv, [Next]_vars, Closing
  PROVE  Closing'
<1> USE DEF Closing, IInv, TypeOK
<1>1. CASE MainInit
  BY <1>1 DEF MainInit, RegisterEvents, ConfigureBridge, SubscribeApid, InstallDeleteHandler,
              InitComponents, ConnectComponents, ConfigComponents, ConfigureDriver, StartTimer,
              StartTasks, StartDriver, AnnounceInit, SetupStage, Fails
<1>2. CASE MainLoop
  BY <1>2 DEF MainLoop, RunLoop, ProcessQueue, CycleTopology
<1>3. CASE ExitApp
  BY <1>3 DEF ExitApp
<1>4. CASE \E a \in Agents : Teardown(a)
  BY <1>4 DEF Teardown, StopTasks, FreeThreads, StopTimer, TerminateDriver, StopDriver,
              JoinDriver, TearDownComponents
<1>5. CASE RequestExit \/ DeleteMainTask \/ CleanUpApp
  BY <1>5 DEF RequestExit, DeleteMainTask, CleanUpApp
<1>6. CASE Framework
  BY <1>6 DEF Framework, AggregatorSend, SendReturns, AggregatorExit, ClientConnect,
              ClientDisconnect, ReceiverExit, SetReceiver
<1>7. CASE UNCHANGED vars
  BY <1>7 DEF vars
<1> QED
  BY <1>1, <1>2, <1>3, <1>4, <1>5, <1>6, <1>7 DEF Next, MainTask, Executive

\* A closing application runs out of calls. ShutdownCompletes follows from
\* this, JoinsAreSafe and the fairness of the threads.
THEOREM ShutdownIsFinite == Spec => ShutdownRunsOut
<1>1. ASSUME IInv, IInv', [Next]_vars, Closing
      PROVE  /\ Closing'
             /\ \/ UNCHANGED <<pc, subscribed>>
                \/ CallsLeft' < CallsLeft
  <2>1. Closing'
    BY <1>1, ClosingLasts
  <2>2. CASE MainInit \/ MainLoop \/ ExitApp
    BY <1>1, <2>1, <2>2, MainCallsLeadOn
  <2>3. CASE \E a \in Agents : Teardown(a)
    BY <1>1, <2>1, <2>3, TeardownLeadsOn
  <2>4. CASE DeleteMainTask \/ CleanUpApp
    BY <1>1, <2>1, <2>4, ExecutiveLeadsOn
  <2>5. CASE RequestExit \/ Framework \/ UNCHANGED vars
    BY <2>1, <2>5 DEF RequestExit, Framework, AggregatorSend, SendReturns, AggregatorExit,
                      ClientConnect, ClientDisconnect, ReceiverExit, SetReceiver, vars
  <2> QED
    BY <1>1, <2>2, <2>3, <2>4, <2>5 DEF Next, MainTask, Executive
<1>2. IInv /\ IInv' /\ [Next]_vars
        => [Closing => /\ Closing'
                       /\ \/ UNCHANGED <<pc, subscribed>>
                          \/ CallsLeft' < CallsLeft]_vars
  BY <1>1
<1> QED
  BY <1>2, Invariant, PTL DEF Spec, ShutdownRunsOut

\* Every variable of the bridge keeps its type.
THEOREM TypeCorrect == Spec => []TypeOK
<1>1. IInv => TypeOK
  BY DEF IInv
<1> QED
  BY <1>1, Invariant, PTL

\* No task of the bridge ever runs on memory that is not allocated, whoever
\* tears the topology down and wherever the main task was deleted.
THEOREM TasksHaveResources == Spec => []ResourcesOutliveTasks
<1>1. IInv => ResourcesOutliveTasks
  BY DEF IInv
<1> QED
  BY <1>1, Invariant, PTL

\* Tasks run only in a topology that is completely set up.
THEOREM TasksHaveTopology == Spec => []TasksNeedTopology
<1>1. IInv => TasksNeedTopology
  BY DEF IInv
<1> QED
  BY <1>1, Invariant, PTL

\* Initialisation is all or nothing.
THEOREM InitIsAtomic == Spec => []InitAllOrNothing
<1>1. IInv => InitAllOrNothing
  BY DEF IInv, TypeOK, InitInv, ServeInv, InitAllOrNothing, NothingBuilt, Prepared
<1> QED
  BY <1>1, Invariant, PTL

\* Nothing of the bridge is left when ES has removed the application.
THEOREM RemovalIsComplete == Spec => []NothingLeftBehind
<1>1. IInv => NothingLeftBehind
  BY DEF IInv, EsTeardownInv, NothingLeftBehind
<1> QED
  BY <1>1, Invariant, PTL

\* The exit status tells a failed initialisation from a requested end.
THEOREM StatusIsHonest == Spec => []ExitStatusHonest
<1>1. IInv => ExitStatusHonest
  BY DEF IInv, StatusInv
<1> QED
  BY <1>1, Invariant, PTL
-----------------------------------------------------------------------------
\* The bridge implements the contract: the steps that the contract sees are
\* the allocation, the start of each task, the end of initialisation, the end
\* of the loop, each first successful join, the release and the removal; every
\* other step leaves Phase, Alive and the allocation as they are.

\* Which tasks are alive, task by task.
LEMMA AliveTasks ==
  /\ Alive \in SUBSET {"aggregator", "receiver"}
  /\ "aggregator" \in Alive <=> AggregatorAlive
  /\ "receiver" \in Alive <=> ReceiverAlive
BY DEF Alive

LEMMA ContractInit == Init => Contract!Init
BY DEF Init, Contract!Init, Phase, Alive, AggregatorAlive, ReceiverAlive

LEMMA QuietSetup ==
  ASSUME IInv, RegisterEvents \/ ConfigureBridge \/ SubscribeApid \/ InstallDeleteHandler
         \/ InitComponents \/ ConnectComponents \/ ConfigureDriver \/ StartTimer
  PROVE  UNCHANGED Contract!cvars
<1> USE DEF IInv, TypeOK, AgentsInv, Phase, Alive, AggregatorAlive, ReceiverAlive,
            Contract!cvars
<1>1. CASE RegisterEvents
  BY <1>1 DEF RegisterEvents, Fails
<1>2. CASE ConfigureBridge
  BY <1>2 DEF ConfigureBridge, Fails
<1>3. CASE SubscribeApid
  BY <1>3 DEF SubscribeApid, Fails
<1>4. CASE InstallDeleteHandler
  BY <1>4 DEF InstallDeleteHandler
<1>5. CASE InitComponents
  BY <1>5 DEF InitComponents, SetupStage
<1>6. CASE ConnectComponents
  BY <1>6 DEF ConnectComponents, SetupStage
<1>7. CASE ConfigureDriver
  BY <1>7 DEF ConfigureDriver, SetupStage
<1>8. CASE StartTimer
  BY <1>8 DEF StartTimer
<1> QED
  BY <1>1, <1>2, <1>3, <1>4, <1>5, <1>6, <1>7, <1>8

LEMMA QuietLoop ==
  ASSUME IInv, ProcessQueue \/ CycleTopology \/ RequestExit
  PROVE  UNCHANGED Contract!cvars
<1> USE DEF IInv, TypeOK, AgentsInv, Phase, Alive, AggregatorAlive, ReceiverAlive,
            Contract!cvars
<1>1. CASE ProcessQueue
  BY <1>1 DEF ProcessQueue
<1>2. CASE CycleTopology
  BY <1>2 DEF CycleTopology
<1>3. CASE RequestExit
  BY <1>3 DEF RequestExit
<1> QED
  BY <1>1, <1>2, <1>3

LEMMA QuietTeardown ==
  ASSUME IInv, NEW a \in Agents,
         StopTasks(a) \/ StopTimer(a) \/ TerminateDriver(a) \/ StopDriver(a)
  PROVE  UNCHANGED Contract!cvars
<1> USE DEF IInv, TypeOK, AgentsInv, Phase, Alive, AggregatorAlive, ReceiverAlive,
            Contract!cvars
<1>1. CASE StopTasks(a)
  BY <1>1 DEF StopTasks
<1>2. CASE StopTimer(a)
  BY <1>2 DEF StopTimer
<1>3. CASE TerminateDriver(a)
  BY <1>3 DEF TerminateDriver
<1>4. CASE StopDriver(a)
  BY <1>4 DEF StopDriver
<1> QED
  BY <1>1, <1>2, <1>3, <1>4

LEMMA QuietFramework ==
  ASSUME IInv, Framework
  PROVE  UNCHANGED Contract!cvars
<1> USE DEF IInv, TypeOK, AgentsInv, Phase, Alive, AggregatorAlive, ReceiverAlive,
            Contract!cvars
<1>1. CASE AggregatorSend
  BY <1>1 DEF AggregatorSend
<1>2. CASE SendReturns
  BY <1>2 DEF SendReturns
<1>3. CASE AggregatorExit
  BY <1>3 DEF AggregatorExit
<1>4. CASE ClientConnect
  BY <1>4 DEF ClientConnect, SetReceiver
<1>5. CASE ClientDisconnect
  BY <1>5 DEF ClientDisconnect, SetReceiver
<1>6. CASE ReceiverExit
  BY <1>6 DEF ReceiverExit, SetReceiver
<1> QED
  BY <1>1, <1>2, <1>3, <1>4, <1>5, <1>6 DEF Framework

\* The loop goes on, or ends and closes.
LEMMA RunLoopCloses ==
  ASSUME IInv, RunLoop
  PROVE  UNCHANGED Contract!cvars \/ Contract!Close
BY DEF IInv, TypeOK, AgentsInv, RunLoop, Phase, Alive, AggregatorAlive, ReceiverAlive,
       Contract!cvars, Contract!Close

LEMMA ConfigAcquires ==
  ASSUME IInv, ConfigComponents
  PROVE  Contract!Acquire
BY DEF IInv, TypeOK, AgentsInv, SetupInv, NoTask, ConfigComponents, SetupStage, Phase,
       Alive, AggregatorAlive, ReceiverAlive, Contract!Acquire, Contract!Empty

LEMMA StartTasksSpawns ==
  ASSUME IInv, StartTasks
  PROVE  Contract!Spawn("aggregator")
BY DEF IInv, TypeOK, AgentsInv, SetupInv, Prepared, NoTask, StartTasks, Phase, Alive,
       AggregatorAlive, ReceiverAlive, Contract!Spawn

LEMMA StartDriverSpawns ==
  ASSUME IInv, StartDriver
  PROVE  Contract!Spawn("receiver")
BY DEF IInv, TypeOK, AgentsInv, SetupInv, Prepared, StartDriver, Phase, Alive,
       AggregatorAlive, ReceiverAlive, Contract!Spawn

LEMMA AnnounceServes ==
  ASSUME IInv, AnnounceInit
  PROVE  Contract!Serve
BY DEF IInv, TypeOK, AgentsInv, SetupInv, Prepared, AnnounceInit, Phase, Alive,
       AggregatorAlive, ReceiverAlive, Contract!Serve

LEMMA ExitFails ==
  ASSUME IInv, ExitApp
  PROVE  UNCHANGED Contract!cvars \/ Contract!Fail
<1>1. CASE At("main", "exitFailure")
  BY <1>1 DEF IInv, TypeOK, AgentsInv, InitInv, NothingBuilt, ExitApp, Phase, Alive,
     AggregatorAlive, ReceiverAlive, Contract!Fail, Contract!Empty
<1>2. CASE At("main", "exitApp")
  BY <1>2 DEF IInv, TypeOK, AgentsInv, InitInv, ExitApp, Phase, Alive,
     AggregatorAlive, ReceiverAlive, Contract!cvars
<1> QED
  BY <1>1, <1>2 DEF ExitApp

\* A join is a step of the contract the first time, and none the second.
LEMMA JoinReaps ==
  ASSUME IInv, NEW a \in Agents, FreeThreads(a) \/ JoinDriver(a)
  PROVE  UNCHANGED Contract!cvars \/ Contract!Reap("aggregator") \/ Contract!Reap("receiver")
<1> USE DEF IInv, TypeOK, AgentsInv, Phase, Alive, AggregatorAlive, ReceiverAlive
<1>1. CASE FreeThreads(a) /\ aggregator = "exited"
  BY <1>1 DEF FreeThreads, Contract!Reap
<1>2. CASE FreeThreads(a) /\ aggregator # "exited"
  BY <1>2 DEF FreeThreads, Contract!cvars
<1>3. CASE JoinDriver(a) /\ receiver = "exited"
  BY <1>3 DEF JoinDriver, Contract!Reap
<1>4. CASE JoinDriver(a) /\ receiver # "exited"
  BY <1>4 DEF JoinDriver, Contract!cvars
<1> QED
  BY <1>1, <1>2, <1>3, <1>4

LEMMA TearDownReleases ==
  ASSUME IInv, NEW a \in Agents, TearDownComponents(a)
  PROVE  UNCHANGED Contract!cvars \/ Contract!Release
<1> USE DEF IInv, TypeOK, AgentsInv, Phase, Alive, AggregatorAlive, ReceiverAlive,
            MainTeardownInv, EsTeardownInv, TearDownComponents
<1>1. CASE memory = "allocated"
  BY <1>1 DEF Contract!Release
<1>2. CASE memory # "allocated"
  BY <1>2 DEF Contract!cvars
<1> QED
  BY <1>1, <1>2

LEMMA DeletionCloses ==
  ASSUME IInv, DeleteMainTask
  PROVE  UNCHANGED Contract!cvars \/ Contract!Close
BY DEF IInv, TypeOK, AgentsInv, DeleteMainTask, Phase, Alive, AggregatorAlive,
       ReceiverAlive, Contract!cvars, Contract!Close

LEMMA CleanUpVanishes ==
  ASSUME IInv, CleanUpApp
  PROVE  Contract!Vanish
BY DEF IInv, TypeOK, AgentsInv, EsTeardownInv, CleanUpApp, Phase, Alive,
       AggregatorAlive, ReceiverAlive, Contract!Vanish, Contract!Empty

LEMMA ContractStep == IInv /\ [Next]_vars => [Contract!Next]_Contract!cvars
<1> SUFFICES ASSUME IInv, [Next]_vars PROVE [Contract!Next]_Contract!cvars
  OBVIOUS
<1> USE DEF Contract!Next
<1>1. CASE MainInit
  BY <1>1, QuietSetup, ConfigAcquires, StartTasksSpawns, StartDriverSpawns,
     AnnounceServes DEF MainInit
<1>2. CASE MainLoop \/ ExitApp
  BY <1>2, QuietLoop, RunLoopCloses, ExitFails DEF MainLoop
<1>3. ASSUME NEW a \in Agents, Teardown(a)
      PROVE  [Contract!Next]_Contract!cvars
  BY <1>3, QuietTeardown, JoinReaps, TearDownReleases DEF Teardown
<1>4. CASE RequestExit \/ DeleteMainTask \/ CleanUpApp
  BY <1>4, QuietLoop, DeletionCloses, CleanUpVanishes
<1>5. CASE Framework
  BY <1>5, QuietFramework
<1>6. CASE UNCHANGED vars
  BY <1>6 DEF vars, Phase, Alive, AggregatorAlive, ReceiverAlive, Contract!cvars
<1> QED
  BY <1>1, <1>2, <1>3, <1>4, <1>5, <1>6 DEF Next, MainTask, Executive

\* The bridge is an application as the executive expects one: it implements
\* AppContract.
THEOREM BridgeKeepsContract == Spec => KeepsContract
BY Invariant, ContractInit, ContractStep, PTL DEF Spec, KeepsContract, Contract!Spec

\* The contract's consequences hold of the bridge.
Kept == INSTANCE AppContractProofs WITH
  Tasks <- {"aggregator", "receiver"},
  phase <- Phase,
  alive <- Alive,
  held  <- (memory = "allocated")

\* The bridge never runs a task without memory, serves with both, leaves nothing
\* when it failed or is gone, and takes nothing more once it closes.
THEOREM BridgePromises == Spec => []Contract!Promises /\ Contract!NothingNew
<1>1. Kept!Spec => []Kept!Promises
  BY Kept!ContractPromises
<1>2. Kept!Spec => Kept!NothingNew
  BY Kept!ContractCloses
<1>3. /\ Contract!Init <=> Kept!Init
      /\ Contract!Promises <=> Kept!Promises
  BY DEF Contract!Init, Kept!Init, Contract!Promises, Kept!Promises, Contract!Empty, Kept!Empty
<1>4. [Contract!Next]_Contract!cvars => [Kept!Next]_Kept!cvars
  BY DEF Contract!Next, Kept!Next, Contract!cvars, Kept!cvars, Contract!Empty, Kept!Empty,
         Contract!Acquire, Kept!Acquire, Contract!Spawn, Kept!Spawn, Contract!Fail, Kept!Fail,
         Contract!Serve, Kept!Serve, Contract!Close, Kept!Close, Contract!Reap, Kept!Reap,
         Contract!Release, Kept!Release, Contract!Vanish, Kept!Vanish
<1>5. [Kept!OnlyGivesBack]_Kept!cvars => [Contract!OnlyGivesBack]_Contract!cvars
  BY DEF Contract!OnlyGivesBack, Kept!OnlyGivesBack, Contract!cvars, Kept!cvars
<1> QED
  BY <1>1, <1>2, <1>3, <1>4, <1>5, BridgeKeepsContract, PTL
  DEF KeepsContract, Contract!Spec, Kept!Spec, Contract!NothingNew, Kept!NothingNew
-----------------------------------------------------------------------------
(* The driver's receive task.                                               *)

\* Until the main task's own StopDriver the driver has not been told to stop;
\* ES tells it only after it deleted the main task.
NotToldYet ==
  pc["main"] \in InitLabels \union SetupLabels \union LoopLabels
                 \union {"stopTasks", "freeThreads", "stopTimer", "terminateDriver", "stopDriver"}
    => ~stopReq

LEMMA ToldInOrder == Spec => []NotToldYet
<1>1. Init => NotToldYet
  BY DEF Init, NotToldYet
<1>2. ASSUME IInv, NotToldYet, [Next]_vars PROVE NotToldYet'
  <2> USE <1>2 DEF NotToldYet, IInv, TypeOK, AgentsInv
  <2>1. CASE MainInit
    BY <2>1 DEF MainInit, RegisterEvents, ConfigureBridge, SubscribeApid, InstallDeleteHandler,
                InitComponents, ConnectComponents, ConfigComponents, ConfigureDriver, StartTimer,
                StartTasks, StartDriver, AnnounceInit, SetupStage, Fails
  <2>2. CASE MainLoop \/ ExitApp
    BY <2>2 DEF MainLoop, RunLoop, ProcessQueue, CycleTopology, ExitApp
  <2>3. ASSUME NEW a \in Agents, Teardown(a) PROVE NotToldYet'
    BY <2>3 DEF Teardown, StopTasks, FreeThreads, StopTimer, TerminateDriver, StopDriver,
                JoinDriver, TearDownComponents
  <2>4. CASE RequestExit \/ DeleteMainTask \/ CleanUpApp
    BY <2>4 DEF RequestExit, DeleteMainTask, CleanUpApp
  <2>5. CASE Framework \/ UNCHANGED vars
    BY <2>5 DEF Framework, AggregatorSend, SendReturns, AggregatorExit, ClientConnect,
                ClientDisconnect, ReceiverExit, SetReceiver, vars
  <2> QED
    BY <2>1, <2>2, <2>3, <2>4, <2>5 DEF Next, MainTask, Executive
<1>3. IInv /\ NotToldYet /\ [Next]_vars => NotToldYet'
  BY <1>2
<1> QED
  BY <1>1, <1>3, Invariant, PTL DEF Spec

\* The task is started once, before anyone tells the driver to stop, and ends and
\* is joined after that, by whichever teardown gets there.
THEOREM ReceiverKeepsContract == Spec => KeepsReceiverContract
<1>1. Init => Receiver!Init
  BY DEF Init, Receiver!Init, ReceiveTask
<1>2. ASSUME IInv, NotToldYet, [Next]_vars PROVE [Receiver!Next]_Receiver!rvars
  <2> USE DEF Receiver!Next, Receiver!rvars, Receiver!Start, Receiver!Tell, Receiver!End,
              Receiver!Join, ReceiveTask
  <2>1. CASE receiver' = receiver /\ stopReq' = stopReq
    BY <2>1
  <2>2. CASE StartDriver
    <3>1. receiver = "absent" /\ ~stopReq
      BY <1>2, <2>2 DEF StartDriver, IInv, SetupInv, NotToldYet
    <3> QED
      BY <2>2, <3>1 DEF StartDriver
  <2>3. ASSUME NEW a \in Agents, StopDriver(a) PROVE [Receiver!Next]_Receiver!rvars
    <3>1. CASE stopReq
      BY <1>2, <2>3, <3>1 DEF StopDriver, IInv, TypeOK
    <3>2. CASE ~stopReq
      BY <2>3, <3>2 DEF StopDriver
    <3> QED
      BY <3>1, <3>2
  <2>4. ASSUME NEW a \in Agents, JoinDriver(a) PROVE [Receiver!Next]_Receiver!rvars
    BY <2>4 DEF JoinDriver
  <2>5. CASE ClientConnect \/ ClientDisconnect \/ ReceiverExit
    BY <2>5 DEF ClientConnect, ClientDisconnect, ReceiverExit, SetReceiver
  <2>6. CASE (MainInit /\ ~StartDriver) \/ MainLoop \/ ExitApp
    BY <2>1, <2>6 DEF MainInit, RegisterEvents, ConfigureBridge, SubscribeApid,
       InstallDeleteHandler, InitComponents, ConnectComponents, ConfigComponents,
       ConfigureDriver, StartTimer, StartTasks, AnnounceInit, SetupStage, Fails,
       MainLoop, RunLoop, ProcessQueue, CycleTopology, ExitApp
  <2>7. ASSUME NEW a \in Agents, Teardown(a), ~StopDriver(a), ~JoinDriver(a)
        PROVE  [Receiver!Next]_Receiver!rvars
    BY <2>1, <2>7 DEF Teardown, StopTasks, FreeThreads, StopTimer, TerminateDriver,
                      TearDownComponents
  <2>8. CASE RequestExit \/ DeleteMainTask \/ CleanUpApp \/ AggregatorSend \/ SendReturns
             \/ AggregatorExit \/ UNCHANGED vars
    BY <2>1, <2>8 DEF RequestExit, DeleteMainTask, CleanUpApp, AggregatorSend, SendReturns,
                      AggregatorExit, vars
  <2> QED
    BY <1>2, <2>2, <2>3, <2>4, <2>5, <2>6, <2>7, <2>8
       DEF Next, MainTask, Executive, Framework
<1>3. IInv /\ NotToldYet /\ [Next]_vars => [Receiver!Next]_Receiver!rvars
  BY <1>2
<1> QED
  BY <1>1, <1>3, Invariant, ToldInOrder, PTL DEF Spec, KeepsReceiverContract, Receiver!Spec
=============================================================================
