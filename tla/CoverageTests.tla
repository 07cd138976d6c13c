--------------------------- MODULE CoverageTests ---------------------------
(***************************************************************************)
(* The coverage tests under unit-test/coveragetest: one executable per     *)
(* unit, whose tests run one after another in one process. The framework   *)
(* is reset before each test, the application's globals are not. The tests *)
(* run in any order here, of which the order of registration is one, so    *)
(* that what holds does not hang on it.                                    *)
(*                                                                         *)
(* A test is the sequence of its statements; each step executes one. A     *)
(* failed assertion does not end its test.                                 *)
(***************************************************************************)
EXTENDS CoverageUnits, FiniteSets

CONSTANT Executables    \* the units whose executables are built and run

ASSUME ExecutablesAssumption == Executables \subseteq DOMAIN Branches

VARIABLES
  exe,      \* the executable that runs
  waiting,  \* its tests that have not run yet
  test,     \* the running test, or NoTest
  position, \* the statement of it to execute next
  env,      \* the state of the process
  failed    \* the assertions that failed, as <<test, position>>

vars == <<exe, waiting, test, position, env, failed>>

NoTest == "none"
-----------------------------------------------------------------------------
(* Statements.                                                              *)

DeferredRetcode(stub, n, retcode) ==
  [op |-> "deferredRetcode", stub |-> stub, n |-> n, retcode |-> retcode]
DefaultReturnValue(stub, retcode) ==
  [op |-> "defaultReturnValue", stub |-> stub, retcode |-> retcode]
ClearDefaultReturnValue(stub) == DefaultReturnValue(stub, Zero)
DataBuffer(stub, value) == [op |-> "dataBuffer", stub |-> stub, value |-> value]

\* UT_CHECKEVENT_SETUP: a format of Zero (NULL) matches any text.
CheckEvent(id, format) == [op |-> "checkEvent", id |-> id, format |-> format]

CallUnit(fn, arg) == [op |-> "call", fn |-> fn, arg |-> arg]
Call0(fn) == CallUnit(fn, 0)

StubCount(stub, n)   == [op |-> "stubCount", stub |-> stub, n |-> n]
Returns(status)      == [op |-> "returns", status |-> status]
Matches(n)           == [op |-> "matches", n |-> n]
RunStatusIs(status)  == [op |-> "runStatus", status |-> status]
AddressIs(stub, v)   == [op |-> "address", stub |-> stub, value |-> v]
-----------------------------------------------------------------------------
(* coveragetest_fprime_gds.c                                                *)

Test_Main ==
  << Call0("FPRIME_GDS_Main"),
     StubCount("CFE_ES_ExitApp", 1),
     DeferredRetcode("CFE_EVS_Register", 1, "INVALID_PARAMETER"),
     Call0("FPRIME_GDS_Main"),
     RunStatusIs("APP_ERROR"),
     DeferredRetcode("CFE_ES_RunLoop", 1, "true"),
     DataBuffer("CFE_MSG_GetMsgId", "INVALID_MSG_ID"),
     Call0("FPRIME_GDS_Main"),
     StubCount("CFE_SB_ReceiveBuffer", 1),
     DeferredRetcode("CFE_ES_RunLoop", 1, "true"),
     DeferredRetcode("CFE_SB_ReceiveBuffer", 1, "PIPE_RD_ERR"),
     CheckEvent("PIPE_ERR_EID", "SAMPLE APP: SB Pipe Read Error, App Will Exit"),
     Call0("FPRIME_GDS_Main"),
     Matches(1) >>

\* Mutant: the failure is due one call too late.
FailingCall_Late(stub, n, status, counted, count) ==
  << DeferredRetcode(stub, n + 1, status), Call0("FPRIME_GDS_Init"), Returns(status),
     StubCount(counted, count) >>

\* One of the error paths of Test_Init: the n-th call of the stub fails.
FailingCall(stub, n, status, counted, count) ==
  << DeferredRetcode(stub, n, status), Call0("FPRIME_GDS_Init"), Returns(status),
     StubCount(counted, count) >>

Test_Init ==
  << Call0("FPRIME_GDS_Init"), Returns(Success) >>
  \o FailingCall("CFE_EVS_Register", 1, "INVALID_PARAMETER", "CFE_ES_WriteToSysLog", 1)
  \o FailingCall("CFE_SB_CreatePipe", 1, "BAD_ARGUMENT", "CFE_EVS_SendEvent", 2)
  \o FailingCall("CFE_SB_Subscribe", 1, "BAD_ARGUMENT", "CFE_EVS_SendEvent", 3)
  \o FailingCall("CFE_SB_Subscribe", 2, "BAD_ARGUMENT", "CFE_EVS_SendEvent", 4)
  \o FailingCall("CFE_TBL_Register", 1, "INVALID_OPTIONS", "CFE_EVS_SendEvent", 6)
-----------------------------------------------------------------------------
(* coveragetest_fprime_gds_dispatch.c                                       *)

Test_TaskPipe ==
  << CheckEvent("MID_ERR_EID", "SAMPLE: invalid command packet,MID = 0x%x"),
     DataBuffer("CFE_MSG_GetMsgId", "CMD_MID"),
     DataBuffer("CFE_MSG_GetFcnCode", "NOOP_CC"),
     DataBuffer("CFE_MSG_GetSize", CmdSize["NOOP_CC"]),
     Call0("FPRIME_GDS_TaskPipe"),
     DataBuffer("CFE_MSG_GetMsgId", "SEND_HK_MID"),
     Call0("FPRIME_GDS_TaskPipe"),
     DataBuffer("CFE_MSG_GetMsgId", "INVALID_MSG_ID"),
     Call0("FPRIME_GDS_TaskPipe"),
     Matches(1) >>

\* Mutant: the mismatch is not tested.
DispatchOf_MatchOnly(code, handler, mismatches) ==
  << DataBuffer("CFE_MSG_GetFcnCode", code), DataBuffer("CFE_MSG_GetSize", CmdSize[code]),
     Call0("FPRIME_GDS_ProcessGroundCommand"), StubCount(handler, 1) >>

\* A command of the right length, then one a byte too short.
DispatchOf(code, handler, mismatches) ==
  << DataBuffer("CFE_MSG_GetFcnCode", code),
     DataBuffer("CFE_MSG_GetSize", CmdSize[code]),
     Call0("FPRIME_GDS_ProcessGroundCommand"),
     StubCount(handler, 1),
     DataBuffer("CFE_MSG_GetFcnCode", code),
     DataBuffer("CFE_MSG_GetSize", CmdSize[code] - 1),
     DataBuffer("CFE_MSG_GetFcnCode", code),
     DataBuffer("CFE_MSG_GetMsgId", "1"),
     Call0("FPRIME_GDS_ProcessGroundCommand"),
     StubCount(handler, 1),
     Matches(mismatches) >>

Test_ProcessGroundCommand ==
  << CheckEvent("CMD_LEN_ERR_EID",
                "Invalid Msg length: ID = 0x%X,  CC = %u, Len = %u, Expected = %u") >>
  \o DispatchOf("NOOP_CC", "FPRIME_GDS_NoopCmd", 1)
  \o DispatchOf("RESET_COUNTERS_CC", "FPRIME_GDS_ResetCountersCmd", 2)
  \o << DefaultReturnValue("CFE_TBL_GetAddress", "UNREGISTERED") >>
  \o DispatchOf("PROCESS_CC", "FPRIME_GDS_ProcessCmd", 3)
  \o DispatchOf("DISPLAY_PARAM_CC", "FPRIME_GDS_DisplayParamCmd", 4)
  \o << DataBuffer("CFE_MSG_GetFcnCode", "1000"),
        CheckEvent("CC_ERR_EID", "Invalid ground command code: CC = %d"),
        Call0("FPRIME_GDS_ProcessGroundCommand"),
        Matches(1) >>

Test_VerifyCmdLength ==
  << DataBuffer("CFE_MSG_GetSize", 1),
     CheckEvent("CMD_LEN_ERR_EID",
                "Invalid Msg length: ID = 0x%X,  CC = %u, Len = %u, Expected = %u"),
     CallUnit("FPRIME_GDS_VerifyCmdLength", 1),
     Matches(0),
     DataBuffer("CFE_MSG_GetSize", 1),
     DataBuffer("CFE_MSG_GetMsgId", "3"),
     DataBuffer("CFE_MSG_GetFcnCode", "2"),
     CallUnit("FPRIME_GDS_VerifyCmdLength", 2),
     Matches(1) >>
-----------------------------------------------------------------------------
(* coveragetest_fprime_gds_cmds.c                                           *)

Test_ReportHousekeeping ==
  << DataBuffer("CFE_SB_TransmitMsg", "place"),
     DataBuffer("CFE_SB_TimeStampMsg", "place"),
     Call0("FPRIME_GDS_SendHkCmd"),
     StubCount("CFE_SB_TransmitMsg", 1),
     AddressIs("CFE_SB_TransmitMsg", "HkTlm"),
     StubCount("CFE_SB_TimeStampMsg", 1),
     AddressIs("CFE_SB_TimeStampMsg", "HkTlm"),
     StubCount("CFE_TBL_Manage", 1) >>

\* A command that succeeds and sends one event.
Reporting(id, format, fn) == << CheckEvent(id, format), Call0(fn), Returns(Success), Matches(1) >>

Test_NoopCmd == Reporting("NOOP_INF_EID", Zero, "FPRIME_GDS_NoopCmd")
Test_ResetCountersCmd ==
  Reporting("RESET_INF_EID", "SAMPLE: RESET command", "FPRIME_GDS_ResetCountersCmd")
Test_DisplayParamCmd ==
  Reporting("VALUE_INF_EID", "FPRIME_GDS: ValU32=%lu, ValI16=%d, ValStr=%s",
            "FPRIME_GDS_DisplayParamCmd")

Test_ProcessCmd ==
  << DataBuffer("CFE_TBL_GetAddress", "TestTblData"),
     Call0("FPRIME_GDS_ProcessCmd"),
     Returns(Success),
     StubCount("CFE_ES_WriteToSysLog", 1),
     StubCount("CFE_TBL_GetAddress", 1),
     StubCount("SAMPLE_LIB_Function", 1),
     DefaultReturnValue("CFE_TBL_GetAddress", "UNREGISTERED"),
     Call0("FPRIME_GDS_ProcessCmd"),
     Returns("UNREGISTERED"),
     StubCount("CFE_ES_WriteToSysLog", 2),
     DataBuffer("CFE_TBL_GetAddress", "TestTblData"),
     DefaultReturnValue("CFE_TBL_GetAddress", Success),
     DefaultReturnValue("CFE_TBL_ReleaseAddress", "NO_ACCESS"),
     Call0("FPRIME_GDS_ProcessCmd"),
     Returns("NO_ACCESS"),
     StubCount("CFE_ES_WriteToSysLog", 4) >>
-----------------------------------------------------------------------------
(* coveragetest_fprime_gds_utils.c                                          *)

Test_TblValidationFunc ==
  << CallUnit("FPRIME_GDS_TblValidationFunc", 0),
     Returns(Success),
     CallUnit("FPRIME_GDS_TblValidationFunc", 1 + TBL_ELEMENT_1_MAX),
     Returns("OUT_OF_RANGE") >>

Test_GetCrc ==
  << DefaultReturnValue("CFE_TBL_GetInfo", "INVALID_NAME"),
     Call0("FPRIME_GDS_GetCrc"),
     StubCount("CFE_ES_WriteToSysLog", 1),
     ClearDefaultReturnValue("CFE_TBL_GetInfo"),
     Call0("FPRIME_GDS_GetCrc"),
     StubCount("CFE_ES_WriteToSysLog", 2) >>

\* The tests each executable registers in UtTest_Setup.
UtTest_Setup ==
  [fprime_gds |-> [Main |-> Test_Main, Init |-> Test_Init],
   fprime_gds_dispatch |->
     [TaskPipe |-> Test_TaskPipe, ProcessGroundCommand |-> Test_ProcessGroundCommand,
      VerifyCmdLength |-> Test_VerifyCmdLength],
   fprime_gds_cmds |->
     [ReportHousekeeping |-> Test_ReportHousekeeping, NoopCmd |-> Test_NoopCmd,
      ResetCountersCmd |-> Test_ResetCountersCmd, ProcessCmd |-> Test_ProcessCmd,
      DisplayParamCmd |-> Test_DisplayParamCmd],
   fprime_gds_utils |->
     [TblValidationFunc |-> Test_TblValidationFunc, GetCrc |-> Test_GetCrc]]
-----------------------------------------------------------------------------
(* The process.                                                             *)

Init ==
  /\ exe \in Executables
  /\ waiting = DOMAIN UtTest_Setup[exe]
  /\ test = NoTest /\ position = 0
  /\ env = [ut |-> Fresh, data |-> GlobalData, status |-> Zero, wild |-> FALSE, taken |-> {}]
  /\ failed = {}

Script    == UtTest_Setup[exe][test]
Running   == test # NoTest /\ position <= Len(Script)
Statement == Script[position]

\* Mutant: the framework is left as the previous test left it.
Sample_UT_Setup_Nothing == UNCHANGED env

Sample_UT_Setup == env' = [env EXCEPT !.ut = Fresh]

\* UtTest runs a test that was added, after its set-up function.
StartTest ==
  /\ test = NoTest
  /\ \E t \in waiting : test' = t /\ waiting' = waiting \ {t}
  /\ position' = 1
  /\ Sample_UT_Setup
  /\ UNCHANGED <<exe, failed>>

\* Sample_UT_TearDown does nothing.
EndTest ==
  /\ test # NoTest /\ ~Running
  /\ test' = NoTest /\ position' = 0
  /\ UNCHANGED <<exe, waiting, env, failed>>

\* Executes the current statement, one of those named by op.
Execute(op) ==
  /\ Running /\ Statement.op = op
  /\ position' = position + 1
  /\ UNCHANGED <<exe, waiting, test>>

UT_SetDeferredRetcode ==
  /\ Execute("deferredRetcode")
  /\ env' = [env EXCEPT !.ut.deferred[Statement.stub] =
               [count |-> Statement.n, retcode |-> Statement.retcode]]
  /\ UNCHANGED failed

UT_SetDefaultReturnValue ==
  /\ Execute("defaultReturnValue")
  /\ env' = [env EXCEPT !.ut.defaults[Statement.stub] = Statement.retcode]
  /\ UNCHANGED failed

\* A buffer that was not used up is replaced.
UT_SetDataBuffer ==
  /\ Execute("dataBuffer")
  /\ env' = [env EXCEPT !.ut.buffers[Statement.stub] = Statement.value]
  /\ UNCHANGED failed

UT_CheckEvent_Setup ==
  /\ Execute("checkEvent")
  /\ env' = [env EXCEPT !.ut.check =
               [ExpectedEvent |-> Statement.id, ExpectedFormat |-> Statement.format,
                MatchCount |-> 0]]
  /\ UNCHANGED failed

After(fn, arg) ==
  CASE fn = "FPRIME_GDS_Main"                 -> FPRIME_GDS_Main(env)
    [] fn = "FPRIME_GDS_Init"                 -> FPRIME_GDS_Init(env)
    [] fn = "FPRIME_GDS_TaskPipe"             -> FPRIME_GDS_TaskPipe(env)
    [] fn = "FPRIME_GDS_ProcessGroundCommand" -> FPRIME_GDS_ProcessGroundCommand(env)
    [] fn = "FPRIME_GDS_VerifyCmdLength"      -> FPRIME_GDS_VerifyCmdLength(env, arg)
    [] fn = "FPRIME_GDS_SendHkCmd"            -> FPRIME_GDS_SendHkCmd(env)
    [] fn = "FPRIME_GDS_NoopCmd"              -> FPRIME_GDS_NoopCmd(env)
    [] fn = "FPRIME_GDS_ResetCountersCmd"     -> FPRIME_GDS_ResetCountersCmd(env)
    [] fn = "FPRIME_GDS_ProcessCmd"           -> FPRIME_GDS_ProcessCmd(env)
    [] fn = "FPRIME_GDS_DisplayParamCmd"      -> FPRIME_GDS_DisplayParamCmd(env)
    [] fn = "FPRIME_GDS_TblValidationFunc"    -> FPRIME_GDS_TblValidationFunc(env, arg)
    [] fn = "FPRIME_GDS_GetCrc"               -> FPRIME_GDS_GetCrc(env)

CallUnitUnderTest ==
  /\ Execute("call")
  /\ env' = After(Statement.fn, Statement.arg)
  /\ UNCHANGED failed

\* An assertion about the state of the process.
UtAssert(op, Holds(_)) ==
  /\ Execute(op)
  /\ failed' = IF Holds(Statement) THEN failed ELSE failed \union {<<test, position>>}
  /\ UNCHANGED env

UtAssertions ==
  \/ UtAssert("stubCount", LAMBDA s : env.ut.calls[s.stub] = s.n)
  \/ UtAssert("returns",   LAMBDA s : env.status = s.status)
  \/ UtAssert("matches",   LAMBDA s : env.ut.check.MatchCount = s.n)
  \/ UtAssert("runStatus", LAMBDA s : env.data.RunStatus = s.status)
  \/ UtAssert("address",   LAMBDA s : env.ut.buffers[s.stub] = s.value)

Next ==
  \/ StartTest \/ EndTest
  \/ UT_SetDeferredRetcode \/ UT_SetDefaultReturnValue \/ UT_SetDataBuffer
  \/ UT_CheckEvent_Setup \/ CallUnitUnderTest \/ UtAssertions

Spec == Init /\ [][Next]_vars
-----------------------------------------------------------------------------
(* Properties.                                                              *)

\* All tests of the executable have run.
Finished == waiting = {} /\ test = NoTest

TypeOK ==
  /\ exe \in Executables
  /\ waiting \subseteq DOMAIN UtTest_Setup[exe]
  /\ test \in (DOMAIN UtTest_Setup[exe] \ waiting) \union {NoTest}
  /\ position \in 0 .. (IF test = NoTest THEN 0 ELSE Len(Script) + 1)
  /\ \A s \in Stubs : env.ut.calls[s] \in Nat /\ env.ut.deferred[s].count \in Nat
  /\ env.ut.check.ExpectedEvent \in EventIds \union {NoEvent}
  /\ env.ut.check.MatchCount \in Nat
  /\ env.data.CmdCounter \in 0 .. 255 /\ env.data.ErrCounter \in 0 .. 255
  /\ env.wild \in BOOLEAN

\* The assertion on the text of the pipe error event, last of Test_Main.
TextAssertion == <<"Main", Len(Test_Main)>>

\* Whatever ran before them in the same process, the tests agree with the code
\* on every count, status, address and event but the text of the pipe error,
\* and no test makes the code read a table at an address it did not supply.
TestsAgree == failed \subseteq {TextAssertion} /\ ~env.wild

\* The purpose stated in each file, to exercise all code paths: when its tests
\* have run, each branch of the unit was taken both ways, in any order of them.
PathsExercised == Finished => Branches[exe] \subseteq env.taken

\* A failure that a test arranges for a certain call does happen before the
\* test ends: otherwise its assertions would be about another path.
ArrangedFailuresHappen ==
  test # NoTest /\ ~Running => \A s \in Stubs : env.ut.deferred[s].count = 0

\* All the tests say of the code, the text of the pipe error event included.
AssertionsHold == failed = {}

\* The comment in Test_FPRIME_GDS_Init, "Trigger a failure for each of the
\* sub-calls": those whose status FPRIME_GDS_Init returns, CFE_TBL_Load last.
EverySubCallFails ==
  Finished /\ exe = "fprime_gds" =>
    \A call \in {"syslog", "CR_PIPE_ERR_EID", "SUB_HK_ERR_EID", "SUB_CMD_ERR_EID",
                 "TABLE_REG_ERR_EID", "load"} : <<call, FALSE>> \in env.taken
=============================================================================
