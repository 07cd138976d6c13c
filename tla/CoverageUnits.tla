--------------------------- MODULE CoverageUnits ---------------------------
(***************************************************************************)
(* What one executable of unit-test/coveragetest consists of, beside its   *)
(* tests: the unit of fsw/src under test, stubs for everything it calls,   *)
(* and the event check of unit-test/common. An operator here takes the     *)
(* state e of such a process and returns the state after the call.         *)
(*                                                                         *)
(* In C, CFE_SUCCESS, false and NULL are all 0, which is what a stub       *)
(* returns unless told otherwise: Zero stands for each. Every other status *)
(* the tests inject is an error, that is, below CFE_SUCCESS. Performance   *)
(* log calls and the arguments of events are left out.                     *)
(***************************************************************************)
EXTENDS Integers, Sequences, TLC

Zero    == "zero"
Success == Zero
NoEvent == "none"

\* fprime_gds_eventids.h
EventIds == {"INIT_INF_EID", "CC_ERR_EID", "NOOP_INF_EID", "RESET_INF_EID", "MID_ERR_EID",
             "CMD_LEN_ERR_EID", "PIPE_ERR_EID", "VALUE_INF_EID", "CR_PIPE_ERR_EID",
             "SUB_HK_ERR_EID", "SUB_CMD_ERR_EID", "TABLE_REG_ERR_EID"}

CfeStubs == {"CFE_ES_ExitApp", "CFE_ES_RunLoop", "CFE_ES_WriteToSysLog", "CFE_EVS_Register",
             "CFE_EVS_SendEvent", "CFE_MSG_GetFcnCode", "CFE_MSG_GetMsgId", "CFE_MSG_GetSize",
             "CFE_SB_CreatePipe", "CFE_SB_ReceiveBuffer", "CFE_SB_Subscribe",
             "CFE_SB_TimeStampMsg", "CFE_SB_TransmitMsg", "CFE_TBL_GetAddress",
             "CFE_TBL_GetInfo", "CFE_TBL_Load", "CFE_TBL_Manage", "CFE_TBL_Register",
             "CFE_TBL_ReleaseAddress", "SAMPLE_LIB_Function"}

\* The generated stubs of the application's own units, of which an executable
\* links those its unit does not define.
CmdStubs == {"FPRIME_GDS_DisplayParamCmd", "FPRIME_GDS_NoopCmd", "FPRIME_GDS_ProcessCmd",
             "FPRIME_GDS_ResetCountersCmd", "FPRIME_GDS_SendHkCmd"}
DispatchStubs == {"FPRIME_GDS_TaskPipe"}
UtilsStubs == {"FPRIME_GDS_GetCrc"}
Stubs == CfeStubs \union CmdStubs \union DispatchStubs \union UtilsStubs

\* Stubs that hand out what a test supplied, or capture what they are given,
\* and what they hand out when nothing was supplied.
NoData == [CFE_MSG_GetMsgId |-> "INVALID_MSG_ID", CFE_MSG_GetFcnCode |-> "0",
           CFE_MSG_GetSize |-> 0, CFE_TBL_GetAddress |-> "NULL",
           CFE_SB_TransmitMsg |-> "none", CFE_SB_TimeStampMsg |-> "none"]

\* FPRIME_GDS_Data, which survives from test to test.
GlobalData == [CmdCounter |-> 0, ErrCounter |-> 0, RunStatus |-> Zero,
               HkTlm |-> [CommandCounter |-> 0, CommandErrorCounter |-> 0]]

\* UT_ResetState(0): no counts, return codes, buffers and hooks are left.
Fresh == [calls |-> [s \in Stubs |-> 0],
          deferred |-> [s \in Stubs |-> [count |-> 0, retcode |-> Zero]],
          defaults |-> [s \in Stubs |-> Zero],
          buffers |-> NoData,
          check |-> [ExpectedEvent |-> NoEvent, ExpectedFormat |-> Zero, MatchCount |-> 0]]
-----------------------------------------------------------------------------
(* Stubs.                                                                   *)

\* The value a call of the stub returns: a deferred code at its turn.
Retcode(e, stub) ==
  IF e.ut.deferred[stub].count = 1 THEN e.ut.deferred[stub].retcode ELSE e.ut.defaults[stub]

\* Mutant: the turn of a deferred code is counted down past its call.
Call_Underflow(e, stub) ==
  [e EXCEPT !.ut.calls[stub] = @ + 1, !.status = Retcode(e, stub),
            !.ut.deferred[stub].count = @ - 1]

\* A call whose result the unit looks at.
Call(e, stub) ==
  [e EXCEPT !.ut.calls[stub] = @ + 1, !.status = Retcode(e, stub),
            !.ut.deferred[stub].count = IF @ > 0 THEN @ - 1 ELSE 0]

\* A call whose result it does not use.
Invoke(e, stub) == [Call(e, stub) EXCEPT !.status = e.status]

\* A call that hands out, once, the value the test supplied.
Input(e, stub)  == e.ut.buffers[stub]
Fetched(e, stub) == [Invoke(e, stub) EXCEPT !.ut.buffers[stub] = NoData[stub]]

\* A call that keeps its argument if the test supplied a place for it.
Pass(e, stub, argument) ==
  IF Input(e, stub) = NoData[stub] THEN Invoke(e, stub)
  ELSE [Invoke(e, stub) EXCEPT !.ut.buffers[stub] = argument]

\* The branch of the unit taken, for the question which ones a test reached.
Decide(e, branch, way) == [e EXCEPT !.taken = @ \union {<<branch, way>>}]

\* Format strings of the events whose text the tests compare, file by file.
MainFormat     == [PIPE_ERR_EID    |-> "FPRIME APP: SB Pipe Read Error, App Will Exit"]
ResetFormat    == [RESET_INF_EID   |-> "SAMPLE: RESET command"]
ValueFormat    == [VALUE_INF_EID   |-> "FPRIME_GDS: ValU32=%lu, ValI16=%d, ValStr=%s"]
LengthFormat   == [CMD_LEN_ERR_EID |-> "Invalid Msg length: ID = 0x%X,  CC = %u, Len = %u, Expected = %u"]
CodeFormat     == [CC_ERR_EID      |-> "Invalid ground command code: CC = %d"]
MsgIdFormat    == [MID_ERR_EID     |-> "SAMPLE: invalid command packet,MID = 0x%x"]

SentFormat == MainFormat @@ ResetFormat @@ ValueFormat @@ LengthFormat @@ CodeFormat @@ MsgIdFormat

\* UT_CheckEvent_Hook: the expected event, with the expected text if any.
UT_CheckEvent_Hook(check, id) ==
  IF /\ id = check.ExpectedEvent
     /\ check.ExpectedFormat # Zero => id \in DOMAIN SentFormat /\ SentFormat[id] = check.ExpectedFormat
  THEN [check EXCEPT !.MatchCount = @ + 1]
  ELSE check

SendEvent(e, id) ==
  [Invoke(e, "CFE_EVS_SendEvent") EXCEPT !.ut.check = UT_CheckEvent_Hook(@, id)]
WriteToSysLog(e) == Invoke(e, "CFE_ES_WriteToSysLog")
-----------------------------------------------------------------------------
(* fprime_gds.c                                                             *)

\* Calls a stub, and reports a failure by an event or, for "syslog", there.
Checked(e, stub, report) ==
  LET f == Decide(Call(e, stub), report, Retcode(e, stub) = Success)
  IN  IF f.status = Success THEN f
      ELSE IF report = "syslog" THEN WriteToSysLog(f) ELSE SendEvent(f, report)

\* The same, if all went well up to here.
Then(e, stub, report) == IF e.status = Success THEN Checked(e, stub, report) ELSE e

FPRIME_GDS_Init(e) ==
  LET registered == Checked([e EXCEPT !.data = [GlobalData EXCEPT !.RunStatus = "APP_RUN"]],
                            "CFE_EVS_Register", "syslog")
      piped      == Then(registered, "CFE_SB_CreatePipe", "CR_PIPE_ERR_EID")
      hk         == Then(piped, "CFE_SB_Subscribe", "SUB_HK_ERR_EID")
      subscribed == Then(hk, "CFE_SB_Subscribe", "SUB_CMD_ERR_EID")
      tables     == Then(subscribed, "CFE_TBL_Register", "TABLE_REG_ERR_EID")
      loaded     == IF tables.status # Success THEN tables
                    ELSE Decide(Call(tables, "CFE_TBL_Load"), "load",
                                Retcode(tables, "CFE_TBL_Load") = Success)
  IN  IF subscribed.status = Success THEN SendEvent(loaded, "INIT_INF_EID") ELSE subscribed

RECURSIVE RunLoop(_)
RunLoop(e) ==
  LET f == Call(e, "CFE_ES_RunLoop")
      g == Call(f, "CFE_SB_ReceiveBuffer")
      h == Decide(g, "receive", g.status = Success)
  IN  IF f.status = Zero THEN Decide(f, "loop", FALSE)
      ELSE RunLoop(Decide(IF h.status = Success THEN Invoke(h, "FPRIME_GDS_TaskPipe")
                          ELSE [SendEvent(h, "PIPE_ERR_EID")
                                  EXCEPT !.data.RunStatus = "APP_ERROR"], "loop", TRUE))

FPRIME_GDS_Main(e) ==
  LET f == FPRIME_GDS_Init(e)
      g == IF f.status = Success THEN f ELSE [f EXCEPT !.data.RunStatus = "APP_ERROR"]
  IN  Invoke(RunLoop(Decide(g, "init", f.status = Success)), "CFE_ES_ExitApp")
-----------------------------------------------------------------------------
(* fprime_gds_dispatch.c                                                    *)

\* Sizes of the commands' structures: a header, and the payload of the last.
CmdSize == [NOOP_CC |-> 8, RESET_COUNTERS_CC |-> 8, PROCESS_CC |-> 8, DISPLAY_PARAM_CC |-> 24]

\* The switch of FPRIME_GDS_ProcessGroundCommand.
Handler == [NOOP_CC |-> "FPRIME_GDS_NoopCmd",
            RESET_COUNTERS_CC |-> "FPRIME_GDS_ResetCountersCmd",
            PROCESS_CC |-> "FPRIME_GDS_ProcessCmd",
            DISPLAY_PARAM_CC |-> "FPRIME_GDS_DisplayParamCmd"]

Counted(n) == (n + 1) % 256

FPRIME_GDS_VerifyCmdLength(e, expected) ==
  LET f == Fetched(e, "CFE_MSG_GetSize")
  IN  IF expected = Input(e, "CFE_MSG_GetSize")
      THEN [f EXCEPT !.status = "true"]
      ELSE [SendEvent(Fetched(Fetched(f, "CFE_MSG_GetMsgId"), "CFE_MSG_GetFcnCode"),
                      "CMD_LEN_ERR_EID")
              EXCEPT !.status = Zero, !.data.ErrCounter = Counted(@)]

FPRIME_GDS_ProcessGroundCommand(e) ==
  LET code == Input(e, "CFE_MSG_GetFcnCode")
      f    == Fetched(e, "CFE_MSG_GetFcnCode")
      g    == FPRIME_GDS_VerifyCmdLength(f, CmdSize[code])
      h    == Decide(g, code, g.status = "true")
  IN  IF code \notin DOMAIN Handler THEN SendEvent(Decide(f, "code", FALSE), "CC_ERR_EID")
      ELSE IF h.status = "true" THEN Invoke(h, Handler[code]) ELSE h

FPRIME_GDS_TaskPipe(e) ==
  LET MsgId == Input(e, "CFE_MSG_GetMsgId")
      f == Decide(Fetched(e, "CFE_MSG_GetMsgId"), "mid",
                  IF MsgId \in {"SEND_HK_MID", "CMD_MID"} THEN MsgId ELSE "other")
  IN  CASE MsgId = "SEND_HK_MID" -> Invoke(f, "FPRIME_GDS_SendHkCmd")
        [] MsgId = "CMD_MID" -> FPRIME_GDS_ProcessGroundCommand(f)
        [] OTHER -> SendEvent(f, "MID_ERR_EID")
-----------------------------------------------------------------------------
(* fprime_gds_cmds.c                                                        *)

FPRIME_GDS_SendHkCmd(e) ==
  LET f == [e EXCEPT !.data.HkTlm = [CommandCounter |-> e.data.CmdCounter,
                                     CommandErrorCounter |-> e.data.ErrCounter]]
      g == Pass(Pass(f, "CFE_SB_TimeStampMsg", "HkTlm"), "CFE_SB_TransmitMsg", "HkTlm")
  IN  [Invoke(g, "CFE_TBL_Manage") EXCEPT !.status = Success]

CountCommand(e) == [e EXCEPT !.data.CmdCounter = Counted(@)]

FPRIME_GDS_NoopCmd(e) ==
  [SendEvent(CountCommand(e), "NOOP_INF_EID") EXCEPT !.status = Success]

FPRIME_GDS_ResetCountersCmd(e) ==
  [SendEvent(e, "RESET_INF_EID")
     EXCEPT !.status = Success, !.data.CmdCounter = 0, !.data.ErrCounter = 0]

FPRIME_GDS_DisplayParamCmd(e) ==
  [SendEvent(CountCommand(e), "VALUE_INF_EID") EXCEPT !.status = Success]

\* The table is read at the address received: wild if that is none.
FPRIME_GDS_ProcessCmd(e) ==
  LET address == Input(e, "CFE_TBL_GetAddress")
      f == Call(CountCommand(e), "CFE_TBL_GetAddress")
      g == WriteToSysLog([f EXCEPT !.ut.buffers["CFE_TBL_GetAddress"] = "NULL",
                                   !.wild = @ \/ address = "NULL"])
      h == Call(Invoke(g, "FPRIME_GDS_GetCrc"), "CFE_TBL_ReleaseAddress")
  IN  IF f.status # Success THEN WriteToSysLog(Decide(f, "address", FALSE))
      ELSE Decide(IF h.status # Success
                  THEN WriteToSysLog(Decide(h, "release", FALSE))
                  ELSE Invoke(Decide(h, "release", TRUE), "SAMPLE_LIB_Function"),
                  "address", TRUE)
-----------------------------------------------------------------------------
(* fprime_gds_utils.c                                                       *)

TBL_ELEMENT_1_MAX == 10

FPRIME_GDS_TblValidationFunc(e, Int1) ==
  Decide([e EXCEPT !.status = IF Int1 > TBL_ELEMENT_1_MAX THEN "OUT_OF_RANGE" ELSE Success],
         "range", Int1 > TBL_ELEMENT_1_MAX)

FPRIME_GDS_GetCrc(e) ==
  LET f == Call(e, "CFE_TBL_GetInfo")
  IN  WriteToSysLog(Decide(f, "info", f.status = Success))

\* The branches of the unit each executable tests, as Decide records them.
Branches ==
  [fprime_gds |->
     {"syslog", "CR_PIPE_ERR_EID", "SUB_HK_ERR_EID", "SUB_CMD_ERR_EID", "TABLE_REG_ERR_EID",
      "init", "loop", "receive"} \X BOOLEAN,
   fprime_gds_dispatch |->
     ((DOMAIN Handler) \X BOOLEAN) \union {<<"code", FALSE>>}
       \union ({"mid"} \X {"SEND_HK_MID", "CMD_MID", "other"}),
   fprime_gds_cmds |-> {"address", "release"} \X BOOLEAN,
   fprime_gds_utils |-> {"range", "info"} \X BOOLEAN]
=============================================================================
