------------------------------ MODULE GroundApp ------------------------------
(***************************************************************************)
(* The cFS application in C under fsw/src: FPRIME_GDS_Main and             *)
(* FPRIME_GDS_Init, the two dispatchers a build chooses from (plain C and  *)
(* EDS), the command handlers, and the validation of the example table.    *)
(*                                                                         *)
(* One task runs this code, one cFE call that can fail or that others can  *)
(* interleave with per step. Beside it run the software bus (requests      *)
(* arrive in the command pipe), the table services (the ground loads and   *)
(* activates table images, which reach the application only through its    *)
(* own CFE_TBL_Manage) and the executive. Those are external: they are     *)
(* modelled from how fsw/src uses them.                                    *)
(*                                                                         *)
(* Left out: the packets' contents other than the message ID, the function *)
(* code and whether the length fits; event texts; the version string.      *)
(***************************************************************************)
EXTENDS Naturals, Sequences

CONSTANTS
  CounterMod,       \* 256: the counters are uint8
  PipeDepth,        \* FPRIME_GDS_PLATFORM_PIPE_DEPTH
  TblElement1Max,   \* FPRIME_GDS_PLATFORM_TBL_ELEMENT_1_MAX
  Int1Values,       \* values of Int1 in the table images the ground loads
  EdsEnabled,       \* CFE_EDS_ENABLED of CMakeLists.txt: which dispatcher
  NoImage,          \* stands for a table buffer without an image
  MaxCommands       \* bound: ground commands sent to the application

ASSUME CounterAssumption == CounterMod \in Nat \ {0}
ASSUME PipeAssumption == PipeDepth \in Nat \ {0}
ASSUME TableAssumption == TblElement1Max \in Nat /\ Int1Values \subseteq Nat /\ NoImage \notin Nat
ASSUME EdsAssumption == EdsEnabled \in BOOLEAN
ASSUME BoundAssumption == MaxCommands \in Nat

VARIABLES
  pc,           \* the next call of the application's task
  ready,        \* what FPRIME_GDS_Init has obtained so far
  events,       \* initialisation events sent (INIT_INF or an error)
  CommandPipe,  \* the requests waiting in the pipe
  CmdCounter, ErrCounter,
  HkTlm,        \* the last housekeeping packet transmitted
  RunStatus,    \* FPRIME_GDS_Data.RunStatus
  exitRequest,  \* TRUE once ES wants the application to exit
  table,        \* the example table, as the table services keep it
  sentCommands, \* ground commands sent so far (bounded by MaxCommands)
  executed,     \* history: commands executed since the last reset
  refused,      \* history: requests refused since then, by reason
  reported,     \* history: failures handlers reported to the dispatcher
  failure       \* history: what went wrong: "none", "init" or "pipe"

initVars  == <<ready, events>>
countVars == <<CmdCounter, ErrCounter, reported>>
historyVars == <<executed, refused>>
busVars   == <<CommandPipe, sentCommands>>
runVars   == <<RunStatus, failure>>
vars == <<pc, initVars, busVars, countVars, historyVars, HkTlm, runVars,
          exitRequest, table>>

\* Function codes of fprime_gds_fcncodes.h, and any other.
Codes == {"noop", "reset", "process", "displayParam"}

\* A request: its message ID, function code, and whether its size is the size
\* of the command's structure (an unknown code has none).
HkRequest(fits) == [mid |-> "sendHk", code |-> "noop", fits |-> fits]
Commands   == [mid : {"cmd"}, code : Codes, fits : BOOLEAN]
                \union [mid : {"cmd"}, code : {"unknown"}, fits : {FALSE}]
HkRequests == {HkRequest(fits) : fits \in BOOLEAN}
Messages   == Commands \union HkRequests

Reasons == {"badLength", "badCode", "badMid"}
NoRefusals == [r \in Reasons |-> 0]

Images  == Int1Values \union {NoImage}

InitLabels == {"registerEvents", "createPipe", "subscribeHk", "subscribeCmd",
               "registerTable", "loadTable", "announce"}
Labels == InitLabels \union {"runLoop", "receiveBuffer", "releaseAddress",
                             "exitApp", "exited"}

Zero == [commands |-> 0, errors |-> 0]

Init ==
  /\ pc = "registerEvents"
  /\ ready = {} /\ events = {}
  /\ CommandPipe = <<>> /\ sentCommands = 0
  /\ CmdCounter = 0 /\ ErrCounter = 0 /\ HkTlm = Zero
  /\ executed = 0 /\ refused = NoRefusals /\ reported = 0
  /\ RunStatus = "run" /\ failure = "none"
  /\ exitRequest = FALSE
  /\ table = [active |-> NoImage, loaded |-> NoImage, verdict |-> "none",
              update |-> FALSE, locked |-> FALSE]
-----------------------------------------------------------------------------
(* FPRIME_GDS_Init: a chain of calls, each made only if all before it        *)
(* succeeded. A call that fails leaves the loop without being entered.       *)

\* The calls that may fail, what each obtains, and the error it reports.
After == [registerEvents |-> "createPipe",   createPipe    |-> "subscribeHk",
          subscribeHk    |-> "subscribeCmd", subscribeCmd  |-> "registerTable",
          registerTable  |-> "loadTable"]

\* status is not CFE_SUCCESS: FPRIME_GDS_Main will set RunStatus.
InitFails == RunStatus' = "error" /\ failure' = "init"

InitCall(label) ==
  /\ pc = label
  /\ \/ /\ pc' = After[label] /\ ready' = ready \union {label}
        /\ UNCHANGED <<events, runVars>>
     \/ /\ pc' = IF label = "registerTable" THEN "announce" ELSE "runLoop"
        /\ events' = IF label = "registerEvents" THEN events
                     ELSE events \union {label}
        /\ InitFails
        /\ UNCHANGED ready
  /\ UNCHANGED <<busVars, countVars, historyVars, HkTlm, exitRequest, table>>

\* Mutant: the limit itself is off by one.
TblValidationFunc_OffByOne(int1) == int1 <= TblElement1Max + 1

\* FPRIME_GDS_TblValidationFunc: only the first element is checked.
TblValidationFunc(int1) == ~(int1 > TblElement1Max)

\* Mutant: the result of CFE_TBL_Load is dropped.
TblLoad_Unchecked ==
  /\ pc = "loadTable" /\ pc' = "announce"
  /\ \/ \E v \in Int1Values : TblValidationFunc(v) /\ table' = [table EXCEPT !.active = v]
     \/ UNCHANGED table
  /\ ready' = ready \union {"loadTable"}
  /\ UNCHANGED <<events, runVars, busVars, countVars, historyVars, HkTlm, exitRequest>>

\* CFE_TBL_Load from the table file: the services call the validation function
\* before they take the image; a failed load is reported by status alone.
TblLoad ==
  /\ pc = "loadTable" /\ pc' = "announce"
  /\ \/ /\ \E v \in Int1Values :
             TblValidationFunc(v) /\ table' = [table EXCEPT !.active = v]
        /\ ready' = ready \union {"loadTable"}
        /\ UNCHANGED runVars
     \/ InitFails /\ UNCHANGED <<ready, table>>
  /\ UNCHANGED <<events, busVars, countVars, historyVars, HkTlm, exitRequest>>

\* The INIT_INF event is sent whatever registering and loading returned.
Announce ==
  /\ pc = "announce" /\ pc' = "runLoop"
  /\ events' = events \union {"initialized"}
  /\ UNCHANGED <<ready, busVars, countVars, historyVars, HkTlm, runVars, exitRequest, table>>

FPRIME_GDS_Init == (\E label \in DOMAIN After : InitCall(label)) \/ TblLoad \/ Announce
-----------------------------------------------------------------------------
(* FPRIME_GDS_Main: the run loop.                                           *)

\* CFE_ES_RunLoop: TRUE while neither the application nor ES wants it to end;
\* a request of ES becomes its RunStatus.
RunLoop ==
  /\ pc = "runLoop"
  /\ pc' = IF RunStatus = "run" /\ ~exitRequest THEN "receiveBuffer" ELSE "exitApp"
  /\ RunStatus' = IF RunStatus = "run" /\ exitRequest THEN "exit" ELSE RunStatus
  /\ UNCHANGED <<initVars, busVars, countVars, historyVars, HkTlm, failure, exitRequest, table>>

\* CFE_ES_ExitApp
ExitApp ==
  /\ pc = "exitApp" /\ pc' = "exited"
  /\ UNCHANGED <<initVars, busVars, countVars, historyVars, HkTlm, runVars, exitRequest, table>>
-----------------------------------------------------------------------------
(* The command handlers and the dispatchers, which a handled request goes    *)
(* through: each is an effect on the counters, the housekeeping packet and   *)
(* the table, and all but ProcessCmd return to the loop at once.             *)

\* Mutant: the counter is wider than its field.
Increment_NoWrap(n) == n + 1

\* ++ on a uint8.
Increment(n) == (n + 1) % CounterMod

\* CFE_TBL_Manage: a requested validation is carried out, and an activated
\* image replaces the active one unless somebody holds its address.
Managed(t) ==
  IF t.verdict = "requested"
  THEN [t EXCEPT !.verdict = IF TblValidationFunc(t.loaded) THEN "valid" ELSE "invalid"]
  ELSE IF t.update /\ ~t.locked
       THEN [t EXCEPT !.active = t.loaded, !.loaded = NoImage,
                      !.verdict = "none", !.update = FALSE]
       ELSE t

\* Mutant: the tables are not managed.
SendHkCmd_Unmanaged ==
  /\ HkTlm' = [commands |-> CmdCounter, errors |-> ErrCounter]
  /\ pc' = "runLoop"
  /\ UNCHANGED <<countVars, table>>

SendHkCmd ==
  /\ HkTlm' = [commands |-> CmdCounter, errors |-> ErrCounter]
  /\ table' = Managed(table)
  /\ pc' = "runLoop"
  /\ UNCHANGED countVars

\* Every command but RESET counts, whether or not it then succeeds.
CountCommand == CmdCounter' = Increment(CmdCounter) /\ UNCHANGED HkTlm

\* Beside the counter, an event only.
NoopCmd == CountCommand /\ pc' = "runLoop" /\ UNCHANGED <<ErrCounter, reported, table>>
DisplayParamCmd == NoopCmd

\* Mutant: the error counter survives.
ResetCountersCmd_CommandsOnly ==
  /\ CmdCounter' = 0 /\ reported' = 0
  /\ pc' = "runLoop"
  /\ UNCHANGED <<ErrCounter, HkTlm, table>>

ResetCountersCmd ==
  /\ CmdCounter' = 0 /\ ErrCounter' = 0 /\ reported' = 0
  /\ pc' = "runLoop"
  /\ UNCHANGED <<HkTlm, table>>

\* Mutant: both dispatchers count what VerifyCmdLength counts.
Refuse_LengthOnly(r) ==
  ErrCounter' = IF r = "badLength" THEN Increment(ErrCounter) ELSE ErrCounter

\* A refusal for the reason r: the plain dispatcher counts only those of
\* VerifyCmdLength, the EDS one every status other than CFE_SUCCESS.
Refuse(r) ==
  ErrCounter' = IF EdsEnabled \/ r = "badLength" THEN Increment(ErrCounter)
                ELSE ErrCounter

\* What a handler's failure means to its dispatcher: the plain one ignores the
\* status. Whether the generated EDS code passes it on cannot be seen in src/,
\* so it may or may not.
HandlerFails ==
  \/ EdsEnabled /\ ErrCounter' = Increment(ErrCounter) /\ reported' = reported + 1
  \/ UNCHANGED <<ErrCounter, reported>>

\* ProcessCmd up to CFE_TBL_GetAddress; a status below CFE_SUCCESS is an error,
\* one above it (the table was updated) is not.
ProcessCmd ==
  /\ CountCommand
  /\ \/ /\ pc' = "releaseAddress" /\ table' = [table EXCEPT !.locked = TRUE]
        /\ UNCHANGED <<ErrCounter, reported>>
     \/ pc' = "runLoop" /\ HandlerFails /\ UNCHANGED table

\* The rest of ProcessCmd: GetCrc only reports; CFE_TBL_ReleaseAddress gives
\* the address back, and any status but CFE_SUCCESS (a notice that an update
\* is pending, too) is a failure that skips SAMPLE_LIB_Function.
ReleaseAddress ==
  /\ pc = "releaseAddress" /\ pc' = "runLoop"
  /\ table' = [table EXCEPT !.locked = FALSE]
  /\ UNCHANGED <<ErrCounter, reported>> \/ HandlerFails
  /\ UNCHANGED <<initVars, busVars, CmdCounter, historyVars, HkTlm, runVars, exitRequest>>

\* FPRIME_GDS_TaskPipe executes a request with a known message ID and code
\* and the right length; the plain one does not look at the length of a
\* housekeeping request.
Executes(m) ==
  \/ m.mid = "sendHk" /\ (EdsEnabled => m.fits)
  \/ m.mid = "cmd" /\ m.code \in Codes /\ m.fits

Reason(m) ==
  IF m.mid \notin {"sendHk", "cmd"} THEN "badMid"
  ELSE IF m.code \notin Codes THEN "badCode" ELSE "badLength"

Handle(m) ==
  \/ m.mid = "sendHk" /\ SendHkCmd
  \/ /\ m.mid = "cmd"
     /\ \/ m.code = "noop" /\ NoopCmd
        \/ m.code = "reset" /\ ResetCountersCmd
        \/ m.code = "process" /\ ProcessCmd
        \/ m.code = "displayParam" /\ DisplayParamCmd

\* The history of requests: what became of m, by its kind alone.
Remember(m) ==
  IF ~Executes(m)
  THEN refused' = [refused EXCEPT ![Reason(m)] = @ + 1] /\ UNCHANGED executed
  ELSE IF m.mid = "cmd" /\ m.code = "reset"
       THEN executed' = 0 /\ refused' = NoRefusals
       ELSE /\ executed' = IF m.mid = "cmd" THEN executed + 1 ELSE executed
            /\ UNCHANGED refused

\* FPRIME_GDS_TaskPipe
TaskPipe(m) ==
  /\ \/ Executes(m) /\ Handle(m)
     \/ /\ ~Executes(m) /\ Refuse(Reason(m))
        /\ pc' = "runLoop"
        /\ UNCHANGED <<CmdCounter, reported, HkTlm, table>>
  /\ Remember(m)

\* Mutant: a read error is reported and the loop goes on.
ReceiveBuffer_IgnoresError ==
  /\ pc = "receiveBuffer"
  /\ \/ /\ CommandPipe # <<>> /\ CommandPipe' = Tail(CommandPipe)
        /\ TaskPipe(Head(CommandPipe))
        /\ UNCHANGED runVars
     \/ /\ pc' = "runLoop" /\ failure' = "pipe"
        /\ UNCHANGED <<CommandPipe, countVars, historyVars, HkTlm, table, RunStatus>>
  /\ UNCHANGED <<initVars, sentCommands, exitRequest>>

\* CFE_SB_ReceiveBuffer pends for ever on an empty pipe, and may fail; what it
\* returns is handled at once, since nobody else uses it.
ReceiveBuffer ==
  /\ pc = "receiveBuffer"
  /\ \/ /\ CommandPipe # <<>> /\ CommandPipe' = Tail(CommandPipe)
        /\ TaskPipe(Head(CommandPipe))
        /\ UNCHANGED runVars
     \/ /\ pc' = "runLoop" /\ RunStatus' = "error" /\ failure' = "pipe"
        /\ UNCHANGED <<CommandPipe, countVars, historyVars, HkTlm, table>>
  /\ UNCHANGED <<initVars, sentCommands, exitRequest>>

FPRIME_GDS_Main ==
  FPRIME_GDS_Init \/ RunLoop \/ ReceiveBuffer \/ ReleaseAddress \/ ExitApp
-----------------------------------------------------------------------------
(* The application's surroundings.                                          *)

Subscribed(mid) == (IF mid = "sendHk" THEN "subscribeHk" ELSE "subscribeCmd") \in ready

\* The software bus delivers a request to a pipe that subscribes to it and has
\* room; it drops the others, which changes nothing here.
Deliver(m) ==
  /\ Subscribed(m.mid) /\ pc # "exited"
  /\ Len(CommandPipe) < PipeDepth
  /\ CommandPipe' = Append(CommandPipe, m)
  /\ UNCHANGED <<pc, initVars, countVars, historyVars, HkTlm, runVars, exitRequest, table>>

\* The housekeeping scheduler's periodic request, of the right length.
HkArrives == Deliver(HkRequest(TRUE)) /\ UNCHANGED sentCommands

\* A ground command, or a housekeeping request of another length.
CommandArrives ==
  /\ sentCommands < MaxCommands /\ sentCommands' = sentCommands + 1
  /\ \E m \in Commands \union {HkRequest(FALSE)} : Deliver(m)

\* The ground loads an image and asks for its validation; refused while an
\* activated image waits for the application.
GroundLoads ==
  /\ "registerTable" \in ready /\ pc # "exited" /\ ~table.update
  /\ \E v \in Int1Values :
       table' = [table EXCEPT !.loaded = v, !.verdict = "requested"]
  /\ UNCHANGED <<pc, initVars, busVars, countVars, historyVars, HkTlm, runVars, exitRequest>>

\* The ground activates an image that was found valid.
GroundActivates ==
  /\ pc # "exited" /\ ~table.update /\ table.verdict = "valid"
  /\ table' = [table EXCEPT !.update = TRUE]
  /\ UNCHANGED <<pc, initVars, busVars, countVars, historyVars, HkTlm, runVars, exitRequest>>

EsRequestsExit ==
  /\ ~exitRequest /\ pc # "exited" /\ exitRequest' = TRUE
  /\ UNCHANGED <<pc, initVars, busVars, countVars, historyVars, HkTlm, runVars, table>>

Surroundings ==
  HkArrives \/ CommandArrives \/ GroundLoads \/ GroundActivates \/ EsRequestsExit

Next == FPRIME_GDS_Main \/ Surroundings

Spec == Init /\ [][Next]_vars

\* The task is scheduled, and a housekeeping request finds room in the pipe
\* again and again: the application waits for requests without a timeout, so
\* nothing else would ever wake it.
FairSpec == Spec /\ WF_vars(FPRIME_GDS_Main) /\ SF_vars(HkArrives)
-----------------------------------------------------------------------------
(* Properties.                                                              *)

TypeOK ==
  /\ pc \in Labels
  /\ ready \in SUBSET InitLabels
  /\ events \in SUBSET (InitLabels \union {"initialized"})
  /\ CommandPipe \in Seq(Messages) /\ Len(CommandPipe) <= PipeDepth
  /\ sentCommands \in 0 .. MaxCommands
  /\ CmdCounter \in 0 .. CounterMod - 1
  /\ ErrCounter \in 0 .. CounterMod - 1
  /\ HkTlm \in [commands : 0 .. CounterMod - 1, errors : 0 .. CounterMod - 1]
  /\ executed \in Nat /\ refused \in [Reasons -> Nat] /\ reported \in Nat
  /\ RunStatus \in {"run", "error", "exit"}
  /\ failure \in {"none", "init", "pipe"}
  /\ exitRequest \in BOOLEAN
  /\ table \in [active : Images, loaded : Images, update : BOOLEAN, locked : BOOLEAN,
                verdict : {"none", "requested", "valid", "invalid"}]

\* The loop is entered, and a request handled, only by an application that
\* has all of its pipe, both subscriptions, and a loaded table: what the
\* chain of status checks in FPRIME_GDS_Init is for.
LoopNeedsInit ==
  pc \in {"receiveBuffer", "releaseAddress"} =>
    ready = DOMAIN After \union {"loadTable"} /\ table.active # NoImage

\* What the dispatcher of this build counts as an error.
CountedErrors ==
  IF EdsEnabled
  THEN refused["badLength"] + refused["badCode"] + refused["badMid"] + reported
  ELSE refused["badLength"]

\* This step takes a housekeeping request from the pipe.
HousekeepingTaken ==
  /\ Len(CommandPipe') < Len(CommandPipe)
  /\ Head(CommandPipe).mid = "sendHk" /\ Executes(Head(CommandPipe))

\* The answer to a housekeeping request tells the ground how many commands were
\* executed and refused since the last reset, to the width of its counters,
\* whatever mix of commands, refusals and resets came before.
HousekeepingTruthful ==
  [][HousekeepingTaken => HkTlm' = [commands |-> executed % CounterMod,
                                    errors   |-> CountedErrors % CounterMod]]_vars

\* Whatever the ground loads and whenever it activates it, the application
\* never works with an image whose first element is out of range.
ActiveTableValid == table.active # NoImage => table.active <= TblElement1Max

\* The table's address is held inside ProcessCmd only, whatever its calls
\* return: an address kept would bar every later update.
AddressGivenBack == table.locked <=> pc = "releaseAddress"

\* The example table behaves as the ground may expect of one.
Contract == INSTANCE TableContract WITH
  Images    <- Int1Values,
  Limit     <- TblElement1Max,
  None      <- NoImage,
  active    <- table.active,
  offered   <- table.loaded,
  activated <- table.update,
  inUse     <- table.locked

\* Whatever the order of loads, validations, activations, housekeeping requests
\* and PROCESS commands, the image in use changes only by an image in range that
\* the ground activated, and never under the application's hands.
KeepsTableContract == Contract!Spec

\* SendHkCmd manages the table on every housekeeping request: a request that
\* finds an activated image puts it into use, and one that finds a validation
\* pending decides it, with nothing that could put either off.
UpdatesTakeEffect ==
  [][HousekeepingTaken =>
       /\ table.update => table'.active = table.loaded /\ ~table'.update
       /\ table.verdict = "requested" =>
            table'.verdict = IF table.loaded <= TblElement1Max THEN "valid" ELSE "invalid"]_vars

\* The application exits with an error exactly when its initialisation or a
\* read of its pipe failed, and otherwise because ES asked it to.
ExitStatusHonest ==
  pc = "exited" => /\ RunStatus = "error" <=> failure # "none"
                   /\ RunStatus # "error" => RunStatus = "exit" /\ exitRequest

\* What the ground asks of the table is done, unless the application goes away
\* first: a loaded image is validated, an activated one taken over.
UpdatesLand ==
  /\ (table.verdict = "requested") ~> (table.verdict # "requested" \/ pc = "exited")
  /\ table.update ~> (~table.update \/ pc = "exited")

\* An application that is asked to exit, or that failed, does exit.
ExitReached == (exitRequest \/ failure # "none") ~> (pc = "exited")

\* Once ES asked, or something failed.
Leaving == exitRequest \/ RunStatus # "run"

\* The calls ahead of the task at most, the one it is at included, when it is
\* leaving.
CallsLeft ==
  [registerEvents |-> 11, createPipe |-> 10, subscribeHk |-> 9, subscribeCmd |-> 8,
   registerTable |-> 7, loadTable |-> 6, announce |-> 5, receiveBuffer |-> 4,
   releaseAddress |-> 3, runLoop |-> 2, exitApp |-> 1, exited |-> 0]

\* A task that is leaving never changes its mind, and runs out of calls: it
\* handles one more request at most, whatever waits in the pipe. Only a read of
\* the empty pipe can keep it, which is why ExitReached needs housekeeping
\* requests that keep coming.
ExitRunsOut ==
  [][Leaving => Leaving' /\ (pc' = pc \/ CallsLeft[pc'] < CallsLeft[pc])]_vars

\* The comment on the default case of ProcessGroundCommand ("already found
\* during FC vs length test"): a command with an unknown code has been refused
\* and counted by the length test by then.
UnknownCodesCounted ==
  ErrCounter = (refused["badLength"] + refused["badCode"]) % CounterMod

\* The "Initialized" event means what it says: everything was obtained.
InitializedMeansReady ==
  "initialized" \in events => ready = DOMAIN After \union {"loadTable"}
=============================================================================
