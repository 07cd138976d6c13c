--------------------------- MODULE GroundAppProofs ---------------------------
(***************************************************************************)
(* Proofs about GroundApp, for either dispatcher, counters of every width, *)
(* pipes of every depth and any set of table images: type correctness, its *)
(* safety invariants and the truth of the housekeeping answers.            *)
(*                                                                         *)
(* None of the invariants is inductive by itself. What the loop may rely   *)
(* on depends on how far FPRIME_GDS_Init came; the active image is valid   *)
(* because an image is validated before it can be activated and cannot be  *)
(* replaced between the two; a housekeeping answer is true because both    *)
(* counters follow the history in every state, through every wrap. The     *)
(* same invariant shows that the table keeps TableContract; what that is   *)
(* worth is proved of the contract alone (ContractKeepsPromises).          *)
(***************************************************************************)
EXTENDS GroundApp, TLAPS

USE CounterAssumption, PipeAssumption, TableAssumption, EdsAssumption, BoundAssumption
USE DEF initVars, busVars, countVars, historyVars, runVars

Everything == DOMAIN After \union {"loadTable"}

\* The control part of TypeOK.
ControlTyped ==
  /\ pc \in Labels
  /\ ready \in SUBSET InitLabels
  /\ events \in SUBSET (InitLabels \union {"initialized"})
  /\ CommandPipe \in Seq(Messages) /\ Len(CommandPipe) <= PipeDepth
  /\ sentCommands \in 0 .. MaxCommands
  /\ RunStatus \in {"run", "error", "exit"}
  /\ failure \in {"none", "init", "pipe"}
  /\ exitRequest \in BOOLEAN

\* What FPRIME_GDS_Init has obtained before each of its calls, and after it.
ObtainedInv ==
  /\ pc = "registerEvents" => ready = {}
  /\ pc = "createPipe"     => ready = {"registerEvents"}
  /\ pc = "subscribeHk"    => ready = {"registerEvents", "createPipe"}
  /\ pc = "subscribeCmd"   => ready = {"registerEvents", "createPipe", "subscribeHk"}
  /\ pc = "registerTable"  => ready = {"registerEvents", "createPipe", "subscribeHk",
                                       "subscribeCmd"}
  /\ pc = "loadTable"      => ready = DOMAIN After
  /\ pc \in {"announce", "runLoop"} /\ RunStatus = "run" =>
       ready = Everything /\ table.active # NoImage
  /\ pc \in InitLabels \ {"announce"} => table.active = NoImage
  /\ LoopNeedsInit

\* Why the task left, or is about to leave, its loop.
StatusInv ==
  /\ RunStatus = "error" <=> failure # "none"
  /\ RunStatus = "exit" => exitRequest
  /\ pc \in {"exitApp", "exited"} => RunStatus # "run"

\* The counters count the history, to their width.
SoundCounts ==
  /\ executed \in Nat /\ refused \in [Reasons -> Nat] /\ reported \in Nat
  /\ CmdCounter = executed % CounterMod
  /\ ErrCounter = CountedErrors % CounterMod

Tables == [active : Images, loaded : Images, update : BOOLEAN, locked : BOOLEAN,
           verdict : {"none", "requested", "valid", "invalid"}]

\* An image waits whenever something was asked of it, and no image is found
\* valid, activated or active but one in range.
SoundTable(t) ==
  /\ t.verdict # "none" => t.loaded # NoImage
  /\ t.verdict = "valid" => t.loaded <= TblElement1Max
  /\ t.update => t.verdict = "valid"
  /\ t.active # NoImage => t.active <= TblElement1Max

\* The part of the state that a request may change.
SoundState ==
  /\ SoundCounts
  /\ table \in Tables /\ SoundTable(table)
  /\ HkTlm \in [commands : 0 .. CounterMod - 1, errors : 0 .. CounterMod - 1]
  /\ table.locked <=> pc = "releaseAddress"

IInv == ControlTyped /\ ObtainedInv /\ StatusInv /\ SoundState
-----------------------------------------------------------------------------
(* Arithmetic of a counter that wraps.                                      *)

\* A counter is a number below its modulus.
LEMMA ModTyped == ASSUME NEW n \in Nat PROVE (n % CounterMod) \in 0 .. CounterMod - 1
OBVIOUS

\* The remainder of a number that is written as a quotient and a remainder.
LEMMA ModOfSum ==
  ASSUME NEW m \in Nat \ {0}, NEW q \in Nat, NEW r \in Nat, r < m
  PROVE  ((m * q + r) % m) = r
OBVIOUS

LEMMA ModOfZero == (0 % CounterMod) = 0
OBVIOUS

\* Incrementing the counter is incrementing what it counts: the wrap of the
\* counter loses nothing but the width.
LEMMA IncrementCounts ==
  ASSUME NEW n \in Nat
  PROVE  Increment(n % CounterMod) = (n + 1) % CounterMod
<1> DEFINE m == CounterMod
           q == n \div m
           r == n % m
<1>1. m \in Nat \ {0} /\ q \in Nat /\ r \in Nat /\ r < m /\ n = m * q + r
  OBVIOUS
<1>2. Increment(r) = (r + 1) % m
  BY DEF Increment
<1> HIDE DEF q, r, m
<1>3. CASE r + 1 < m
  <2>1. n + 1 = m * q + (r + 1) /\ r + 1 \in Nat
    BY <1>1
  <2>2. ((m * q + (r + 1)) % m) = r + 1
    BY <1>1, <1>3, <2>1, ModOfSum
  <2>3. ((m * 0 + (r + 1)) % m) = r + 1
    BY <1>1, <1>3, <2>1, ModOfSum
  <2>4. m * 0 + (r + 1) = r + 1
    BY <1>1
  <2> QED
    BY <1>2, <2>1, <2>2, <2>3, <2>4 DEF r, m
<1>4. CASE r + 1 = m
  <2>1. n + 1 = m * (q + 1) + 0 /\ q + 1 \in Nat
    BY <1>1, <1>4
  <2>2. ((m * (q + 1) + 0) % m) = 0
    BY <1>1, <2>1, ModOfSum
  <2>3. ((m * 1 + 0) % m) = 0
    BY <1>1, ModOfSum
  <2>4. m * 1 + 0 = r + 1
    BY <1>1, <1>4
  <2> QED
    BY <1>2, <2>1, <2>2, <2>3, <2>4 DEF r, m
<1> QED
  BY <1>1, <1>3, <1>4
-----------------------------------------------------------------------------
(* The operators of the specification.                                      *)

\* The calls of FPRIME_GDS_Init that are modelled by InitCall.
LEMMA AfterValues ==
  /\ DOMAIN After = {"registerEvents", "createPipe", "subscribeHk", "subscribeCmd",
                     "registerTable"}
  /\ After["registerEvents"] = "createPipe"
  /\ After["createPipe"] = "subscribeHk"
  /\ After["subscribeHk"] = "subscribeCmd"
  /\ After["subscribeCmd"] = "registerTable"
  /\ After["registerTable"] = "loadTable"
BY DEF After

\* The validation function passes exactly the images in range.
LEMMA ValidInRange ==
  ASSUME NEW v \in Nat
  PROVE  TblValidationFunc(v) <=> v <= TblElement1Max
BY DEF TblValidationFunc

\* Taking a request from the pipe.
LEMMA PipeTaken ==
  ASSUME NEW pipe \in Seq(Messages), pipe # <<>>, Len(pipe) <= PipeDepth
  PROVE  /\ Head(pipe) \in Messages
         /\ Tail(pipe) \in Seq(Messages)
         /\ Len(Tail(pipe)) <= PipeDepth /\ Len(Tail(pipe)) < Len(pipe)
<1> DEFINE M == Messages
<1>1. pipe \in Seq(M)
  OBVIOUS
<1> HIDE DEF M
<1>2. Head(pipe) \in M /\ Tail(pipe) \in Seq(M) /\ Len(Tail(pipe)) = Len(pipe) - 1 /\ Len(pipe) \in Nat
  BY <1>1
<1> QED
  BY <1>2 DEF M

\* Putting a request into it.
LEMMA PipeFilled ==
  ASSUME NEW pipe \in Seq(Messages), NEW m \in Messages, Len(pipe) < PipeDepth
  PROVE  /\ Append(pipe, m) \in Seq(Messages)
         /\ Len(Append(pipe, m)) <= PipeDepth /\ Len(Append(pipe, m)) > Len(pipe)
<1> DEFINE M == Messages
<1>1. pipe \in Seq(M) /\ m \in M
  OBVIOUS
<1> HIDE DEF M
<1>2. Append(pipe, m) \in Seq(M) /\ Len(Append(pipe, m)) = Len(pipe) + 1 /\ Len(pipe) \in Nat
  BY <1>1
<1> QED
  BY <1>2 DEF M

\* A request is for one of the application's two message IDs, so a refusal has
\* one of two reasons.
LEMMA MessageKinds ==
  ASSUME NEW m \in Messages
  PROVE  /\ m.mid \in {"cmd", "sendHk"}
         /\ Reason(m) \in Reasons
         /\ Reason(m) \in {"badLength", "badCode"}
<1>1. m.mid \in {"cmd", "sendHk"}
  <2>1. CASE m \in Commands
    BY <2>1 DEF Commands
  <2>2. CASE m \in HkRequests
    BY <2>2 DEF HkRequests, HkRequest
  <2> QED
    BY <2>1, <2>2 DEF Messages
<1> QED
  BY <1>1 DEF Reason, Reasons

\* Managing a table keeps it sound, leaves the address alone, and never takes
\* the active image away without putting another in its place.
LEMMA ManagedSound ==
  ASSUME NEW t \in Tables, SoundTable(t)
  PROVE  /\ Managed(t) \in Tables
         /\ SoundTable(Managed(t))
         /\ Managed(t).locked = t.locked
         /\ t.active # NoImage => Managed(t).active # NoImage
<1>1. CASE t.verdict = "requested"
  <2> DEFINE u == [t EXCEPT !.verdict = IF TblValidationFunc(t.loaded)
                                        THEN "valid" ELSE "invalid"]
  <2>1. Managed(t) = u
    BY <1>1 DEF Managed
  <2>2. t.loaded \in Nat
    BY <1>1 DEF SoundTable, Tables, Images
  <2>3. u \in Tables /\ u.locked = t.locked /\ u.active = t.active /\ u.loaded = t.loaded
        /\ u.update = t.update
    BY DEF Tables
  <2>4. u.verdict = "valid" <=> t.loaded <= TblElement1Max
    BY <2>2, ValidInRange DEF Tables
  <2>5. u.verdict # "none" /\ t.update = FALSE
    BY <1>1 DEF SoundTable, Tables
  <2> HIDE DEF u
  <2> QED
    BY <1>1, <2>1, <2>3, <2>4, <2>5 DEF SoundTable
<1>2. CASE t.verdict # "requested" /\ t.update /\ ~t.locked
  <2> DEFINE u == [t EXCEPT !.active = t.loaded, !.loaded = NoImage,
                            !.verdict = "none", !.update = FALSE]
  <2>1. Managed(t) = u
    BY <1>2 DEF Managed
  <2>2. u \in Tables /\ u.active = t.loaded /\ u.verdict = "none" /\ u.update = FALSE
        /\ u.locked = t.locked
    BY DEF Tables, Images
  <2> HIDE DEF u
  <2> QED
    BY <1>2, <2>1, <2>2 DEF SoundTable
<1>3. CASE t.verdict # "requested" /\ ~(t.update /\ ~t.locked)
  BY <1>3 DEF Managed
<1> QED
  BY <1>1, <1>2, <1>3
-----------------------------------------------------------------------------
(* The counters.                                                            *)

\* What the dispatcher counts is a number, and nothing right after a reset.
LEMMA CountedTyped ==
  /\ refused \in [Reasons -> Nat] /\ reported \in Nat => CountedErrors \in Nat
  /\ refused' \in [Reasons -> Nat] /\ reported' \in Nat => CountedErrors' \in Nat
  /\ refused = NoRefusals /\ reported = 0 => CountedErrors = 0
  /\ refused' = NoRefusals /\ reported' = 0 => CountedErrors' = 0
BY DEF CountedErrors, Reasons, NoRefusals

\* Counters and history that are left alone stay in step.
LEMMA CountsKept ==
  ASSUME SoundCounts, UNCHANGED <<CmdCounter, ErrCounter, executed, refused, reported>>
  PROVE  SoundCounts'
<1>1. CountedErrors' = CountedErrors
  BY DEF CountedErrors
<1> QED
  BY <1>1 DEF SoundCounts

\* A handler that fails, or not, when it has counted its command already.
LEMMA FailureCounted ==
  ASSUME SoundCounts, UNCHANGED <<CmdCounter, executed, refused>>,
         UNCHANGED <<ErrCounter, reported>> \/ HandlerFails
  PROVE  SoundCounts'
<1>1. CASE UNCHANGED <<ErrCounter, reported>>
  BY <1>1, CountsKept
<1>2. CASE EdsEnabled /\ ErrCounter' = Increment(ErrCounter) /\ reported' = reported + 1
  <2>1. CountedErrors' = CountedErrors + 1 /\ CountedErrors \in Nat /\ reported' \in Nat
    BY <1>2 DEF CountedErrors, SoundCounts, Reasons
  <2>2. ErrCounter' = CountedErrors' % CounterMod
    BY <1>2, <2>1, IncrementCounts DEF SoundCounts
  <2> QED
    BY <1>2, <2>1, <2>2 DEF SoundCounts
<1> QED
  BY <1>1, <1>2 DEF HandlerFails

\* A handler that counts its command, and fails or not.
LEMMA CommandCounted ==
  ASSUME SoundCounts,
         CmdCounter' = Increment(CmdCounter), executed' = executed + 1, refused' = refused,
         UNCHANGED <<ErrCounter, reported>> \/ HandlerFails
  PROVE  SoundCounts'
<1>1. CmdCounter' = executed' % CounterMod /\ executed' \in Nat
  <2>1. executed \in Nat /\ CmdCounter = executed % CounterMod
    BY DEF SoundCounts
  <2>2. Increment(executed % CounterMod) = (executed + 1) % CounterMod
    BY <2>1, IncrementCounts
  <2> QED
    BY <2>1, <2>2
<1>2. CASE UNCHANGED <<ErrCounter, reported>>
  <2>1. CountedErrors' = CountedErrors
    BY <1>2 DEF CountedErrors
  <2> QED
    BY <1>1, <1>2, <2>1 DEF SoundCounts
<1>3. CASE EdsEnabled /\ ErrCounter' = Increment(ErrCounter) /\ reported' = reported + 1
  <2>1. CountedErrors' = CountedErrors + 1 /\ CountedErrors \in Nat /\ reported' \in Nat
    BY <1>3 DEF CountedErrors, SoundCounts, Reasons
  <2>2. ErrCounter' = CountedErrors' % CounterMod
    BY <1>3, <2>1, IncrementCounts DEF SoundCounts
  <2> QED
    BY <1>1, <2>1, <2>2 DEF SoundCounts
<1> QED
  BY <1>2, <1>3 DEF HandlerFails

\* A refusal is counted by the dispatcher that counts its reason.
LEMMA RefusalCounted ==
  ASSUME SoundCounts, NEW r \in {"badLength", "badCode"}, Refuse(r),
         refused' = [refused EXCEPT ![r] = @ + 1], UNCHANGED <<CmdCounter, executed, reported>>
  PROVE  SoundCounts'
<1>1. refused' \in [Reasons -> Nat] /\ CountedErrors \in Nat
  BY CountedTyped DEF SoundCounts, Reasons
<1>2. CASE EdsEnabled \/ r = "badLength"
  <2>1. CountedErrors' = CountedErrors + 1
    BY <1>2 DEF CountedErrors, SoundCounts, Reasons
  <2>2. ErrCounter' = CountedErrors' % CounterMod
    BY <1>1, <1>2, <2>1, IncrementCounts DEF SoundCounts, Refuse
  <2> QED
    BY <1>1, <2>2 DEF SoundCounts
<1>3. CASE ~(EdsEnabled \/ r = "badLength")
  <2>1. CountedErrors' = CountedErrors
    BY <1>3 DEF CountedErrors, SoundCounts, Reasons
  <2>2. ErrCounter' = ErrCounter
    BY <1>3 DEF Refuse
  <2> QED
    BY <1>1, <2>1, <2>2 DEF SoundCounts
<1> QED
  BY <1>2, <1>3

\* A reset starts both counts again.
LEMMA ResetCounted ==
  ASSUME CmdCounter' = 0, ErrCounter' = 0, reported' = 0, executed' = 0, refused' = NoRefusals
  PROVE  SoundCounts'
<1>1. CountedErrors' = 0 /\ refused' \in [Reasons -> Nat]
  BY CountedTyped DEF NoRefusals
<1> QED
  BY <1>1, ModOfZero DEF SoundCounts

\* Sound counts are values of the counters' types.
LEMMA CountsTyped ==
  SoundCounts => CmdCounter \in 0 .. CounterMod - 1 /\ ErrCounter \in 0 .. CounterMod - 1
<1>1. SUFFICES ASSUME SoundCounts
               PROVE  CmdCounter \in 0 .. CounterMod - 1 /\ ErrCounter \in 0 .. CounterMod - 1
  OBVIOUS
<1>2. executed \in Nat /\ CountedErrors \in Nat
  BY <1>1, CountedTyped DEF SoundCounts
<1> QED
  BY <1>1, <1>2, ModTyped DEF SoundCounts
-----------------------------------------------------------------------------
(* What FPRIME_GDS_TaskPipe makes of one request.                           *)

\* A request leaves the state sound, and the table's active image in place,
\* and the task is inside ProcessCmd or back in its loop.
Handled ==
  /\ SoundState'
  /\ pc' \in {"runLoop", "releaseAddress"}
  /\ table.active # NoImage => table'.active # NoImage

\* A housekeeping request.
LEMMA HousekeepingHandled ==
  ASSUME SoundState, pc = "receiveBuffer", SendHkCmd, UNCHANGED historyVars
  PROVE  Handled /\ HkTlm' = [commands |-> executed % CounterMod,
                              errors   |-> CountedErrors % CounterMod]
<1>1. SoundCounts'
  BY CountsKept DEF SoundState, SendHkCmd
<1>2. HkTlm' \in [commands : 0 .. CounterMod - 1, errors : 0 .. CounterMod - 1]
  BY CountsTyped DEF SoundState, SendHkCmd
<1>3. /\ table' \in Tables /\ SoundTable(table') /\ table'.locked = table.locked
      /\ table.active # NoImage => table'.active # NoImage
  BY ManagedSound DEF SoundState, SendHkCmd
<1>4. pc' = "runLoop" /\ table.locked = FALSE
  BY DEF SoundState, SendHkCmd, Tables
<1>5. HkTlm' = [commands |-> executed % CounterMod, errors |-> CountedErrors % CounterMod]
  BY DEF SoundState, SoundCounts, SendHkCmd
<1> QED
  BY <1>1, <1>2, <1>3, <1>4, <1>5 DEF Handled, SoundState, SoundTable

\* A command other than PROCESS: the table is left alone.
LEMMA SimpleCommandHandled ==
  ASSUME SoundState, pc = "receiveBuffer", SoundCounts', pc' = "runLoop", UNCHANGED <<HkTlm, table>>
  PROVE  Handled
BY DEF Handled, SoundState, SoundTable

\* A PROCESS command, up to the table's address.
LEMMA ProcessHandled ==
  ASSUME SoundState, pc = "receiveBuffer", ProcessCmd, executed' = executed + 1, refused' = refused
  PROVE  Handled
<1>1. SoundCounts'
  BY CommandCounted DEF SoundState, ProcessCmd, CountCommand
<1>2. CASE pc' = "releaseAddress" /\ table' = [table EXCEPT !.locked = TRUE]
  <2>1. /\ table' \in Tables /\ table'.locked = TRUE
        /\ table'.active = table.active /\ table'.loaded = table.loaded
        /\ table'.verdict = table.verdict /\ table'.update = table.update
    BY <1>2 DEF SoundState, Tables
  <2>2. SoundTable(table')
    BY <2>1 DEF SoundState, SoundTable
  <2> QED
    BY <1>1, <1>2, <2>1, <2>2 DEF Handled, SoundState, ProcessCmd, CountCommand
<1>3. CASE pc' = "runLoop" /\ UNCHANGED table
  BY <1>1, <1>3, SimpleCommandHandled DEF ProcessCmd, CountCommand
<1> QED
  BY <1>2, <1>3 DEF ProcessCmd

\* Every request.
LEMMA RequestHandled ==
  ASSUME SoundState, pc = "receiveBuffer", NEW m \in Messages, TaskPipe(m)
  PROVE  Handled
<1>1. CASE ~Executes(m)
  <2>1. SoundCounts'
    BY <1>1, MessageKinds, RefusalCounted DEF SoundState, TaskPipe, Remember
  <2> QED
    BY <1>1, <2>1, SimpleCommandHandled DEF TaskPipe
<1>2. CASE Executes(m) /\ m.mid = "sendHk"
  BY <1>2, HousekeepingHandled DEF TaskPipe, Handle, Remember
<1>3. CASE Executes(m) /\ m.mid = "cmd" /\ m.code = "reset"
  <2>1. ResetCountersCmd /\ executed' = 0 /\ refused' = NoRefusals
    BY <1>3 DEF TaskPipe, Handle, Remember
  <2> QED
    BY <2>1, ResetCounted, SimpleCommandHandled DEF ResetCountersCmd
<1>4. CASE Executes(m) /\ m.mid = "cmd" /\ m.code # "reset"
  <2>1. executed' = executed + 1 /\ refused' = refused /\ (NoopCmd \/ ProcessCmd)
    BY <1>4 DEF TaskPipe, Handle, Remember, DisplayParamCmd
  <2>2. CASE NoopCmd
    <3>1. SoundCounts'
      BY <2>1, <2>2, CommandCounted DEF NoopCmd, CountCommand, SoundState
    <3> QED
      BY <2>2, <3>1, SimpleCommandHandled DEF NoopCmd, CountCommand
  <2>3. CASE ProcessCmd
    BY <2>1, <2>3, ProcessHandled
  <2> QED
    BY <2>1, <2>2, <2>3
<1> QED
  BY <1>1, <1>2, <1>3, <1>4, MessageKinds
-----------------------------------------------------------------------------
(* The inductive invariant.                                                 *)

\* A step that changes neither counters, history, housekeeping packet nor
\* table, and neither enters nor leaves ProcessCmd.
LEMMA StateKept ==
  ASSUME SoundState, UNCHANGED <<countVars, historyVars, HkTlm, table>>,
         pc' = "releaseAddress" <=> pc = "releaseAddress"
  PROVE  SoundState'
BY CountsKept DEF SoundState, SoundTable

THEOREM InitIInv == Init => IInv
<1> SUFFICES ASSUME Init PROVE IInv
  OBVIOUS
<1>1. ControlTyped
  <2>1. CommandPipe \in Seq(Messages) /\ Len(CommandPipe) <= PipeDepth
    BY DEF Init
  <2>2. sentCommands \in 0 .. MaxCommands /\ ready \in SUBSET InitLabels
        /\ events \in SUBSET (InitLabels \union {"initialized"})
    BY DEF Init
  <2>3. exitRequest \in BOOLEAN
    BY DEF Init
  <2> QED
    BY <2>1, <2>2, <2>3 DEF Init, ControlTyped, Labels, InitLabels
<1>2. ObtainedInv /\ StatusInv
  BY DEF Init, ObtainedInv, StatusInv, LoopNeedsInit
<1>3. SoundCounts
  <2>1. CountedErrors = 0 /\ refused \in [Reasons -> Nat]
    BY CountedTyped DEF Init, NoRefusals
  <2> QED
    BY <2>1, ModOfZero DEF Init, SoundCounts
<1>4. table \in Tables /\ SoundTable(table) /\ table.locked = FALSE
  BY DEF Init, Tables, SoundTable, Images
<1>5. HkTlm \in [commands : 0 .. CounterMod - 1, errors : 0 .. CounterMod - 1]
  BY DEF Init, Zero
<1> QED
  BY <1>1, <1>2, <1>3, <1>4, <1>5 DEF Init, IInv, SoundState

LEMMA StepIInv == IInv /\ [Next]_vars => IInv'
<1> SUFFICES ASSUME IInv, [Next]_vars PROVE IInv'
  OBVIOUS
<1> USE DEF IInv
<1>1. ASSUME NEW label \in DOMAIN After, InitCall(label) PROVE IInv'
  <2>1. pc = label /\ label # "loadTable" /\ label \in InitLabels /\ table' = table
        /\ pc' # "releaseAddress" /\ pc # "releaseAddress"
    BY <1>1, AfterValues DEF InitCall, InitLabels
  <2>2. ControlTyped'
    BY <1>1, <2>1, AfterValues DEF InitCall, ControlTyped, Labels, InitLabels, InitFails
  <2>3. ObtainedInv'
    <3>1. CASE pc' = After[label] /\ ready' = ready \union {label} /\ UNCHANGED runVars
      BY <2>1, <3>1, AfterValues DEF ObtainedInv, LoopNeedsInit
    <3>2. CASE pc' \in {"announce", "runLoop"} /\ InitFails
      BY <3>2 DEF ObtainedInv, InitLabels, LoopNeedsInit, InitFails
    <3> QED
      BY <1>1, <3>1, <3>2 DEF InitCall
  <2>4. StatusInv'
    BY <1>1, <2>1, AfterValues DEF InitCall, StatusInv, InitFails
  <2>5. SoundState'
    BY <1>1, <2>1, StateKept DEF InitCall
  <2> QED
    BY <2>2, <2>3, <2>4, <2>5
<1>2. CASE TblLoad
  <2>1. ControlTyped' /\ StatusInv'
    BY <1>2 DEF TblLoad, ControlTyped, StatusInv, Labels, InitLabels, InitFails
  <2>2. CASE InitFails /\ UNCHANGED <<ready, table>>
    <3>1. ObtainedInv'
      BY <1>2, <2>2 DEF TblLoad, ObtainedInv, LoopNeedsInit, InitFails
    <3>2. SoundState'
      BY <1>2, <2>2, StateKept DEF TblLoad
    <3> QED
      BY <2>1, <3>1, <3>2
  <2>3. ASSUME NEW v \in Int1Values, TblValidationFunc(v), table' = [table EXCEPT !.active = v],
               ready' = ready \union {"loadTable"}, UNCHANGED runVars
        PROVE  IInv'
    <3>1. v \in Nat /\ v <= TblElement1Max /\ v # NoImage
      BY <2>3, ValidInRange
    <3>2. /\ table' \in Tables /\ table'.active = v /\ table'.locked = table.locked
          /\ table'.loaded = table.loaded /\ table'.verdict = table.verdict
          /\ table'.update = table.update
      BY <2>3 DEF SoundState, Tables, Images
    <3>3. ObtainedInv'
      BY <1>2, <2>3, <3>1, <3>2 DEF TblLoad, ObtainedInv, LoopNeedsInit, Everything
    <3>4. SoundTable(table')
      BY <3>1, <3>2 DEF SoundState, SoundTable
    <3>5. SoundCounts'
      BY <1>2, CountsKept DEF TblLoad, SoundState
    <3>6. SoundState'
      BY <1>2, <3>2, <3>4, <3>5 DEF TblLoad, SoundState
    <3> QED
      BY <2>1, <3>3, <3>6
  <2> QED
    BY <1>2, <2>2, <2>3 DEF TblLoad
<1>3. CASE Announce
  <2>1. ControlTyped' /\ StatusInv' /\ ObtainedInv'
    BY <1>3 DEF Announce, ControlTyped, StatusInv, ObtainedInv, InitLabels, LoopNeedsInit, Labels
  <2> QED
    BY <1>3, <2>1, StateKept DEF Announce
<1>4. CASE RunLoop
  <2>1. ControlTyped' /\ StatusInv'
    BY <1>4 DEF RunLoop, ControlTyped, StatusInv, Labels
  <2>2. ObtainedInv'
    BY <1>4 DEF RunLoop, ObtainedInv, InitLabels, LoopNeedsInit, Everything
  <2> QED
    BY <1>4, <2>1, <2>2, StateKept DEF RunLoop
<1>5. CASE ReceiveBuffer
  <2>1. CASE /\ CommandPipe # <<>> /\ CommandPipe' = Tail(CommandPipe)
             /\ TaskPipe(Head(CommandPipe)) /\ UNCHANGED runVars
    <3>1. Head(CommandPipe) \in Messages /\ CommandPipe' \in Seq(Messages)
          /\ Len(CommandPipe') <= PipeDepth
      BY <2>1, PipeTaken DEF ControlTyped
    <3>2. Handled
      BY <1>5, <2>1, <3>1, RequestHandled DEF ReceiveBuffer
    <3>3. ControlTyped'
      BY <1>5, <2>1, <3>1, <3>2 DEF ReceiveBuffer, ControlTyped, Handled, Labels
    <3>4. ObtainedInv'
      BY <1>5, <2>1, <3>2 DEF ReceiveBuffer, ObtainedInv, InitLabels, LoopNeedsInit, Handled, Everything
    <3>5. StatusInv'
      BY <1>5, <2>1, <3>2 DEF ReceiveBuffer, StatusInv, Handled
    <3> QED
      BY <3>2, <3>3, <3>4, <3>5 DEF Handled
  <2>2. CASE /\ pc' = "runLoop" /\ RunStatus' = "error" /\ failure' = "pipe"
             /\ UNCHANGED <<CommandPipe, countVars, historyVars, HkTlm, table>>
    <3>1. ControlTyped' /\ StatusInv' /\ ObtainedInv'
      BY <1>5, <2>2 DEF ReceiveBuffer, ControlTyped, StatusInv, ObtainedInv, InitLabels, LoopNeedsInit, Labels
    <3> QED
      BY <1>5, <2>2, <3>1, StateKept DEF ReceiveBuffer
  <2> QED
    BY <1>5, <2>1, <2>2 DEF ReceiveBuffer
<1>6. CASE ReleaseAddress
  <2>1. ControlTyped' /\ StatusInv'
    BY <1>6 DEF ReleaseAddress, ControlTyped, StatusInv, Labels
  <2>2. /\ table' \in Tables /\ table'.active = table.active /\ table'.locked = FALSE
        /\ table'.loaded = table.loaded /\ table'.verdict = table.verdict
        /\ table'.update = table.update
    BY <1>6 DEF ReleaseAddress, SoundState, Tables
  <2>3. ObtainedInv'
    BY <1>6, <2>2 DEF ReleaseAddress, ObtainedInv, InitLabels, LoopNeedsInit, Everything
  <2>4. SoundCounts'
    BY <1>6, FailureCounted DEF ReleaseAddress, SoundState
  <2>5. SoundTable(table')
    BY <2>2 DEF SoundState, SoundTable
  <2>6. SoundState'
    BY <1>6, <2>2, <2>4, <2>5 DEF ReleaseAddress, SoundState
  <2> QED
    BY <2>1, <2>3, <2>6
<1>7. CASE ExitApp
  <2>1. ControlTyped' /\ StatusInv' /\ ObtainedInv'
    BY <1>7 DEF ExitApp, ControlTyped, StatusInv, ObtainedInv, InitLabels, LoopNeedsInit, Labels
  <2> QED
    BY <1>7, <2>1, StateKept DEF ExitApp
<1>8. CASE HkArrives \/ CommandArrives
  <2>1. PICK m \in Messages : Deliver(m)
    BY <1>8 DEF HkArrives, CommandArrives, Messages, HkRequests, HkRequest
  <2>2. CommandPipe' \in Seq(Messages) /\ Len(CommandPipe') <= PipeDepth
    BY <2>1, PipeFilled DEF Deliver, ControlTyped
  <2>3. sentCommands' \in 0 .. MaxCommands
    <3>1. CASE sentCommands' = sentCommands
      BY <3>1 DEF ControlTyped
    <3>2. CASE sentCommands < MaxCommands /\ sentCommands' = sentCommands + 1
      BY <3>2 DEF ControlTyped
    <3> QED
      BY <1>8, <3>1, <3>2 DEF HkArrives, CommandArrives
  <2>4. ControlTyped' /\ StatusInv' /\ ObtainedInv'
    BY <2>1, <2>2, <2>3 DEF Deliver, ControlTyped, StatusInv, ObtainedInv, LoopNeedsInit
  <2> QED
    BY <2>1, <2>4, StateKept DEF Deliver
<1>9. CASE GroundLoads
  <2>1. PICK v \in Int1Values : table' = [table EXCEPT !.loaded = v, !.verdict = "requested"]
    BY <1>9 DEF GroundLoads
  <2>2. /\ table' \in Tables /\ table'.active = table.active /\ table'.locked = table.locked
        /\ table'.loaded = v /\ table'.verdict = "requested" /\ table'.update = table.update
        /\ v # NoImage
    BY <2>1 DEF SoundState, Tables, Images
  <2>3. ControlTyped' /\ StatusInv' /\ ObtainedInv'
    BY <1>9, <2>2 DEF GroundLoads, ControlTyped, StatusInv, ObtainedInv, LoopNeedsInit
  <2>4. SoundTable(table')
    BY <1>9, <2>2 DEF GroundLoads, SoundState, SoundTable
  <2>5. SoundCounts'
    BY <1>9, CountsKept DEF GroundLoads, SoundState
  <2>6. SoundState'
    BY <1>9, <2>2, <2>4, <2>5 DEF GroundLoads, SoundState
  <2> QED
    BY <2>3, <2>6
<1>10. CASE GroundActivates
  <2>1. /\ table' \in Tables /\ table'.active = table.active /\ table'.locked = table.locked
        /\ table'.loaded = table.loaded /\ table'.verdict = "valid" /\ table'.update = TRUE
    BY <1>10 DEF GroundActivates, SoundState, Tables
  <2>2. ControlTyped' /\ StatusInv' /\ ObtainedInv'
    BY <1>10, <2>1 DEF GroundActivates, ControlTyped, StatusInv, ObtainedInv, LoopNeedsInit
  <2>3. SoundTable(table')
    BY <1>10, <2>1 DEF GroundActivates, SoundState, SoundTable
  <2>4. SoundCounts'
    BY <1>10, CountsKept DEF GroundActivates, SoundState
  <2>5. SoundState'
    BY <1>10, <2>1, <2>3, <2>4 DEF GroundActivates, SoundState
  <2> QED
    BY <2>2, <2>5
<1>11. CASE EsRequestsExit
  <2>1. ControlTyped' /\ StatusInv' /\ ObtainedInv'
    BY <1>11 DEF EsRequestsExit, ControlTyped, StatusInv, ObtainedInv, LoopNeedsInit
  <2> QED
    BY <1>11, <2>1, StateKept DEF EsRequestsExit
<1>12. CASE UNCHANGED vars
  <2>1. ControlTyped' /\ StatusInv' /\ ObtainedInv'
    BY <1>12 DEF vars, ControlTyped, StatusInv, ObtainedInv, LoopNeedsInit
  <2> QED
    BY <1>12, <2>1, StateKept DEF vars
<1> QED
  BY <1>1, <1>2, <1>3, <1>4, <1>5, <1>6, <1>7, <1>8, <1>9, <1>10, <1>11, <1>12
     DEF Next, FPRIME_GDS_Main, FPRIME_GDS_Init, Surroundings

\* The inductive invariant holds in every reachable state.
LEMMA Invariance == Spec => []IInv
BY InitIInv, StepIInv, PTL DEF Spec
-----------------------------------------------------------------------------
(* The properties.                                                          *)

\* Every variable has its type, the counters that of their width: they never
\* leave it, however many commands and refusals they count.
THEOREM TypeCorrect == Spec => []TypeOK
<1>1. IInv => TypeOK
  <2> SUFFICES ASSUME IInv PROVE TypeOK
    OBVIOUS
  <2>1. CmdCounter \in 0 .. CounterMod - 1 /\ ErrCounter \in 0 .. CounterMod - 1
    BY CountsTyped DEF IInv, SoundState
  <2> QED
    BY <2>1 DEF IInv, ControlTyped, SoundState, SoundCounts, Tables, TypeOK
<1> QED
  BY <1>1, Invariance, PTL

\* The chain of status checks of FPRIME_GDS_Init does what it is for: the
\* loop's body runs with everything obtained and a table loaded.
THEOREM LoopAfterInit == Spec => []LoopNeedsInit
<1>1. IInv => LoopNeedsInit
  BY DEF IInv, ObtainedInv
<1> QED
  BY <1>1, Invariance, PTL

\* FPRIME_GDS_TblValidationFunc keeps images out of range from the
\* application, whatever is loaded, validated and activated in which order.
THEOREM TableInRange == Spec => []ActiveTableValid
<1>1. IInv => ActiveTableValid
  BY DEF IInv, SoundState, SoundTable, ActiveTableValid
<1> QED
  BY <1>1, Invariance, PTL

\* ProcessCmd gives the table's address back on every path.
THEOREM AddressReturned == Spec => []AddressGivenBack
<1>1. IInv => AddressGivenBack
  BY DEF IInv, SoundState, AddressGivenBack
<1> QED
  BY <1>1, Invariance, PTL

\* The status FPRIME_GDS_Main exits with is the reason it exits for.
THEOREM HonestExit == Spec => []ExitStatusHonest
<1>1. IInv => ExitStatusHonest
  BY DEF IInv, ControlTyped, StatusInv, ExitStatusHonest
<1> QED
  BY <1>1, Invariance, PTL

\* A step that takes a housekeeping request from the pipe is SendHkCmd's.
LEMMA HousekeepingManages ==
  ASSUME IInv, [Next]_vars, HousekeepingTaken
  PROVE  ReceiveBuffer /\ SendHkCmd /\ UNCHANGED historyVars
<1>1. CommandPipe \in Seq(Messages) /\ Len(CommandPipe) <= PipeDepth
  BY DEF IInv, ControlTyped
<1>2. CommandPipe' # CommandPipe
  BY <1>1 DEF HousekeepingTaken
<1>3. \A m \in Messages : ~Deliver(m)
  <2> SUFFICES ASSUME NEW m \in Messages, Deliver(m) PROVE FALSE
    OBVIOUS
  <2>1. CommandPipe' = Append(CommandPipe, m) /\ Len(CommandPipe) < PipeDepth
    BY DEF Deliver
  <2>2. Len(CommandPipe') > Len(CommandPipe) /\ Len(CommandPipe') \in Nat /\ Len(CommandPipe) \in Nat
    BY <1>1, <2>1, PipeFilled
  <2> QED
    BY <2>2 DEF HousekeepingTaken
<1>4. ReceiveBuffer
  <2>1. ~HkArrives /\ ~CommandArrives
    BY <1>3 DEF HkArrives, CommandArrives, Messages, HkRequests, HkRequest
  <2> QED
    BY <1>2, <2>1
       DEF Next, FPRIME_GDS_Main, FPRIME_GDS_Init, Surroundings, InitCall, TblLoad, Announce,
           RunLoop, ReleaseAddress, ExitApp, GroundLoads, GroundActivates, EsRequestsExit, vars
<1>5. LET m == Head(CommandPipe)
      IN  m \in Messages /\ TaskPipe(m) /\ m.mid = "sendHk" /\ Executes(m)
  BY <1>1, <1>2, <1>4, PipeTaken DEF ReceiveBuffer, HousekeepingTaken
<1>6. SendHkCmd /\ UNCHANGED historyVars
  BY <1>5 DEF TaskPipe, Handle, Remember
<1> QED
  BY <1>4, <1>6

\* Its answer is true.
LEMMA HousekeepingStep ==
  ASSUME IInv, [Next]_vars, HousekeepingTaken
  PROVE  HkTlm' = [commands |-> executed % CounterMod, errors |-> CountedErrors % CounterMod]
BY HousekeepingManages, HousekeepingHandled DEF IInv, ReceiveBuffer

\* A housekeeping packet tells the ground the true number of commands executed
\* and refused since the last reset, modulo the width of the counters.
THEOREM TruthfulHousekeeping == Spec => HousekeepingTruthful
<1>1. IInv /\ [Next]_vars =>
        [HousekeepingTaken => HkTlm' = [commands |-> executed % CounterMod,
                                        errors   |-> CountedErrors % CounterMod]]_vars
  BY HousekeepingStep
<1> QED
  BY <1>1, Invariance, PTL DEF Spec, HousekeepingTruthful
-----------------------------------------------------------------------------
(* The table: what the application makes of the ground's loads and          *)
(* activations.                                                             *)

\* Where the task enters ProcessCmd the table is the application's; elsewhere in
\* the loop nothing bars an update.
LEMMA TableInLoop ==
  ASSUME IInv, pc = "receiveBuffer"
  PROVE  /\ table \in Tables /\ SoundTable(table)
         /\ table.locked = FALSE /\ table.active # NoImage
BY DEF IInv, SoundState, ObtainedInv, LoopNeedsInit, Tables

\* Managing the table is a step of its contract, or none.
LEMMA ManagedKeeps ==
  ASSUME IInv, pc = "receiveBuffer", table' = Managed(table)
  PROVE  UNCHANGED Contract!tvars \/ Contract!Replace
<1> USE TableInLoop DEF Tables
<1>1. CASE table.verdict = "requested"
  BY <1>1 DEF Managed, Contract!tvars
<1>2. CASE table.verdict # "requested" /\ table.update
  BY <1>2 DEF Managed, Contract!Replace
<1>3. CASE table.verdict # "requested" /\ ~table.update
  BY <1>3 DEF Managed, Contract!tvars
<1> QED
  BY <1>1, <1>2, <1>3

\* A request uses the table, manages it, or does not touch it.
LEMMA RequestKeeps ==
  ASSUME IInv, ReceiveBuffer
  PROVE  UNCHANGED Contract!tvars \/ Contract!Replace \/ Contract!Use
<1>1. CASE table' = table
  BY <1>1 DEF Contract!tvars
<1>2. CASE SendHkCmd
  BY <1>2, ManagedKeeps DEF ReceiveBuffer, SendHkCmd
<1>3. CASE table' = [table EXCEPT !.locked = TRUE]
  BY <1>3, TableInLoop DEF ReceiveBuffer, Tables, Contract!Use
<1> QED
  BY <1>1, <1>2, <1>3
     DEF ReceiveBuffer, TaskPipe, Handle, NoopCmd, DisplayParamCmd, ResetCountersCmd, ProcessCmd

\* FPRIME_GDS_Init loads the first image, into an empty table.
LEMMA LoadKeeps ==
  ASSUME IInv, TblLoad
  PROVE  UNCHANGED Contract!tvars \/ Contract!Boot
<1>1. CASE UNCHANGED table
  BY <1>1 DEF Contract!tvars
<1>2. ASSUME NEW v \in Int1Values, TblValidationFunc(v), table' = [table EXCEPT !.active = v]
      PROVE  Contract!Boot
  <2>1. table.active = NoImage /\ table \in Tables
    BY DEF TblLoad, IInv, ObtainedInv, SoundState, InitLabels
  <2>2. v \in Nat /\ v # NoImage /\ v <= TblElement1Max
    BY <1>2, ValidInRange
  <2>3. /\ table'.active = v /\ table'.loaded = table.loaded
        /\ table'.update = table.update /\ table'.locked = table.locked
    BY <1>2, <2>1 DEF Tables
  <2> QED
    BY <2>1, <2>2, <2>3 DEF Contract!Boot, Contract!InRange
<1> QED
  BY <1>1, <1>2 DEF TblLoad

\* The end of ProcessCmd gives the address back.
LEMMA ReleaseKeeps ==
  ASSUME IInv, ReleaseAddress
  PROVE  Contract!Done
BY DEF IInv, SoundState, Tables, ReleaseAddress, Contract!Done

\* A load is an offer, and an activation is of an image that was found valid.
LEMMA GroundKeeps ==
  ASSUME IInv
  PROVE  /\ GroundLoads => Contract!Offer
         /\ GroundActivates => Contract!Activate
<1> USE DEF IInv, SoundState, Tables
<1>1. ASSUME GroundLoads PROVE Contract!Offer
  BY <1>1 DEF GroundLoads, Contract!Offer
<1>2. ASSUME GroundActivates PROVE Contract!Activate
  BY <1>2 DEF GroundActivates, SoundTable, Contract!Activate, Contract!InRange
<1> QED
  BY <1>1, <1>2

LEMMA TableContractStep == IInv /\ [Next]_vars => [Contract!Next]_Contract!tvars
<1> SUFFICES ASSUME IInv, [Next]_vars PROVE [Contract!Next]_Contract!tvars
  OBVIOUS
<1> USE DEF Contract!Next
<1>1. CASE TblLoad
  BY <1>1, LoadKeeps
<1>2. CASE ReceiveBuffer
  BY <1>2, RequestKeeps
<1>3. CASE ReleaseAddress
  BY <1>3, ReleaseKeeps
<1>4. CASE GroundLoads \/ GroundActivates
  BY <1>4, GroundKeeps
<1>5. CASE UNCHANGED table
  BY <1>5 DEF Contract!tvars
<1>6. CASE \/ \E label \in DOMAIN After : InitCall(label)
           \/ Announce \/ RunLoop \/ ExitApp
           \/ HkArrives \/ CommandArrives \/ EsRequestsExit \/ UNCHANGED vars
  BY <1>5, <1>6 DEF InitCall, Announce, RunLoop, ExitApp, HkArrives, CommandArrives, Deliver,
     EsRequestsExit, vars
<1> QED
  BY <1>1, <1>2, <1>3, <1>4, <1>6 DEF Next, FPRIME_GDS_Main, FPRIME_GDS_Init, Surroundings

LEMMA TableContractInit == Init => Contract!Init
BY DEF Init, Contract!Init

\* The image in use changes only by an image in range that the ground activated,
\* never under the application's hands, and is the table file's until then.
THEOREM TableKeepsContract == Spec => KeepsTableContract
BY Invariance, TableContractInit, TableContractStep, PTL
   DEF Spec, KeepsTableContract, Contract!Spec

\* What the contract promises, it keeps: an offer is in range when it is
\* activated and is not replaced until it is in use.
LEMMA ContractKeepsPromises == Contract!Spec => []Contract!Promises
<1> USE DEF Contract!Promises, Contract!InRange
<1>1. Contract!Init => Contract!Promises
  BY DEF Contract!Init
<1>2. Contract!Promises /\ [Contract!Next]_Contract!tvars => Contract!Promises'
  BY DEF Contract!Next, Contract!tvars, Contract!Boot, Contract!Offer, Contract!Activate,
         Contract!Replace, Contract!Use, Contract!Done
<1> QED
  BY <1>1, <1>2, PTL DEF Contract!Spec

\* The table's image is in range, is there from the table file's on, and gives
\* way only to what the ground activated, never under the application's hands.
THEOREM TablePromises == Spec => []Contract!Promises /\ Contract!NothingSlipsIn
<1>1. Contract!Promises /\ [Contract!Next]_Contract!tvars => [Contract!Steady]_Contract!tvars
  <2> SUFFICES ASSUME Contract!Promises, Contract!Next PROVE Contract!Steady
    BY DEF Contract!tvars
  <2> USE DEF Contract!Steady
  <2>1. CASE Contract!Boot
    BY <2>1 DEF Contract!Boot
  <2>2. CASE Contract!Replace
    BY <2>2 DEF Contract!Replace, Contract!Promises, Contract!InRange
  <2>3. CASE Contract!Offer \/ Contract!Activate \/ Contract!Use \/ Contract!Done
    BY <2>3 DEF Contract!Offer, Contract!Activate, Contract!Use, Contract!Done
  <2> QED
    BY <2>1, <2>2, <2>3 DEF Contract!Next
<1> QED
  BY <1>1, ContractKeepsPromises, TableKeepsContract, PTL
     DEF KeepsTableContract, Contract!Spec, Contract!NothingSlipsIn

\* A housekeeping request manages the table: an activated image is in use after
\* it, and a pending validation decided.
THEOREM HousekeepingUpdates == Spec => UpdatesTakeEffect
<1> DEFINE Effect ==
      /\ table.update => table'.active = table.loaded /\ ~table'.update
      /\ table.verdict = "requested" =>
           table'.verdict = IF table.loaded <= TblElement1Max THEN "valid" ELSE "invalid"
<1>1. IInv /\ [Next]_vars => [HousekeepingTaken => Effect]_vars
  <2> SUFFICES ASSUME IInv, [Next]_vars, HousekeepingTaken PROVE Effect
    OBVIOUS
  <2>1. pc = "receiveBuffer" /\ table' = Managed(table)
    BY HousekeepingManages DEF ReceiveBuffer, SendHkCmd
  <2>2. /\ table \in Tables /\ SoundTable(table) /\ table.locked = FALSE
    BY <2>1, TableInLoop
  <2>3. CASE table.verdict = "requested"
    <3>1. table.loaded \in Nat /\ ~table.update
      BY <2>2, <2>3 DEF SoundTable, Tables, Images
    <3> QED
      BY <2>1, <2>2, <2>3, <3>1, ValidInRange DEF Managed, Tables
  <2>4. CASE table.verdict # "requested" /\ table.update
    BY <2>1, <2>2, <2>4 DEF Managed, Tables
  <2> QED
    BY <2>3, <2>4
<1> QED
  BY <1>1, Invariance, PTL DEF Spec, UpdatesTakeEffect
-----------------------------------------------------------------------------
(* The way out.                                                             *)

\* Where each call of the task leads.
LEMMA CallLeadsOn ==
  ASSUME FPRIME_GDS_Main, Leaving
  PROVE  CallsLeft[pc'] < CallsLeft[pc]
<1>1. ASSUME NEW label \in DOMAIN After, InitCall(label)
      PROVE  pc = label /\ pc' \in {After[label], "announce", "runLoop"}
             /\ (pc' = "announce" => label = "registerTable")
  <2>1. label \in DOMAIN After /\ After[label] # "announce"
    BY AfterValues
  <2> QED
    BY <1>1, <2>1, Zenon DEF InitCall
<1>2. CASE \E label \in DOMAIN After : InitCall(label)
  BY <1>1, <1>2, AfterValues DEF CallsLeft
<1>3. CASE TblLoad
  <2>1. pc = "loadTable" /\ pc' = "announce"
    BY <1>3 DEF TblLoad
  <2> QED
    BY <2>1 DEF CallsLeft
<1>4. CASE Announce \/ ExitApp
  <2>1. \/ pc = "announce" /\ pc' = "runLoop"
        \/ pc = "exitApp" /\ pc' = "exited"
    BY <1>4 DEF Announce, ExitApp
  <2> QED
    BY <2>1 DEF CallsLeft
<1>5. CASE RunLoop
  <2>1. pc = "runLoop" /\ pc' = "exitApp"
    BY <1>5 DEF RunLoop, Leaving
  <2> QED
    BY <2>1 DEF CallsLeft
<1>6. CASE ReceiveBuffer
  <2>1. pc = "receiveBuffer" /\ pc' \in {"runLoop", "releaseAddress"}
    BY <1>6, Zenon DEF ReceiveBuffer, TaskPipe, Handle, SendHkCmd, NoopCmd, DisplayParamCmd,
       ResetCountersCmd, ProcessCmd
  <2> QED
    BY <2>1 DEF CallsLeft
<1>7. CASE ReleaseAddress
  <2>1. pc = "releaseAddress" /\ pc' = "runLoop"
    BY <1>7 DEF ReleaseAddress
  <2> QED
    BY <2>1 DEF CallsLeft
<1> QED
  BY <1>2, <1>3, <1>4, <1>5, <1>6, <1>7 DEF FPRIME_GDS_Main, FPRIME_GDS_Init

\* The surroundings ask, and otherwise leave the task where it is.
LEMMA SurroundingsKeepPlace ==
  ASSUME Surroundings \/ UNCHANGED vars
  PROVE  pc' = pc /\ RunStatus' = RunStatus /\ (exitRequest => exitRequest')
<1>1. ASSUME NEW m, Deliver(m)
      PROVE  pc' = pc /\ RunStatus' = RunStatus /\ exitRequest' = exitRequest
  BY <1>1 DEF Deliver
<1>2. CASE HkArrives \/ CommandArrives
  BY <1>1, <1>2, Zenon DEF HkArrives, CommandArrives
<1>3. CASE GroundLoads \/ GroundActivates
  <2>1. pc' = pc /\ RunStatus' = RunStatus /\ exitRequest' = exitRequest
    BY <1>3 DEF GroundLoads, GroundActivates
  <2> QED
    BY <2>1, Zenon
<1>4. CASE EsRequestsExit
  <2>1. pc' = pc /\ RunStatus' = RunStatus
    BY <1>4 DEF EsRequestsExit
  <2>2. exitRequest'
    BY <1>4, Zenon DEF EsRequestsExit
  <2> QED
    BY <2>1, <2>2
<1>5. CASE UNCHANGED vars
  BY <1>5 DEF vars
<1> QED
  BY <1>2, <1>3, <1>4, <1>5 DEF Surroundings

\* A request is the last one before the next call of CFE_ES_RunLoop, and a
\* status that ends the loop is never taken back.
THEOREM ExitIsFinite == Spec => ExitRunsOut
<1> DEFINE Leads == pc' = pc \/ CallsLeft[pc'] < CallsLeft[pc]
<1>1. ASSUME [Next]_vars, Leaving PROVE Leaving' /\ Leads
  <2>1. CASE FPRIME_GDS_Main
    <3>1. ASSUME NEW label \in DOMAIN After, InitCall(label) PROVE Leaving'
      BY <1>1, <3>1 DEF InitCall, InitFails, Leaving
    <3>2. ASSUME ~\E label \in DOMAIN After : InitCall(label) PROVE Leaving'
      BY <1>1, <2>1, <3>2 DEF FPRIME_GDS_Main, FPRIME_GDS_Init, TblLoad, Announce, InitFails,
         RunLoop, ReceiveBuffer, ReleaseAddress, ExitApp, Leaving
    <3> QED
      BY <1>1, <2>1, <3>1, <3>2, CallLeadsOn
  <2>2. CASE Surroundings \/ UNCHANGED vars
    BY <1>1, <2>2, SurroundingsKeepPlace DEF Leaving
  <2> QED
    BY <1>1, <2>1, <2>2 DEF Next
<1>2. [Next]_vars => [Leaving => Leaving' /\ Leads]_vars
  BY <1>1
<1> QED
  BY <1>2, PTL DEF Spec, ExitRunsOut
=============================================================================
