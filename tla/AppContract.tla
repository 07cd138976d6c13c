----------------------------- MODULE AppContract -----------------------------
(***************************************************************************)
(* What the cFS executive (and an operator) may rely on when it runs the    *)
(* GDS bridge as an application, independently of how the application is   *)
(* written: an application that fails to initialise leaves nothing behind; *)
(* it serves only when all its tasks run; it gives its resources back only *)
(* after every task is gone; and when it is gone nothing of it is left.    *)
(*                                                                         *)
(* BridgeLifecycle is shown to implement this specification.               *)
(***************************************************************************)

CONSTANT Tasks  \* the tasks the application starts beside its main task

VARIABLES
  phase,   \* what the application as a whole is doing
  alive,   \* tasks started and not yet joined
  held     \* TRUE while the application owns allocated memory

cvars == <<phase, alive, held>>

Phases == {"starting", "failed", "serving", "closing", "gone"}

TypeOK ==
  /\ phase \in Phases
  /\ alive \in SUBSET Tasks
  /\ held \in BOOLEAN

Init ==
  /\ phase = "starting"
  /\ alive = {}
  /\ held = FALSE

Empty == alive = {} /\ ~held

-----------------------------------------------------------------------------
Acquire ==
  /\ phase = "starting"
  /\ Empty
  /\ held' = TRUE
  /\ UNCHANGED <<phase, alive>>

\* A task runs only on allocated memory.
Spawn(t) ==
  /\ phase = "starting"
  /\ held
  /\ t \notin alive
  /\ alive' = alive \union {t}
  /\ UNCHANGED <<phase, held>>

\* Initialisation fails before anything was acquired.
Fail ==
  /\ phase = "starting"
  /\ Empty
  /\ phase' = "failed"
  /\ UNCHANGED <<alive, held>>

Serve ==
  /\ phase = "starting"
  /\ alive = Tasks
  /\ held
  /\ phase' = "serving"
  /\ UNCHANGED <<alive, held>>

Close ==
  /\ phase \in {"starting", "failed", "serving"}
  /\ phase' = "closing"
  /\ UNCHANGED <<alive, held>>

Reap(t) ==
  /\ phase = "closing"
  /\ t \in alive
  /\ alive' = alive \ {t}
  /\ UNCHANGED <<phase, held>>

\* Memory goes only after the tasks that use it.
Release ==
  /\ phase = "closing"
  /\ alive = {}
  /\ held
  /\ held' = FALSE
  /\ UNCHANGED <<phase, alive>>

\* The application record is removed; nothing of the application is left.
Vanish ==
  /\ phase = "closing"
  /\ Empty
  /\ phase' = "gone"
  /\ UNCHANGED <<alive, held>>

Next ==
  \/ Acquire
  \/ \E t \in Tasks : Spawn(t) \/ Reap(t)
  \/ Fail
  \/ Serve
  \/ Close
  \/ Release
  \/ Vanish

Spec == Init /\ [][Next]_cvars
-----------------------------------------------------------------------------
\* What follows for whoever relies on the contract: tasks never run without
\* memory, service needs all of them, and an application that failed or is
\* gone holds nothing.
Promises ==
  /\ alive # {} => held
  /\ phase = "serving" => alive = Tasks /\ held
  /\ phase \in {"failed", "gone"} => Empty

\* Once an application is closing it takes nothing more, and gone it stays.
OnlyGivesBack ==
  phase \in {"closing", "gone"} =>
    /\ phase' \in {phase, "gone"}
    /\ alive' \subseteq alive
    /\ held' => held

NothingNew == [][OnlyGivesBack]_cvars
=============================================================================
