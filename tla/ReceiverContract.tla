--------------------------- MODULE ReceiverContract ---------------------------
(***************************************************************************)
(* What the topology may rely on when it starts and stops the receive task *)
(* of the TCP driver: a driver that was told to stop is not started, its   *)
(* task ends only when told to, and once, and is joined only when it has   *)
(* ended.                                                                  *)
(*                                                                         *)
(* Two models contain that task: BridgeLifecycle, with the application's    *)
(* life around it, and Uplink, with the frames it reads. Both are shown to *)
(* implement this specification, which is what they have to agree on.      *)
(***************************************************************************)

VARIABLES
  task,   \* absent, running, ended or joined
  told    \* TRUE once the driver was told to stop

rvars == <<task, told>>

\* Uplink begins when the task has been started.
Init == task \in {"absent", "running"} /\ told = FALSE

Start == task = "absent" /\ ~told /\ task' = "running" /\ UNCHANGED told

Tell == ~told /\ told' = TRUE /\ UNCHANGED task

End == task = "running" /\ told /\ task' = "ended" /\ UNCHANGED told

Join == task = "ended" /\ task' = "joined" /\ UNCHANGED told

Next == Start \/ Tell \/ End \/ Join

Spec == Init /\ [][Next]_rvars
=============================================================================
