--------------------------- MODULE AppContractProofs ---------------------------
(***************************************************************************)
(* Proofs about AppContract, for every set of tasks: the contract is       *)
(* strong enough for what the executive and an operator want to know of an *)
(* application. The bridge keeps the contract, and so these promises.      *)
(***************************************************************************)
EXTENDS AppContract, TLAPS

LEMMA PromisesInit == Init => TypeOK /\ Promises
BY DEF Init, TypeOK, Phases, Promises, Empty

LEMMA PromisesStep == TypeOK /\ Promises /\ [Next]_cvars => TypeOK' /\ Promises'
<1> SUFFICES ASSUME TypeOK, Promises, [Next]_cvars PROVE TypeOK' /\ Promises'
  OBVIOUS
<1> USE DEF TypeOK, Phases, Promises, Empty
<1>1. CASE Acquire
  BY <1>1 DEF Acquire
<1>2. ASSUME NEW t \in Tasks, Spawn(t) PROVE TypeOK' /\ Promises'
  BY <1>2 DEF Spawn
<1>3. ASSUME NEW t \in Tasks, Reap(t) PROVE TypeOK' /\ Promises'
  BY <1>3 DEF Reap
<1>4. CASE Fail
  BY <1>4 DEF Fail
<1>5. CASE Serve
  BY <1>5 DEF Serve
<1>6. CASE Close
  BY <1>6 DEF Close
<1>7. CASE Release
  BY <1>7 DEF Release
<1>8. CASE Vanish
  BY <1>8 DEF Vanish
<1>9. CASE UNCHANGED cvars
  BY <1>9 DEF cvars
<1> QED
  BY <1>1, <1>2, <1>3, <1>4, <1>5, <1>6, <1>7, <1>8, <1>9 DEF Next

LEMMA ContractInvariant == Spec => [](TypeOK /\ Promises)
BY PromisesInit, PromisesStep, PTL DEF Spec

\* Whatever keeps the contract never runs a task without memory, serves with
\* all its tasks, and leaves nothing behind when it failed or is gone.
THEOREM ContractPromises == Spec => []Promises
BY ContractInvariant, PTL

\* Whatever keeps the contract only gives back while it closes.
THEOREM ContractCloses == Spec => NothingNew
<1>1. TypeOK /\ Promises /\ [Next]_cvars => [OnlyGivesBack]_cvars
  BY DEF Next, Acquire, Spawn, Fail, Serve, Close, Reap, Release, Vanish, cvars, Empty,
         OnlyGivesBack, Promises, TypeOK, Phases
<1> QED
  BY <1>1, ContractInvariant, PTL DEF Spec, NothingNew
=============================================================================
