---------------------------- MODULE TableContract ----------------------------
(***************************************************************************)
(* What the ground may rely on when it changes the example table of the    *)
(* application, however the table services and the application share the   *)
(* work: only an image in range is ever activated, the image the           *)
(* application works with is the one of its table file until an activated  *)
(* one replaces it, nothing else replaces it, and none does while the      *)
(* application holds its address.                                          *)
(*                                                                         *)
(* GroundApp is shown to implement this specification.                     *)
(***************************************************************************)
EXTENDS Naturals

CONSTANTS
  Images,    \* the images there are: the values of their first element
  Limit,     \* the largest value in range
  None       \* no image

VARIABLES
  active,    \* the image the application works with
  offered,   \* the image the ground has loaded
  activated, \* TRUE once the ground may count on the offered image
  inUse      \* TRUE while the application holds the table's address

tvars == <<active, offered, activated, inUse>>

InRange(v) == v # None /\ v <= Limit

Init ==
  /\ active = None /\ offered = None
  /\ activated = FALSE /\ inUse = FALSE

\* The table file, once.
Boot ==
  /\ active = None
  /\ \E v \in Images : InRange(v) /\ active' = v
  /\ UNCHANGED <<offered, activated, inUse>>

\* An offer may be replaced until it is activated.
Offer ==
  /\ ~activated
  /\ offered' \in Images
  /\ UNCHANGED <<active, activated, inUse>>

Activate ==
  /\ ~activated /\ InRange(offered)
  /\ activated' = TRUE
  /\ UNCHANGED <<active, offered, inUse>>

Replace ==
  /\ activated /\ active # None /\ ~inUse
  /\ active' = offered
  /\ offered' = None /\ activated' = FALSE
  /\ UNCHANGED inUse

Use ==
  /\ active # None /\ ~inUse
  /\ inUse' = TRUE
  /\ UNCHANGED <<active, offered, activated>>

Done ==
  /\ inUse
  /\ inUse' = FALSE
  /\ UNCHANGED <<active, offered, activated>>

Next == Boot \/ Offer \/ Activate \/ Replace \/ Use \/ Done

Spec == Init /\ [][Next]_tvars
-----------------------------------------------------------------------------
(* What the ground gains by it (proved in GroundAppProofs).                 *)

\* The image in use is in range, and so is the one that waits to replace it, so
\* that no check is left to fail when it does; an address held is that of an image.
Promises ==
  /\ active # None => InRange(active)
  /\ activated => InRange(offered)
  /\ inUse => active # None

\* From the table file's image on there is always one in use, and it gives way
\* only to the one the ground activated, and only while nobody works with it.
Steady ==
  active # None =>
    /\ active' # None
    /\ active' # active => activated /\ active' = offered /\ ~inUse /\ ~inUse'

NothingSlipsIn == [][Steady]_tvars
=============================================================================
