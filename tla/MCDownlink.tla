---------------------------- MODULE MCDownlink ----------------------------
(* Downlink for TLC: packets too short, of half a frame and of a whole one. *)
EXTENDS Downlink

MCSizes == {0, 1, 2}
=============================================================================
