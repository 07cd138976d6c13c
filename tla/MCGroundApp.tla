----------------------------- MODULE MCGroundApp -----------------------------
(* GroundApp for TLC: counters that wrap after three, a pipe of two, and      *)
(* table images on both sides of the limit (10 in the default configuration). *)
EXTENDS GroundApp

MCInt1Values == {10, 11}
=============================================================================
