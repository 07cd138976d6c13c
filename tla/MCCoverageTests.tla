-------------------------- MODULE MCCoverageTests --------------------------
(* The executables of a build with the plain dispatcher, which is what      *)
(* CMakeLists.txt selects without an EDS.                                   *)
EXTENDS CoverageTests

PlainExecutables == {"fprime_gds", "fprime_gds_dispatch", "fprime_gds_cmds", "fprime_gds_utils"}
=============================================================================
