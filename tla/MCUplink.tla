------------------------------ MODULE MCUplink ------------------------------
(* Uplink for TLC: as few buffers as the assumption allows.                 *)
EXTENDS Uplink

MCPolicies == {"assert", "block", "hook"}
=============================================================================
