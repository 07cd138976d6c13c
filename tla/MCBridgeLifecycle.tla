-------------------------- MODULE MCBridgeLifecycle --------------------------
(* BridgeLifecycle for TLC: a subscription list long enough to fail at its  *)
(* first, a middle and its last element.                                    *)
EXTENDS BridgeLifecycle
=============================================================================
