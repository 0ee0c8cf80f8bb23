---------------------------- MODULE MCBridgeCalls ----------------------------
(* Model-checking instances of BridgeCalls.                                  *)
EXTENDS BridgeCalls

CONSTANTS d1, d2, d3, i1

\* Calls with different ids share nothing: one id, and a frame with duplicates.
OneId == [d \in Dispatches |-> i1]
===============================================================================
