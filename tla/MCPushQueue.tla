----------------------------- MODULE MCPushQueue -----------------------------
(* Instances of PushQueue for TLC: two frames that fit and one that does not, *)
(* and three refreshes, so that a snapshot can be replaced, discarded and     *)
(* put back while an earlier one is being sent.                               *)
EXTENDS PushQueue

CONSTANTS a, b, c
=============================================================================
