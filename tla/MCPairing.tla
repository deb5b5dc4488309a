------------------------------ MODULE MCPairing ------------------------------
(* Model values for Pairing: the daemon and one command of ble. *)
EXTENDS Pairing

CONSTANTS daemon, command
=============================================================================
