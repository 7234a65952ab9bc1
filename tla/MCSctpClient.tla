---------------------------- MODULE MCSctpClient ----------------------------
(***************************************************************************)
(* The instance of SctpClient for TLC: two connections, so that one can be  *)
(* disconnected by a request while disconnect_all waits for the other.      *)
(***************************************************************************)
EXTENDS SctpClient

CONSTANTS k1, k2, s1
=============================================================================
