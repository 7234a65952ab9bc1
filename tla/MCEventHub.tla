---------------------------- MODULE MCEventHub ----------------------------
(***************************************************************************)
(* The instance of EventHub for TLC: two handlers that broadcast to two     *)
(* pages, each of which may leave.                                          *)
(***************************************************************************)
EXTENDS EventHub

CONSTANTS h1, h2, w1, w2
=============================================================================
