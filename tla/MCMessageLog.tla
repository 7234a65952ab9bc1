---------------------------- MODULE MCMessageLog ----------------------------
(***************************************************************************)
(* Instances of MessageLog for TLC.  MaxLimit is 2 instead of 1000, so that *)
(* a page can be smaller than the log; one client asks for all messages    *)
(* with a limit above MaxLimit, one for inbound messages with a limit that *)
(* get_messages raises to 1.                                               *)
(***************************************************************************)
EXTENDS MessageLog

CONSTANTS c1, c2

\* All messages in large pages, or inbound messages one by one.
MixedDirections == [c \in Clients |-> IF c = c1 THEN "any" ELSE "inbound"]
MixedLimits == [c \in Clients |-> IF c = c1 THEN 100 ELSE 0]
=============================================================================
