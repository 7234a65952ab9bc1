---------------------------- MODULE MCSctpServer ----------------------------
(***************************************************************************)
(* Instances of SctpServer for TLC: two start requests for one port, two    *)
(* associations of one peer and one of another.                             *)
(***************************************************************************)
EXTENDS SctpServer

CONSTANTS l1, l2, c1, c2, c3

OnePort == [e \in Starts |-> 29168]
OneHost == [e \in Starts |-> "127.0.0.1"]
TwoHosts == [e \in Starts |-> IF e = l1 THEN "127.0.0.1" ELSE "127.0.0.2"]
TwoPeers == [c \in Conns |-> IF c \in {c1, c2} THEN "a" ELSE "b"]
OnePeer == [c \in Conns |-> "a"]
=============================================================================
