---------------------------- MODULE MCManualSend ----------------------------
(***************************************************************************)
(* The instance of ManualSend for TLC: one request, two listeners on two    *)
(* ports.                                                                   *)
(***************************************************************************)
EXTENDS ManualSend

CONSTANTS l1, l2, c1, c2, c3, r1

TwoPorts == [e \in Starts |-> IF e = l1 THEN 29168 ELSE 29169]
OneHost == [e \in Starts |-> "127.0.0.1"]
TwoPeers == [c \in Conns |-> IF c = c3 THEN "b" ELSE "a"]

Body == [template |-> None, hex |-> None, message_identifier |-> HexText(4660), serial_number |-> None,
         connection_id |-> FALSE]

\* A broadcast, a client's message, and a template without bytes.
SomeBodies ==
    {[Body EXCEPT !.template = "SWI_CANCELLED"],
     [Body EXCEPT !.hex = NotAPdu, !.connection_id = TRUE],
     [Body EXCEPT !.template = "WRR_TIMEOUT"]}
=============================================================================
