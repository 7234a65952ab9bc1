--------------------------- MODULE MCRulePipeline ---------------------------
(***************************************************************************)
(* Instances of RulePipeline for TLC: two server slots and a client slot,  *)
(* two addresses, one kind of request and the rule bodies that tell the    *)
(* paths of _execute apart.                                                *)
(***************************************************************************)
EXTENDS RulePipeline

CONSTANTS s1, s2, k1

Two == {s1, s2}
TwoAddrs == {"a", "b"}
OneAddr == {"a"}

\* Associations of different peers.
Distinct == [c \in Conns |-> IF c = s1 THEN "a" ELSE "b"]
\* Associations of one peer that closes and comes back from the same address.
Reconnect == [c \in Conns |-> "a"]

Request(pdu) == [pdu_type |-> pdu, message_identifier |-> "0x1144", serial_number |-> "0x0001"]
WRR == {Request("WRR_REQ")}
WRRorSWR == {Request("WRR_REQ"), Request("SWR_REQ")}

Rule(pdu, action, template, delay, count) ==
    [match_pdu_type |-> pdu, match_message_identifier |-> None,
     match_serial_number |-> None, match_peer_addr |-> None,
     action |-> action, reply_template |-> template, delay_ms |-> delay, count |-> count]

\* One reply, at once or after a delay.
ReplyOnce == {Rule("*", "auto_reply", "WRR_SUCCESS", 0, 1)}
DelayedReplyOnce == {Rule("*", "auto_reply", "WRR_SUCCESS", 200, 1)}
\* A rule that stays silent and one that replies late, without limit.
SilentAndReply ==
    {Rule("WRR_REQ", "auto_reply", "WRR_TIMEOUT", 0, 1),
     Rule("*", "auto_reply", "WRR_SUCCESS", 200, 0)}
\* Drop the first request, answer the next ones late.
DropThenReply ==
    {Rule("WRR_REQ", "drop", None, 0, 1), Rule("*", "auto_reply", "WRR_SUCCESS", 200, 0)}

Templates == {"WRR_SUCCESS"}
=============================================================================
