------------------------------ MODULE Formats ------------------------------
(***************************************************************************)
(* The conversions a message goes through: a request is decoded and its     *)
(* row answered from a template (RuleEngine._execute), or the identifiers   *)
(* of POST /api/send are encoded; the bytes go out and are decoded again    *)
(* for the log; rows are exported to a pcap file.  The operators are those  *)
(* of Codec and Packet, a state is one message's way through them.          *)
(***************************************************************************)
EXTENDS Codec, Packet, FiniteSets

\* What a recv can give.
Lengths == 0..65535

CONSTANTS
    Numbers,   \* message identifiers and serial numbers of a peer's requests
    Written,   \* the spellings of them in the bodies of POST /api/send
    Payloads,  \* lengths of exported messages
    MaxRows    \* most rows in an export; the code asks for 1000

ASSUME NumbersAssumption == Numbers \subseteq Identifiers

ASSUME WrittenAssumption == Written \subseteq Spellings

ASSUME PayloadsAssumption == Payloads \subseteq Lengths

ASSUME MaxRowsAssumption == MaxRows \in Nat

ASSUME TextAssumption == None \notin Spellings /\ Junk \notin Spellings

ASSUME PduAssumption == NotAPdu \notin Pdus

VARIABLES
    step,    \* "start", "received", "submitted", "answered" or "exported"
    asked,   \* the PDU a peer has sent
    row,     \* what is known of the message: the decoded PDU, or the body's texts
    answer,  \* the bytes made from row, None for no bytes
    rows,    \* rows of the log, in order, for the export
    export   \* the export of rows

vars == <<step, asked, row, answer, rows, export>>

Init ==
    /\ step = "start"
    /\ asked = NotAPdu
    /\ row = Raw
    /\ answer = None
    /\ rows = <<>>
    /\ export = ExportPcap(<<>>)

\* A request as a peer sends it: Write-Replace-Warning (0) or Stop-Warning (1).
Request(procedureCode, mi, sn) ==
    Pdu("initiatingMessage", procedureCode, MiSn(mi, sn) \o <<IE(15, "areas")>>)

Receive ==
    /\ step = "start"
    /\ \E p \in {0, 1}, mi, sn \in Numbers : asked' = Request(p, mi, sn)
    /\ row' = Decode(asked')
    /\ step' = "received"
    /\ UNCHANGED <<answer, rows, export>>

\* The body of POST /api/send.
Submit ==
    /\ step = "start"
    /\ \E mi, sn \in Written \cup {None, Junk} :
          row' = [Raw EXCEPT !.message_identifier = mi, !.serial_number = sn]
    /\ step' = "submitted"
    /\ UNCHANGED <<asked, answer, rows, export>>

Answer ==
    /\ step \in {"received", "submitted"}
    /\ \E template \in Templates : answer' = Encode(template, row)
    /\ step' = "answered"
    /\ UNCHANGED <<asked, row, rows, export>>

Export ==
    /\ step = "start"
    /\ \E n \in 0..MaxRows : \E some \in [1..n -> [bytes : Payloads, inbound : BOOLEAN]] :
          rows' = some
    /\ export' = ExportPcap(rows')
    /\ step' = "exported"
    /\ UNCHANGED <<asked, row, answer>>

Next == Receive \/ Submit \/ Answer \/ Export

Spec == Init /\ [][Next]_vars

-----------------------------------------------------------------------------
(* Properties *)

\* An answer carries the numbers of the request it is made for, and the row of an
\* answer spells them as the row it is made from, through both conversions between
\* number and text (0x%04x when a row is made, int(val, 16) when an answer is), so
\* that the peer and whoever searches the log can pair the two.  That holds too of
\* the texts of a row that POST /api/send gets.  An Error-Indication names none.
EchoesIdentifiers ==
    answer # None =>
        LET reply == Decode(answer)
            echoes(text, was) ==
                was \notin {None, Junk} /\ was.prefixed /\ Len(was.digits) = 4 => text = was
        IN  IF reply.pdu_type = "ERR_IND"
            THEN <<reply.message_identifier, reply.serial_number>> = <<None, None>>
            ELSE /\ echoes(reply.message_identifier, row.message_identifier)
                 /\ echoes(reply.serial_number, row.serial_number)
                 /\ asked # NotAPdu =>
                       \A i \in {1, 2} : answer.protocolIEs[i] = asked.protocolIEs[i]

\* Nothing the encoder makes decodes as a request, so two probes with rules for
\* requests never answer each other's answers, and every template decodes as some
\* PDU type that a rule can name, with missing and malformed identifiers too.
AnswersAreNoRequests ==
    answer # None =>
        Decode(answer).pdu_type \in {"WRR_RESP", "SWR_RESP", "ERR_IND", "WRWI", "SWI"}

\* A receiver that adds up the ten words of the IPv4 header, checksum included, gets
\* all ones (RFC 1071), whichever way the packet goes and however often the sum
\* carries, and every word fits its field.
ChecksumVerifies ==
    \A i \in DOMAIN export.frames :
        LET ip == export.frames[i].ip
        IN  /\ \A w \in DOMAIN ip : ip[w] \in 0..Word - 1
            /\ FoldCarry(WordSum(ip)) = Word - 1

\* The lengths a dissector walks by agree: after the IPv4 and SCTP headers comes one
\* chunk, padded with at most three bytes to a multiple of four.
ChunkIsPadded ==
    \A i \in DOMAIN export.frames :
        LET padded == export.frames[i].ip[2] - IpHeaderBytes - SctpHeaderBytes
        IN  /\ padded % 4 = 0
            /\ padded - export.frames[i].chunk_len \in 0..3

\* The export gives one frame for each row with bytes, in order and in its direction,
\* unless one of them is longer than 65484 bytes: recv takes up to 65535, and a
\* single row of more makes the export of all rows fail.
LongRowEndsExport ==
    LET kept == {i \in DOMAIN rows : rows[i].bytes > 0}
    IN  IF \E i \in DOMAIN rows : rows[i].bytes > 65484
        THEN export.status = 500
        ELSE /\ Len(export.frames) = Cardinality(kept)
             /\ \A i \in kept :
                   LET frame == export.frames[Cardinality({j \in kept : j <= i})]
                   IN  /\ frame.chunk_len = 16 + rows[i].bytes
                       /\ SubSeq(frame.ip, 7, 8) = IF rows[i].inbound THEN PeerIp ELSE ProbeIp
=============================================================================
