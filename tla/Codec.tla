------------------------------- MODULE Codec -------------------------------
(***************************************************************************)
(* The SBc-AP encoder and decoder (sctp_probe/encoder.py, decoder.py).      *)
(*                                                                         *)
(* Bytes are told apart by what they hold: a PDU, as the value pycrate      *)
(* packs and unpacks (to_aper and from_aper lose nothing), or bytes that    *)
(* are no PDU.  An identifier is a number in a PDU and a text in a row or   *)
(* in the body of a request: None, the spelling of a number in hex digits,  *)
(* with or without 0x, or a text int(val, 16) raises on, Junk.  Numbers     *)
(* have 16 bits, spellings four digits at most.                             *)
(***************************************************************************)
EXTENDS Integers, Sequences

CONSTANTS None, Junk, NotAPdu

MaxIdentifier == 65535

Identifiers == 0..MaxIdentifier

\* The spellings: hex digits, the most significant first.
Digits == 0..15

Spellings == [prefixed : BOOLEAN, digits : UNION {[1..k -> Digits] : k \in 1..4}]

\* The names of the registry, and one that is in none.
Templates ==
    {"WRR_SUCCESS", "WRR_PARTIAL", "WRR_PERMANENT_FAILURE", "WRR_TRANSIENT_FAILURE", "WRR_TIMEOUT",
     "SWR_SUCCESS", "SWR_NOT_FOUND", "SWR_TIMEOUT", "ERR_IND_SEMANTIC", "ERR_IND_TRANSFER_SYNTAX",
     "WRWI_SCHEDULED", "WRWI_CANCELLED", "SWI_CANCELLED", "no such template"}

IE(id, value) == [id |-> id, value |-> value]

Pdu(choice, procedureCode, ies) ==
    [choice |-> choice, procedureCode |-> procedureCode, protocolIEs |-> ies]

\* The values of IEs: numbers, and lists of areas by their kind.
Values == Nat \cup {"tai", "ecgi", "areas"}

IEs == [id : Nat, value : Values]

Pdus == [choice : {"initiatingMessage", "successfulOutcome", "unsuccessfulOutcome"},
         procedureCode : Nat, protocolIEs : Seq(IEs)]

-----------------------------------------------------------------------------
(* The encoder *)

\* The number that digits spell in a base; a digit that is not there is 0.
Number(base, digits) ==
    LET digit(place) == IF place < Len(digits) THEN digits[Len(digits) - place] ELSE 0
    IN  digit(0) + base * (digit(1) + base * (digit(2) + base * digit(3)))

\* Mutant: int(val), which takes neither 0x nor the digits from a to f.
ParseHex_Decimal(text) ==
    IF text \in {None, Junk} THEN 0
    ELSE IF text.prefixed \/ \E i \in DOMAIN text.digits : text.digits[i] > 9 THEN 0
    ELSE Number(10, text.digits)

\* _parse_hex: int(val, 16), or the default.
ParseHex(text) == IF text \in {None, Junk} THEN 0 ELSE Number(16, text.digits)

MiSn(mi, sn) == <<IE(5, mi), IE(11, sn)>>

WrrResponse(mi, sn, cause, unknownTais) ==
    Pdu("successfulOutcome", 0, MiSn(mi, sn) \o <<IE(1, cause)>> \o unknownTais)

\* Mutant: the message type of a request.
SwrResponse_Initiating(mi, sn, cause) ==
    Pdu("initiatingMessage", 1, MiSn(mi, sn) \o <<IE(1, cause)>>)

SwrResponse(mi, sn, cause) ==
    Pdu("successfulOutcome", 1, MiSn(mi, sn) \o <<IE(1, cause)>>)

\* An Error-Indication names no message.
ErrInd(mi, sn, cause) == Pdu("initiatingMessage", 2, <<IE(1, cause)>>)

Wrwi(mi, sn) == Pdu("initiatingMessage", 3, MiSn(mi, sn) \o <<IE(23, "ecgi")>>)

Swi(mi, sn) == Pdu("initiatingMessage", 4, MiSn(mi, sn) \o <<IE(25, "ecgi")>>)

\* encode: the registry of templates; None for a timeout and for any other name.
\* inbound is the decoded request, or the identifiers of POST /api/send.
Encode(template, inbound) ==
    LET mi == ParseHex(inbound.message_identifier)
        sn == ParseHex(inbound.serial_number)
    IN  CASE template = "WRR_SUCCESS" -> WrrResponse(mi, sn, 0, <<>>)
          [] template = "WRR_PARTIAL" -> WrrResponse(mi, sn, 0, <<IE(22, "tai")>>)
          [] template = "WRR_PERMANENT_FAILURE" -> WrrResponse(mi, sn, 1, <<>>)
          [] template = "WRR_TRANSIENT_FAILURE" -> WrrResponse(mi, sn, 7, <<>>)
          [] template = "SWR_SUCCESS" -> SwrResponse(mi, sn, 0)
          [] template = "SWR_NOT_FOUND" -> SwrResponse(mi, sn, 3)
          [] template = "ERR_IND_SEMANTIC" -> ErrInd(mi, sn, 14)
          [] template = "ERR_IND_TRANSFER_SYNTAX" -> ErrInd(mi, sn, 11)
          [] template = "WRWI_SCHEDULED" -> Wrwi(mi, sn)
          [] template \in {"WRWI_CANCELLED", "SWI_CANCELLED"} -> Swi(mi, sn)
          [] OTHER -> None

-----------------------------------------------------------------------------
(* The decoder *)

\* _PROC_MAP: the types of an initiating message and of its outcome.
ProcMap ==
    [p \in 0..6 |->
        <<<<"WRR_REQ", "WRR_RESP">>, <<"SWR_REQ", "SWR_RESP">>, <<"ERR_IND", "ERR_IND">>,
          <<"WRWI", "WRWI">>, <<"SWI", "SWI">>, <<"PWS_RESTART", "PWS_RESTART">>,
          <<"PWS_FAILURE", "PWS_FAILURE">>>>[p + 1]]

\* Mutant: the decimal digits, zeros before them (f"0x{int_val:04}").
HexText_Decimal(n) ==
    [prefixed |-> TRUE,
     digits |-> <<(n \div 1000) % 10, (n \div 100) % 10, (n \div 10) % 10, n % 10>>]

\* _hex_str: f"0x{int_val:04x}".
HexText(n) ==
    [prefixed |-> TRUE,
     digits |-> <<n \div 4096, (n \div 256) % 16, (n \div 16) % 16, n % 16>>]

\* _ie_val and _hex_str: the first IE with the id, as a text.
IeText(ies, id) ==
    LET hits == {i \in DOMAIN ies : ies[i].id = id}
    IN  IF hits = {} THEN None
        ELSE HexText(ies[CHOOSE i \in hits : \A j \in hits : i <= j].value)

Raw == [protocol |-> "raw", pdu_type |-> None, message_identifier |-> None, serial_number |-> None]

PduType(pdu) ==
    IF pdu.procedureCode \notin DOMAIN ProcMap THEN None
    ELSE ProcMap[pdu.procedureCode][IF pdu.choice = "initiatingMessage" THEN 1 ELSE 2]

Decode(bytes) ==
    IF bytes = NotAPdu THEN Raw
    ELSE [protocol |-> "SBc-AP",
          pdu_type |-> PduType(bytes),
          message_identifier |-> IeText(bytes.protocolIEs, 5),
          serial_number |-> IeText(bytes.protocolIEs, 11)]
=============================================================================
