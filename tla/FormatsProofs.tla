--------------------------- MODULE FormatsProofs ---------------------------
(***************************************************************************)
(* Theorems about Formats for all numbers of 16 bits, and about the lengths *)
(* of module Packet.                                                        *)
(***************************************************************************)
EXTENDS Formats, ListsProofs, SequenceTheorems

Choices == {"initiatingMessage", "successfulOutcome", "unsuccessfulOutcome"}

\* What a request's body and the decoder have for an identifier.
Texts == Spellings \cup {None, Junk}

-----------------------------------------------------------------------------
(* Sequences of IEs *)

LEMMA IdentifiersAreValues == Identifiers \subseteq Values
  BY DEF Values, Identifiers, MaxIdentifier

\* An IE with a number for its id and one of the values.
LEMMA IETypes == \A id \in Nat, value \in Values : IE(id, value) \in IEs
  BY DEF IE, IEs

\* A sequence that begins with two elements begins with them when it is continued.
LEMMA TwoFirst ==
    ASSUME NEW S, NEW a \in S, NEW b \in S, NEW rest \in Seq(S)
    PROVE  /\ <<a, b>> \o rest \in Seq(S)
           /\ {1, 2} \subseteq DOMAIN (<<a, b>> \o rest)
           /\ DOMAIN (<<a, b>> \o rest) \subseteq Nat \ {0}
           /\ (<<a, b>> \o rest)[1] = a /\ (<<a, b>> \o rest)[2] = b
  <1>1. <<a, b>> \in Seq(S) /\ Len(<<a, b>>) = 2
    OBVIOUS
  <1>2. /\ <<a, b>> \o rest \in Seq(S)
        /\ Len(<<a, b>> \o rest) = 2 + Len(rest)
        /\ \A i \in 1..(2 + Len(rest)) :
              (<<a, b>> \o rest)[i] = IF i <= 2 THEN <<a, b>>[i] ELSE rest[i - 2]
    BY <1>1, ConcatProperties
  <1>3. Len(rest) \in Nat
    BY LenProperties
  <1>4. DOMAIN (<<a, b>> \o rest) = 1..(2 + Len(rest))
    BY <1>2, LenProperties
  <1> QED
    BY <1>2, <1>3, <1>4

-----------------------------------------------------------------------------
(* The codec *)

\* The digits of a spelling, with zeros where there are none.
LEMMA FourDigits ==
    ASSUME NEW k \in 1..4, NEW digits \in [1..k -> Digits]
    PROVE  \E a \in Digits, b \in Digits, c \in Digits, d \in Digits :
              /\ Number(16, digits) = a + 16 * (b + 16 * (c + 16 * d))
              /\ k = 4 => digits = <<d, c, b, a>>
  <1> DEFINE at(place) == IF place < k THEN digits[k - place] ELSE 0
  <1>1. Len(digits) = k
    OBVIOUS
  <1>2. \A place \in 0..3 : at(place) \in Digits
    BY DEF Digits
  <1>3. Number(16, digits) = at(0) + 16 * (at(1) + 16 * (at(2) + 16 * at(3)))
    BY <1>1 DEF Number
  <1>4. ASSUME k = 4 PROVE digits = <<at(3), at(2), at(1), at(0)>>
    <2> DEFINE four == <<at(3), at(2), at(1), at(0)>>
    <2>1. four \in [1..4 -> Digits] /\ digits \in [1..4 -> Digits]
      BY <1>2, <1>4
    <2>2. \A i \in 1..4 : four[i] = at(4 - i)
      OBVIOUS
    <2>3. \A i \in 1..4 : digits[i] = at(4 - i)
      BY <1>4
    <2> HIDE DEF four, at
    <2>4. digits = four
      BY <2>1, <2>2, <2>3
    <2> QED
      BY <2>4 DEF four
  <1> HIDE DEF at
  <1> QED
    BY <1>2, <1>3, <1>4

\* Four digits give a number of 16 bits.
LEMMA DigitsFit ==
    ASSUME NEW a \in Digits, NEW b \in Digits, NEW c \in Digits, NEW d \in Digits
    PROVE  a + 16 * (b + 16 * (c + 16 * d)) \in Identifiers
  <1>1. /\ a \in Int /\ b \in Int /\ c \in Int /\ d \in Int
        /\ 0 <= a /\ a <= 15 /\ 0 <= b /\ b <= 15 /\ 0 <= c /\ c <= 15 /\ 0 <= d /\ d <= 15
    BY DEF Digits
  <1> DEFINE n == a + 16 * (b + 16 * (c + 16 * d))
  <1>2. n \in Int /\ 0 <= n /\ n <= 65535
    BY <1>1
  <1> HIDE DEF n
  <1>3. MaxIdentifier \in Int /\ n <= MaxIdentifier
    BY <1>2 DEF MaxIdentifier
  <1>4. n \in Identifiers
    BY <1>2, <1>3 DEF Identifiers
  <1> QED
    BY <1>4 DEF n

\* 0x%04x spells every number of 16 bits, and int(val, 16) takes it back.
LEMMA HexTextParsed ==
    ASSUME NEW n \in Identifiers
    PROVE  HexText(n) \in Spellings /\ ParseHex(HexText(n)) = n
  <1> DEFINE a == n % 16
             b == (n \div 16) % 16
             c == (n \div 256) % 16
             d == n \div 4096
  <1>1. n \in Int /\ 0 <= n /\ n <= 65535
    BY DEF Identifiers, MaxIdentifier
  <1>2. /\ a \in Int /\ 0 <= a /\ a <= 15 /\ b \in Int /\ 0 <= b /\ b <= 15
        /\ c \in Int /\ 0 <= c /\ c <= 15 /\ d \in Int /\ 0 <= d /\ d <= 15
    BY <1>1
  <1>3. a + 16 * (b + 16 * (c + 16 * d)) = n
    BY <1>1
  <1> HIDE DEF a, b, c, d
  <1> DEFINE digits == <<d, c, b, a>>
  <1>4. HexText(n) = [prefixed |-> TRUE, digits |-> digits]
    BY DEF HexText, a, b, c, d
  <1>5. digits \in [1..4 -> Digits]
    BY <1>2 DEF Digits
  <1>6. HexText(n) \in Spellings
    BY <1>4, <1>5 DEF Spellings
  <1>7. Number(16, digits) = n
    BY <1>3 DEF Number
  <1>8. HexText(n) \notin {None, Junk}
    BY <1>6, TextAssumption
  <1> HIDE DEF digits
  <1> QED
    BY <1>4, <1>6, <1>7, <1>8 DEF ParseHex

\* _parse_hex gives a number of 16 bits, and 0x%04x takes back a text of its form.
LEMMA ParseHexValue ==
    ASSUME NEW text \in Texts
    PROVE  /\ ParseHex(text) \in Identifiers
           /\ text \notin {None, Junk} /\ text.prefixed /\ Len(text.digits) = 4 =>
                 HexText(ParseHex(text)) = text
  <1>1. CASE text \in {None, Junk}
    BY <1>1 DEF ParseHex, Identifiers, MaxIdentifier
  <1>2. CASE text \notin {None, Junk}
    <2>1. PICK k \in 1..4 : text.digits \in [1..k -> Digits]
      BY <1>2 DEF Texts, Spellings
    <2>2. PICK a \in Digits, b \in Digits, c \in Digits, d \in Digits :
              /\ Number(16, text.digits) = a + 16 * (b + 16 * (c + 16 * d))
              /\ k = 4 => text.digits = <<d, c, b, a>>
      BY <2>1, FourDigits
    <2> DEFINE n == a + 16 * (b + 16 * (c + 16 * d))
    <2>3. ParseHex(text) = n
      BY <1>2, <2>2 DEF ParseHex
    <2>4. n \in Identifiers
      BY DigitsFit
    <2>5. ASSUME text.prefixed, Len(text.digits) = 4 PROVE HexText(n) = text
      <3>1. k = 4
        BY <2>1, <2>5
      <3>2. /\ a \in Int /\ b \in Int /\ c \in Int /\ d \in Int
            /\ 0 <= a /\ a <= 15 /\ 0 <= b /\ b <= 15 /\ 0 <= c /\ c <= 15 /\ 0 <= d /\ d <= 15
        BY DEF Digits
      <3>3. n \div 4096 = d /\ (n \div 256) % 16 = c /\ (n \div 16) % 16 = b /\ n % 16 = a
        BY <3>2
      <3>4. text = [prefixed |-> TRUE, digits |-> <<d, c, b, a>>]
        BY <1>2, <2>2, <2>5, <3>1 DEF Texts, Spellings
      <3> DEFINE w == n \div 4096
                 x == (n \div 256) % 16
                 y == (n \div 16) % 16
                 z == n % 16
      <3>5. HexText(n) = [prefixed |-> TRUE, digits |-> <<w, x, y, z>>]
        BY DEF HexText
      <3>6. w = d /\ x = c /\ y = b /\ z = a
        BY <3>3
      <3> HIDE DEF n, w, x, y, z
      <3> QED
        BY <3>4, <3>5, <3>6
    <2> HIDE DEF n
    <2> QED
      BY <2>3, <2>4, <2>5
  <1> QED
    BY <1>1, <1>2

\* Of IEs that begin with a message identifier and a serial number the decoder
\* reads those two.
LEMMA ReadsMiSn ==
    ASSUME NEW mi \in Identifiers, NEW sn \in Identifiers, NEW rest \in Seq(IEs)
    PROVE  /\ MiSn(mi, sn) \o rest \in Seq(IEs)
           /\ (MiSn(mi, sn) \o rest)[1] = IE(5, mi)
           /\ (MiSn(mi, sn) \o rest)[2] = IE(11, sn)
           /\ IeText(MiSn(mi, sn) \o rest, 5) = HexText(mi)
           /\ IeText(MiSn(mi, sn) \o rest, 11) = HexText(sn)
  <1> DEFINE ies == MiSn(mi, sn) \o rest
  <1>1. IE(5, mi) \in IEs /\ IE(11, sn) \in IEs
    BY IdentifiersAreValues, IETypes
  <1>2. /\ ies \in Seq(IEs)
        /\ {1, 2} \subseteq DOMAIN ies /\ DOMAIN ies \subseteq Nat \ {0}
        /\ ies[1] = IE(5, mi) /\ ies[2] = IE(11, sn)
    BY <1>1, TwoFirst DEF MiSn
  <1> HIDE DEF ies
  <1>3. ies[1].id = 5 /\ ies[1].value = mi /\ ies[2].id = 11 /\ ies[2].value = sn
    BY <1>2 DEF IE
  <1>4. IeText(ies, 5) = HexText(mi)
    <2> DEFINE hits == {i \in DOMAIN ies : ies[i].id = 5}
               first == CHOOSE i \in hits : \A j \in hits : i <= j
    <2>1. 1 \in hits /\ hits \subseteq Nat \ {0}
      BY <1>2, <1>3
    <2>2. IeText(ies, 5) = HexText(ies[first].value)
      BY <2>1 DEF IeText
    <2> HIDE DEF hits
    <2>3. \A j \in hits : 1 <= j
      BY <2>1
    <2>4. first \in hits /\ \A j \in hits : first <= j
      BY <2>1, <2>3
    <2> HIDE DEF first
    <2>5. first = 1
      BY <2>1, <2>4
    <2> QED
      BY <2>2, <2>5, <1>3
  <1>5. IeText(ies, 11) = HexText(sn)
    <2> DEFINE hits == {i \in DOMAIN ies : ies[i].id = 11}
               first == CHOOSE i \in hits : \A j \in hits : i <= j
    <2>1. 2 \in hits /\ 1 \notin hits /\ hits \subseteq Nat \ {0}
      BY <1>2, <1>3
    <2>2. IeText(ies, 11) = HexText(ies[first].value)
      BY <2>1 DEF IeText
    <2> HIDE DEF hits
    <2>3. \A j \in hits : 2 <= j
      BY <2>1
    <2>4. first \in hits /\ \A j \in hits : first <= j
      BY <2>1, <2>3
    <2> HIDE DEF first
    <2>5. first = 2
      BY <2>1, <2>3, <2>4
    <2> QED
      BY <2>2, <2>5, <1>3
  <1> QED
    BY <1>2, <1>4, <1>5 DEF ies

\* A PDU that carries the identifiers, and what it decodes to.
LEMMA DecodesMiSn ==
    ASSUME NEW mi \in Identifiers, NEW sn \in Identifiers, NEW rest \in Seq(IEs),
           NEW choice \in Choices, NEW p \in 0..6
    PROVE  LET pdu == Pdu(choice, p, MiSn(mi, sn) \o rest)
           IN  /\ pdu # NotAPdu
               /\ Decode(pdu).message_identifier = HexText(mi)
               /\ Decode(pdu).serial_number = HexText(sn)
               /\ Decode(pdu).pdu_type = ProcMap[p][IF choice = "initiatingMessage" THEN 1 ELSE 2]
               /\ pdu.protocolIEs[1] = IE(5, mi) /\ pdu.protocolIEs[2] = IE(11, sn)
  <1> DEFINE ies == MiSn(mi, sn) \o rest
             pdu == Pdu(choice, p, ies)
  <1>1. /\ ies \in Seq(IEs)
        /\ ies[1] = IE(5, mi) /\ ies[2] = IE(11, sn)
        /\ IeText(ies, 5) = HexText(mi) /\ IeText(ies, 11) = HexText(sn)
    BY ReadsMiSn
  <1> HIDE DEF ies
  <1>2. /\ pdu.choice = choice /\ pdu.procedureCode = p /\ pdu.protocolIEs = ies
    BY DEF Pdu
  <1>3. pdu # NotAPdu
    <2>1. pdu \in Pdus
      BY <1>1 DEF Pdu, Pdus, Choices
    <2> QED
      BY <2>1, PduAssumption
  <1> HIDE DEF pdu
  <1>4. p \in DOMAIN ProcMap
    BY DEF ProcMap
  <1>5. PduType(pdu) = ProcMap[p][IF choice = "initiatingMessage" THEN 1 ELSE 2]
    BY <1>2, <1>4 DEF PduType
  <1>6. /\ Decode(pdu).message_identifier = IeText(pdu.protocolIEs, 5)
        /\ Decode(pdu).serial_number = IeText(pdu.protocolIEs, 11)
        /\ Decode(pdu).pdu_type = PduType(pdu)
    BY <1>3 DEF Decode
  <1> QED
    BY <1>1, <1>2, <1>3, <1>5, <1>6 DEF pdu, ies

\* An Error-Indication names no message.
LEMMA DecodesErrInd ==
    ASSUME NEW mi, NEW sn, NEW cause \in Identifiers
    PROVE  LET pdu == ErrInd(mi, sn, cause)
           IN  /\ pdu # NotAPdu
               /\ Decode(pdu).message_identifier = None
               /\ Decode(pdu).serial_number = None
               /\ Decode(pdu).pdu_type = "ERR_IND"
  <1> DEFINE ies == <<IE(1, cause)>>
             pdu == ErrInd(mi, sn, cause)
  <1>1. IE(1, cause) \in IEs
    BY IdentifiersAreValues, IETypes
  <1>2. ies \in Seq(IEs) /\ DOMAIN ies = {1} /\ ies[1].id = 1
    BY <1>1 DEF IE
  <1> HIDE DEF ies
  <1>3. pdu.choice = "initiatingMessage" /\ pdu.procedureCode = 2 /\ pdu.protocolIEs = ies
    BY DEF ErrInd, Pdu, ies
  <1>4. pdu # NotAPdu
    <2>1. pdu \in Pdus
      BY <1>2 DEF ErrInd, Pdu, Pdus, ies
    <2> QED
      BY <2>1, PduAssumption
  <1> HIDE DEF pdu
  <1>5. IeText(ies, 5) = None /\ IeText(ies, 11) = None
    BY <1>2 DEF IeText
  <1>6. 2 \in DOMAIN ProcMap /\ ProcMap[2] = <<"ERR_IND", "ERR_IND">>
    BY DEF ProcMap
  <1>7. PduType(pdu) = "ERR_IND"
    BY <1>3, <1>6 DEF PduType
  <1>8. /\ Decode(pdu).message_identifier = IeText(pdu.protocolIEs, 5)
        /\ Decode(pdu).serial_number = IeText(pdu.protocolIEs, 11)
        /\ Decode(pdu).pdu_type = PduType(pdu)
    BY <1>4 DEF Decode
  <1> QED
    BY <1>3, <1>4, <1>5, <1>7, <1>8 DEF pdu

\* The types of the answers.
LEMMA AnswerTypes ==
    /\ ProcMap[0][2] = "WRR_RESP" /\ ProcMap[1][2] = "SWR_RESP"
    /\ ProcMap[3][1] = "WRWI" /\ ProcMap[4][1] = "SWI"
  <1>1. ProcMap[0] = <<"WRR_REQ", "WRR_RESP">> /\ ProcMap[1] = <<"SWR_REQ", "SWR_RESP">>
    BY DEF ProcMap
  <1>2. ProcMap[3] = <<"WRWI", "WRWI">> /\ ProcMap[4] = <<"SWI", "SWI">>
    BY DEF ProcMap
  <1> QED
    BY <1>1, <1>2

\* The forms of an answer: an outcome or an indication with the identifiers, or an
\* Error-Indication.
Carries(bytes, mi, sn, choice, p) ==
    \E rest \in Seq(IEs) : bytes = Pdu(choice, p, MiSn(mi, sn) \o rest)

AnswerForm(bytes, mi, sn) ==
    \/ \E p \in {0, 1} : Carries(bytes, mi, sn, "successfulOutcome", p)
    \/ \E p \in {3, 4} : Carries(bytes, mi, sn, "initiatingMessage", p)
    \/ \E cause \in Identifiers : bytes = ErrInd(mi, sn, cause)

LEMMA WrrForm ==
    ASSUME NEW mi \in Identifiers, NEW sn \in Identifiers, NEW cause \in Identifiers,
           NEW more \in Seq(IEs)
    PROVE  Carries(WrrResponse(mi, sn, cause, more), mi, sn, "successfulOutcome", 0)
  <1>1. /\ IE(5, mi) \in IEs /\ IE(11, sn) \in IEs /\ IE(1, cause) \in IEs
    BY IdentifiersAreValues, IETypes
  <1>2. MiSn(mi, sn) \in Seq(IEs) /\ <<IE(1, cause)>> \in Seq(IEs)
    BY <1>1 DEF MiSn
  <1>3. <<IE(1, cause)>> \o more \in Seq(IEs)
    BY <1>2, ConcatProperties
  <1>4. (MiSn(mi, sn) \o <<IE(1, cause)>>) \o more = MiSn(mi, sn) \o (<<IE(1, cause)>> \o more)
    BY <1>2, ConcatAssociative
  <1> QED
    BY <1>3, <1>4 DEF Carries, WrrResponse

LEMMA OtherForms ==
    ASSUME NEW mi \in Identifiers, NEW sn \in Identifiers, NEW cause \in Identifiers
    PROVE  /\ Carries(SwrResponse(mi, sn, cause), mi, sn, "successfulOutcome", 1)
           /\ Carries(Wrwi(mi, sn), mi, sn, "initiatingMessage", 3)
           /\ Carries(Swi(mi, sn), mi, sn, "initiatingMessage", 4)
  <1>1. /\ IE(1, cause) \in IEs /\ IE(23, "ecgi") \in IEs /\ IE(25, "ecgi") \in IEs
    BY IETypes, IdentifiersAreValues DEF Values
  <1>2. /\ <<IE(1, cause)>> \in Seq(IEs)
        /\ <<IE(23, "ecgi")>> \in Seq(IEs) /\ <<IE(25, "ecgi")>> \in Seq(IEs)
    BY <1>1
  <1> QED
    BY <1>2 DEF Carries, SwrResponse, Wrwi, Swi

LEMMA EncodeForms ==
    ASSUME NEW template, NEW inbound,
           inbound.message_identifier \in Texts, inbound.serial_number \in Texts,
           Encode(template, inbound) # None
    PROVE  AnswerForm(Encode(template, inbound),
                      ParseHex(inbound.message_identifier), ParseHex(inbound.serial_number))
  <1> DEFINE mi == ParseHex(inbound.message_identifier)
             sn == ParseHex(inbound.serial_number)
             bytes == Encode(template, inbound)
             tais == <<IE(22, "tai")>>
  <1>1. mi \in Identifiers /\ sn \in Identifiers
    BY ParseHexValue
  <1>2. \/ \E cause \in {0, 1, 7} : bytes = WrrResponse(mi, sn, cause, <<>>)
        \/ bytes = WrrResponse(mi, sn, 0, tais)
        \/ \E cause \in {0, 3} : bytes = SwrResponse(mi, sn, cause)
        \/ \E cause \in {11, 14} : bytes = ErrInd(mi, sn, cause)
        \/ bytes = Wrwi(mi, sn)
        \/ bytes = Swi(mi, sn)
    BY DEF Encode
  <1>3. {0, 1, 3, 7, 11, 14} \subseteq Identifiers
    BY DEF Identifiers, MaxIdentifier
  <1>4. <<>> \in Seq(IEs) /\ tais \in Seq(IEs)
    <2>1. IE(22, "tai") \in IEs
      BY IETypes DEF Values
    <2> QED
      BY <2>1
  <1> HIDE DEF mi, sn, bytes, tais
  <1>5. \A cause \in Identifiers, more \in Seq(IEs) :
           Carries(WrrResponse(mi, sn, cause, more), mi, sn, "successfulOutcome", 0)
    BY <1>1, WrrForm
  <1>6. \A cause \in Identifiers :
           Carries(SwrResponse(mi, sn, cause), mi, sn, "successfulOutcome", 1)
    BY <1>1, OtherForms
  <1>7. /\ Carries(Wrwi(mi, sn), mi, sn, "initiatingMessage", 3)
        /\ Carries(Swi(mi, sn), mi, sn, "initiatingMessage", 4)
    BY <1>1, <1>3, OtherForms
  <1>8. AnswerForm(bytes, mi, sn)
    BY <1>2, <1>3, <1>4, <1>5, <1>6, <1>7 DEF AnswerForm
  <1> QED
    BY <1>8 DEF mi, sn, bytes

-----------------------------------------------------------------------------
(* The message's way *)

\* Whatever carries the identifiers decodes with them, as an answer with a type.
LEMMA DecodesAnswer ==
    ASSUME NEW mi \in Identifiers, NEW sn \in Identifiers, NEW bytes, AnswerForm(bytes, mi, sn)
    PROVE  /\ Decode(bytes).pdu_type \in {"WRR_RESP", "SWR_RESP", "ERR_IND", "WRWI", "SWI"}
           /\ Decode(bytes).pdu_type = "ERR_IND" =>
                 Decode(bytes).message_identifier = None /\ Decode(bytes).serial_number = None
           /\ Decode(bytes).pdu_type # "ERR_IND" =>
                 /\ Decode(bytes).message_identifier = HexText(mi)
                 /\ Decode(bytes).serial_number = HexText(sn)
                 /\ bytes.protocolIEs[1] = IE(5, mi) /\ bytes.protocolIEs[2] = IE(11, sn)
  <1>1. CASE \E p \in {0, 1} : Carries(bytes, mi, sn, "successfulOutcome", p)
    <2>1. PICK p \in {0, 1}, rest \in Seq(IEs) :
              bytes = Pdu("successfulOutcome", p, MiSn(mi, sn) \o rest)
      BY <1>1 DEF Carries
    <2>2. /\ Decode(bytes).message_identifier = HexText(mi)
          /\ Decode(bytes).serial_number = HexText(sn)
          /\ bytes.protocolIEs[1] = IE(5, mi) /\ bytes.protocolIEs[2] = IE(11, sn)
          /\ Decode(bytes).pdu_type = ProcMap[p][2]
      BY <2>1, DecodesMiSn DEF Choices
    <2> QED
      BY <2>2, AnswerTypes
  <1>2. CASE \E p \in {3, 4} : Carries(bytes, mi, sn, "initiatingMessage", p)
    <2>1. PICK p \in {3, 4}, rest \in Seq(IEs) :
              bytes = Pdu("initiatingMessage", p, MiSn(mi, sn) \o rest)
      BY <1>2 DEF Carries
    <2>2. /\ Decode(bytes).message_identifier = HexText(mi)
          /\ Decode(bytes).serial_number = HexText(sn)
          /\ bytes.protocolIEs[1] = IE(5, mi) /\ bytes.protocolIEs[2] = IE(11, sn)
          /\ Decode(bytes).pdu_type = ProcMap[p][1]
      BY <2>1, DecodesMiSn DEF Choices
    <2> QED
      BY <2>2, AnswerTypes
  <1>3. CASE \E cause \in Identifiers : bytes = ErrInd(mi, sn, cause)
    BY <1>3, DecodesErrInd
  <1> QED
    BY <1>1, <1>2, <1>3 DEF AnswerForm

\* What a request is and decodes to.
LEMMA DecodesRequest ==
    ASSUME NEW p \in {0, 1}, NEW mi \in Identifiers, NEW sn \in Identifiers
    PROVE  /\ Decode(Request(p, mi, sn)).message_identifier = HexText(mi)
           /\ Decode(Request(p, mi, sn)).serial_number = HexText(sn)
           /\ Request(p, mi, sn).protocolIEs[1] = IE(5, mi)
           /\ Request(p, mi, sn).protocolIEs[2] = IE(11, sn)
  <1> DEFINE pdu == Request(p, mi, sn)
  <1>1. IE(15, "areas") \in IEs
    BY IETypes DEF Values
  <1>2. <<IE(15, "areas")>> \in Seq(IEs)
    BY <1>1
  <1>3. /\ Decode(pdu).message_identifier = HexText(mi)
        /\ Decode(pdu).serial_number = HexText(sn)
        /\ pdu.protocolIEs[1] = IE(5, mi)
        /\ pdu.protocolIEs[2] = IE(11, sn)
    <2> DEFINE rest == <<IE(15, "areas")>>
    <2>1. pdu = Pdu("initiatingMessage", p, MiSn(mi, sn) \o rest)
      BY DEF Request
    <2>2. rest \in Seq(IEs) /\ "initiatingMessage" \in Choices /\ p \in 0..6
      BY <1>2 DEF Choices
    <2> HIDE DEF pdu, rest
    <2> QED
      BY <2>1, <2>2, DecodesMiSn
  <1> QED
    BY <1>3 DEF pdu

\* The row of a request spells its identifiers, the row of a body has spellings or
\* texts that are none, and an answer was made from the row.
FormatsInv ==
    /\ step = "start" => asked = NotAPdu /\ answer = None
    /\ row.message_identifier \in Texts /\ row.serial_number \in Texts
    /\ asked # NotAPdu =>
          \E mi, sn \in Identifiers :
              /\ row.message_identifier = HexText(mi) /\ row.serial_number = HexText(sn)
              /\ asked.protocolIEs[1] = IE(5, mi) /\ asked.protocolIEs[2] = IE(11, sn)
    /\ answer # None => \E template \in Templates : answer = Encode(template, row)

LEMMA FormatsStep == FormatsInv /\ [Next]_vars => FormatsInv'
  <1> SUFFICES ASSUME FormatsInv, [Next]_vars PROVE FormatsInv'
    OBVIOUS
  <1>1. CASE Receive
    <2>1. PICK p \in {0, 1}, mi \in Numbers, sn \in Numbers : asked' = Request(p, mi, sn)
      BY <1>1 DEF Receive
    <2>2. mi \in Identifiers /\ sn \in Identifiers
      BY NumbersAssumption
    <2>3. row'.message_identifier = HexText(mi) /\ row'.serial_number = HexText(sn)
      BY <1>1, <2>1, <2>2, DecodesRequest DEF Receive
    <2>4. asked'.protocolIEs[1] = IE(5, mi) /\ asked'.protocolIEs[2] = IE(11, sn)
      BY <2>1, <2>2, DecodesRequest
    <2>5. step' # "start" /\ answer' = None
      BY <1>1 DEF Receive, FormatsInv
    <2>6. row'.message_identifier \in Texts /\ row'.serial_number \in Texts
      BY <2>2, <2>3, HexTextParsed DEF Texts
    <2> QED
      BY <2>2, <2>3, <2>4, <2>5, <2>6 DEF FormatsInv
  <1>2. CASE Submit
    <2>1. PICK mi \in Written \cup {None, Junk}, sn \in Written \cup {None, Junk} :
              row' = [Raw EXCEPT !.message_identifier = mi, !.serial_number = sn]
      BY <1>2 DEF Submit
    <2>2. row'.message_identifier = mi /\ row'.serial_number = sn
      BY <2>1 DEF Raw
    <2>3. mi \in Texts /\ sn \in Texts
      BY WrittenAssumption DEF Texts
    <2>4. step' # "start" /\ asked' = NotAPdu /\ answer' = None
      BY <1>2 DEF Submit, FormatsInv
    <2> QED
      BY <2>2, <2>3, <2>4 DEF FormatsInv
  <1>3. CASE Answer
    BY <1>3 DEF Answer, FormatsInv
  <1>4. CASE Export
    BY <1>4 DEF Export, FormatsInv
  <1>5. CASE UNCHANGED vars
    BY <1>5 DEF vars, FormatsInv
  <1> QED
    BY <1>1, <1>2, <1>3, <1>4, <1>5 DEF Next

LEMMA FormatsInductive == Spec => []FormatsInv
  <1>1. Init => FormatsInv
    BY DEF Init, FormatsInv, Raw, Texts
  <1> QED
    BY <1>1, FormatsStep, PTL DEF Spec

\* What the answer of a row decodes to.
LEMMA DecodedAnswer ==
    ASSUME FormatsInv, answer # None
    PROVE  /\ ParseHex(row.message_identifier) \in Identifiers
           /\ ParseHex(row.serial_number) \in Identifiers
           /\ AnswerForm(answer, ParseHex(row.message_identifier), ParseHex(row.serial_number))
  <1>1. row.message_identifier \in Texts /\ row.serial_number \in Texts
    BY DEF FormatsInv
  <1>2. PICK template \in Templates : answer = Encode(template, row)
    BY DEF FormatsInv
  <1> QED
    BY <1>1, <1>2, ParseHexValue, EncodeForms

\* EchoesIdentifiers holds for every identifier of 16 bits, every spelling of one and
\* every template: decoder, row and encoder give the peer back what it has sent.
THEOREM IdentifiersEchoed == Spec => []EchoesIdentifiers
  <1>1. FormatsInv => EchoesIdentifiers
    <2> SUFFICES ASSUME FormatsInv, answer # None PROVE EchoesIdentifiers
      BY DEF EchoesIdentifiers
    <2> DEFINE mi == ParseHex(row.message_identifier)
               sn == ParseHex(row.serial_number)
    <2>1. mi \in Identifiers /\ sn \in Identifiers /\ AnswerForm(answer, mi, sn)
      BY DecodedAnswer
    <2>2. \A text \in {row.message_identifier, row.serial_number} :
             text \notin {None, Junk} /\ text.prefixed /\ Len(text.digits) = 4 =>
                 HexText(ParseHex(text)) = text
      BY ParseHexValue DEF FormatsInv
    <2>3. asked # NotAPdu =>
             asked.protocolIEs[1] = IE(5, mi) /\ asked.protocolIEs[2] = IE(11, sn)
      BY HexTextParsed DEF FormatsInv
    <2> HIDE DEF mi, sn
    <2>4. /\ Decode(answer).pdu_type = "ERR_IND" =>
                 Decode(answer).message_identifier = None /\ Decode(answer).serial_number = None
          /\ Decode(answer).pdu_type # "ERR_IND" =>
                 /\ Decode(answer).message_identifier = HexText(mi)
                 /\ Decode(answer).serial_number = HexText(sn)
                 /\ answer.protocolIEs[1] = IE(5, mi) /\ answer.protocolIEs[2] = IE(11, sn)
      BY <2>1, DecodesAnswer
    <2>5. CASE Decode(answer).pdu_type = "ERR_IND"
      BY <2>4, <2>5 DEF EchoesIdentifiers
    <2>6. CASE Decode(answer).pdu_type # "ERR_IND"
      <3>1. asked # NotAPdu => \A i \in {1, 2} : answer.protocolIEs[i] = asked.protocolIEs[i]
        BY <2>3, <2>4, <2>6
      <3>2. /\ row.message_identifier \notin {None, Junk} /\ row.message_identifier.prefixed
               /\ Len(row.message_identifier.digits) = 4 =>
                  Decode(answer).message_identifier = row.message_identifier
            /\ row.serial_number \notin {None, Junk} /\ row.serial_number.prefixed
               /\ Len(row.serial_number.digits) = 4 =>
                  Decode(answer).serial_number = row.serial_number
        BY <2>2, <2>4, <2>6 DEF mi, sn
      <3> QED
        BY <3>1, <3>2, <2>6 DEF EchoesIdentifiers
    <2> QED
      BY <2>5, <2>6
  <1> QED
    BY <1>1, FormatsInductive, PTL

\* AnswersAreNoRequests holds for every identifier, also missing and malformed ones.
THEOREM AnswersNoRequests == Spec => []AnswersAreNoRequests
  <1>1. FormatsInv => AnswersAreNoRequests
    <2> SUFFICES ASSUME FormatsInv, answer # None
                 PROVE  Decode(answer).pdu_type \in
                            {"WRR_RESP", "SWR_RESP", "ERR_IND", "WRWI", "SWI"}
      BY DEF AnswersAreNoRequests
    <2>1. PICK mi \in Identifiers, sn \in Identifiers : AnswerForm(answer, mi, sn)
      BY DecodedAnswer
    <2> QED
      BY <2>1, DecodesAnswer
  <1> QED
    BY <1>1, FormatsInductive, PTL

-----------------------------------------------------------------------------
(* The lengths of a packet *)

\* For every length of a message: the padding has at most three bytes and fills the
\* chunk up to a multiple of four, and the export can pack the message exactly if
\* it has at most 65484 bytes; the IP packet's length is the limit, not the chunk's.
THEOREM LengthsFit ==
    ASSUME NEW payload \in Nat
    PROVE  /\ Padding(payload) \in 0..3
           /\ (SctpBytes(payload) - SctpHeaderBytes) % 4 = 0
           /\ Packable(payload) <=> payload <= 65484
  <1> DEFINE rest == ChunkLength(payload) % 4
             quarter == ChunkLength(payload) \div 4
  <1>1. ChunkLength(payload) = 16 + payload
    BY DEF ChunkLength, ChunkHeaderBytes
  <1>2. rest \in 0..3 /\ quarter \in Nat /\ ChunkLength(payload) = 4 * quarter + rest
    BY <1>1
  <1>3. Padding(payload) = IF rest = 0 THEN 0 ELSE 4 - rest
    BY <1>2 DEF Padding
  <1> HIDE DEF rest, quarter
  <1>4. Padding(payload) \in 0..3
    BY <1>2, <1>3
  <1>5. (ChunkLength(payload) + Padding(payload)) % 4 = 0
    BY <1>2, <1>3
  <1>6. SctpBytes(payload) = 12 + ChunkLength(payload) + Padding(payload)
    BY DEF SctpBytes, SctpHeaderBytes
  <1>7. (SctpBytes(payload) - SctpHeaderBytes) % 4 = 0
    BY <1>1, <1>4, <1>5, <1>6 DEF SctpHeaderBytes
  <1>8. IpTotalLength(payload) = 48 + payload + Padding(payload)
    BY <1>1, <1>4, <1>6 DEF IpTotalLength, IpHeaderBytes
  <1>9. Packable(payload) <=> payload <= 65484
    BY <1>1, <1>2, <1>3, <1>4, <1>8 DEF Packable, Word
  <1> QED
    BY <1>4, <1>7, <1>9

-----------------------------------------------------------------------------
(* The checksum *)

\* A carry folded in leaves the rest modulo 65535 as it is.
LEMMA CarryKeepsRest ==
    ASSUME NEW n \in Nat, n >= 65536
    PROVE  LET m == (n % 65536) + (n \div 65536)
           IN  m \in Nat \ {0} /\ (m - 1) % 65535 = (n - 1) % 65535
  <1> DEFINE q == n \div 65536
             r == n % 65536
  <1>1. q \in Nat \ {0} /\ r \in Nat /\ n = 65536 * q + r
    OBVIOUS
  <1> HIDE DEF q, r
  <1>2. r + q \in Nat \ {0} /\ n - 1 = 65535 * q + ((r + q) - 1) /\ (r + q) - 1 \in Nat
    BY <1>1
  <1>3. ASSUME NEW x \in Nat, NEW y \in Nat
        PROVE  (65535 * x + y) % 65535 = y % 65535
    OBVIOUS
  <1>4. (65535 * q + ((r + q) - 1)) % 65535 = ((r + q) - 1) % 65535
    BY <1>1, <1>2, <1>3
  <1>5. ((r + q) - 1) % 65535 = (n - 1) % 65535
    BY <1>2, <1>4
  <1> QED
    BY <1>2, <1>5 DEF q, r

\* The recursion of FoldCarry has a solution: the least positive number with the
\* same rest.
LEMMA FoldExists ==
    \E f : f = [n \in Nat |-> IF n < Word THEN n ELSE f[(n % Word) + (n \div Word)]]
  <1> DEFINE least(n) == ((n - 1) % 65535) + 1
             g == [n \in Nat |-> IF n < 65536 THEN n ELSE least(n)]
             m(n) == (n % 65536) + (n \div 65536)
  <1>1. ASSUME NEW n \in Nat, n >= 65536
        PROVE  m(n) \in Nat /\ g[m(n)] = least(n)
    <2>1. m(n) \in Nat \ {0} /\ least(m(n)) = least(n)
      BY <1>1, CarryKeepsRest
    <2> HIDE DEF m
    <2>2. m(n) < 65536 => least(m(n)) = m(n)
      BY <2>1
    <2> QED
      BY <2>1, <2>2
  <1> HIDE DEF least, m
  <1>2. \A n \in Nat : (IF n < 65536 THEN n ELSE least(n)) = IF n < 65536 THEN n ELSE g[m(n)]
    BY <1>1
  <1>3. g = [n \in Nat |-> IF n < 65536 THEN n ELSE g[m(n)]]
    BY <1>2
  <1> HIDE DEF g
  <1>4. g = [n \in Nat |-> IF n < Word THEN n ELSE g[(n % Word) + (n \div Word)]]
    BY <1>3 DEF Word, m
  <1> QED
    BY <1>4

\* FoldCarry does what its recursion says.
LEMMA FoldUnfolds ==
    ASSUME NEW n \in Nat
    PROVE  FoldCarry(n) = IF n < Word THEN n ELSE FoldCarry((n % Word) + (n \div Word))
  <1> DEFINE fold[k \in Nat] == IF k < Word THEN k ELSE fold[(k % Word) + (k \div Word)]
  <1>1. fold = [k \in Nat |-> IF k < Word THEN k ELSE fold[(k % Word) + (k \div Word)]]
    BY FoldExists
  <1>2. \A k : FoldCarry(k) = fold[k]
    BY DEF FoldCarry
  <1> HIDE DEF fold
  <1> QED
    BY <1>1, <1>2

\* One and two carries.
LEMMA FoldsOnce ==
    ASSUME NEW n \in Nat, NEW q \in Nat, NEW r \in Nat, q > 0,
           n = 65536 * q + r, r < 65536, q + r < 65536
    PROVE  FoldCarry(n) = q + r
  <1>1. n >= 65536 /\ n \div 65536 = q /\ n % 65536 = r
    OBVIOUS
  <1>2. ~(n < Word) /\ (n % Word) + (n \div Word) = q + r /\ q + r < Word /\ q + r \in Nat
    BY <1>1 DEF Word
  <1> QED
    BY <1>2, FoldUnfolds

LEMMA FoldsTwice ==
    ASSUME NEW n \in Nat, NEW q \in Nat, NEW r \in Nat, q > 0,
           n = 65536 * q + r, r < 65536, q + r >= 65536, q < 65535
    PROVE  FoldCarry(n) = q + r - 65535
  <1>1. n >= 65536 /\ n \div 65536 = q /\ n % 65536 = r
    OBVIOUS
  <1>2. ~(n < Word) /\ (n % Word) + (n \div Word) = q + r
    BY <1>1 DEF Word
  <1>3. FoldCarry(n) = FoldCarry(q + r)
    BY <1>2, FoldUnfolds
  <1>4. /\ q + r \in Nat /\ q + r - 65536 \in Nat /\ q + r = 65536 * 1 + (q + r - 65536)
        /\ q + r - 65536 < 65536 /\ 1 + (q + r - 65536) < 65536
    OBVIOUS
  <1>5. FoldCarry(q + r) = 1 + (q + r - 65536)
    BY <1>4, FoldsOnce
  <1> QED
    BY <1>3, <1>5

\* The words of a header without its checksum add up to no more than two carries, and
\* with the complement of what they fold to they fold to all ones.
LEMMA SumVerifies ==
    ASSUME NEW sum \in Nat, sum >= 65536, sum < 196608
    PROVE  LET c == FoldCarry(sum)
           IN  c \in Nat /\ c < 65536 /\ FoldCarry(sum + (65535 - c)) = 65535
  <1> DEFINE q == sum \div 65536
             r == sum % 65536
  <1>1. q \in {1, 2} /\ r \in Nat /\ r < 65536 /\ sum = 65536 * q + r
    OBVIOUS
  <1> HIDE DEF q, r
  <1>2. PICK k \in {1, 2, 3} : FoldCarry(sum) \in Nat /\ FoldCarry(sum) < 65536 /\ sum = FoldCarry(sum) + 65535 * k
    <2>1. CASE q + r < 65536
      <3>1. FoldCarry(sum) = q + r
        BY <1>1, <2>1, FoldsOnce
      <3> QED
        BY <1>1, <2>1, <3>1
    <2>2. CASE q + r >= 65536
      <3>1. FoldCarry(sum) = q + r - 65535
        BY <1>1, <2>2, FoldsTwice
      <3> QED
        BY <1>1, <2>2, <3>1
    <2> QED
      BY <1>1, <2>1, <2>2
  <1>3. sum + (65535 - FoldCarry(sum)) = 65535 * (k + 1)
    BY <1>2
  <1>4. FoldCarry(131070) = 65535
    <2>1. 131070 = 65536 * 1 + 65534
      OBVIOUS
    <2> QED
      BY <2>1, FoldsOnce
  <1>5. FoldCarry(196605) = 65535
    <2>1. 196605 = 65536 * 2 + 65533
      OBVIOUS
    <2> QED
      BY <2>1, FoldsOnce
  <1>6. FoldCarry(262140) = 65535
    <2>1. 262140 = 65536 * 3 + 65532
      OBVIOUS
    <2> QED
      BY <2>1, FoldsOnce
  <1>7. 65535 * (k + 1) \in {131070, 196605, 262140}
    BY <1>2
  <1> QED
    BY <1>2, <1>3, <1>4, <1>5, <1>6, <1>7

-----------------------------------------------------------------------------
(* The frames of an export *)

\* The words of an IPv4 header.
LEMMA HeaderWords ==
    ASSUME NEW payload \in Nat, NEW inbound \in BOOLEAN, NEW csum
    PROVE  LET ip == IpHeader(payload, inbound, csum)
           IN  /\ DOMAIN ip = 1..10
               /\ ip[1] = 17664 /\ ip[2] = IpTotalLength(payload) /\ ip[3] = 0
               /\ ip[4] = 16384 /\ ip[5] = 16516 /\ ip[6] = csum
               /\ <<ip[7], ip[8]>> = IF inbound THEN PeerIp ELSE ProbeIp
               /\ <<ip[9], ip[10]>> = IF inbound THEN ProbeIp ELSE PeerIp
  <1> DEFINE first == <<69 * 256, IpTotalLength(payload), 0, 64 * 256, 64 * 256 + 132, csum>>
  <1>1. IpHeader(payload, inbound, csum) =
           first \o (IF inbound THEN <<2560, 2, 32512, 1>> ELSE <<32512, 1, 2560, 2>>)
    BY DEF IpHeader, PeerIp, ProbeIp
  <1> QED
    BY <1>1 DEF PeerIp, ProbeIp

\* A message that fits: its header's words fit and verify, the lengths agree, and the
\* addresses show the direction.
LEMMA FrameOfRow ==
    ASSUME NEW payload \in Nat, NEW inbound \in BOOLEAN, payload <= 65484
    PROVE  LET frame == BuildPacket(payload, inbound)
               padded == frame.ip[2] - IpHeaderBytes - SctpHeaderBytes
           IN  /\ \A w \in DOMAIN frame.ip : frame.ip[w] \in 0..Word - 1
               /\ FoldCarry(WordSum(frame.ip)) = Word - 1
               /\ padded % 4 = 0 /\ padded - frame.chunk_len \in 0..3
               /\ frame.chunk_len = 16 + payload
               /\ SubSeq(frame.ip, 7, 8) = IF inbound THEN PeerIp ELSE ProbeIp
  <1> DEFINE total == IpTotalLength(payload)
             blank == IpHeader(payload, inbound, 0)
             csum == Checksum(blank)
             ip == IpHeader(payload, inbound, csum)
  <1>1. /\ Padding(payload) \in 0..3
        /\ (SctpBytes(payload) - SctpHeaderBytes) % 4 = 0
        /\ Packable(payload)
    BY LengthsFit
  <1>2. /\ ChunkLength(payload) = 16 + payload
        /\ SctpBytes(payload) = 12 + ChunkLength(payload) + Padding(payload)
        /\ total = 20 + SctpBytes(payload)
        /\ total < 65536
    BY <1>1 DEF ChunkLength, ChunkHeaderBytes, SctpBytes, SctpHeaderBytes, IpTotalLength,
                IpHeaderBytes, Packable, Word
  <1>3. total \in Nat
    BY <1>1, <1>2
  <1>4. /\ DOMAIN blank = 1..10
        /\ blank[1] = 17664 /\ blank[2] = total /\ blank[3] = 0
        /\ blank[4] = 16384 /\ blank[5] = 16516 /\ blank[6] = 0
        /\ <<blank[7], blank[8]>> = IF inbound THEN PeerIp ELSE ProbeIp
        /\ <<blank[9], blank[10]>> = IF inbound THEN ProbeIp ELSE PeerIp
    BY HeaderWords
  <1>5. /\ DOMAIN ip = 1..10
        /\ ip[1] = 17664 /\ ip[2] = total /\ ip[3] = 0
        /\ ip[4] = 16384 /\ ip[5] = 16516 /\ ip[6] = csum
        /\ <<ip[7], ip[8]>> = IF inbound THEN PeerIp ELSE ProbeIp
        /\ <<ip[9], ip[10]>> = IF inbound THEN ProbeIp ELSE PeerIp
    BY HeaderWords
  <1>6. BuildPacket(payload, inbound) =
           [ip |-> ip, chunk_len |-> ChunkLength(payload), incl_len |-> EthernetBytes + total]
    BY DEF BuildPacket
  <1>7. csum = 65535 - FoldCarry(WordSum(blank))
    BY DEF Checksum, Word
  <1> HIDE DEF total, blank, csum, ip
  <1>8. /\ WordSum(blank) = 85639 + total
        /\ csum \in Int => WordSum(ip) = 85639 + total + csum
    <2>1. CASE inbound
      <3>1. /\ blank[7] = 2560 /\ blank[8] = 2 /\ blank[9] = 32512 /\ blank[10] = 1
            /\ ip[7] = 2560 /\ ip[8] = 2 /\ ip[9] = 32512 /\ ip[10] = 1
        BY <1>4, <1>5, <2>1 DEF PeerIp, ProbeIp
      <3> QED
        BY <1>3, <1>4, <1>5, <3>1 DEF WordSum
    <2>2. CASE ~inbound
      <3>1. /\ blank[7] = 32512 /\ blank[8] = 1 /\ blank[9] = 2560 /\ blank[10] = 2
            /\ ip[7] = 32512 /\ ip[8] = 1 /\ ip[9] = 2560 /\ ip[10] = 2
        BY <1>4, <1>5, <2>2 DEF PeerIp, ProbeIp
      <3> QED
        BY <1>3, <1>4, <1>5, <3>1 DEF WordSum
    <2> QED
      BY <2>1, <2>2
  <1>9. csum \in Nat /\ csum < 65536 /\ FoldCarry(WordSum(ip)) = 65535
    <2>1. WordSum(blank) \in Nat /\ WordSum(blank) >= 65536 /\ WordSum(blank) < 196608
      BY <1>2, <1>3, <1>8
    <2>2. /\ FoldCarry(WordSum(blank)) \in Nat /\ FoldCarry(WordSum(blank)) < 65536
          /\ FoldCarry(WordSum(blank) + csum) = 65535
      BY <2>1, <1>7, SumVerifies
    <2>3. csum \in Nat /\ csum < 65536
      BY <2>2, <1>7
    <2>4. WordSum(ip) = WordSum(blank) + csum
      BY <1>3, <1>8, <2>3
    <2> QED
      BY <2>2, <2>3, <2>4
  <1>10. \A w \in DOMAIN ip : ip[w] \in Nat /\ ip[w] < 65536
    <2>1. \A w \in 1..10 : w \in 1..6 \/ w \in 7..10
      OBVIOUS
    <2>2. \A w \in 1..6 : ip[w] \in Nat /\ ip[w] < 65536
      BY <1>2, <1>3, <1>5, <1>9
    <2>3. \A w \in 7..10 : ip[w] \in Nat /\ ip[w] < 65536
      BY <1>5 DEF PeerIp, ProbeIp
    <2> QED
      BY <1>5, <2>1, <2>2, <2>3
  <1>11. \A w \in DOMAIN ip : ip[w] \in 0..Word - 1
    <2>1. ASSUME NEW n \in Nat, NEW v \in Nat, v < n PROVE v \in 0..n - 1
      BY <2>1
    <2>2. Word \in Nat /\ \A w \in DOMAIN ip : ip[w] \in Nat /\ ip[w] < Word
      BY <1>10 DEF Word
    <2> QED
      BY <2>1, <2>2
  <1>12. SubSeq(ip, 7, 8) = IF inbound THEN PeerIp ELSE ProbeIp
    <2>1. \A i \in 7..8 : ip[i] \in Nat
      BY <1>5, <1>10
    <2>2. /\ SubSeq(ip, 7, 8) \in Seq(Nat) /\ Len(SubSeq(ip, 7, 8)) = 2
          /\ \A i \in 1..2 : SubSeq(ip, 7, 8)[i] = ip[7 + i - 1]
      BY <2>1, SubSeqProperties
    <2>3. SubSeq(ip, 7, 8)[1] = ip[7] /\ SubSeq(ip, 7, 8)[2] = ip[8]
      BY <2>2
    <2>4. SubSeq(ip, 7, 8) = <<ip[7], ip[8]>>
      <3> DEFINE ends == <<ip[7], ip[8]>>
                 part == SubSeq(ip, 7, 8)
      <3>1. /\ ends \in Seq(Nat) /\ Len(ends) = 2
            /\ ends[1] = ip[7] /\ ends[2] = ip[8]
        BY <2>1
      <3> HIDE DEF ends, part
      <3>2. part \in Seq(Nat) /\ Len(part) = 2 /\ part[1] = ip[7] /\ part[2] = ip[8]
        BY <2>2, <2>3 DEF part
      <3>3. \A i \in 1..Len(part) : part[i] = ends[i]
        BY <3>1, <3>2
      <3>4. part = ends
        BY <3>1, <3>2, <3>3, SeqEqual
      <3> QED
        BY <3>4 DEF part, ends
    <2> QED
      BY <1>5, <2>4
  <1>13. /\ total - IpHeaderBytes - SctpHeaderBytes = SctpBytes(payload) - SctpHeaderBytes
         /\ (total - IpHeaderBytes - SctpHeaderBytes) - ChunkLength(payload) \in 0..3
    <2>1. total - IpHeaderBytes - SctpHeaderBytes = SctpBytes(payload) - 12
      BY <1>1, <1>2 DEF IpHeaderBytes, SctpHeaderBytes
    <2>2. SctpBytes(payload) - 12 - ChunkLength(payload) = Padding(payload)
      BY <1>1, <1>2
    <2> QED
      BY <1>1, <2>1, <2>2 DEF SctpHeaderBytes
  <1>14. FoldCarry(WordSum(ip)) = Word - 1
    BY <1>9 DEF Word
  <1>15. (total - IpHeaderBytes - SctpHeaderBytes) % 4 = 0
    BY <1>1, <1>13
  <1> QED
    BY <1>2, <1>5, <1>6, <1>11, <1>12, <1>13, <1>14, <1>15

\* What the export needs of a row.
Rows == [bytes : Nat, inbound : BOOLEAN]

\* The rows with bytes have their packets, each at the row's place among them.
FramesOf(list, frames) ==
    LET kept == {i \in DOMAIN list : list[i].bytes > 0}
        packet(i) == BuildPacket(list[i].bytes, list[i].inbound)
    IN  /\ Len(frames) = Cardinality(kept)
        /\ \A i \in kept : frames[Rank(kept, i)] = packet(i)
        /\ \A k \in DOMAIN frames : \E i \in kept : frames[k] = packet(i)

\* The export fails if one row is too long; otherwise it has the packets of the rows
\* with bytes, each at the row's place among them, and no others.
LEMMA ExportFrames ==
    ASSUME NEW list \in Seq(Rows)
    PROVE  /\ (\E i \in DOMAIN list : list[i].bytes > 65484) =>
                 ExportPcap(list).status = 500 /\ ExportPcap(list).frames = <<>>
           /\ (\A i \in DOMAIN list : ~(list[i].bytes > 65484)) =>
                 FramesOf(list, ExportPcap(list).frames)
  <1> DEFINE kept == {i \in DOMAIN list : list[i].bytes > 0}
             payloads == ElementsAt(list, kept)
             exported == ExportPcap(list)
             packet(r) == BuildPacket(r.bytes, r.inbound)
             long == \E k \in DOMAIN payloads : ~Packable(payloads[k].bytes)
             frames == [k \in DOMAIN payloads |-> packet(payloads[k])]
  <1>1. /\ kept \in SUBSET (DOMAIN list)
        /\ \A i \in DOMAIN list : list[i] \in Rows
        /\ \A i \in DOMAIN list : i \in kept <=> list[i].bytes > 0
    OBVIOUS
  <1>2. exported = IF long THEN [status |-> 500, frames |-> <<>>]
                   ELSE [status |-> 200, frames |-> frames]
    BY DEF ExportPcap
  <1> HIDE DEF kept
  <1>3. /\ payloads \in Seq(Rows) /\ Len(payloads) = Cardinality(kept)
        /\ \A i \in kept : Rank(kept, i) \in DOMAIN payloads /\ payloads[Rank(kept, i)] = list[i]
        /\ \A k \in DOMAIN payloads : \E i \in kept : Rank(kept, i) = k
    BY <1>1, Selects
  <1> HIDE DEF payloads
  <1>4. \A k \in DOMAIN payloads : \E i \in kept : Rank(kept, i) = k /\ payloads[k] = list[i]
    BY <1>3
  <1>5. long <=> \E i \in DOMAIN list : list[i].bytes > 65484
    <2>1. \A i \in DOMAIN list : list[i].bytes \in Nat
      BY <1>1 DEF Rows
    <2>2. \A i \in DOMAIN list : Packable(list[i].bytes) <=> ~(list[i].bytes > 65484)
      BY <2>1, LengthsFit
    <2>3. long <=> \E i \in kept : ~Packable(list[i].bytes)
      BY <1>3, <1>4
    <2>4. \A i \in DOMAIN list : list[i].bytes > 65484 => i \in kept
      BY <1>1, <2>1
    <2> QED
      BY <1>1, <2>2, <2>3, <2>4
  <1>6. /\ DOMAIN frames = DOMAIN payloads /\ Len(frames) = Len(payloads)
        /\ \A k \in DOMAIN payloads : frames[k] = packet(payloads[k])
    BY <1>3
  <1> HIDE DEF exported, frames, packet, long
  <1>7. CASE long
    BY <1>2, <1>5, <1>7 DEF exported
  <1>8. CASE ~long
    <2>1. exported.frames = frames
      BY <1>2, <1>8
    <2>2. \A i \in kept : frames[Rank(kept, i)] = packet(list[i])
      BY <1>3, <1>6
    <2>3. \A k \in DOMAIN frames : \E i \in kept : frames[k] = packet(list[i])
      BY <1>4, <1>6
    <2> QED
      BY <1>3, <1>5, <1>6, <1>8, <2>1, <2>2, <2>3 DEF FramesOf, kept, exported, packet
  <1> QED
    BY <1>7, <1>8

\* The export is that of the rows.
ExportInv ==
    /\ rows \in Seq(Rows)
    /\ export = ExportPcap(rows)

LEMMA ExportInductive == Spec => []ExportInv
  <1>1. Init => ExportInv
    BY DEF Init, ExportInv
  <1>2. ExportInv /\ [Next]_vars => ExportInv'
    <2> SUFFICES ASSUME ExportInv, [Next]_vars PROVE ExportInv'
      OBVIOUS
    <2>1. CASE Receive
      BY <2>1 DEF Receive, ExportInv
    <2>2. CASE Submit
      BY <2>2 DEF Submit, ExportInv
    <2>3. CASE Answer
      BY <2>3 DEF Answer, ExportInv
    <2>4. CASE Export
      <3>1. PICK n \in 0..MaxRows : \E some \in [1..n -> [bytes : Payloads, inbound : BOOLEAN]] :
                rows' = some
        BY <2>4 DEF Export
      <3>2. Payloads \subseteq Nat
        <4>1. ASSUME NEW k \in Nat PROVE 0..k \subseteq Nat
          OBVIOUS
        <4>2. Lengths \subseteq Nat
          BY <4>1 DEF Lengths
        <4> QED
          BY <4>2, PayloadsAssumption
      <3>3. n \in Nat
        BY <3>1, MaxRowsAssumption
      <3>4. PICK some \in [1..n -> [bytes : Payloads, inbound : BOOLEAN]] : rows' = some
        BY <3>1
      <3>5. some \in [1..n -> Rows]
        BY <3>2 DEF Rows
      <3>6. some \in Seq(Rows)
        BY <3>3, <3>5
      <3> QED
        BY <2>4, <3>4, <3>6 DEF Export, ExportInv
    <2>5. CASE UNCHANGED vars
      BY <2>5 DEF vars, ExportInv
    <2> QED
      BY <2>1, <2>2, <2>3, <2>4, <2>5 DEF Next
  <1> QED
    BY <1>1, <1>2, PTL DEF Spec

\* Every frame of an export is the packet of a row that fits.
LEMMA FramesAreRows ==
    ASSUME ExportInv
    PROVE  \A k \in DOMAIN export.frames :
              \E payload \in Nat, inbound \in BOOLEAN :
                 payload <= 65484 /\ export.frames[k] = BuildPacket(payload, inbound)
  <1> DEFINE kept == {i \in DOMAIN rows : rows[i].bytes > 0}
  <1>1. rows \in Seq(Rows) /\ export = ExportPcap(rows)
    BY DEF ExportInv
  <1>2. \A i \in DOMAIN rows : rows[i].bytes \in Nat /\ rows[i].inbound \in BOOLEAN
    <2>1. \A i \in DOMAIN rows : rows[i] \in Rows
      BY <1>1
    <2> QED
      BY <2>1 DEF Rows
  <1>3. CASE \E i \in DOMAIN rows : rows[i].bytes > 65484
    <2>1. ExportPcap(rows).frames = <<>>
      BY <1>1, <1>3, ExportFrames
    <2> QED
      BY <1>1, <2>1
  <1>4. CASE \A i \in DOMAIN rows : ~(rows[i].bytes > 65484)
    <2>1. \A k \in DOMAIN export.frames :
             \E i \in kept : export.frames[k] = BuildPacket(rows[i].bytes, rows[i].inbound)
      <3>1. FramesOf(rows, export.frames)
        BY <1>1, <1>4, ExportFrames
      <3> QED
        BY <3>1 DEF FramesOf
    <2>2. \A i \in DOMAIN rows : rows[i].bytes <= 65484
      BY <1>2, <1>4
    <2> QED
      BY <1>2, <2>1, <2>2
  <1> QED
    BY <1>3, <1>4

\* ChecksumVerifies holds for any number of rows, of every length and both directions: the carries
\* of _checksum end after two, and the words with the complement add up to all ones.
THEOREM HeadersVerify == Spec => []ChecksumVerifies
  <1>1. ExportInv => ChecksumVerifies
    <2> SUFFICES ASSUME ExportInv, NEW k \in DOMAIN export.frames
                 PROVE  LET ip == export.frames[k].ip
                        IN  /\ \A w \in DOMAIN ip : ip[w] \in 0..Word - 1
                            /\ FoldCarry(WordSum(ip)) = Word - 1
      BY DEF ChecksumVerifies
    <2>1. PICK payload \in Nat, inbound \in BOOLEAN :
              payload <= 65484 /\ export.frames[k] = BuildPacket(payload, inbound)
      BY FramesAreRows
    <2> QED
      BY <2>1, FrameOfRow
  <1> QED
    BY <1>1, ExportInductive, PTL

\* ChunkIsPadded holds for any number of rows, of every length.
THEOREM ChunksPadded == Spec => []ChunkIsPadded
  <1>1. ExportInv => ChunkIsPadded
    <2> SUFFICES ASSUME ExportInv, NEW k \in DOMAIN export.frames
                 PROVE  LET padded == export.frames[k].ip[2] - IpHeaderBytes - SctpHeaderBytes
                        IN  /\ padded % 4 = 0
                            /\ padded - export.frames[k].chunk_len \in 0..3
      BY DEF ChunkIsPadded
    <2>1. PICK payload \in Nat, inbound \in BOOLEAN :
              payload <= 65484 /\ export.frames[k] = BuildPacket(payload, inbound)
      BY FramesAreRows
    <2> QED
      BY <2>1, FrameOfRow
  <1> QED
    BY <1>1, ExportInductive, PTL

\* LongRowEndsExport holds for any number of rows, of every length: one of more than 65484 bytes ends
\* the export, otherwise each row with bytes has its frame at its place.
THEOREM LongRowsEndExport == Spec => []LongRowEndsExport
  <1>1. ExportInv => LongRowEndsExport
    <2> SUFFICES ASSUME ExportInv PROVE LongRowEndsExport
      OBVIOUS
    <2> DEFINE kept == {i \in DOMAIN rows : rows[i].bytes > 0}
    <2>1. rows \in Seq(Rows) /\ export = ExportPcap(rows)
      BY DEF ExportInv
    <2>2. \A i \in DOMAIN rows : rows[i].bytes \in Nat /\ rows[i].inbound \in BOOLEAN
      <3>1. \A i \in DOMAIN rows : rows[i] \in Rows
        BY <2>1
      <3> QED
        BY <3>1 DEF Rows
    <2>3. CASE \E i \in DOMAIN rows : rows[i].bytes > 65484
      <3>1. export.status = 500
        BY <2>1, <2>3, ExportFrames
      <3> QED
        BY <2>3, <3>1 DEF LongRowEndsExport
    <2>4. CASE \A i \in DOMAIN rows : ~(rows[i].bytes > 65484)
      <3>1. /\ Len(export.frames) = Cardinality(kept)
            /\ \A i \in kept :
                  export.frames[Rank(kept, i)] = BuildPacket(rows[i].bytes, rows[i].inbound)
        BY <2>1, <2>4, ExportFrames DEF FramesOf
      <3>2. ASSUME NEW i \in kept
            PROVE  LET frame == export.frames[Rank(kept, i)]
                   IN  /\ frame.chunk_len = 16 + rows[i].bytes
                       /\ SubSeq(frame.ip, 7, 8) = IF rows[i].inbound THEN PeerIp ELSE ProbeIp
        <4>1. rows[i].bytes \in Nat /\ rows[i].bytes <= 65484 /\ rows[i].inbound \in BOOLEAN
          BY <2>2, <2>4
        <4>2. export.frames[Rank(kept, i)] = BuildPacket(rows[i].bytes, rows[i].inbound)
          BY <3>1
        <4> QED
          BY <4>1, <4>2, FrameOfRow
      <3> QED
        BY <2>4, <3>1, <3>2 DEF LongRowEndsExport, Rank
    <2> QED
      BY <2>3, <2>4
  <1> QED
    BY <1>1, ExportInductive, PTL
=============================================================================
