----------------------------- MODULE MCFormats -----------------------------
(***************************************************************************)
(* The instance of Formats for TLC.                                         *)
(***************************************************************************)
EXTENDS Formats

\* Both ends of 16 bits and numbers between them.
SomeNumbers == {0, 1, 15, 4660, 32768, 65535}

Spelling(prefixed, digits) == [prefixed |-> prefixed, digits |-> digits]

\* As the decoder writes them and as a hand may: shorter, without 0x, with letters.
SomeSpellings ==
    {HexText(n) : n \in SomeNumbers}
        \cup {Spelling(p, d) : p \in BOOLEAN, d \in {<<5>>, <<15, 15>>, <<0, 1, 0>>}}
        \cup {Spelling(FALSE, <<1, 2, 3, 4>>), Spelling(FALSE, <<15, 15, 15, 15>>)}

\* No bytes, every padding at both ends of the lengths that fit, the lengths around
\* 45384 (where adding the carry of the checksum gives a carry again), and longer ones.
SomePayloads == 0..8 \cup 45380..45385 \cup 65479..65486 \cup {65535}
=============================================================================
