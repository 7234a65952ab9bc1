------------------------------- MODULE Packet -------------------------------
(***************************************************************************)
(* The pcap export (sctp_probe/export.py): each row with bytes becomes an   *)
(* Ethernet frame with an IPv4 header and one SCTP DATA chunk.  A payload   *)
(* is its length; of the headers the fields that depend on it are kept, and *)
(* all of the ten words that the IPv4 checksum covers.  struct.pack raises  *)
(* when a number does not fit its field, and that ends the export.          *)
(***************************************************************************)
EXTENDS Lists

Word == 65536

EthernetBytes == 14
IpHeaderBytes == 20
SctpHeaderBytes == 12
ChunkHeaderBytes == 16

-----------------------------------------------------------------------------
(* _checksum *)

\* Mutant: the carry is not added again.
FoldCarry_Once(s) == (s % Word) + (s \div Word)

\* while s >> 16: s = (s & 0xFFFF) + (s >> 16)
FoldCarry(s) ==
    LET fold[n \in Nat] == IF n < Word THEN n ELSE fold[(n % Word) + (n \div Word)]
    IN  fold[s]

\* sum(struct.unpack(...)): the only bytes that are summed are the ten words of an
\* IPv4 header.
WordSum(ip) == ip[1] + ip[2] + ip[3] + ip[4] + ip[5] + ip[6] + ip[7] + ip[8] + ip[9] + ip[10]

\* ~s & 0xFFFF
Checksum(ip) == (Word - 1) - FoldCarry(WordSum(ip))

-----------------------------------------------------------------------------
(* _build_packet *)

ChunkLength(payload) == ChunkHeaderBytes + payload

\* Mutant: the padding is computed without the outer % 4.
Padding_Four(payload) == 4 - (ChunkLength(payload) % 4)

Padding(payload) == (4 - (ChunkLength(payload) % 4)) % 4

\* The SCTP packet: common header and one padded chunk.
SctpBytes(payload) == SctpHeaderBytes + ChunkLength(payload) + Padding(payload)

IpTotalLength(payload) == IpHeaderBytes + SctpBytes(payload)

\* 127.0.0.1 and 10.0.0.2
ProbeIp == <<127 * 256, 1>>
PeerIp == <<10 * 256, 2>>

\* The IPv4 header as words, with checksum csum: version and IHL, total length,
\* identification, DF, TTL 64 and protocol 132, checksum, source, destination.
IpHeader(payload, inbound, csum) ==
    <<69 * 256, IpTotalLength(payload), 0, 64 * 256, 64 * 256 + 132, csum>>
        \o IF inbound THEN PeerIp \o ProbeIp ELSE ProbeIp \o PeerIp

\* Mutant: only the length of the chunk is looked at.
Packable_ChunkOnly(payload) == ChunkLength(payload) < Word

\* Both 16-bit lengths fit.
Packable(payload) == ChunkLength(payload) < Word /\ IpTotalLength(payload) < Word

\* The record of one row in the pcap file.
BuildPacket(payload, inbound) ==
    [ip |-> IpHeader(payload, inbound, Checksum(IpHeader(payload, inbound, 0))),
     chunk_len |-> ChunkLength(payload),
     incl_len |-> EthernetBytes + IpTotalLength(payload)]

\* export_pcap: a row without bytes is left out, one that cannot be packed ends the
\* export with an exception.
ExportPcap(rows) ==
    LET payloads == ElementsAt(rows, {i \in DOMAIN rows : rows[i].bytes > 0})
    IN  IF \E i \in DOMAIN payloads : ~Packable(payloads[i].bytes)
        THEN [status |-> 500, frames |-> <<>>]
        ELSE [status |-> 200,
              frames |-> [i \in DOMAIN payloads |-> BuildPacket(payloads[i].bytes, payloads[i].inbound)]]
=============================================================================
