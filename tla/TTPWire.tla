------------------------------ MODULE TTPWire ------------------------------
(***************************************************************************)
(* A TTP segment as bytes: its header (ttp/packet.py, ttp/constants.py),   *)
(* the checksum over it (ttp/checksums.py), the IPv4 datagram around it    *)
(* (ttp/ipv4.py), and what TTPSocket (ttp/socket.py) makes of one.  Bytes  *)
(* are numbers below 256 and the first one of a sequence has position 1.   *)
(* A 32-bit number is the pair of its 16-bit halves.                       *)
(***************************************************************************)
EXTENDS Integers, Sequences

CONSTANT MaxLength  \* largest length a 16-bit field holds: MaxShort in the code

MaxByte == 255
MaxShort == 65535

ASSUME MaxLengthAssumption == MaxLength \in 44..MaxShort

TTP_PROTOCOL == 253
TTP_HEADER_SIZE == 24
IPV4_SIZE == 20   \* ihl = 5

Byte == 0..MaxByte
Short == 0..MaxShort
Long == Short \X Short

\* struct's "!H" and "!I".
PackShort(n) == <<n \div 256, n % 256>>
PackLong(n) == PackShort(n[1]) \o PackShort(n[2])
ShortAt(data, i) == 256 * data[i] + data[i + 1]
LongAt(data, i) == <<ShortAt(data, i), ShortAt(data, i + 2)>>

-----------------------------------------------------------------------------
(* checksums.py *)

\* MUTANT: the carry out of bit 16 is lost.
FoldedWithoutCarry(total) == total % 65536

\* MUTANT: the carries are left where they are.
FoldedNever(total) == total

Folded(total) == (total % 65536) + (total \div 65536)

\* MUTANT: an odd byte at the end is left out.
PaddedShorter(data) == IF Len(data) % 2 = 0 THEN data ELSE SubSeq(data, 1, Len(data) - 1)

Padded(data) == IF Len(data) % 2 = 0 THEN data ELSE Append(data, 0)

\* One's-complement sum of the 16-bit words.
OnesSum(data) ==
    LET words == Padded(data)
        total[n \in 0..Len(words) \div 2] ==
            IF n = 0 THEN 0 ELSE Folded(total[n - 1] + ShortAt(words, 2 * n - 1))
    IN  total[Len(words) \div 2]

\* (~total) & 0xFFFF
checksum(data) == 65535 - OnesSum(data)

PseudoHeader(source, destination, length) ==
    source \o destination \o <<0, TTP_PROTOCOL>> \o PackShort(length)

\* The 16-bit checksum, as it stands in its 32-bit field.
TTPChecksum(source, destination, data) ==
    <<0, checksum(PseudoHeader(source, destination, Len(data)) \o data)>>

-----------------------------------------------------------------------------
(* packet.py *)

Packet == [source_port : Short, destination_port : Short,
           sequence_number : Long, acknowledgment_number : Long,
           flags : Byte, header_length : Byte, reserved : Short, window : Short,
           payload : Seq(Byte), checksum : Long]

\* A segment as the connection builds it; pack() replaces its checksum.
NewPacket(source_port, destination_port, seq, ack, flags, window, payload) ==
    [source_port |-> source_port, destination_port |-> destination_port,
     sequence_number |-> seq, acknowledgment_number |-> ack,
     flags |-> flags, header_length |-> TTP_HEADER_SIZE, reserved |-> 0, window |-> window,
     payload |-> payload, checksum |-> <<0, 0>>]

Pack(pk) ==
    PackShort(pk.source_port) \o PackShort(pk.destination_port)
        \o PackLong(pk.sequence_number) \o PackLong(pk.acknowledgment_number)
        \o <<pk.flags, pk.header_length>> \o PackShort(pk.reserved) \o PackShort(pk.window)
        \o PackShort(Len(pk.payload)) \o PackLong(pk.checksum) \o pk.payload

\* unpack() raises unless the header is there and the payload it announces.
Complete(data) ==
    /\ Len(data) >= TTP_HEADER_SIZE
    /\ Len(data) >= data[14] + ShortAt(data, 19)

\* The payload is found from header_length; the length of the payload is not kept.
Unpack(data) ==
    [source_port |-> ShortAt(data, 1), destination_port |-> ShortAt(data, 3),
     sequence_number |-> LongAt(data, 5), acknowledgment_number |-> LongAt(data, 9),
     flags |-> data[13], header_length |-> data[14], reserved |-> ShortAt(data, 15),
     window |-> ShortAt(data, 17),
     payload |-> SubSeq(data, data[14] + 1, data[14] + ShortAt(data, 19)),
     checksum |-> LongAt(data, 21)]

-----------------------------------------------------------------------------
(* ipv4.py *)

IPv4Header(source, destination, total_length, header_checksum) ==
    <<69, 0>> \o PackShort(total_length) \o PackShort(54321) \o PackShort(0)
        \o <<64, TTP_PROTOCOL>> \o PackShort(header_checksum) \o source \o destination

IPv4Pack(source, destination, payload) ==
    LET length == IPV4_SIZE + Len(payload)
        unsummed == IPv4Header(source, destination, length, 0)
    IN  IPv4Header(source, destination, length, checksum(unsummed)) \o payload

\* IPv4Packet.unpack() and is_ttp() raise, or make _parse_raw_packet raise, on any other.
IsTTPDatagram(raw) ==
    /\ Len(raw) >= IPV4_SIZE
    /\ raw[1] \div 16 = 4
    /\ Len(raw) >= 4 * (raw[1] % 16)
    /\ raw[10] = TTP_PROTOCOL

SourceOf(raw) == SubSeq(raw, 13, 16)
DestinationOf(raw) == SubSeq(raw, 17, 20)

\* From the end of the header to total_length: what was appended below is dropped.
PayloadOf(raw) ==
    SubSeq(raw, 4 * (raw[1] % 16) + 1,
           IF ShortAt(raw, 3) < Len(raw) THEN ShortAt(raw, 3) ELSE Len(raw))

-----------------------------------------------------------------------------
(* socket.py *)

\* MUTANT: the IPv4 header is forgotten.
SendableWithoutHeader(pk) == TTP_HEADER_SIZE + Len(pk.payload) <= MaxLength

\* pack(), the pseudo-header and the IPv4 header raise, in this order, when their
\* length fields cannot hold payload, segment and datagram: the last one decides.
Sendable(pk) == IPV4_SIZE + TTP_HEADER_SIZE + Len(pk.payload) <= MaxLength

\* _build_raw_packet(), on a copy of the segment.
BuildRawPacket(source, destination, pk) ==
    LET unsummed == Pack([pk EXCEPT !.checksum = <<0, 0>>])
        sum == TTPChecksum(source, destination, unsummed)
    IN  IPv4Pack(source, destination, Pack([pk EXCEPT !.checksum = sum]))

\* MUTANT: the checksum that came is summed too.
ValidWithChecksum(source, destination, pk) ==
    pk.checksum = TTPChecksum(source, destination, Pack(pk))

\* validate_ttp_checksum(): the segment is packed again, which gives the payload
\* found by unpack() its own length and leaves out what follows it.
Valid(source, destination, pk) ==
    pk.checksum = TTPChecksum(source, destination, Pack([pk EXCEPT !.checksum = <<0, 0>>]))

\* _parse_raw_packet() returns the segment.  Otherwise it raises ValueError.
Accepted(raw) ==
    /\ IsTTPDatagram(raw)
    /\ Complete(PayloadOf(raw))
    /\ Valid(SourceOf(raw), DestinationOf(raw), Unpack(PayloadOf(raw)))

ParseRawPacket(raw) == Unpack(PayloadOf(raw))
=============================================================================
