----------------------------- MODULE TTPPacket -----------------------------
(***************************************************************************)
(* TTP segments (ttp/packet.py), reduced to what the connection tells      *)
(* apart: the flags, the two sequence numbers and the payload.  Ports,     *)
(* addresses, checksum and the window field, which no receiver reads, are  *)
(* left out.  A payload is a value of the set Chunk with a size in bytes.  *)
(***************************************************************************)
EXTENDS Integers, FiniteSets

CONSTANTS
    Chunk,       \* payloads a DATA segment can carry
    ChunkSize,   \* their sizes in bytes
    NoPayload,   \* the empty payload of SYN, ACK and FIN segments
    SeqLimit     \* first number a 32-bit header field cannot hold: 2^32 in the code

MAX_PACKET_SIZE == 65535     \* bytes of a slice of send()

\* send() slices a non-empty string, so that no DATA segment is empty, nor does it
\* carry more than a slice.
ASSUME ChunkAssumption ==
    /\ ChunkSize \in [Chunk -> 1..MAX_PACKET_SIZE]
    /\ NoPayload \notin Chunk
    /\ SeqLimit \in Nat

TTPFlags == {"SYN", "ACK", "FIN", "RST", "DATA"}

TTPPacket == [flags : SUBSET TTPFlags, seq : Nat, ack : Nat,
              payload : Chunk \cup {NoPayload}]

\* The sequence and acknowledgement numbers 0 and the empty set of flags
\* belong to no segment a connection builds: the value of a local variable
\* that holds no packet.
NoPacket == [flags |-> {}, seq |-> 0, ack |-> 0, payload |-> NoPayload]

PayloadLength(pk) == IF pk.payload = NoPayload THEN 0 ELSE ChunkSize[pk.payload]

\* SYN and FIN take one sequence number each.
SequenceSpace(pk) ==
    PayloadLength(pk) + Cardinality(pk.flags \cap {"SYN", "FIN"})

ConsumesSequence(pk) == pk.flags \cap {"SYN", "FIN", "DATA"} # {}

\* The sequence number after the segment: an ACK that covers it is at least this.
End(pk) == pk.seq + SequenceSpace(pk)

HEADER_SIZE == 24            \* struct "!HHIIBBHHHI"
IPV4_HEADER_SIZE == 20
IPV4_MAX_LENGTH == 65535     \* total_length is packed as "H"

\* struct.pack raises struct.error for a number that does not fit its field:
\* such a segment is never handed to the raw socket.
Encodable(pk) ==
    /\ pk.seq < SeqLimit
    /\ pk.ack < SeqLimit
    /\ IPV4_HEADER_SIZE + HEADER_SIZE + PayloadLength(pk) <= IPV4_MAX_LENGTH
=============================================================================
