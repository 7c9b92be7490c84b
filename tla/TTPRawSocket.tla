---------------------------- MODULE TTPRawSocket ----------------------------
(***************************************************************************)
(* The medium under TTP: raw sockets with protocol number 253.  Every such *)
(* socket of a host reads a copy of every TTP datagram, whatever its       *)
(* ports; TTPSocket validates it, and only then the connection, or the     *)
(* listener, looks at the ports.  A datagram may be altered in one bit of  *)
(* its segment; the header in front of it is protected by the kernel, and  *)
(* loss and reordering are the subject of TTPTransfer.                     *)
(***************************************************************************)
EXTENDS TTPWire

CONSTANTS
    Outgoing,        \* segments the connections of the host transmit
    AddressOf,       \* IPv4 address, by port
    Reader,          \* threads that read a raw socket
    LocalPort,       \* the port each expects as destination
    RemotePort,      \* and as source
    MaxSent,         \* bound: datagrams
    AlteredBits      \* bound: the bits of a byte that may be altered

\* inet_aton()
Address == [1..4 -> Byte]

\* No code changes header_length.  A number names one segment of a connection
\* (SentIsChained of TTPTransferInvariant): what differs, differs in the ports, the
\* numbers, the flags or the length.
ASSUME RawSocketAssumption ==
    /\ Outgoing \subseteq Packet
    /\ \A pk \in Outgoing :
         /\ pk.header_length = TTP_HEADER_SIZE
         /\ AddressOf[pk.source_port] \in Address
         /\ AddressOf[pk.destination_port] \in Address
    /\ \A pk, other \in Outgoing :
         (/\ pk.source_port = other.source_port /\ pk.destination_port = other.destination_port
          /\ pk.sequence_number = other.sequence_number
          /\ pk.acknowledgment_number = other.acknowledgment_number
          /\ pk.flags = other.flags /\ Len(pk.payload) = Len(other.payload))
         => pk = other
    /\ MaxSent \in Nat
    /\ AlteredBits \subseteq 0..7

VARIABLES
    wire,       \* the datagrams sent: bytes, segment they were built from, altered byte
    cursor,     \* datagrams each reader has read
    status,     \* "reading", or "dead" by an exception
    accepted    \* per reader, which datagrams it has passed on, as which segment

socketVars == <<wire, cursor, status, accepted>>

SocketInit ==
    /\ wire = << >>
    /\ cursor = [r \in Reader |-> 0]
    /\ status = [r \in Reader |-> "reading"]
    /\ accepted = [r \in Reader |-> {}]

Datagram(pk) == BuildRawPacket(AddressOf[pk.source_port], AddressOf[pk.destination_port], pk)

\* send_packet() sends, or raises before anything is sent.  A retransmission builds
\* the same segment again.
SendPacket ==
    /\ Len(wire) < MaxSent
    /\ \E pk \in Outgoing :
         /\ Sendable(pk)
         /\ wire' = Append(wire, [raw |-> Datagram(pk), packet |-> pk, altered |-> 0])
    /\ UNCHANGED <<cursor, status, accepted>>

FlipBit(byte, bit) == IF (byte \div 2^bit) % 2 = 0 THEN byte + 2^bit ELSE byte - 2^bit

\* One datagram has a bit of its segment altered on the way.
SendAltered ==
    /\ Len(wire) < MaxSent
    /\ \A n \in DOMAIN wire : wire[n].altered = 0
    /\ \E pk \in Outgoing, bit \in AlteredBits :
         /\ Sendable(pk)
         /\ \E i \in 1..TTP_HEADER_SIZE + Len(pk.payload) :
              wire' = Append(wire,
                  [raw |-> [Datagram(pk) EXCEPT ![IPV4_SIZE + i] = FlipBit(@, bit)],
                   packet |-> pk, altered |-> i])
    /\ UNCHANGED <<cursor, status, accepted>>

\* The ports are those of this connection.
IsMine(r, pk) == pk.destination_port = LocalPort[r] /\ pk.source_port = RemotePort[r]

\* receive_packet(), then the filter of _wait_for_packet().  The exception of a
\* segment that is not accepted ends _receive_loop(), or accept().
ReceivePacket(r) ==
    /\ status[r] = "reading"
    /\ cursor[r] < Len(wire)
    /\ LET raw == wire[cursor[r] + 1].raw
           pk == ParseRawPacket(raw)
       IN  \/ /\ Accepted(raw)
              /\ cursor' = [cursor EXCEPT ![r] = @ + 1]
              /\ accepted' = IF IsMine(r, pk)
                             THEN [accepted EXCEPT ![r] = @ \cup {[at |-> cursor'[r], packet |-> pk]}]
                             ELSE accepted
              /\ UNCHANGED status
           \/ /\ ~Accepted(raw)
              /\ status' = [status EXCEPT ![r] = "dead"]
              /\ UNCHANGED <<cursor, accepted>>
    /\ UNCHANGED wire

SocketNext == SendPacket \/ SendAltered \/ \E r \in Reader : ReceivePacket(r)

SocketSpec == SocketInit /\ [][SocketNext]_socketVars

-----------------------------------------------------------------------------
(* Properties *)

\* The segment as it was built: its checksum apart.
SameSegment(pk, other) == [pk EXCEPT !.checksum = other.checksum] = other

\* A segment that is not altered arrives as it was built, whatever its fields, its
\* length and its payload: the reader it is for passes it on, and no reader dies of
\* it.
IntactIsDelivered ==
    \A r \in Reader :
        /\ \A n \in 1..cursor[r] : wire[n].altered = 0 /\ IsMine(r, wire[n].packet) =>
             \E a \in accepted[r] : a.at = n /\ SameSegment(a.packet, wire[n].packet)
        /\ status[r] = "dead" => wire[cursor[r] + 1].altered # 0

\* The positions of header_length and payload_length, from which unpack() finds the
\* payload that is summed.
LengthBytes == {14, 19, 20}

\* What a connection gets was built by its peer: one altered bit is found by the
\* checksum, unless it moves an end of the payload, so that other bytes are summed.
AcceptedWasBuilt ==
    \A r \in Reader : \A a \in accepted[r] :
        \/ SameSegment(a.packet, wire[a.at].packet)
        \/ wire[a.at].altered \in LengthBytes

\* The words of an even number of bytes, as a plain number.
WordsTotal(data) ==
    LET total[n \in 0..Len(data) \div 2] ==
            IF n = 0 THEN 0 ELSE total[n - 1] + ShortAt(data, 2 * n - 1)
    IN  total[Len(data) \div 2]

\* The datagrams are as long as their header says, and the words of the header add up
\* to 0 modulo 0xFFFF, the rule by which any receiver accepts a header: no carry was
\* lost and no length wrapped.
HeaderIsTrue ==
    \A n \in DOMAIN wire :
        /\ ShortAt(wire[n].raw, 3) = Len(wire[n].raw)
        /\ Len(wire[n].raw) <= MaxLength
        /\ WordsTotal(SubSeq(wire[n].raw, 1, IPV4_SIZE)) % 65535 = 0

\* The comment of _wait_for_packet() (connection.py:118-119): what is not for this
\* connection is silently discarded.  The code does not do it.
UnrelatedIsDiscarded ==
    \A r \in Reader : status[r] = "dead" => IsMine(r, wire[cursor[r] + 1].packet)

\* checksums.py:7-9: corrupted segments can be detected and rejected.  Not every one.
AlteredIsRefused ==
    \A r \in Reader : \A a \in accepted[r] : wire[a.at].altered = 0
=============================================================================
