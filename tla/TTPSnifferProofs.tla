-------------------------- MODULE TTPSnifferProofs --------------------------
(***************************************************************************)
(* Of the readers and the sniffer of TTPSniffer, for any set of segments   *)
(* and readers and any number of datagrams: what a reader passes on was    *)
(* built by its peer, one refused segment stops every reader, and what is  *)
(* shown is what was sent, once.  What the bytes say is in TTPWireProofs.  *)
(***************************************************************************)
EXTENDS TTPSniffer, TTPWireProofs

\* The entries of wire.
Sent ==
    {[raw |-> Datagram(pk), packet |-> pk, altered |-> 0] : pk \in {p \in Outgoing : Sendable(p)}}
        \cup UNION {{[raw |-> [Datagram(pk) EXCEPT ![IPV4_SIZE + i] = FlipBit(@, bit)],
                      packet |-> pk, altered |-> i] :
                         bit \in AlteredBits, i \in 1..TTP_HEADER_SIZE + Len(pk.payload)} :
                     pk \in {p \in Outgoing : Sendable(p)}}

\* What a reader passes on of a datagram.
Passed(n, raw) == [at |-> n, packet |-> ParseRawPacket(raw)]

\* A reader has passed what was accepted, and died of what is not.
ReadersInv ==
    /\ wire \in Seq(Sent)
    /\ cursor \in [Reader -> Nat]
    /\ status \in [Reader -> {"reading", "dead"}]
    /\ \A r \in Reader :
         /\ cursor[r] <= Len(wire)
         /\ \A n \in 1..cursor[r] : Accepted(wire[n].raw)
         /\ status[r] = "dead" =>
              cursor[r] < Len(wire) /\ ~Accepted(wire[cursor[r] + 1].raw)

\* What it has passed on are the segments for its ports, as they were read.
PassedInv ==
    /\ accepted \in [Reader -> SUBSET {Passed(n, d.raw) : n \in Nat, d \in Sent}]
    /\ \A r \in Reader : \A a \in accepted[r] :
         a.at \in 1..cursor[r] /\ a = Passed(a.at, wire[a.at].raw)
    /\ \A r \in Reader : \A n \in 1..cursor[r] :
         IsMine(r, ParseRawPacket(wire[n].raw)) => Passed(n, wire[n].raw) \in accepted[r]

KeyOf(raw) == Fingerprint(raw, Dissected(PayloadOf(raw)))

\* The entries of shown.
PrintedEntry(n, raw) ==
    [at |-> n, ttp |-> Dissected(PayloadOf(raw)),
     record |-> RecordShown(Dissected(PayloadOf(raw)).payload)]

Printed == {PrintedEntry(n, d.raw) : n \in Nat, d \in Sent}

\* The sniffer has kept the fingerprint of what it has captured, and has shown one
\* datagram for each.
ShownInv ==
    /\ copies \in Seq({1, 2})
    /\ Len(copies) <= Len(wire)
    /\ shown \in Seq(Printed)
    /\ Len(shown) <= Len(copies)
    /\ \A n \in DOMAIN copies : KeyOf(wire[n].raw) \in seen
    /\ \A key \in seen : \E i \in DOMAIN shown : KeyOf(wire[shown[i].at].raw) = key
    /\ \A i \in DOMAIN shown :
         /\ shown[i].at \in DOMAIN copies
         /\ shown[i] = PrintedEntry(shown[i].at, wire[shown[i].at].raw)
         /\ KeyOf(wire[shown[i].at].raw) \in seen
    /\ \A i, j \in DOMAIN shown :
         KeyOf(wire[shown[i].at].raw) = KeyOf(wire[shown[j].at].raw) => i = j

SnifferInv == ReadersInv /\ PassedInv /\ ShownInv

-----------------------------------------------------------------------------
(* What the entries of wire are *)

LEMMA SentIsBuilt ==
    ASSUME NEW d \in Sent
    PROVE  /\ d.packet \in Packet /\ d.packet \in Outgoing
           /\ d.packet.header_length = TTP_HEADER_SIZE /\ Sendable(d.packet)
           /\ AddressOf[d.packet.source_port] \in Address
           /\ AddressOf[d.packet.destination_port] \in Address
           /\ d.altered = 0 => d.raw = Datagram(d.packet)
           /\ d.altered # 0 =>
                /\ d.altered \in 1..TTP_HEADER_SIZE + Len(d.packet.payload)
                /\ OneBitAway(d.raw, Datagram(d.packet), d.altered)
<1>1. CASE d \in {[raw |-> Datagram(pk), packet |-> pk, altered |-> 0] :
                      pk \in {p \in Outgoing : Sendable(p)}}
  <2>1. PICK pk \in Outgoing :
          Sendable(pk) /\ d = [raw |-> Datagram(pk), packet |-> pk, altered |-> 0]
    BY <1>1
  <2>2. d.packet = pk /\ d.raw = Datagram(pk) /\ d.altered = 0
    BY <2>1
  <2> QED BY <2>1, <2>2, RawSocketAssumption
<1>2. ASSUME NEW pk \in Outgoing, Sendable(pk), NEW bit \in AlteredBits,
             NEW i \in 1..TTP_HEADER_SIZE + Len(pk.payload),
             d = [raw |-> [Datagram(pk) EXCEPT ![IPV4_SIZE + i] = FlipBit(@, bit)],
                  packet |-> pk, altered |-> i]
      PROVE  /\ d.packet = pk /\ d.altered = i
             /\ d.raw = [Datagram(pk) EXCEPT ![IPV4_SIZE + i] = FlipBit(@, bit)]
  BY <1>2
<1>3. ASSUME NEW pk \in Outgoing, Sendable(pk), NEW bit \in AlteredBits,
             NEW i \in 1..TTP_HEADER_SIZE + Len(pk.payload),
             d = [raw |-> [Datagram(pk) EXCEPT ![IPV4_SIZE + i] = FlipBit(@, bit)],
                  packet |-> pk, altered |-> i]
      PROVE  /\ d.packet \in Packet /\ d.packet \in Outgoing
             /\ d.packet.header_length = TTP_HEADER_SIZE /\ Sendable(d.packet)
             /\ AddressOf[d.packet.source_port] \in Address
             /\ AddressOf[d.packet.destination_port] \in Address
             /\ d.altered # 0 /\ d.altered \in 1..TTP_HEADER_SIZE + Len(d.packet.payload)
             /\ OneBitAway(d.raw, Datagram(d.packet), d.altered)
  <2>1. /\ d.packet = pk /\ d.altered = i
        /\ d.raw = [Datagram(pk) EXCEPT ![IPV4_SIZE + i] = FlipBit(@, bit)]
    BY <1>2, <1>3
  <2>2. bit \in 0..7
    BY RawSocketAssumption
  <2>3. OneBitAway(d.raw, Datagram(d.packet), d.altered)
    BY <2>1, <2>2, Zenon DEF OneBitAway
  <2>4. Len(pk.payload) \in Nat
    BY RawSocketAssumption DEF Packet
  <2>5. i # 0
    BY <2>4 DEF TTP_HEADER_SIZE
  <2> QED BY <1>3, <2>1, <2>3, <2>5, RawSocketAssumption
<1>4. CASE d \notin {[raw |-> Datagram(pk), packet |-> pk, altered |-> 0] :
                      pk \in {p \in Outgoing : Sendable(p)}}
  <2>1. \E pk \in Outgoing, bit \in AlteredBits :
           /\ Sendable(pk)
           /\ \E i \in 1..TTP_HEADER_SIZE + Len(pk.payload) :
               d = [raw |-> [Datagram(pk) EXCEPT ![IPV4_SIZE + i] = FlipBit(@, bit)],
                    packet |-> pk, altered |-> i]
    <3>1. PICK pk \in {p \in Outgoing : Sendable(p)} :
            d \in {[raw |-> [Datagram(pk) EXCEPT ![IPV4_SIZE + i] = FlipBit(@, bit)],
                   packet |-> pk, altered |-> i] :
                      bit \in AlteredBits, i \in 1..TTP_HEADER_SIZE + Len(pk.payload)}
      BY <1>4, SMT DEF Sent
    <3> QED BY <3>1, SMT
  <2> QED BY <1>3, <2>1, Zenon
<1> QED BY <1>1, <1>4

\* One that was not altered is accepted as it was built.
LEMMA IntactEntry ==
    ASSUME NEW d \in Sent, d.altered = 0
    PROVE  Accepted(d.raw) /\ SameSegment(ParseRawPacket(d.raw), d.packet)
<1> DEFINE source == AddressOf[d.packet.source_port]
           destination == AddressOf[d.packet.destination_port]
<1>1. /\ d.packet \in Packet /\ source \in Address /\ destination \in Address
      /\ d.packet.header_length = TTP_HEADER_SIZE /\ Sendable(d.packet)
  BY SentIsBuilt, Zenon
<1>2. d.raw = Datagram(d.packet)
  BY SentIsBuilt
<1>3. d.raw = BuildRawPacket(source, destination, d.packet)
  BY <1>2, Zenon DEF Datagram
<1> HIDE DEF source, destination
<1>4. /\ Accepted(BuildRawPacket(source, destination, d.packet))
      /\ SameSegment(ParseRawPacket(BuildRawPacket(source, destination, d.packet)), d.packet)
  BY <1>1, IntactIsAccepted, Zenon
<1> QED BY <1>3, <1>4, Zenon

\* One that was altered carries the altered segment behind the header that was built.
LEMMA AlteredEntry ==
    ASSUME NEW d \in Sent, d.altered # 0
    PROVE  \E source, destination \in Address :
             /\ Carries(Datagram(d.packet), source, destination,
                        Segment(source, destination, d.packet))
             /\ Datagram(d.packet) = BuildRawPacket(source, destination, d.packet)
             /\ SameHeader(d.raw, Datagram(d.packet))
             /\ \E data :
                  /\ Carries(d.raw, source, destination, data)
                  /\ d.altered \notin LengthBytes =>
                       Altered(data, Segment(source, destination, d.packet), d.altered)
<1> DEFINE source == AddressOf[d.packet.source_port]
           destination == AddressOf[d.packet.destination_port]
           segment == Segment(source, destination, d.packet)
           raw == Datagram(d.packet)
<1>1. /\ d.packet \in Packet /\ source \in Address /\ destination \in Address
      /\ d.packet.header_length = TTP_HEADER_SIZE /\ Sendable(d.packet)
  BY SentIsBuilt, Zenon
<1>2. /\ d.altered \in 1..TTP_HEADER_SIZE + Len(d.packet.payload)
      /\ OneBitAway(d.raw, raw, d.altered)
  BY SentIsBuilt, Zenon
<1>3. raw = BuildRawPacket(source, destination, d.packet)
  BY Zenon DEF Datagram
<1> HIDE DEF raw, source, destination
<1>4. /\ Len(segment) = 24 + Len(d.packet.payload)
      /\ Carries(BuildRawPacket(source, destination, d.packet), source, destination, segment)
  BY <1>1, BuiltSegment, Zenon
<1> HIDE DEF segment
<1>5. Carries(raw, source, destination, segment)
  BY <1>3, <1>4, Zenon
<1>6. PICK i : i = d.altered /\ i \in 1..Len(segment)
  BY <1>2, <1>4 DEF TTP_HEADER_SIZE
<1>7. PICK other : other = d.raw
  OBVIOUS
<1>8. /\ SameHeader(other, raw)
      /\ \E data : /\ Carries(other, source, destination, data)
                   /\ i \notin LengthBytes => Altered(data, segment, i)
  <2>1. OneBitAway(other, raw, i)
    BY <1>2, <1>6, <1>7
  <2> QED BY <1>1, <1>5, <1>6, <2>1, AlteredDatagram, Zenon
<1> QED BY <1>1, <1>3, <1>5, <1>6, <1>7, <1>8, Zenon DEF raw, segment

\* Of one that was altered, but for the lengths, only the packet that was built is
\* accepted.
LEMMA AcceptedEntry ==
    ASSUME NEW d \in Sent, Accepted(d.raw), d.altered \notin LengthBytes
    PROVE  SameSegment(ParseRawPacket(d.raw), d.packet)
<1>1. CASE d.altered = 0
  BY <1>1, IntactEntry
<1>2. CASE d.altered # 0
  <2>7. PICK source \in Address, destination \in Address :
          \E data :
             /\ Carries(d.raw, source, destination, data)
             /\ Altered(data, Segment(source, destination, d.packet), d.altered)
    BY <1>2, AlteredEntry, Zenon
  <2>1. PICK data :
          /\ Carries(d.raw, source, destination, data)
          /\ Altered(data, Segment(source, destination, d.packet), d.altered)
    BY <2>7, Zenon
  <2>2. /\ SourceOf(d.raw) = source /\ DestinationOf(d.raw) = destination
        /\ PayloadOf(d.raw) = data
    BY <2>1, CarriedIsFound, Zenon
  <2>3. Valid(source, destination, Unpack(data))
    BY <2>2, Zenon DEF Accepted
  <2>4. /\ d.packet \in Packet /\ d.packet.header_length = TTP_HEADER_SIZE
        /\ Sendable(d.packet)
    BY SentIsBuilt, Zenon
  <2>5. PICK pk \in Packet : pk = d.packet
    BY <2>4
  <2>8. PICK i : i = d.altered
    OBVIOUS
  <2>6. SameSegment(Unpack(data), pk)
    <3>1. /\ pk.header_length = TTP_HEADER_SIZE /\ Sendable(pk)
          /\ Altered(data, Segment(source, destination, pk), i)
      BY <2>1, <2>4, <2>5, <2>8
    <3> QED BY <2>3, <3>1, OneByteIsRefused, Zenon
  <2> QED BY <2>2, <2>5, <2>6, Zenon DEF ParseRawPacket
<1> QED BY <1>1, <1>2

\* The header in front is the one that was built.
LEMMA HeaderOfEntry ==
    ASSUME NEW d \in Sent
    PROVE  /\ d.raw \in Seq(Byte)
           /\ ShortAt(d.raw, 3) = Len(d.raw) /\ Len(d.raw) <= MaxLength
           /\ WordsTotal(SubSeq(d.raw, 1, 20)) % 65535 = 0
<1>1. PICK source, destination \in Address :
        /\ Datagram(d.packet) = BuildRawPacket(source, destination, d.packet)
        /\ SameHeader(d.raw, Datagram(d.packet))
        /\ \E data : Carries(d.raw, source, destination, data)
  <2>1. CASE d.altered # 0
    BY <2>1, AlteredEntry, Zenon
  <2>2. CASE d.altered = 0
    <3> DEFINE source == AddressOf[d.packet.source_port]
               destination == AddressOf[d.packet.destination_port]
    <3>1. /\ d.packet \in Packet /\ source \in Address /\ destination \in Address
          /\ d.packet.header_length = TTP_HEADER_SIZE /\ Sendable(d.packet)
      BY SentIsBuilt, Zenon
    <3>2. d.raw = Datagram(d.packet)
      BY <2>2, SentIsBuilt
    <3>3. Datagram(d.packet) = BuildRawPacket(source, destination, d.packet)
      BY Zenon DEF Datagram
    <3> HIDE DEF source, destination
    <3>4. Carries(BuildRawPacket(source, destination, d.packet), source, destination,
                  Segment(source, destination, d.packet))
      BY <3>1, BuiltSegment, Zenon
    <3>5. SameHeader(d.raw, Datagram(d.packet))
      BY <3>2 DEF SameHeader
    <3> QED BY <3>1, <3>2, <3>3, <3>4, <3>5, Zenon
  <2> QED BY <2>1, <2>2
<1>2. /\ d.packet \in Packet /\ d.packet.header_length = TTP_HEADER_SIZE
      /\ Sendable(d.packet)
  BY SentIsBuilt, Zenon
<1>3. PICK pk \in Packet : pk = d.packet
  BY <1>2
<1>4. PICK raw : raw = BuildRawPacket(source, destination, pk)
  OBVIOUS
<1>5. ShortAt(raw, 3) = Len(raw) /\ Len(raw) <= MaxLength
  <2>1. pk.header_length = TTP_HEADER_SIZE /\ Sendable(pk)
    BY <1>2, <1>3
  <2> DEFINE built == BuildRawPacket(source, destination, pk)
  <2>2. ShortAt(built, 3) = Len(built) /\ Len(built) <= MaxLength
    BY <2>1, BuiltHeader
  <2> HIDE DEF built
  <2>3. raw = built
    BY <1>4 DEF built
  <2> QED BY <2>2, <2>3
<1>6. WordsTotal(SubSeq(raw, 1, 20)) % 65535 = 0
  <2>1. pk.header_length = TTP_HEADER_SIZE /\ Sendable(pk)
    BY <1>2, <1>3
  <2>2. WordsTotal(SubSeq(BuildRawPacket(source, destination, pk), 1, 20)) % 65535 = 0
    BY <2>1, BuiltHeader
  <2> QED BY <1>4, <2>2
<1>7. /\ Len(d.raw) = Len(raw) /\ ShortAt(d.raw, 3) = ShortAt(raw, 3)
      /\ SubSeq(d.raw, 1, 20) = SubSeq(raw, 1, 20)
  BY <1>1, <1>3, <1>4, Zenon DEF SameHeader
<1>8. d.raw \in Seq(Byte)
  BY <1>1, Zenon DEF Carries
<1>9. WordsTotal(SubSeq(d.raw, 1, 20)) % 65535 = 0
  <2> DEFINE s == SubSeq(d.raw, 1, 20)
             t == SubSeq(raw, 1, 20)
  <2>1. s = t
    BY <1>7
  <2>2. WordsTotal(t) % 65535 = 0
    BY <1>6
  <2> HIDE DEF s, t
  <2>3. WordsTotal(s) % 65535 = 0
    BY <2>1, <2>2
  <2> QED BY <2>3 DEF s
<1> QED BY <1>5, <1>7, <1>8, <1>9

-----------------------------------------------------------------------------
(* What the sniffer shows of an entry *)

\* fields_desc and HEADER_FORMAT agree.
LEMMA DissectedEntry ==
    ASSUME NEW d \in Sent, d.altered = 0
    PROVE  /\ \A field \in DOMAIN d.packet \ {"checksum"} :
                Dissected(PayloadOf(d.raw))[field] = d.packet[field]
           /\ Dissected(PayloadOf(d.raw)).payload_length = Len(d.packet.payload)
           /\ Dissected(PayloadOf(d.raw)).payload = d.packet.payload
           /\ d.packet.payload \in Seq(Byte) /\ Len(d.packet.payload) \in Short
<1> DEFINE source == AddressOf[d.packet.source_port]
           destination == AddressOf[d.packet.destination_port]
<1>1. /\ d.packet \in Packet /\ source \in Address /\ destination \in Address
      /\ d.packet.header_length = TTP_HEADER_SIZE /\ Sendable(d.packet)
  BY SentIsBuilt, Zenon
<1>2. d.raw = Datagram(d.packet)
  BY SentIsBuilt
<1>3. d.raw = BuildRawPacket(source, destination, d.packet)
  BY <1>2, Zenon DEF Datagram
<1> HIDE DEF source, destination
<1>4. PICK pk \in Packet : pk = d.packet
  BY <1>1
<1>5. pk.header_length = TTP_HEADER_SIZE /\ Sendable(pk)
  BY <1>1, <1>4
<1> DEFINE sum == SumOf(source, destination, pk)
           summed == [pk EXCEPT !.checksum = sum]
           segment == Segment(source, destination, pk)
<1>6. /\ sum \in Long
      /\ Carries(BuildRawPacket(source, destination, pk), source, destination, segment)
  BY <1>1, <1>5, BuiltSegment, Zenon
<1>7. segment = Pack(summed)
  BY Zenon DEF Segment
<1>8. PayloadOf(d.raw) = segment
  BY <1>1, <1>3, <1>4, <1>6, CarriedIsFound, Zenon
<1>9. Len(pk.payload) \in Short
  BY <1>5, SendableLengths
<1> HIDE DEF sum, segment
<1>10. /\ summed \in Packet /\ summed.payload = pk.payload
       /\ \A field \in DOMAIN pk \ {"checksum"} : summed[field] = pk[field]
  BY <1>6 DEF Packet
<1> HIDE DEF summed
<1>11. /\ ShortAt(segment, 1) = summed.source_port
       /\ ShortAt(segment, 3) = summed.destination_port
       /\ LongAt(segment, 5) = summed.sequence_number
       /\ LongAt(segment, 9) = summed.acknowledgment_number
       /\ segment[13] = summed.flags /\ segment[14] = summed.header_length
       /\ ShortAt(segment, 15) = summed.reserved
       /\ ShortAt(segment, 17) = summed.window
       /\ ShortAt(segment, 19) = Len(summed.payload)
  BY <1>7, <1>9, <1>10, FieldsOfPack, Zenon
<1>12. SubSeq(segment, 25, 24 + Len(summed.payload)) = summed.payload
  BY <1>7, <1>9, <1>10, FieldsOfPack, Zenon
<1>13. Len(segment) = 24 + Len(summed.payload)
  BY <1>7, <1>9, <1>10, PackBytes, Zenon
<1>14. SubSeq(segment, TTP_HEADER_SIZE + 1, Len(segment)) = summed.payload
  BY <1>12, <1>13 DEF TTP_HEADER_SIZE
<1> DEFINE ttp == Dissected(segment)
<1>15. /\ ttp.source_port = summed.source_port
       /\ ttp.destination_port = summed.destination_port
       /\ ttp.sequence_number = summed.sequence_number
       /\ ttp.acknowledgment_number = summed.acknowledgment_number
       /\ ttp.flags = summed.flags /\ ttp.header_length = summed.header_length
       /\ ttp.reserved = summed.reserved /\ ttp.window = summed.window
       /\ ttp.payload_length = Len(summed.payload) /\ ttp.payload = summed.payload
  BY <1>11, <1>14 DEF Dissected
<1>16. DOMAIN pk = {"source_port", "destination_port", "sequence_number",
                    "acknowledgment_number", "flags", "header_length", "reserved",
                    "window", "payload", "checksum"}
  BY DEF Packet
<1> HIDE DEF ttp
<1>17. \A field \in DOMAIN pk \ {"checksum"} : ttp[field] = summed[field]
  BY <1>15, <1>16, Zenon
<1>18. pk.payload \in Seq(Byte)
  BY DEF Packet
<1>19. \A field \in DOMAIN pk \ {"checksum"} : ttp[field] = pk[field]
  BY <1>10, <1>17
<1>20. ttp.payload_length = Len(pk.payload) /\ ttp.payload = pk.payload
  BY <1>10, <1>15
<1> QED BY <1>4, <1>8, <1>9, <1>18, <1>19, <1>20, Zenon DEF ttp

LEMMA RecordBytes ==
    ASSUME NEW type \in Byte, NEW rest \in Seq(Byte), Len(rest) \in Short
    PROVE  /\ RecordPack(type, rest) \in Seq(Byte)
           /\ Len(RecordPack(type, rest)) = 6 + Len(rest)
           /\ RecordPack(type, rest)[1] = type /\ RecordPack(type, rest)[2] = 1
           /\ \A j \in 1..4 : RecordPack(type, rest)[2 + j] = PackLong(<<0, Len(rest)>>)[j]
           /\ \A j \in 1..Len(rest) : RecordPack(type, rest)[6 + j] = rest[j]
<1> DEFINE a == <<type, 1>>
           b == PackLong(<<0, Len(rest)>>)
           c == a \o b
<1>1. 0 \in Short /\ 1 \in Byte
  BY Ranges
<1>2. <<0, Len(rest)>> \in Long
  BY <1>1 DEF Long
<1>3. b \in Seq(Byte) /\ Len(b) = 4
  BY <1>2, PackLongBytes
<1>4. a \in Seq(Byte) /\ Len(a) = 2 /\ a[1] = type /\ a[2] = 1
  BY <1>1
<1>5. RecordPack(type, rest) = c \o rest
  BY Zenon DEF RecordPack
<1> HIDE DEF a, b
<1>6. /\ c \in Seq(Byte) /\ Len(c) = Len(a) + Len(b)
      /\ \A i \in 1..Len(a) : c[i] = a[i]
      /\ \A i \in 1..Len(b) : c[Len(a) + i] = b[i]
  BY <1>3, <1>4, Joined
<1> HIDE DEF c
<1> DEFINE e == c \o rest
<1>7. /\ e \in Seq(Byte) /\ Len(e) = Len(c) + Len(rest)
      /\ \A i \in 1..Len(c) : e[i] = c[i]
      /\ \A i \in 1..Len(rest) : e[Len(c) + i] = rest[i]
  BY <1>6, Joined
<1> HIDE DEF e
<1>8. Len(c) = 6 /\ c[1] = type /\ c[2] = 1 /\ \A j \in 1..4 : c[2 + j] = b[j]
  BY <1>3, <1>4, <1>6
<1>9. e[1] = type /\ e[2] = 1 /\ \A j \in 1..4 : e[2 + j] = b[j]
  BY <1>7, <1>8
<1>10. Len(e) = 6 + Len(rest) /\ \A j \in 1..Len(rest) : e[6 + j] = rest[j]
  BY <1>7, <1>8
<1> QED BY <1>5, <1>7, <1>9, <1>10 DEF e, b

\* TTLSRecord.unpack() finds what TTLSRecord.pack() made, and nothing else.
LEMMA RecordIsTrue ==
    ASSUME NEW payload \in Seq(Byte), Len(payload) \in Short
    PROVE  /\ RecordShown(payload).kind = "record" =>
                payload = RecordPack(RecordShown(payload).type, RecordShown(payload).payload)
           /\ RecordShown(payload).kind = "error" =>
                \A type \in RecordTypes :
                    payload # RecordPack(type, SubSeq(payload, TTLS_HEADER_SIZE + 1, Len(payload)))
<1> DEFINE rest == SubSeq(payload, 7, Len(payload))
           type == payload[1]
           shows == LongAt(payload, 3) = <<0, Len(rest)>> /\ payload[2] = 1 /\ type \in RecordTypes
           record == [kind |-> "record", type |-> type, payload |-> rest]
<1>1. Len(payload) \in Nat
  OBVIOUS
<1>2. RecordShown(payload) = IF Len(payload) < 6 THEN [kind |-> "none"]
                             ELSE IF shows THEN record ELSE [kind |-> "error"]
  BY DEF RecordShown, TTLS_HEADER_SIZE
<1>3. CASE Len(payload) < 6
  BY <1>2, <1>3
<1>4. CASE Len(payload) >= 6
  <2>1. rest \in Seq(Byte) /\ Len(rest) = Len(payload) - 6
    <3> DEFINE n == Len(payload) - 6
    <3>1. n \in Nat /\ Len(payload) = 6 + n /\ rest = SubSeq(payload, 7, 6 + n)
      BY <1>1, <1>4
    <3> HIDE DEF n, rest
    <3>2. SubSeq(payload, 7, 6 + n) \in Seq(Byte) /\ Len(SubSeq(payload, 7, 6 + n)) = n
      BY <3>1
    <3> QED BY <3>1, <3>2
  <2>2. \A j \in 1..Len(rest) : rest[j] = payload[6 + j]
    BY <1>1, <1>4, <2>1
  <2>3. Len(rest) \in Short /\ Len(rest) \in Nat
    BY <1>4, <2>1, Ranges
  <2>4. RecordShown(payload) = IF shows THEN record ELSE [kind |-> "error"]
    BY <1>1, <1>2, <1>4
  <2>5. \A t \in RecordTypes : t \in Byte
    BY Ranges DEF RecordTypes
  <2>6. rest = SubSeq(payload, TTLS_HEADER_SIZE + 1, Len(payload))
    BY DEF TTLS_HEADER_SIZE
  <2> HIDE DEF rest
  <2>7. ASSUME shows PROVE payload = RecordPack(type, rest)
    <3> DEFINE p == RecordPack(type, rest)
    <3>1. type \in Byte
      BY <2>5, <2>7
    <3>2. /\ p \in Seq(Byte) /\ Len(p) = 6 + Len(rest) /\ p[1] = type /\ p[2] = 1
          /\ \A j \in 1..4 : p[2 + j] = PackLong(<<0, Len(rest)>>)[j]
          /\ \A j \in 1..Len(rest) : p[6 + j] = rest[j]
      BY <2>1, <2>3, <3>1, RecordBytes
    <3>3. \A j \in 1..4 : PackLong(LongAt(payload, 3))[j] = payload[3 - 1 + j]
      BY <1>1, <1>4, LongBytes
    <3>4. \A j \in 1..4 : p[2 + j] = payload[2 + j]
      <4> DEFINE n == <<0, Len(rest)>>
      <4>1. LongAt(payload, 3) = n /\ \A j \in 1..4 : p[2 + j] = PackLong(n)[j]
        BY <2>7, <3>2
      <4> HIDE DEF n, p
      <4>2. \A j \in 1..4 : PackLong(n)[j] = payload[3 - 1 + j]
        BY <3>3, <4>1
      <4>3. \A j \in 1..4 : p[2 + j] = payload[3 - 1 + j]
        BY <4>1, <4>2
      <4> QED BY <4>3
    <3>5. p[1] = payload[1] /\ p[2] = payload[2]
      BY <2>7, <3>2
    <3> HIDE DEF p, type
    <3>6. \A i \in 1..Len(payload) : p[i] = payload[i]
      <4>1. TAKE i \in 1..Len(payload)
      <4>2. CASE i > 6
        <5>1. i - 6 \in 1..Len(rest) /\ 6 + (i - 6) = i
          BY <1>1, <2>1, <4>2
        <5> QED BY <2>2, <3>2, <5>1
      <4>3. CASE i <= 6
        <5>1. /\ p[3] = payload[3] /\ p[4] = payload[4] /\ p[5] = payload[5]
              /\ p[6] = payload[6]
          BY <3>4
        <5>2. i = 1 \/ i = 2 \/ i = 3 \/ i = 4 \/ i = 5 \/ i = 6
          BY <4>3
        <5> QED BY <3>5, <5>1, <5>2
      <4> QED BY <4>2, <4>3
    <3>7. Len(p) = Len(payload)
      BY <1>1, <2>1, <3>2
    <3>8. p = payload
      BY <3>2, <3>6, <3>7
    <3> QED BY <3>8 DEF p
  <2>8. ASSUME ~shows, NEW t \in RecordTypes PROVE payload # RecordPack(t, rest)
    <3>1. SUFFICES ASSUME payload = RecordPack(t, rest) PROVE FALSE
      OBVIOUS
    <3>2. t \in Byte
      BY <2>5
    <3>3. /\ RecordPack(t, rest)[1] = t /\ RecordPack(t, rest)[2] = 1
          /\ \A j \in 1..4 : RecordPack(t, rest)[2 + j] = PackLong(<<0, Len(rest)>>)[j]
      BY <2>1, <2>3, <3>2, RecordBytes
    <3>4. payload[1] = t /\ payload[2] = 1
      BY <3>1, <3>3
    <3> DEFINE n == <<0, Len(rest)>>
    <3>5. n \in Long
      BY <2>3, Ranges DEF Long
    <3>6. \A j \in 1..4 : payload[2 + j] = PackLong(n)[j]
      BY <3>1, <3>3
    <3> HIDE DEF n
    <3>7. LongAt(payload, 2 + 1) = n
      BY <3>5, <3>6, ReadLong
    <3> QED BY <2>8, <3>4, <3>7 DEF n
  <2> HIDE DEF shows
  <2>9. CASE shows
    <3>1. /\ RecordShown(payload).kind = "record" /\ RecordShown(payload).type = type
          /\ RecordShown(payload).payload = rest
      BY <2>4, <2>9
    <3> QED BY <2>7, <2>9, <3>1
  <2>10. CASE ~shows
    <3>1. RecordShown(payload).kind = "error"
      BY <2>4, <2>10
    <3> QED BY <2>6, <2>8, <2>10, <3>1
  <2> QED BY <2>9, <2>10
<1> QED BY <1>1, <1>3, <1>4

-----------------------------------------------------------------------------
(* The invariant *)

\* A longer wire changes nothing that was read, captured or shown.
LEMMA SendStep ==
    ASSUME SnifferInv, NEW d \in Sent, wire' = Append(wire, d),
           UNCHANGED <<cursor, status, accepted, snifferVars>>
    PROVE  SnifferInv'
<1>1. /\ wire' \in Seq(Sent) /\ Len(wire') = Len(wire) + 1 /\ Len(wire) \in Nat
      /\ \A n \in 1..Len(wire) : wire'[n] = wire[n]
  BY DEF SnifferInv, ReadersInv
<1>2. ReadersInv'
  <2>1. SUFFICES ASSUME NEW r \in Reader
                 PROVE  /\ cursor[r] <= Len(wire')
                        /\ \A n \in 1..cursor[r] : Accepted(wire'[n].raw)
                        /\ status[r] = "dead" =>
                             cursor[r] < Len(wire') /\ ~Accepted(wire'[cursor[r] + 1].raw)
    BY <1>1 DEF SnifferInv, ReadersInv
  <2>2. cursor[r] \in Nat /\ cursor[r] <= Len(wire)
    BY DEF SnifferInv, ReadersInv
  <2>3. \A n \in 1..cursor[r] : Accepted(wire'[n].raw)
    <3>1. TAKE n \in 1..cursor[r]
    <3>2. wire'[n] = wire[n] /\ Accepted(wire[n].raw)
      BY <1>1, <2>2 DEF SnifferInv, ReadersInv
    <3> QED BY <3>2
  <2>4. CASE status[r] = "dead"
    <3>1. cursor[r] < Len(wire) /\ ~Accepted(wire[cursor[r] + 1].raw)
      BY <2>4 DEF SnifferInv, ReadersInv
    <3>2. wire'[cursor[r] + 1] = wire[cursor[r] + 1]
      BY <1>1, <2>2, <3>1
    <3> QED BY <1>1, <2>2, <2>3, <3>1, <3>2
  <2> QED BY <1>1, <2>2, <2>3, <2>4
<1>3. PassedInv'
  <2>1. /\ cursor' = cursor /\ accepted' = accepted
        /\ \A r \in Reader : cursor[r] \in Nat /\ cursor[r] <= Len(wire)
    BY DEF SnifferInv, ReadersInv
  <2>2. \A r \in Reader : \A n \in 1..cursor[r] : wire'[n] = wire[n]
    BY <1>1, <2>1
  <2> QED BY <2>1, <2>2 DEF SnifferInv, PassedInv
<1>4. ShownInv'
  <2>1. copies' = copies /\ seen' = seen /\ shown' = shown
    BY DEF snifferVars
  <2>2. \A n \in DOMAIN copies : wire'[n] = wire[n]
    BY <1>1 DEF SnifferInv, ShownInv
  <2>3. \A i \in DOMAIN shown : wire'[shown[i].at] = wire[shown[i].at]
    BY <2>2 DEF SnifferInv, ShownInv
  <2>4. \A n \in DOMAIN copies : KeyOf(wire'[n].raw) \in seen
    BY <2>2 DEF SnifferInv, ShownInv
  <2>5. \A k \in seen : \E i \in DOMAIN shown : KeyOf(wire'[shown[i].at].raw) = k
    <3>1. \A k \in seen : \E i \in DOMAIN shown : KeyOf(wire[shown[i].at].raw) = k
      BY DEF SnifferInv, ShownInv
    <3> QED BY <2>3, <3>1
  <2>6. \A i \in DOMAIN shown :
           /\ shown[i].at \in DOMAIN copies
           /\ shown[i] = PrintedEntry(shown[i].at, wire'[shown[i].at].raw)
           /\ KeyOf(wire'[shown[i].at].raw) \in seen
    BY <2>3 DEF SnifferInv, ShownInv
  <2>7. \A i, j \in DOMAIN shown :
           KeyOf(wire'[shown[i].at].raw) = KeyOf(wire'[shown[j].at].raw) => i = j
    BY <2>3 DEF SnifferInv, ShownInv
  <2>8. /\ copies \in Seq({1, 2}) /\ shown \in Seq(Printed)
        /\ Len(copies) <= Len(wire') /\ Len(shown) <= Len(copies)
    BY <1>1 DEF SnifferInv, ShownInv
  <2> QED BY <2>1, <2>4, <2>5, <2>6, <2>7, <2>8 DEF ShownInv
<1> QED BY <1>2, <1>3, <1>4 DEF SnifferInv

\* ReceivePacket moves past an accepted segment or dies in front of another.
LEMMA ReceiveStep ==
    ASSUME SnifferInv, NEW r \in Reader, ReceivePacket(r), UNCHANGED snifferVars
    PROVE  SnifferInv'
<1> DEFINE next == wire[cursor[r] + 1].raw
<1>1. /\ wire' = wire /\ cursor[r] \in Nat /\ cursor[r] < Len(wire) /\ Len(wire) \in Nat
  BY DEF ReceivePacket, SnifferInv, ReadersInv
<1>2. ReadersInv'
  <2>1. CASE Accepted(next)
    <3>1. cursor' = [cursor EXCEPT ![r] = @ + 1] /\ status' = status /\ status[r] = "reading"
      BY <2>1 DEF ReceivePacket
    <3>2. cursor' \in [Reader -> Nat]
      BY <1>1, <3>1 DEF SnifferInv, ReadersInv
    <3>3. SUFFICES ASSUME NEW q \in Reader
                   PROVE  /\ cursor'[q] <= Len(wire)
                          /\ \A n \in 1..cursor'[q] : Accepted(wire[n].raw)
                          /\ status[q] = "dead" =>
                               cursor'[q] < Len(wire) /\ ~Accepted(wire[cursor'[q] + 1].raw)
      BY <1>1, <3>1, <3>2 DEF SnifferInv, ReadersInv
    <3>4. CASE q = r
      <4>1. cursor'[q] = cursor[r] + 1
        BY <3>1, <3>4 DEF SnifferInv, ReadersInv
      <4>2. \A n \in 1..cursor[r] : Accepted(wire[n].raw)
        BY DEF SnifferInv, ReadersInv
      <4>3. \A n \in 1..cursor[r] + 1 : n \in 1..cursor[r] \/ n = cursor[r] + 1
        BY <1>1
      <4> QED BY <1>1, <2>1, <3>1, <3>4, <4>1, <4>2, <4>3
    <3>5. CASE q # r
      <4>1. cursor'[q] = cursor[q]
        BY <3>1, <3>5 DEF SnifferInv, ReadersInv
      <4> QED BY <4>1 DEF SnifferInv, ReadersInv
    <3> QED BY <3>4, <3>5
  <2>2. CASE ~Accepted(next)
    <3>1. status' = [status EXCEPT ![r] = "dead"] /\ cursor' = cursor
      BY <2>2 DEF ReceivePacket
    <3> QED BY <1>1, <2>2, <3>1 DEF SnifferInv, ReadersInv
  <2> QED BY <2>1, <2>2
<1>3. PassedInv'
  <2> DEFINE entry == Passed(cursor[r] + 1, next)
  <2>1. CASE Accepted(next)
    <3>1. cursor' = [cursor EXCEPT ![r] = @ + 1]
      BY <2>1 DEF ReceivePacket
    <3>2. cursor'[r] = cursor[r] + 1 /\ \A q \in Reader : q # r => cursor'[q] = cursor[q]
      BY <3>1 DEF SnifferInv, ReadersInv
    <3>3. accepted' = IF IsMine(r, ParseRawPacket(next))
                      THEN [accepted EXCEPT ![r] = @ \cup {entry}] ELSE accepted
      BY <2>1, <3>2 DEF ReceivePacket, Passed
    <3>4. entry \in {Passed(n, d.raw) : n \in Nat, d \in Sent}
      <4>1. wire[cursor[r] + 1] \in Sent /\ cursor[r] + 1 \in Nat
        BY <1>1 DEF SnifferInv, ReadersInv
      <4> QED BY <4>1
    <3>5. entry.at = cursor[r] + 1 /\ entry = Passed(cursor[r] + 1, wire[cursor[r] + 1].raw)
      BY DEF Passed
    <3>6. /\ accepted \in [Reader -> SUBSET {Passed(n, d.raw) : n \in Nat, d \in Sent}]
          /\ \A q \in Reader : \A a \in accepted[q] :
               a.at \in 1..cursor[q] /\ a = Passed(a.at, wire[a.at].raw)
          /\ \A q \in Reader : \A n \in 1..cursor[q] :
               IsMine(q, ParseRawPacket(wire[n].raw)) => Passed(n, wire[n].raw) \in accepted[q]
      BY DEF SnifferInv, PassedInv
    <3> HIDE DEF entry
    <3>7. accepted' \in [Reader -> SUBSET {Passed(n, d.raw) : n \in Nat, d \in Sent}]
      <4> DEFINE T == {Passed(n, d.raw) : n \in Nat, d \in Sent}
      <4>1. accepted \in [Reader -> SUBSET T] /\ entry \in T
        BY <3>4, <3>6
      <4> HIDE DEF T
      <4>2. accepted' \in [Reader -> SUBSET T]
        BY <3>3, <4>1
      <4> QED BY <4>2 DEF T
    <3>8. \A q \in Reader : q # r => accepted'[q] = accepted[q]
      BY <3>3, <3>6
    <3>9. /\ IsMine(r, ParseRawPacket(next)) => accepted'[r] = accepted[r] \cup {entry}
          /\ ~IsMine(r, ParseRawPacket(next)) => accepted'[r] = accepted[r]
      BY <3>3, <3>6
    <3>10. ASSUME NEW q \in Reader, NEW a \in accepted'[q]
           PROVE  a.at \in 1..cursor'[q] /\ a = Passed(a.at, wire[a.at].raw)
      <4>1. CASE a \in accepted[q]
        <5>1. a.at \in 1..cursor[q] /\ a = Passed(a.at, wire[a.at].raw)
          BY <3>6, <4>1
        <5>2. cursor[q] \in Nat /\ (cursor'[q] = cursor[q] \/ cursor'[q] = cursor[q] + 1)
          BY <3>2 DEF SnifferInv, ReadersInv
        <5> QED BY <5>1, <5>2
      <4>2. CASE a \notin accepted[q]
        <5>1. q = r /\ a = entry
          BY <3>8, <3>9, <3>10, <4>2
        <5> QED BY <1>1, <3>2, <3>5, <5>1
      <4> QED BY <4>1, <4>2
    <3>11. ASSUME NEW q \in Reader, NEW n \in 1..cursor'[q],
                  IsMine(q, ParseRawPacket(wire[n].raw))
           PROVE  Passed(n, wire[n].raw) \in accepted'[q]
      <4>1. CASE n \in 1..cursor[q]
        <5>1. Passed(n, wire[n].raw) \in accepted[q]
          BY <3>6, <3>11, <4>1
        <5> QED BY <3>8, <3>9, <5>1
      <4>2. CASE n \notin 1..cursor[q]
        <5>1. q = r /\ n = cursor[r] + 1
          BY <1>1, <3>2, <4>2
        <5>2. IsMine(r, ParseRawPacket(next)) /\ Passed(n, wire[n].raw) = entry
          BY <3>5, <3>11, <5>1
        <5> QED BY <3>9, <5>1, <5>2
      <4> QED BY <4>1, <4>2
    <3> QED BY <1>1, <3>7, <3>10, <3>11 DEF PassedInv
  <2>2. CASE ~Accepted(next)
    <3>1. cursor' = cursor /\ accepted' = accepted
      BY <2>2 DEF ReceivePacket
    <3> QED BY <1>1, <3>1 DEF SnifferInv, PassedInv
  <2> QED BY <2>1, <2>2
<1>4. ShownInv'
  BY <1>1 DEF SnifferInv, ShownInv, snifferVars
<1> QED BY <1>2, <1>3, <1>4 DEF SnifferInv

\* A datagram is shown only with a new fingerprint.
LEMMA CaptureStep ==
    ASSUME SnifferInv, copies' \in Seq({1, 2}), Len(copies') <= Len(wire),
           NEW n \in DOMAIN copies', CaptureTTP(n), DOMAIN copies \subseteq DOMAIN copies',
           \A m \in DOMAIN copies' : m \in DOMAIN copies \/ m = n,
           n \in DOMAIN copies \/ Len(copies') = Len(copies) + 1, Len(copies) <= Len(copies'),
           UNCHANGED socketVars
    PROVE  SnifferInv'
<1>1. wire' = wire /\ ReadersInv' /\ PassedInv'
  BY DEF SnifferInv, ReadersInv, PassedInv, socketVars
<1>0. /\ \A m \in DOMAIN copies : KeyOf(wire[m].raw) \in seen
      /\ \A k \in seen : \E i \in DOMAIN shown : KeyOf(wire[shown[i].at].raw) = k
      /\ Len(shown) <= Len(copies) /\ Len(shown) \in Nat /\ Len(copies) \in Nat
  BY DEF SnifferInv, ShownInv
<1>2. ShownInv'
  <2> DEFINE key == KeyOf(wire[n].raw)
             entry == PrintedEntry(n, wire[n].raw)
  <2>1. CASE key \in seen
    <3>1. seen' = seen /\ shown' = shown
      BY <2>1 DEF CaptureTTP, KeyOf
    <3>2. \A m \in DOMAIN copies' : KeyOf(wire[m].raw) \in seen
      BY <1>0, <2>1
    <3>3. Len(shown) <= Len(copies')
      BY <1>0, <3>1
    <3> QED BY <1>1, <3>1, <3>2, <3>3 DEF SnifferInv, ShownInv
  <2>2. CASE key \notin seen
    <3>1. seen' = seen \cup {key} /\ shown' = Append(shown, entry)
      BY <2>2 DEF CaptureTTP, KeyOf, PrintedEntry
    <3>2. entry \in Printed
      <4>1. n \in Nat /\ n \in 1..Len(wire)
        BY DEF SnifferInv, ReadersInv
      <4>2. wire[n] \in Sent
        BY <4>1 DEF SnifferInv, ReadersInv
      <4> QED BY <4>1, <4>2 DEF Printed
    <3>3. /\ shown' \in Seq(Printed)
          /\ DOMAIN shown' = DOMAIN shown \cup {Len(shown) + 1}
          /\ Len(shown) + 1 \notin DOMAIN shown
          /\ shown'[Len(shown) + 1] = entry
          /\ \A i \in DOMAIN shown : shown'[i] = shown[i]
      <4>1. shown \in Seq(Printed)
        BY DEF SnifferInv, ShownInv
      <4> HIDE DEF entry
      <4> QED BY <3>1, <3>2, <4>1
    <3>4. entry.at = n /\ entry = PrintedEntry(n, wire[n].raw)
      BY DEF PrintedEntry
    <3>5. \A i \in DOMAIN shown :
             /\ shown[i].at \in DOMAIN copies
             /\ shown[i] = PrintedEntry(shown[i].at, wire[shown[i].at].raw)
             /\ KeyOf(wire[shown[i].at].raw) \in seen
             /\ KeyOf(wire[shown[i].at].raw) # key
      BY <2>2 DEF SnifferInv, ShownInv
    <3>6. \A i, j \in DOMAIN shown :
             KeyOf(wire[shown[i].at].raw) = KeyOf(wire[shown[j].at].raw) => i = j
      BY DEF SnifferInv, ShownInv
    <3> HIDE DEF key, entry
    <3>7. \A i \in DOMAIN shown' :
             /\ shown'[i].at \in DOMAIN copies'
             /\ shown'[i] = PrintedEntry(shown'[i].at, wire[shown'[i].at].raw)
             /\ KeyOf(wire[shown'[i].at].raw) \in seen'
      <4>1. KeyOf(wire[n].raw) = key
        BY DEF key
      <4> QED BY <3>1, <3>3, <3>4, <3>5, <4>1
    <3>8. \A i, j \in DOMAIN shown' :
             KeyOf(wire[shown'[i].at].raw) = KeyOf(wire[shown'[j].at].raw) => i = j
      <4>1. KeyOf(wire[n].raw) = key
        BY DEF key
      <4> QED BY <3>3, <3>4, <3>5, <3>6, <4>1
    <3>9. \A m \in DOMAIN copies' : KeyOf(wire[m].raw) \in seen'
      <4>1. KeyOf(wire[n].raw) = key
        BY DEF key
      <4> QED BY <1>0, <3>1, <4>1
    <3>10. \A k \in seen' : \E i \in DOMAIN shown' : KeyOf(wire[shown'[i].at].raw) = k
      <4>1. KeyOf(wire[n].raw) = key
        BY DEF key
      <4>2. ASSUME NEW k \in seen
            PROVE  \E i \in DOMAIN shown' : KeyOf(wire[shown'[i].at].raw) = k
        <5>1. PICK i \in DOMAIN shown : KeyOf(wire[shown[i].at].raw) = k
          BY <1>0
        <5>2. i \in DOMAIN shown' /\ shown'[i] = shown[i]
          BY <3>3
        <5> QED BY <5>1, <5>2
      <4>3. \E i \in DOMAIN shown' : KeyOf(wire[shown'[i].at].raw) = key
        BY <3>3, <3>4, <4>1
      <4> QED BY <3>1, <4>2, <4>3
    <3>11. Len(shown') <= Len(copies')
      <4>1. Len(copies') = Len(copies) + 1
        BY <1>0, <2>2 DEF key
      <4>2. Len(shown') = Len(shown) + 1
        BY <3>1 DEF SnifferInv, ShownInv
      <4> QED BY <1>0, <4>1, <4>2
    <3> QED BY <1>1, <3>3, <3>7, <3>8, <3>9, <3>10, <3>11 DEF ShownInv
  <2> QED BY <2>1, <2>2
<1> QED BY <1>1, <1>2 DEF SnifferInv

LEMMA SnifferInvInit == Init => SnifferInv
<1>1. Init => ReadersInv /\ ShownInv
  BY DEF Init, SocketInit, SnifferInit, ReadersInv, ShownInv
<1>2. Init => PassedInv
  BY DEF Init, SocketInit, PassedInv
<1> QED BY <1>1, <1>2 DEF SnifferInv

LEMMA SnifferInvStep == SnifferInv /\ [Next]_vars => SnifferInv'
<1>1. SUFFICES ASSUME SnifferInv, [Next]_vars PROVE SnifferInv'
  OBVIOUS
<1>2. CASE SendPacket /\ UNCHANGED snifferVars
  <2>1. PICK pk \in Outgoing :
          /\ Sendable(pk)
          /\ wire' = Append(wire, [raw |-> Datagram(pk), packet |-> pk, altered |-> 0])
    BY <1>2 DEF SendPacket
  <2>2. [raw |-> Datagram(pk), packet |-> pk, altered |-> 0] \in Sent
    BY <2>1 DEF Sent
  <2> QED BY <1>1, <1>2, <2>1, <2>2, SendStep DEF SendPacket
<1>3. CASE SendAltered /\ UNCHANGED snifferVars
  <2>1. PICK pk \in Outgoing, bit \in AlteredBits :
          /\ Sendable(pk)
          /\ \E i \in 1..TTP_HEADER_SIZE + Len(pk.payload) :
               wire' = Append(wire,
                   [raw |-> [Datagram(pk) EXCEPT ![IPV4_SIZE + i] = FlipBit(@, bit)],
                    packet |-> pk, altered |-> i])
    BY <1>3 DEF SendAltered
  <2>2. PICK i \in 1..TTP_HEADER_SIZE + Len(pk.payload) :
            wire' = Append(wire,
                [raw |-> [Datagram(pk) EXCEPT ![IPV4_SIZE + i] = FlipBit(@, bit)],
                 packet |-> pk, altered |-> i])
    BY <2>1
  <2>3. [raw |-> [Datagram(pk) EXCEPT ![IPV4_SIZE + i] = FlipBit(@, bit)],
         packet |-> pk, altered |-> i] \in Sent
    <3> DEFINE d == [raw |-> [Datagram(pk) EXCEPT ![IPV4_SIZE + i] = FlipBit(@, bit)],
                     packet |-> pk, altered |-> i]
               Of(p) == {[raw |-> [Datagram(p) EXCEPT ![IPV4_SIZE + m] = FlipBit(@, b)],
                          packet |-> p, altered |-> m] :
                             b \in AlteredBits, m \in 1..TTP_HEADER_SIZE + Len(p.payload)}
    <3>1. d \in Of(pk)
      OBVIOUS
    <3>2. pk \in {p \in Outgoing : Sendable(p)}
      BY <2>1
    <3>3. UNION {Of(p) : p \in {p \in Outgoing : Sendable(p)}} \subseteq Sent
      BY DEF Sent
    <3> HIDE DEF Of, d
    <3>4. d \in Sent
      BY <3>1, <3>2, <3>3
    <3> QED BY <3>4 DEF d
  <2> QED BY <1>1, <1>3, <2>2, <2>3, SendStep DEF SendAltered
<1>4. ASSUME NEW r \in Reader, ReceivePacket(r), UNCHANGED snifferVars PROVE SnifferInv'
  BY <1>1, <1>4, ReceiveStep
<1>5. CASE Capture
  <2>1. /\ copies' = Append(copies, 1) /\ copies \in Seq({1, 2})
        /\ Len(copies) < Len(wire) /\ Len(wire) \in Nat
    BY <1>1, <1>5 DEF Capture, SnifferInv, ShownInv, ReadersInv
  <2>2. /\ copies' \in Seq({1, 2}) /\ Len(copies') = Len(copies) + 1
        /\ DOMAIN copies \subseteq DOMAIN copies' /\ Len(copies') \in DOMAIN copies'
        /\ \A m \in DOMAIN copies' : m \in DOMAIN copies \/ m = Len(copies')
        /\ Len(copies') <= Len(wire) /\ Len(copies) <= Len(copies')
    BY <2>1
  <2> QED BY <1>1, <1>5, <2>1, <2>2, CaptureStep DEF Capture
<1>6. CASE CaptureAgain
  <2>1. PICK n \in DOMAIN copies :
          copies' = [copies EXCEPT ![n] = 2] /\ CaptureTTP(n)
    BY <1>6 DEF CaptureAgain
  <2>2. /\ copies' \in Seq({1, 2}) /\ DOMAIN copies' = DOMAIN copies
        /\ Len(copies') = Len(copies) /\ Len(copies) <= Len(copies')
    BY <1>1, <2>1 DEF SnifferInv, ShownInv
  <2>3. Len(copies') <= Len(wire)
    BY <1>1, <2>2 DEF SnifferInv, ShownInv
  <2> QED BY <1>1, <1>6, <2>1, <2>2, <2>3, CaptureStep DEF CaptureAgain
<1>7. CASE UNCHANGED vars
  BY <1>1, <1>7 DEF vars, socketVars, snifferVars, SnifferInv, ReadersInv, PassedInv, ShownInv
<1> QED BY <1>1, <1>2, <1>3, <1>4, <1>5, <1>6, <1>7 DEF Next, SocketNext

\* The invariant, with an entry of Sent wherever a datagram is spoken of.
LEMMA EntriesAreSent ==
    ASSUME SnifferInv
    PROVE  /\ \A n \in DOMAIN wire : wire[n] \in Sent
           /\ \A r \in Reader : \A n \in 1..cursor[r] : n \in DOMAIN wire
           /\ \A r \in Reader : status[r] = "dead" => cursor[r] + 1 \in DOMAIN wire
           /\ \A n \in DOMAIN copies : n \in DOMAIN wire
           /\ \A i \in DOMAIN shown : shown[i].at \in DOMAIN wire
<1>1. \A n \in DOMAIN wire : wire[n] \in Sent
  BY DEF SnifferInv, ReadersInv
<1>2. Len(wire) \in Nat /\ DOMAIN wire = 1..Len(wire)
  BY DEF SnifferInv, ReadersInv
<1>3. \A r \in Reader : /\ cursor[r] \in Nat /\ cursor[r] <= Len(wire)
                        /\ status[r] = "dead" => cursor[r] < Len(wire)
  BY DEF SnifferInv, ReadersInv
<1>4. \A n \in DOMAIN copies : n \in DOMAIN wire
  BY <1>2 DEF SnifferInv, ShownInv
<1>5. \A i \in DOMAIN shown : shown[i].at \in DOMAIN copies
  BY DEF SnifferInv, ShownInv
<1>6. \A r \in Reader : \A n \in 1..cursor[r] : n \in DOMAIN wire
  BY <1>2, <1>3
<1>7. \A r \in Reader : status[r] = "dead" => cursor[r] + 1 \in DOMAIN wire
  BY <1>2, <1>3
<1> QED BY <1>1, <1>4, <1>5, <1>6, <1>7

THEOREM SnifferInvariance == Spec => []SnifferInv
BY SnifferInvInit, SnifferInvStep, PTL DEF Spec

\* The variables of the sockets and of the sniffer have their types, the datagrams are
\* bytes, and the sniffer shows no more than it captures.
THEOREM WireTypes == Spec => []WireTypeOK
<1>1. SnifferInv => WireTypeOK
  <2>1. SUFFICES ASSUME SnifferInv PROVE WireTypeOK
    OBVIOUS
  <2>2. \A n \in DOMAIN wire : wire[n].raw \in Seq(Byte) /\ wire[n].packet \in Outgoing
    <3>1. TAKE n \in DOMAIN wire
    <3>2. PICK d \in Sent : d = wire[n]
      BY <2>1, EntriesAreSent
    <3> QED BY <3>2, HeaderOfEntry, SentIsBuilt
  <2>3. cursor \in [Reader -> 0..Len(wire)] /\ status \in [Reader -> {"reading", "dead"}]
    <3>1. /\ cursor \in [Reader -> Nat] /\ Len(wire) \in Nat
          /\ \A r \in Reader : cursor[r] <= Len(wire)
          /\ status \in [Reader -> {"reading", "dead"}]
      BY <2>1 DEF SnifferInv, ReadersInv
    <3>2. \A r \in Reader : cursor[r] \in 0..Len(wire)
      BY <3>1
    <3> QED BY <3>1, <3>2
  <2>4. /\ copies \in Seq({1, 2}) /\ Len(copies) <= Len(wire) /\ Len(shown) <= Len(copies)
    BY <2>1 DEF SnifferInv, ShownInv
  <2> QED BY <2>2, <2>3, <2>4 DEF WireTypeOK
<1> QED BY <1>1, SnifferInvariance, PTL

\* socket.py:60-79, 128-150: whatever its fields, its length and its payload, a segment that
\* is not altered gets through the checksum to the reader whose ports it has.
THEOREM IntactSegmentsArrive == Spec => []IntactIsDelivered
<1>1. SnifferInv => IntactIsDelivered
  <2>1. SUFFICES ASSUME SnifferInv, NEW r \in Reader
                 PROVE  /\ \A n \in 1..cursor[r] :
                             wire[n].altered = 0 /\ IsMine(r, wire[n].packet) =>
                               \E a \in accepted[r] :
                                  a.at = n /\ SameSegment(a.packet, wire[n].packet)
                        /\ status[r] = "dead" => wire[cursor[r] + 1].altered # 0
    BY DEF IntactIsDelivered
  <2>2. ASSUME NEW n \in 1..cursor[r], wire[n].altered = 0, IsMine(r, wire[n].packet)
        PROVE  \E a \in accepted[r] : a.at = n /\ SameSegment(a.packet, wire[n].packet)
    <3>1. PICK d \in Sent : d = wire[n]
      BY <2>1, EntriesAreSent
    <3>2. SameSegment(ParseRawPacket(d.raw), d.packet)
      BY <2>2, <3>1, IntactEntry
    <3>3. /\ d.packet.source_port = ParseRawPacket(d.raw).source_port
          /\ d.packet.destination_port = ParseRawPacket(d.raw).destination_port
      BY <3>2 DEF SameSegment, ParseRawPacket, Unpack
    <3>4. IsMine(r, ParseRawPacket(wire[n].raw))
      BY <2>2, <3>1, <3>3 DEF IsMine
    <3>5. Passed(n, wire[n].raw) \in accepted[r]
      BY <2>1, <3>4 DEF SnifferInv, PassedInv
    <3>6. /\ Passed(n, wire[n].raw).at = n
          /\ Passed(n, wire[n].raw).packet = ParseRawPacket(d.raw)
      BY <3>1 DEF Passed
    <3> QED BY <3>1, <3>2, <3>5, <3>6
  <2>3. ASSUME status[r] = "dead" PROVE wire[cursor[r] + 1].altered # 0
    <3>1. PICK d \in Sent : d = wire[cursor[r] + 1]
      BY <2>1, <2>3, EntriesAreSent
    <3>2. ~Accepted(d.raw)
      BY <2>1, <2>3, <3>1 DEF SnifferInv, ReadersInv
    <3> QED BY <3>1, <3>2, IntactEntry
  <2> QED BY <2>2, <2>3
<1> QED BY <1>1, SnifferInvariance, PTL

\* socket.py:137-144: a connection gets no segment but those its peer built, as long as
\* the altered byte is not one of the lengths.
THEOREM AlteredSegmentsAreFound == Spec => []AcceptedWasBuilt
<1>1. SnifferInv => AcceptedWasBuilt
  <2>1. SUFFICES ASSUME SnifferInv, NEW r \in Reader, NEW a \in accepted[r],
                        wire[a.at].altered \notin LengthBytes
                 PROVE  SameSegment(a.packet, wire[a.at].packet)
    BY DEF AcceptedWasBuilt
  <2>2. a.at \in 1..cursor[r] /\ a = Passed(a.at, wire[a.at].raw)
    BY <2>1 DEF SnifferInv, PassedInv
  <2>3. PICK d \in Sent : d = wire[a.at]
    BY <2>1, <2>2, EntriesAreSent
  <2>4. Accepted(d.raw)
    BY <2>1, <2>2, <2>3 DEF SnifferInv, ReadersInv
  <2>5. a.packet = ParseRawPacket(d.raw)
    BY <2>2, <2>3 DEF Passed
  <2> QED BY <2>1, <2>3, <2>4, <2>5, AcceptedEntry
<1> QED BY <1>1, SnifferInvariance, PTL

\* ipv4.py:64-98: every header that is sent has the true length and a checksum that any
\* receiver accepts.
THEOREM HeadersAreTrue == Spec => []HeaderIsTrue
<1>1. SnifferInv => HeaderIsTrue
  <2>1. SUFFICES ASSUME SnifferInv, NEW n \in DOMAIN wire
                 PROVE  /\ ShortAt(wire[n].raw, 3) = Len(wire[n].raw)
                        /\ Len(wire[n].raw) <= MaxLength
                        /\ WordsTotal(SubSeq(wire[n].raw, 1, 20)) % 65535 = 0
    BY DEF HeaderIsTrue, IPV4_SIZE
  <2>2. wire[n] \in Sent
    BY <2>1, EntriesAreSent
  <2> QED BY <2>2, HeaderOfEntry
<1> QED BY <1>1, SnifferInvariance, PTL

\* capture_ttp() shows the same bytes once, captured twice or transmitted again.
THEOREM ShownOnce == Spec => []NothingShownTwice
<1>1. SnifferInv => NothingShownTwice
  BY DEF SnifferInv, ShownInv, NothingShownTwice
<1> QED BY <1>1, SnifferInvariance, PTL

\* Two segments with the same fingerprint are the same.
LEMMA KeysTellApart ==
    ASSUME NEW d \in Sent, NEW e \in Sent, d.altered = 0, e.altered = 0,
           KeyOf(d.raw) = KeyOf(e.raw)
    PROVE  d.packet = e.packet
<1> DEFINE dt == Dissected(PayloadOf(d.raw))
           et == Dissected(PayloadOf(e.raw))
<1>1. /\ \A field \in DOMAIN d.packet \ {"checksum"} : dt[field] = d.packet[field]
      /\ dt.payload_length = Len(d.packet.payload)
  BY DissectedEntry
<1>2. /\ \A field \in DOMAIN e.packet \ {"checksum"} : et[field] = e.packet[field]
      /\ et.payload_length = Len(e.packet.payload)
  BY DissectedEntry
<1>3. /\ dt.source_port = et.source_port /\ dt.destination_port = et.destination_port
      /\ dt.sequence_number = et.sequence_number
      /\ dt.acknowledgment_number = et.acknowledgment_number
      /\ dt.flags = et.flags /\ dt.payload_length = et.payload_length
  <2> HIDE DEF dt, et
  <2>1. Fingerprint(d.raw, dt) = Fingerprint(e.raw, et)
    BY DEF KeyOf, dt, et
  <2> QED BY <2>1 DEF Fingerprint
<1> HIDE DEF dt, et
<1>4. d.packet \in Packet /\ e.packet \in Packet /\ d.packet \in Outgoing /\ e.packet \in Outgoing
  BY SentIsBuilt
<1>5. /\ {"source_port", "destination_port", "sequence_number", "acknowledgment_number",
          "flags"} \subseteq DOMAIN d.packet \ {"checksum"}
      /\ {"source_port", "destination_port", "sequence_number", "acknowledgment_number",
          "flags"} \subseteq DOMAIN e.packet \ {"checksum"}
  BY <1>4 DEF Packet
<1>6. /\ d.packet.source_port = e.packet.source_port
      /\ d.packet.destination_port = e.packet.destination_port
      /\ d.packet.sequence_number = e.packet.sequence_number
      /\ d.packet.acknowledgment_number = e.packet.acknowledgment_number
      /\ d.packet.flags = e.packet.flags
      /\ Len(d.packet.payload) = Len(e.packet.payload)
  BY <1>1, <1>2, <1>3, <1>5
<1> QED BY <1>4, <1>6, RawSocketAssumption

\* capture.py:20-28: the fingerprint hides no segment that was not shown, unless an altered
\* one has taken its place.
THEOREM OnlyRepetitionsAreHidden == Spec => []HiddenIsRepeated
<1>1. SnifferInv => HiddenIsRepeated
  <2>1. SUFFICES ASSUME SnifferInv, NEW n \in DOMAIN copies, wire[n].altered = 0
                 PROVE  \E i \in DOMAIN shown :
                            \/ wire[shown[i].at].packet = wire[n].packet
                            \/ wire[shown[i].at].altered # 0
    BY DEF HiddenIsRepeated
  <2>2. KeyOf(wire[n].raw) \in seen
    BY <2>1 DEF SnifferInv, ShownInv
  <2>3. PICK i \in DOMAIN shown : KeyOf(wire[shown[i].at].raw) = KeyOf(wire[n].raw)
    BY <2>1, <2>2 DEF SnifferInv, ShownInv
  <2>4. wire[n] \in Sent /\ wire[shown[i].at] \in Sent
    BY <2>1, EntriesAreSent
  <2>5. CASE wire[shown[i].at].altered = 0
    BY <2>1, <2>3, <2>4, <2>5, KeysTellApart
  <2> QED BY <2>5
<1> QED BY <1>1, SnifferInvariance, PTL

\* capture.py and record.py: the fields, the payload and the record on the screen are those
\* the sender gave to pack().
THEOREM WhatIsShownIsTrue == Spec => []ShownIsTrue
<1>1. SnifferInv => ShownIsTrue
  <2>1. SUFFICES ASSUME SnifferInv, NEW i \in DOMAIN shown, wire[shown[i].at].altered = 0
                 PROVE  LET sent == wire[shown[i].at]
                            ttp == shown[i].ttp
                            record == shown[i].record
                        IN  /\ \A field \in DOMAIN sent.packet \ {"checksum"} :
                                 ttp[field] = sent.packet[field]
                            /\ ttp.payload_length = Len(sent.packet.payload)
                            /\ record.kind = "record" =>
                                 sent.packet.payload = RecordPack(record.type, record.payload)
                            /\ record.kind = "error" =>
                                 \A type \in RecordTypes :
                                     sent.packet.payload # RecordPack(type,
                                         SubSeq(sent.packet.payload, TTLS_HEADER_SIZE + 1,
                                                Len(sent.packet.payload)))
    BY DEF ShownIsTrue
  <2>2. PICK d \in Sent : d = wire[shown[i].at]
    BY <2>1, EntriesAreSent
  <2>3. shown[i] = PrintedEntry(shown[i].at, d.raw)
    BY <2>1, <2>2 DEF SnifferInv, ShownInv
  <2>4. /\ shown[i].ttp = Dissected(PayloadOf(d.raw))
        /\ shown[i].record = RecordShown(Dissected(PayloadOf(d.raw)).payload)
    <3> DEFINE ttp == Dissected(PayloadOf(d.raw))
               record == RecordShown(ttp.payload)
               entry == PrintedEntry(shown[i].at, d.raw)
    <3>1. entry = [at |-> shown[i].at, ttp |-> ttp, record |-> record]
      BY DEF PrintedEntry
    <3> HIDE DEF ttp, record, entry
    <3>2. entry.ttp = ttp /\ entry.record = record
      BY <3>1
    <3>3. shown[i] = entry
      BY <2>3 DEF entry
    <3> QED BY <3>2, <3>3 DEF ttp, record
  <2>5. /\ \A field \in DOMAIN d.packet \ {"checksum"} : shown[i].ttp[field] = d.packet[field]
        /\ shown[i].ttp.payload_length = Len(d.packet.payload)
    BY <2>1, <2>2, <2>4, DissectedEntry, Zenon
  <2>6. PICK payload \in Seq(Byte) : payload = d.packet.payload /\ Len(payload) \in Short
    BY <2>1, <2>2, DissectedEntry
  <2>7. shown[i].record = RecordShown(payload)
    BY <2>1, <2>2, <2>4, <2>6, DissectedEntry, Zenon
  <2>8. /\ RecordShown(payload).kind = "record" =>
             payload = RecordPack(RecordShown(payload).type, RecordShown(payload).payload)
        /\ RecordShown(payload).kind = "error" =>
             \A type \in RecordTypes :
                 payload # RecordPack(type, SubSeq(payload, TTLS_HEADER_SIZE + 1, Len(payload)))
    BY <2>6, RecordIsTrue, Zenon
  <2> QED BY <2>2, <2>5, <2>6, <2>7, <2>8, Zenon
<1> QED BY <1>1, SnifferInvariance, PTL
=============================================================================
