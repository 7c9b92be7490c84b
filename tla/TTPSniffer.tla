----------------------------- MODULE TTPSniffer -----------------------------
(***************************************************************************)
(* The sniffer beside the connections of TTPRawSocket: wireshark/sniffer.py*)
(* captures the TTP datagrams of the loopback interface, each once or      *)
(* twice, and capture_ttp() (wireshark/capture.py) shows the segment and   *)
(* the TTLS record in it (ttls/record.py), once for every fingerprint.     *)
(***************************************************************************)
EXTENDS TTPRawSocket

VARIABLES
    copies,  \* how often each datagram was captured; the rest of wire is to come
    seen,    \* fingerprints
    shown    \* what was printed: which datagram, its segment, its record

snifferVars == <<copies, seen, shown>>

SnifferInit == copies = << >> /\ seen = {} /\ shown = << >>

\* MUTANT: window and reserved are swapped in fields_desc.
DissectedSwapped(segment) ==
    [source_port |-> ShortAt(segment, 1), destination_port |-> ShortAt(segment, 3),
     sequence_number |-> LongAt(segment, 5), acknowledgment_number |-> LongAt(segment, 9),
     flags |-> segment[13], header_length |-> segment[14], reserved |-> ShortAt(segment, 17),
     window |-> ShortAt(segment, 15), payload_length |-> ShortAt(segment, 19),
     checksum |-> LongAt(segment, 21),
     payload |-> SubSeq(segment, TTP_HEADER_SIZE + 1, Len(segment))]

\* Scapy dissects by the class TTP: the payload is what follows its ten fields,
\* wherever header_length and payload_length say it is.
Dissected(segment) ==
    [source_port |-> ShortAt(segment, 1), destination_port |-> ShortAt(segment, 3),
     sequence_number |-> LongAt(segment, 5), acknowledgment_number |-> LongAt(segment, 9),
     flags |-> segment[13], header_length |-> segment[14], reserved |-> ShortAt(segment, 15),
     window |-> ShortAt(segment, 17), payload_length |-> ShortAt(segment, 19),
     checksum |-> LongAt(segment, 21),
     payload |-> SubSeq(segment, TTP_HEADER_SIZE + 1, Len(segment))]

\* MUTANT: without the acknowledgment, as UDP datagrams are told apart.
FingerprintByLength(raw, ttp) ==
    <<SourceOf(raw), DestinationOf(raw), ttp.source_port, ttp.destination_port,
      ttp.sequence_number, ttp.flags, ttp.payload_length>>

Fingerprint(raw, ttp) ==
    <<SourceOf(raw), DestinationOf(raw), ttp.source_port, ttp.destination_port,
      ttp.sequence_number, ttp.acknowledgment_number, ttp.flags, ttp.payload_length>>

TTLS_HEADER_SIZE == 6

\* RecordType of a header of version 1.
RecordTypes == 1..4

\* TTLSRecord.pack()
RecordPack(type, payload) == <<type, 1>> \o PackLong(<<0, Len(payload)>>) \o payload

\* What follows the segment on the screen: nothing, the record, or the message of the
\* exception that callback() caught from TTLSRecord.unpack(), after the fingerprint
\* was kept and the header was printed.
RecordShown(payload) ==
    IF Len(payload) < TTLS_HEADER_SIZE THEN [kind |-> "none"]
    ELSE LET rest == SubSeq(payload, TTLS_HEADER_SIZE + 1, Len(payload))
         IN  IF /\ LongAt(payload, 3) = <<0, Len(rest)>>
                /\ payload[2] = 1
                /\ payload[1] \in RecordTypes
             THEN [kind |-> "record", type |-> payload[1], payload |-> rest]
             ELSE [kind |-> "error"]

\* MUTANT: the fingerprint is not kept.
CaptureTTPForgets(n) ==
    LET raw == wire[n].raw
        ttp == Dissected(PayloadOf(raw))
    IN  /\ Fingerprint(raw, ttp) \notin seen
        /\ UNCHANGED seen
        /\ shown' = Append(shown, [at |-> n, ttp |-> ttp, record |-> RecordShown(ttp.payload)])

CaptureTTP(n) ==
    LET raw == wire[n].raw
        ttp == Dissected(PayloadOf(raw))
        key == Fingerprint(raw, ttp)
    IN  \/ /\ key \in seen
           /\ UNCHANGED <<seen, shown>>
        \/ /\ key \notin seen
           /\ seen' = seen \cup {key}
           /\ shown' = Append(shown,
                [at |-> n, ttp |-> ttp, record |-> RecordShown(ttp.payload)])

\* The callback for the next datagram.
Capture ==
    /\ Len(copies) < Len(wire)
    /\ copies' = Append(copies, 1)
    /\ CaptureTTP(Len(copies'))
    /\ UNCHANGED socketVars

\* And for its second copy, on its way into the interface.
CaptureAgain ==
    /\ \E n \in DOMAIN copies :
         /\ copies[n] = 1
         /\ copies' = [copies EXCEPT ![n] = 2]
         /\ CaptureTTP(n)
    /\ UNCHANGED socketVars

vars == <<socketVars, snifferVars>>

Init == SocketInit /\ SnifferInit

Next == (SocketNext /\ UNCHANGED snifferVars) \/ Capture \/ CaptureAgain

Spec == Init /\ [][Next]_vars

-----------------------------------------------------------------------------
(* Properties *)

\* The bytes of a datagram are bytes, a reader is ahead of nobody's datagrams, and
\* the sniffer has shown no more than it has captured.
WireTypeOK ==
    /\ \A n \in DOMAIN wire : wire[n].raw \in Seq(Byte) /\ wire[n].packet \in Outgoing
    /\ cursor \in [Reader -> 0..Len(wire)]
    /\ status \in [Reader -> {"reading", "dead"}]
    /\ copies \in Seq({1, 2}) /\ Len(copies) <= Len(wire)
    /\ Len(shown) <= Len(copies)

\* An unaltered datagram that the sniffer hides is a repetition: it has shown a datagram
\* of the same segment, or one that was altered on the way.  Of an altered one that cannot
\* be said, for the bit may make its fingerprint that of another segment.
HiddenIsRepeated ==
    \A n \in DOMAIN copies :
        wire[n].altered = 0 =>
            \E i \in DOMAIN shown :
                \/ wire[shown[i].at].packet = wire[n].packet
                \/ wire[shown[i].at].altered # 0

\* It shows the same bytes once, however often they are captured or transmitted
\* (capture.py:23-26).
NothingShownTwice ==
    \A i, j \in DOMAIN shown : wire[shown[i].at].raw = wire[shown[j].at].raw => i = j

\* What it shows of a segment that was not altered are the fields and the payload the
\* connection gave it, and the TTLS record is the one the session packed: the three
\* layouts (HEADER_FORMAT, fields_desc, TTLS_HEADER_FORMAT) agree.  A payload that is
\* no record, of a connection without TTLS, is cut short by an error message.
ShownIsTrue ==
    \A i \in DOMAIN shown :
        LET sent == wire[shown[i].at]
            ttp == shown[i].ttp
            record == shown[i].record
        IN  sent.altered = 0 =>
              /\ \A field \in DOMAIN sent.packet \ {"checksum"} : ttp[field] = sent.packet[field]
              /\ ttp.payload_length = Len(sent.packet.payload)
              /\ record.kind = "record" => sent.packet.payload = RecordPack(record.type, record.payload)
              /\ record.kind = "error" =>
                   \A type \in RecordTypes :
                       sent.packet.payload # RecordPack(type,
                           SubSeq(sent.packet.payload, TTLS_HEADER_SIZE + 1, Len(sent.packet.payload)))
=============================================================================
