----------------------------- MODULE TTPWindow -----------------------------
(***************************************************************************)
(* The send window of ttp/window.py.  `queue` is a sequence of packets.    *)
(* `pending` is an OrderedDict from sequence number to packet: here a set  *)
(* of entries, each a packet with the position at which it was inserted.   *)
(***************************************************************************)
EXTENDS TTPPacket, FiniteSetsExt

PendingEntry == [packet : TTPPacket, position : Nat]

PacketsOf(pending) == {e.packet : e \in pending}

BytesInFlight(pending) ==
    MapThenSumSet(LAMBDA e : SequenceSpace(e.packet), pending)

\* MUTANT: forgets what is already in flight.
CanSendIgnoresPending(size, pending, packet_size) == packet_size <= size

CanSend(size, pending, packet_size) == packet_size <= size - BytesInFlight(pending)

\* pending[packet.sequence_number] = packet: a new key goes last, and no two
\* packets of a connection share a sequence number.
MarkPending(pending, pk, position) ==
    pending \cup {[packet |-> pk, position |-> position]}

\* MUTANT: a packet counts as confirmed when its first byte is the next expected.
UnacknowledgedByStart(pending, ack_number) ==
    {e \in pending : e.packet.seq > ack_number}

\* The entries a cumulative ACK leaves pending.
Unacknowledged(pending, ack_number) ==
    {e \in pending : End(e.packet) > ack_number}

\* MUTANT: the entry inserted last.
IsOldestNewest(pending, e) == \A other \in pending : e.position >= other.position

\* The entry oldest() returns is the first one inserted.
IsOldest(pending, e) == \A other \in pending : e.position <= other.position

\* MUTANT: what is sent and not acknowledged is overlooked.
EmptyQueue(queue, pending) == queue = << >>

Empty(queue, pending) == queue = << >> /\ pending = {}
=============================================================================
