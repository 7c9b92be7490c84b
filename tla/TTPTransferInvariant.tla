------------------------ MODULE TTPTransferInvariant ------------------------
(***************************************************************************)
(* The inductive invariant behind the safety properties of TTPTransfer.    *)
(* For each direction it ties the receiver's RCV.NXT to the number of      *)
(* chunks delivered, through the chain of sequence numbers the sender gave *)
(* out, and says where the segments of that chain can be.                  *)
(***************************************************************************)
EXTENDS TTPTransfer

\* TypeOK but for the statements the threads are at, which the end of the connection
\* adds to.
DataTypeOK ==
    /\ send_unacked \in [Peer -> Nat]
    /\ send_next \in [Peer -> Nat]
    /\ recv_next \in [Peer -> Nat]
    /\ queue \in [Peer -> Seq(TTPPacket)]
    /\ pending \in [Peer -> SUBSET PendingEntry]
    /\ inserted \in [Peer -> Nat]
    /\ retransmission \in [Peer -> RetransmissionManager]
    /\ out_of_order \in [Peer -> SUBSET TTPPacket]
    /\ buffer \in [Peer -> Seq(Chunk \cup {NoPayload})]
    /\ network \in [Peer -> SUBSET TTPPacket]
    /\ packet \in [Peer -> [Thread -> TTPPacket]]
    /\ current \in [Peer -> TTPPacket]
    /\ sent \in [Peer -> Seq(TTPPacket)]
    /\ received \in [Peer -> Seq(Chunk \cup {NoPayload})]

PcOK ==
    /\ pc \in [Peer -> [Thread -> AppLabel \cup ReceiverLabel]]
    /\ \A p \in Peer : pc[p]["app"] \in AppLabel /\ pc[p]["receiver"] \in ReceiverLabel

\* Sequence number of the i-th segment p builds; the next one p will give out
\* when fewer have been built.
SeqOf(p, i) == IF i <= Len(sent[p]) THEN sent[p][i].seq ELSE send_next[p]

\* The segments p built are DATA, and their numbers follow one another from the
\* one after the SYN, without gap or overlap.
SentIsChained(p) ==
    /\ SeqOf(p, 1) = ISN[p] + 1
    /\ \A i \in 1..Len(sent[p]) :
         /\ sent[p][i].flags = {"DATA"}
         /\ sent[p][i].payload \in Chunk
         /\ SeqOf(p, i + 1) = End(sent[p][i])
    /\ \A i, j \in 1..(Len(sent[p]) + 1) : i < j => SeqOf(p, i) < SeqOf(p, j)

\* How many of the segments p built have been taken out of its queue.
Taken(p) == Len(sent[p]) - Len(queue[p])

WasTaken(p, pk) == \E i \in 1..Taken(p) : pk = sent[p][i]

\* The queue holds the segments not yet taken, in order; what is pending, or in
\* the hands of a thread, was taken before.
WindowIsGenuine(p) ==
    /\ Len(queue[p]) <= Len(sent[p])
    /\ \A k \in 1..Len(queue[p]) : queue[p][k] = sent[p][Taken(p) + k]
    /\ \A e \in pending[p] : WasTaken(p, e.packet)
    /\ \A t \in Thread : pc[p][t] \in {"insert", "transmit"} => WasTaken(p, packet[p][t])

IsSent(p, pk) == \E i \in 1..Len(sent[p]) : pk = sent[p][i]

\* A segment that can reach p: an ACK for no more than the other side has
\* accepted, or a segment the other side built.
IsGenuine(p, pk) ==
    IF "ACK" \in pk.flags THEN pk.ack <= recv_next[Other(p)] ELSE IsSent(Other(p), pk)

ArrivalsAreGenuine(p) ==
    /\ \A pk \in network[p] : IsGenuine(p, pk)
    /\ pc[p]["receiver"] \in {"check", "ack", "data"} => IsGenuine(p, current[p])
    /\ At(p, "receiver", "ack") => "ACK" \in current[p].flags
    /\ At(p, "receiver", "data") => "ACK" \notin current[p].flags
    /\ \A pk \in out_of_order[p] : IsSent(Other(p), pk)

\* What p has delivered is the other side's stream up to the segment p expects.
DeliveredIsPrefix(p) ==
    /\ Len(Delivered(p)) <= Len(sent[Other(p)])
    /\ \A i \in 1..Len(Delivered(p)) : Delivered(p)[i] = sent[Other(p)][i].payload
    /\ recv_next[p] = SeqOf(Other(p), Len(Delivered(p)) + 1)

\* While the receiver drains, the segment it expects may be among those it keeps.
KeptIsAhead(p) ==
    \A pk \in out_of_order[p] :
        IF At(p, "receiver", "drain") THEN pk.seq >= recv_next[p] ELSE pk.seq > recv_next[p]

\* No segment is in the hands of both threads of p, or in a thread's hands and
\* pending: the part of EachSegmentTakenOnce that is inductive.
HeldIsDistinct(p) ==
    /\ At(p, "app", "insert") /\ At(p, "receiver", "insert") =>
         packet[p]["app"] # packet[p]["receiver"]
    /\ PacketsOf(pending[p]) \cap Held(p) = {}

IInv ==
    /\ TypeOK
    /\ \A p \in Peer : SentIsChained(p)
    /\ \A p \in Peer : WindowIsGenuine(p)
    /\ \A p \in Peer : ArrivalsAreGenuine(p)
    /\ \A p \in Peer : DeliveredIsPrefix(p)
    /\ \A p \in Peer : KeptIsAhead(p)
    /\ \A p \in Peer : send_unacked[p] <= recv_next[Other(p)]
    /\ UnreceivedIsKept
    /\ \A p \in Peer : HeldIsDistinct(p)

-----------------------------------------------------------------------------
(* The invariant behind the properties of the send window and its timer, *)
(* inductive together with IInv                                           *)

\* pk is still in p's send window, or in the hands of a thread of p.
InWindow(p, pk) ==
    \/ \E k \in 1..Len(queue[p]) : queue[p][k] = pk
    \/ pk \in PacketsOf(pending[p]) \cup Held(p)

\* What no ACK has covered is in the window.
UnackedIsKept(p) ==
    \A i \in 1..Len(sent[p]) :
        End(sent[p][i]) <= send_unacked[p] \/ InWindow(p, sent[p][i])

\* Once wait_for_acks() has found both containers empty, the window has no segment
\* but the one the receiver's flush held at that moment.
ConfirmedHoldsOne(p) ==
    At(p, "app", "confirmed") =>
        /\ queue[p] = << >>
        /\ \A x, y \in PacketsOf(pending[p]) \cup Held(p) : x = y

\* An ACK is for the SYN at least.
IsAhead(p, pk) == "ACK" \in pk.flags => pk.ack > ISN[p]

AcksAreAhead(p) ==
    /\ \A pk \in network[p] : IsAhead(p, pk)
    /\ pc[p]["receiver"] \in {"check", "ack"} => IsAhead(p, current[p])

\* Before the first ACK the receiver has flushed and stopped nothing, and the
\* application is about to start a timer that is stopped while data is pending.
BeforeFirstAck(p) ==
    send_unacked[p] = ISN[p] =>
        /\ pc[p]["receiver"] \notin FlushLabel \cup {"stop"}
        /\ retransmission[p].timer = "stopped" /\ pending[p] # {} =>
             /\ pc[p]["app"] \in {"transmit", "timer", "start", "raised"}
             /\ pc[p]["app"] \in {"transmit", "timer"} => \E e \in pending[p] : pending[p] = {e}

WindowInv ==
    \A p \in Peer :
        /\ UnackedIsKept(p)
        /\ ConfirmedHoldsOne(p)
        /\ AcksAreAhead(p)
        /\ BeforeFirstAck(p)

\* How much can be in flight, an invariant of its own.
Largest == Max({ChunkSize[chunk] : chunk \in Chunk})

Bytes(p) == BytesInFlight(pending[p])

HeldSize(p, t) == SequenceSpace(packet[p][t])

\* The size of the segment the next popleft() takes.
NextSize(p) == IF queue[p] = << >> THEN 0 ELSE SequenceSpace(Head(queue[p]))

\* What the window and the segment a thread is about to pop come to at most.
Limit(p) == IF queue[p] = << >> THEN WindowSize[p] ELSE WindowSize[p] + Largest

IsHead(p, t) == queue[p] # << >> /\ packet[p][t] = Head(queue[p])

\* What thread t may still add to pending, given where the other thread is.  Two
\* threads that measure have not both measured a segment that is gone; a thread
\* that measures after the other did measures the next segment, or what the other
\* is adding, or else the other's segment fits.
ExcessOfOne(p, t, other) ==
    /\ At(p, t, "admit") /\ At(p, other, "admit") => IsHead(p, t) \/ IsHead(p, other)
    /\ At(p, t, "pop") /\ At(p, other, "admit") =>
         IsHead(p, other) \/ Bytes(p) + NextSize(p) <= WindowSize[p]
    /\ At(p, t, "insert") /\ At(p, other, "admit") =>
         \/ IsHead(p, other)
         \/ packet[p][other] = packet[p][t]
         \/ Bytes(p) + HeldSize(p, t) <= WindowSize[p]
    /\ At(p, t, "pop") /\ pc[p][other] \notin {"pop", "insert"} =>
         Bytes(p) + NextSize(p) <= Limit(p)
    /\ At(p, t, "pop") /\ At(p, other, "pop") => Bytes(p) + NextSize(p) <= WindowSize[p]
    /\ At(p, t, "insert") /\ At(p, other, "pop") =>
         Bytes(p) + HeldSize(p, t) + NextSize(p) <= Limit(p)
    /\ At(p, t, "insert") => Bytes(p) + HeldSize(p, t) <= WindowSize[p] + Largest
    /\ At(p, t, "insert") /\ At(p, other, "insert") =>
         Bytes(p) + HeldSize(p, t) + HeldSize(p, other) <= WindowSize[p] + Largest

WindowIsBounded(p) ==
    /\ IsFiniteSet(pending[p])
    /\ Bytes(p) <= WindowSize[p] + Largest
    /\ \A t \in Thread, other \in Thread : t # other => ExcessOfOne(p, t, other)
=============================================================================
