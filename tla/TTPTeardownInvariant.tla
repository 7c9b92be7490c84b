----------------------- MODULE TTPTeardownInvariant -----------------------
(***************************************************************************)
(* The inductive invariants behind the safety properties of TTPTeardown.   *)
(* What a segment says of its sender stays true however long it is on its  *)
(* way, which carries both the sequence numbers and the meaning of an ACK; *)
(* and every FIN that can still be numbered is paid for.                   *)
(***************************************************************************)
EXTENDS TTPTeardown, TTPTransferInvariant

TeardownPcOK ==
    /\ pc \in [Peer -> [Thread -> TeardownAppLabel \cup TeardownReceiverLabel]]
    /\ \A p \in Peer :
         /\ pc[p]["app"] \in TeardownAppLabel
         /\ pc[p]["receiver"] \in TeardownReceiverLabel

TeardownTypes == DataTypeOK /\ TeardownPcOK /\ TeardownTypeOK

-----------------------------------------------------------------------------
(* What the segments say *)

\* p has taken a FIN of the other side, and is done answering it.
HasHeardFin(p) == fin_received[p] \/ At(p, "receiver", "signal")

\* pk acknowledges no more than p has accepted and ends within the numbers p has
\* given out; it carries data only if p has sent some; and it has the ACK flag only
\* if there was data of the other side, or a FIN, to acknowledge.
IsTrue(p, pk) ==
    /\ pk.ack <= recv_next[p]
    /\ End(pk) <= send_next[p]
    /\ "DATA" \in pk.flags => sent[p] # << >>
    /\ "ACK" \in pk.flags => sent[Other(p)] # << >> \/ HasHeardFin(p)

\* The segments p has put on their way, keeps for retransmission or is about to send.
SegmentsAreTrue(p) ==
    /\ \A k \in 1..Len(queue[p]) : IsTrue(p, queue[p][k])
    /\ \A e \in pending[p] : IsTrue(p, e.packet)
    /\ \A t \in Thread : pc[p][t] \in {"insert", "transmit"} => IsTrue(p, packet[p][t])
    /\ IsTrue(p, fin_packet[p])
    /\ \A pk \in network[Other(p)] : IsTrue(p, pk)
    /\ IsTrue(p, current[Other(p)])
    /\ \A pk \in out_of_order[Other(p)] : IsTrue(p, pk)

BuiltLabel == {"chunk_built", "fin_built", "fin_ack_built", "fin_reply_built"}

\* A segment a thread has built and not yet counted has a number that is given out
\* already, when the other thread has counted one in between, or is the next one.
SegmentIsBuilt(p) ==
    /\ \A t \in Thread : pc[p][t] \in BuiltLabel =>
         packet[p][t].ack <= recv_next[p] /\ packet[p][t].seq <= send_next[p]
    /\ At(p, "app", "chunk_built") => packet[p]["app"].flags = {"DATA"}
    /\ At(p, "app", "fin_built") =>
         packet[p]["app"].flags = {"FIN"} /\ packet[p]["app"].payload = NoPayload
    /\ pc[p]["receiver"] \in {"fin_ack_built", "fin_reply_built"} =>
         /\ packet[p]["receiver"].payload = NoPayload
         /\ packet[p]["receiver"].flags =
              IF At(p, "receiver", "fin_ack_built") THEN {"FIN", "ACK"} ELSE {"FIN"}

\* The receiver answers data only when there was some, looks for an ACK in just the
\* segments that have the flag, and a FIN counts as confirmed only by such a segment.
AnswersAreTrue(p) ==
    /\ pc[p]["receiver"] \in {"drain", "reply"} => sent[Other(p)] # << >>
    /\ At(p, "receiver", "ack") => "ACK" \in current[p].flags
    /\ At(p, "receiver", "data") => "ACK" \notin current[p].flags
    /\ fin_ack_received[p] => sent[p] # << >> \/ HasHeardFin(Other(p))
    /\ At(p, "app", "wait_fin") => fin_ack_received[p]

NumbersAreOrdered(p) ==
    send_unacked[p] <= recv_next[Other(p)] /\ recv_next[Other(p)] <= send_next[p]

TeardownInv ==
    /\ TeardownTypes
    /\ \A p \in Peer : SegmentsAreTrue(p)
    /\ \A p \in Peer : SegmentIsBuilt(p)
    /\ \A p \in Peer : AnswersAreTrue(p)
    /\ \A p \in Peer : NumbersAreOrdered(p)

-----------------------------------------------------------------------------
(* What FINs can still come *)

\* A FIN that asks for an answer.
IsRequest(pk) == "FIN" \in pk.flags /\ "ACK" \notin pk.flags

One(condition) == IF condition THEN 1 ELSE 0

\* close() of p has not numbered its FIN yet; it has done so at most once.
CloseIsLeft(p) == One(fin_packet[p] = NoPacket)

\* _process_fin() of p may still answer with a FIN of its own: at most once, as it
\* leaves p in FIN_WAIT.
ReplyIsLeft(p) ==
    One(\/ pc[p]["receiver"] \in {"fin_reply", "fin_reply_built"}
        \/ state[p] = "ESTABLISHED" /\ pc[p]["receiver"] \notin {"fin_wait", "dead", "ended"})

\* How often close() of p may still transmit its FIN.
TransmissionsLeft(p) ==
    IF fin_packet[p] = NoPacket \/ At(p, "app", "transmit_fin") THEN 1 + MaxRetries
    ELSE IF At(p, "app", "wait_fin_ack") THEN MaxRetries - fin_retransmission[p].retries
    ELSE 0

\* The FINs p is to answer: on their way, in its receiver's hands, being answered.
Requests(p) == {pk \in network[p] : IsRequest(pk)}

ToAnswer(p) ==
    Cardinality(Requests(p)) + One(IsRequest(current[p]))
        + One(pc[p]["receiver"] \in {"fin", "fin_ack_built"})

FinsToCome(p) ==
    CloseIsLeft(p) + ReplyIsLeft(p) + ToAnswer(p)
        + TransmissionsLeft(Other(p)) + ReplyIsLeft(Other(p))

\* Where the FIN of close() can be missing, and has no ACK flag where it is not.
CloseIsOnce(p) ==
    /\ state[p] = "ESTABLISHED" \/ pc[p]["app"] \in {"closing", "send_fin", "fin_built"} =>
         fin_packet[p] = NoPacket
    /\ pc[p]["app"] \in {"send_fin", "fin_built"} => state[p] # "ESTABLISHED"
    /\ "ACK" \notin fin_packet[p].flags
    /\ pc[p]["app"] \in {"transmit_fin", "wait_fin_ack"} => "FIN" \in fin_packet[p].flags

\* Only the FINs are requests.
DataIsNoRequest(p) ==
    /\ \A k \in 1..Len(queue[p]) : ~IsRequest(queue[p][k])
    /\ \A e \in pending[p] : ~IsRequest(e.packet)
    /\ \A t \in Thread : pc[p][t] \in {"insert", "transmit"} => ~IsRequest(packet[p][t])

FinInv ==
    \A p \in Peer :
        /\ CloseIsOnce(p)
        /\ DataIsNoRequest(p)
        /\ IsFiniteSet(network[p])
        /\ FinNumbers(p) + FinsToCome(p) <= 2 + (2 + MaxRetries)
=============================================================================
