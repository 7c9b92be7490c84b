------------------------ MODULE TTPOpeningInvariant ------------------------
(***************************************************************************)
(* The inductive invariant behind the refinement of TTPOpening: how far    *)
(* the two sides have come together, and which segments of the handshake   *)
(* can then be in flight.                                                  *)
(***************************************************************************)
EXTENDS TTPOpening, TTPTransferInvariant

OpeningPcOK ==
    pc \in [Peer -> [Thread -> OpeningLabel \cup {"unstarted"} \cup AppLabel \cup ReceiverLabel]]

\* What p keeps for transmission is data, and so is what a thread of p holds.
WindowIsData(p) ==
    /\ \A k \in 1..Len(queue[p]) : queue[p][k].flags = {"DATA"}
    /\ \A e \in pending[p] : e.packet.flags = {"DATA"}
    /\ \A t \in Thread : pc[p][t] \in {"insert", "transmit"} => packet[p][t].flags = {"DATA"}

\* p has reached `label` of its part of the handshake.
HasReached(p, label) == At(p, "app", label) /\ At(p, "receiver", "unstarted")

\* Both threads of p run.
Runs(p) == pc[p]["app"] \in AppLabel /\ pc[p]["receiver"] \in ReceiverLabel

\* The segments of the handshake.
Syn == [flags |-> {"SYN"}, seq |-> ISN[Client], ack |-> 0, payload |-> NoPayload]

SynAck == [flags |-> {"SYN", "ACK"}, seq |-> ISN[Server], ack |-> ISN[Client] + 1,
           payload |-> NoPayload]

LastAck == [flags |-> {"ACK"}, seq |-> ISN[Client] + 1, ack |-> ISN[Server] + 1,
            payload |-> NoPayload]

\* p has numbered its SYN, and has not taken one.
HasNumberedSyn(p) == send_next[p] = ISN[p] + 1

\* The server has taken the SYN and answered it.
HasAnswered ==
    /\ HasReached(Server, "last_ack")
    /\ HasNumberedSyn(Server)
    /\ recv_next[Server] = ISN[Client] + 1

NothingSent ==
    /\ HasReached(Client, "connect") /\ HasReached(Server, "accept")
    /\ send_next[Client] = ISN[Client] /\ recv_next[Client] = 0
    /\ send_next[Server] = ISN[Server]
    /\ network[Client] = {} /\ network[Server] = {}

SynSent ==
    /\ HasReached(Client, "syn_ack") /\ HasReached(Server, "accept")
    /\ HasNumberedSyn(Client) /\ send_next[Server] = ISN[Server]
    /\ network[Client] = {} /\ network[Server] \subseteq {Syn}

SynAnswered ==
    /\ HasReached(Client, "syn_ack") /\ HasAnswered
    /\ HasNumberedSyn(Client)
    /\ network[Client] \subseteq {SynAck} /\ network[Server] = {}

\* The client's application may send; its receiver has nothing to read, since the
\* server sends nothing more before the last ACK.
ClientEstablished ==
    /\ Runs(Client) /\ At(Client, "receiver", "wait") /\ HasAnswered
    /\ network[Client] = {}
    /\ \A pk \in network[Server] : pk = LastAck \/ pk.flags = {"DATA"}

BothEstablished ==
    /\ Runs(Client) /\ Runs(Server)
    /\ \A p \in Peer : \A pk \in network[p] : "SYN" \notin pk.flags

OpeningPhase == NothingSent \/ SynSent \/ SynAnswered \/ ClientEstablished \/ BothEstablished

OpeningInv ==
    /\ DataTypeOK
    /\ OpeningPcOK
    /\ \A p \in Peer : WindowIsData(p)
    /\ OpeningPhase
=============================================================================
