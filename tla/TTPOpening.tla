----------------------------- MODULE TTPOpening -----------------------------
(***************************************************************************)
(* One connection from its first segment: the client's connect(), the      *)
(* server's TTPConnection.accept() on a socket of its own, and the data    *)
(* transfer of TTPTransfer, which each side begins as soon as its own part *)
(* of the handshake is over.  The client is first: its data may overtake   *)
(* its last ACK, and the server's wait for that ACK then reads and drops   *)
(* it.  Several connections, and repeated or stale segments of the         *)
(* handshake, are the subject of TTPHandshake: here nothing is duplicated. *)
(*                                                                         *)
(* TTPTransfer starts with both sides established.  ImplementsTransfer     *)
(* shows that this start is right: the opening leads to it, and the data   *)
(* it drops is data a lossy network might have lost, so that what is       *)
(* proved of every TTPTransfer holds from the first SYN on.                *)
(***************************************************************************)
EXTENDS TTPTransfer

\* Every segment of the handshake can be encoded.
ASSUME OpeningAssumption ==
    /\ ~CanDuplicate
    /\ \A p \in Peer : ISN[p] + 1 < SeqLimit

VARIABLE dropped   \* history: DATA segments a wait of the handshake has read

openingVars == <<vars, dropped>>

\* "connect" and "accept": not called yet, or waiting for a SYN.  "syn_ack" and
\* "last_ack": waiting for that segment.  "failed": the call has raised.
OpeningLabel == {"connect", "syn_ack", "accept", "last_ack", "failed"}

\* `state` is neither ESTABLISHED nor FIN_WAIT, and _start_receiver() not called.
Opening(p) == pc[p]["app"] \in OpeningLabel

OpeningInit ==
    /\ send_unacked = ISN
    /\ send_next = ISN
    /\ recv_next = [p \in Peer |-> 0]
    /\ queue = [p \in Peer |-> << >>]
    /\ pending = [p \in Peer |-> {}]
    /\ inserted = [p \in Peer |-> 0]
    /\ retransmission = [p \in Peer |-> Fresh]
    /\ out_of_order = [p \in Peer |-> {}]
    /\ buffer = [p \in Peer |-> << >>]
    /\ network = [p \in Peer |-> {}]
    /\ pc = [p \in Peer |-> [t \in Thread |->
               IF t = "receiver" THEN "unstarted"
               ELSE IF p = Client THEN "connect" ELSE "accept"]]
    /\ packet = [p \in Peer |-> [t \in Thread |-> NoPacket]]
    /\ current = [p \in Peer |-> NoPacket]
    /\ sent = [p \in Peer |-> << >>]
    /\ received = [p \in Peer |-> << >>]
    /\ dropped = {}

\* The handshake is over: the application may call send() and recv(), and the
\* receiver has been started.
Established(p) ==
    pc' = [pc EXCEPT ![p] = [t \in Thread |-> IF t = "app" THEN "idle" ELSE "wait"]]

\* Both of _client_handshake() and _server_handshake() leave these alone.
OpeningUnchanged ==
    UNCHANGED <<send_unacked, windowVars, retransmission, receiveVars, packet, current,
                historyVars>>

-----------------------------------------------------------------------------
(* connect() *)

\* The SYN is built and sent.
Connect ==
    /\ At(Client, "app", "connect")
    /\ LET syn == BuildPacket(Client, {"SYN"}, NoPayload)
       IN  /\ send_next' = [send_next EXCEPT ![Client] = @ + SequenceSpace(syn)]
           /\ Transmit(Client, syn)
    /\ GoTo(Client, "app", "syn_ack")
    /\ OpeningUnchanged
    /\ UNCHANGED <<recv_next, dropped>>

\* MUTANT: the SYN of the SYN-ACK is not counted.
TakeSynAckBySeq ==
    /\ At(Client, "app", "syn_ack")
    /\ \E pk \in network[Client] :
         /\ {"SYN", "ACK"} \subseteq pk.flags
         /\ LET ack == [BuildPacket(Client, {"ACK"}, NoPayload) EXCEPT !.ack = pk.seq]
            IN  /\ recv_next' = [recv_next EXCEPT ![Client] = pk.seq]
                /\ network' = [network EXCEPT ![Client] = @ \ {pk}, ![Server] = @ \cup {ack}]
                /\ Established(Client)
    /\ OpeningUnchanged
    /\ UNCHANGED <<send_next, dropped>>

\* A SYN-ACK is answered with the last ACK, unless it acknowledges another number.
TakeSynAck ==
    /\ At(Client, "app", "syn_ack")
    /\ \E pk \in network[Client] :
         /\ {"SYN", "ACK"} \subseteq pk.flags
         /\ LET ack == [BuildPacket(Client, {"ACK"}, NoPayload) EXCEPT !.ack = End(pk)]
            IN  IF pk.ack = send_next[Client]
                THEN /\ recv_next' = [recv_next EXCEPT ![Client] = End(pk)]
                     /\ network' = [network EXCEPT ![Client] = @ \ {pk}, ![Server] = @ \cup {ack}]
                     /\ Established(Client)
                ELSE /\ network' = [network EXCEPT ![Client] = @ \ {pk}]
                     /\ GoTo(Client, "app", "failed")
                     /\ UNCHANGED recv_next
    /\ OpeningUnchanged
    /\ UNCHANGED <<send_next, dropped>>

-----------------------------------------------------------------------------
(* TTPConnection.accept() *)

\* A SYN is answered with a SYN-ACK.
TakeSyn ==
    /\ At(Server, "app", "accept")
    /\ \E pk \in network[Server] :
         /\ "SYN" \in pk.flags
         /\ recv_next' = [recv_next EXCEPT ![Server] = End(pk)]
         /\ LET syn_ack == [BuildPacket(Server, {"SYN", "ACK"}, NoPayload) EXCEPT !.ack = End(pk)]
            IN  /\ send_next' = [send_next EXCEPT ![Server] = @ + SequenceSpace(syn_ack)]
                /\ network' = [network EXCEPT ![Server] = @ \ {pk}, ![Client] = @ \cup {syn_ack}]
    /\ GoTo(Server, "app", "last_ack")
    /\ OpeningUnchanged
    /\ UNCHANGED dropped

\* MUTANT: accept() expects the ACK of the byte after its SYN.
TakeLastAckOffByOne ==
    /\ At(Server, "app", "last_ack")
    /\ \E pk \in network[Server] :
         /\ "ACK" \in pk.flags
         /\ network' = [network EXCEPT ![Server] = @ \ {pk}]
         /\ IF pk.ack = send_next[Server] + 1 THEN Established(Server)
                                              ELSE GoTo(Server, "app", "failed")
    /\ OpeningUnchanged
    /\ UNCHANGED <<send_next, recv_next, dropped>>

\* The last ACK opens the connection, or makes accept() raise.
TakeLastAck ==
    /\ At(Server, "app", "last_ack")
    /\ \E pk \in network[Server] :
         /\ "ACK" \in pk.flags
         /\ network' = [network EXCEPT ![Server] = @ \ {pk}]
         /\ IF pk.ack = send_next[Server] THEN Established(Server)
                                          ELSE GoTo(Server, "app", "failed")
    /\ OpeningUnchanged
    /\ UNCHANGED <<send_next, recv_next, dropped>>

\* What overtakes the last ACK has not its flag: _wait_for_packet() reads it and
\* goes on waiting.
DropOvertaking ==
    /\ At(Server, "app", "last_ack")
    /\ \E pk \in network[Server] :
         /\ "ACK" \notin pk.flags
         /\ network' = [network EXCEPT ![Server] = @ \ {pk}]
         /\ dropped' = dropped \cup {pk}
    /\ OpeningUnchanged
    /\ UNCHANGED <<send_next, recv_next, pc>>

-----------------------------------------------------------------------------

Handshake == TakeSynAck \/ TakeSyn \/ TakeLastAck \/ DropOvertaking

Transferring(A) == A /\ UNCHANGED dropped

OpeningNext ==
    \/ Connect
    \/ Handshake
    \/ \E p \in Peer :
         Transferring(\/ BuildChunk(p) \/ Recv(p) \/ WaitForAcks(p) \/ App(p)
                      \/ ReceiveLoop(p) \/ TimerExpires(p) \/ Lose(p))

OpeningSpec == OpeningInit /\ [][OpeningNext]_openingVars

(***************************************************************************)
(* Both sides read what arrives, their threads run and time passes.        *)
(* Whether connect() is called is the application's decision.              *)
(***************************************************************************)
OpeningFairness ==
    /\ WF_openingVars(Handshake)
    /\ \A p \in Peer :
         /\ WF_openingVars(Transferring(App(p)))
         /\ WF_openingVars(Transferring(ReceiveLoop(p)))
         /\ WF_openingVars(Transferring(TimerExpires(p)))

FairOpeningSpec == OpeningSpec /\ OpeningFairness

-----------------------------------------------------------------------------
(* Properties *)

\* The connection as a data transfer: while a side is opening, it has the numbers
\* and the threads TTPTransfer starts with; segments of the handshake, SYNs and
\* the ACK the server is waiting for, are not yet of the transfer; what the wait
\* for that ACK drops is lost.
TransferSendNext == [p \in Peer |-> IF Opening(p) THEN ISN[p] + 1 ELSE send_next[p]]

TransferRecvNext == [p \in Peer |-> IF Opening(p) THEN ISN[Other(p)] + 1 ELSE recv_next[p]]

IsOfTransfer(p, pk) == "SYN" \notin pk.flags /\ ("ACK" \in pk.flags => ~Opening(p))

TransferNetwork == [p \in Peer |-> {pk \in network[p] : IsOfTransfer(p, pk)}]

TransferPc ==
    [p \in Peer |-> IF Opening(p) THEN [t \in Thread |-> IF t = "app" THEN "idle" ELSE "wait"]
                                  ELSE pc[p]]

\* The instance comes with the theorems about the transfer, so that they can be cited
\* of this connection.
Transfer == INSTANCE TTPTransferWindowProofs WITH
    send_next <- TransferSendNext, recv_next <- TransferRecvNext,
    network <- TransferNetwork, pc <- TransferPc, CanLose <- TRUE

\* The connection, opened by a handshake whose segments and whose data overtake
\* each other, is a data transfer between established peers.
ImplementsTransfer == Transfer!Spec

\* Once the SYN is sent and the network loses nothing, connect() and accept() both
\* return, although neither repeats a segment.
BothOpen ==
    At(Client, "app", "syn_ack") ~> ~Opening(Client) /\ ~Opening(Server)

\* The segments of p that have not been delivered, and of which neither they nor one
\* before them overtook the last ACK of the handshake.
Outstanding(p) ==
    {n \in 1..Len(sent[p]) : /\ n > Len(Delivered(Other(p)))
                             /\ \A k \in 1..n : sent[p][k] \notin dropped}

\* Both receive loops run: an exception has ended neither (ReceiverSurvives).
ReceiversLive == \A p \in Peer : ~At(p, "receiver", "dead")

\* On a network that loses nothing, and as long as both receive loops run, nothing
\* stays outstanding for ever: what did not fit into the window when send() returned
\* is sent by the flush that follows the ACK that makes room for it.
DeliveredUnlessDropped == \A p \in Peer : []<>(Outstanding(p) = {} \/ ~ReceiversLive)

\* Segment n of p, which has taken it from the queue and not seen it acknowledged.
IsPending(p, n) ==
    n <= Len(sent[p]) /\ \E entry \in pending[p] : entry.packet = sent[p][n]

\* Segment n of p is the next to be retransmitted.
DueNext(p, n) ==
    RetransmissionDue(p) /\ IsPending(p, n) /\ \A k \in 1..n - 1 : ~IsPending(p, k)

\* The retransmission check runs after each segment read, whatever it is: a receiver
\* that waits with a retransmission due, while a segment arrives, sends the oldest
\* pending segment again before that segment stops the timer, or removes it.
HeardIsServed ==
    \A p \in Peer : \A n \in 1..MaxChunks[p] :
        At(p, "receiver", "wait") /\ network[p] # {} /\ DueNext(p, n) ~>
            \/ IsPending(p, n) => sent[p][n] \in network[Other(p)]
            \/ At(p, "receiver", "dead")

\* A drop is repaired as soon as the peer is heard: when the retransmission is due
\* and a segment of the server is on its way, the stream goes on from its start.
DropIsRepaired ==
    dropped # {} /\ RetransmissionDue(Client) /\ network[Client] # {} ~>
        Delivered(Server) # << >> \/ At(Client, "receiver", "dead")
=============================================================================
