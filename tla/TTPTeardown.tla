---------------------------- MODULE TTPTeardown ----------------------------
(***************************************************************************)
(* The whole life of two established TTPConnections: the data transfer of  *)
(* TTPTransfer and the end of the connection (close(), _process_fin(), and *)
(* what the receive loop and recv() do with the state).  Both sides may    *)
(* close, at any time.                                                     *)
(*                                                                         *)
(* The application and the receiver share `state` and `sequence` without a *)
(* lock, and here both number segments.  _build_packet() reads SND.NXT and *)
(* advances it in two statements, which are two steps of either thread:    *)
(* each can build a segment with the same number in between.  The other    *)
(* actions of the data transfer are taken as they are.                     *)
(***************************************************************************)
EXTENDS TTPTransfer

CONSTANTS
    OwnsSocket,  \* owns_socket of each peer: a listener lends its socket
    MayClose     \* bound: the peers whose application calls close()

ASSUME TeardownAssumption == OwnsSocket \in [Peer -> BOOLEAN] /\ MayClose \subseteq Peer

VARIABLES
    state,               \* TTPState
    fin_packet,          \* the FIN close() sent
    fin_retransmission,  \* RetransmissionManager of that FIN
    fin_ack_received, fin_received,  \* threading.Events
    socket_open

transferVars == vars
finVars == <<fin_packet, fin_retransmission, fin_ack_received, fin_received>>
teardownVars == <<state, finVars, socket_open>>
allVars == <<transferVars, teardownVars>>

TTPState == {"ESTABLISHED", "FIN_WAIT", "CLOSED"}

CloseLabel == {"closing", "send_fin", "fin_built", "transmit_fin", "wait_fin_ack", "wait_fin"}

FinLabel == {"fin", "fin_ack_built", "signal", "established", "fin_reply",
             "fin_reply_built", "fin_wait"}

\* Threads of a connection that is over: close() or recv() has returned or
\* raised, the receive loop has ended.
TeardownAppLabel ==
    AppLabel \cup CloseLabel \cup {"chunk_built", "receiving", "refused", "closed"}
TeardownReceiverLabel == ReceiverLabel \cup FinLabel \cup {"reading", "ended"}

connected(p) == state[p] \in {"ESTABLISHED", "FIN_WAIT"}

TeardownInit ==
    /\ Init
    /\ state = [p \in Peer |-> "ESTABLISHED"]
    /\ fin_packet = [p \in Peer |-> NoPacket]
    /\ fin_retransmission = [p \in Peer |-> Fresh]
    /\ fin_ack_received = [p \in Peer |-> FALSE]
    /\ fin_received = [p \in Peer |-> FALSE]
    /\ socket_open = [p \in Peer |-> TRUE]

-----------------------------------------------------------------------------
(* _build_packet(), run by both threads *)

\* A segment is built with the current SND.NXT and RCV.NXT.
BuildSegment(p, t, flags, payload, to) ==
    /\ packet' = [packet EXCEPT ![p][t] = BuildPacket(p, flags, payload)]
    /\ GoTo(p, t, to)
    /\ UNCHANGED <<sequenceVars, windowVars, retransmission, receiveVars, network,
                   current, historyVars, teardownVars>>

\* SND.NXT is advanced by what the segment consumes, whatever it is by now, and the
\* segment leaves _build_packet().
AdvanceSend(p, t) ==
    /\ send_next' = [send_next EXCEPT ![p] = @ + SequenceSpace(packet[p][t])]
    /\ packet' = [packet EXCEPT ![p][t] = NoPacket]

-----------------------------------------------------------------------------
(* The application: send(), recv() and wait_for_acks() *)

\* One turn of the loop of send(), which is entered only when established.
BuildData(p) ==
    /\ At(p, "app", "building") \/ (At(p, "app", "idle") /\ state[p] = "ESTABLISHED")
    /\ Len(sent[p]) < MaxChunks[p]
    /\ \E chunk \in Chunk : BuildSegment(p, "app", {"DATA"}, chunk, "chunk_built")

\* The segment has its number, and is enqueued.
EnqueueData(p) ==
    /\ At(p, "app", "chunk_built")
    /\ AdvanceSend(p, "app")
    /\ queue' = [queue EXCEPT ![p] = Append(@, packet[p]["app"])]
    /\ sent' = [sent EXCEPT ![p] = Append(@, packet[p]["app"])]
    /\ GoTo(p, "app", "building")
    /\ UNCHANGED <<send_unacked, recv_next, pending, inserted, retransmission, receiveVars,
                   network, current, received, teardownVars>>

\* The flush of send(), and wait_for_acks(), as in the data transfer.
AppTransfers(p) == (WaitForAcks(p) \/ App(p)) /\ UNCHANGED teardownVars

\* recv() raises unless the connection is established, then waits for data.
RecvCall(p) ==
    /\ At(p, "app", "idle")
    /\ GoTo(p, "app", IF state[p] = "ESTABLISHED" THEN "receiving" ELSE "refused")
    /\ UNCHANGED <<sequenceVars, windowVars, retransmission, receiveVars, network,
                   packet, current, historyVars, teardownVars>>

RecvReturns(p) ==
    /\ At(p, "app", "receiving")
    /\ buffer[p] # << >>
    /\ buffer' = [buffer EXCEPT ![p] = Tail(@)]
    /\ received' = [received EXCEPT ![p] = Append(@, Head(buffer[p]))]
    /\ GoTo(p, "app", "idle")
    /\ UNCHANGED <<sequenceVars, windowVars, retransmission, out_of_order, network,
                   packet, current, sent, teardownVars>>

-----------------------------------------------------------------------------
(* The application: close() *)

\* MUTANT: the sockets stay open.
ReleaseSocketForgets(p) == UNCHANGED socket_open

\* if self.owns_socket: self.socket.close()
ReleaseSocket(p) == socket_open' = [socket_open EXCEPT ![p] = @ /\ ~OwnsSocket[p]]

\* close() looks at the state.  When the receiver has already answered the other
\* side's FIN, it releases the socket at once; when established it goes on.
CloseCall(p) ==
    /\ p \in MayClose
    /\ pc[p]["app"] \in {"idle", "confirmed", "gave_up", "refused", "raised"}
    /\ \/ /\ state[p] = "ESTABLISHED"
          /\ GoTo(p, "app", "closing")
          /\ UNCHANGED <<state, socket_open>>
       \/ /\ state[p] # "ESTABLISHED"
          /\ ReleaseSocket(p)
          /\ state' = [state EXCEPT ![p] = "CLOSED"]
          /\ GoTo(p, "app", "closed")
    /\ UNCHANGED <<sequenceVars, windowVars, retransmission, receiveVars, network,
                   packet, current, historyVars, finVars>>

\* self.state = TTPState.FIN_WAIT
StartClosing(p) ==
    /\ At(p, "app", "closing")
    /\ state' = [state EXCEPT ![p] = "FIN_WAIT"]
    /\ GoTo(p, "app", "send_fin")
    /\ UNCHANGED <<sequenceVars, windowVars, retransmission, receiveVars, network,
                   packet, current, historyVars, finVars, socket_open>>

\* MUTANT: the FIN carries an ACK, as TCP's does.
BuildFinWithAck(p) ==
    At(p, "app", "send_fin") /\ BuildSegment(p, "app", {"FIN", "ACK"}, NoPayload, "fin_built")

\* _send_fin() builds the FIN,
BuildFin(p) ==
    At(p, "app", "send_fin") /\ BuildSegment(p, "app", {"FIN"}, NoPayload, "fin_built")

\* and keeps it for retransmission.
KeepFin(p) ==
    /\ At(p, "app", "fin_built")
    /\ AdvanceSend(p, "app")
    /\ fin_packet' = [fin_packet EXCEPT ![p] = packet[p]["app"]]
    /\ GoTo(p, "app", "transmit_fin")
    /\ UNCHANGED <<send_unacked, recv_next, windowVars, retransmission, receiveVars, network,
                   current, historyVars, state, fin_retransmission, fin_ack_received,
                   fin_received, socket_open>>

\* The rest of _send_fin().  A FIN that cannot be encoded raises out of close().
TransmitFin(p) ==
    /\ At(p, "app", "transmit_fin")
    /\ \/ /\ Encodable(fin_packet[p])
          /\ Transmit(p, fin_packet[p])
          /\ fin_retransmission' = [fin_retransmission EXCEPT ![p] = Start(@)]
          /\ GoTo(p, "app", "wait_fin_ack")
       \/ /\ ~Encodable(fin_packet[p])
          /\ GoTo(p, "app", "raised")
          /\ UNCHANGED <<network, fin_retransmission>>
    /\ UNCHANGED <<sequenceVars, windowVars, retransmission, receiveVars,
                   packet, current, historyVars, state, fin_packet,
                   fin_ack_received, fin_received, socket_open>>

\* MUTANT: waits for the event without counting the retransmissions.
WaitFinAckForever(p) ==
    /\ At(p, "app", "wait_fin_ack")
    /\ \/ /\ fin_ack_received[p]
          /\ GoTo(p, "app", "wait_fin")
          /\ UNCHANGED network
       \/ /\ ~fin_ack_received[p]
          /\ Transmit(p, fin_packet[p])
          /\ UNCHANGED pc
    /\ UNCHANGED <<sequenceVars, windowVars, retransmission, receiveVars,
                   packet, current, historyVars, state, finVars, socket_open>>

\* One turn of _wait_fin_ack(): the event is set, or the wait times out, and then
\* the FIN is sent again until the retries are exhausted.
WaitFinAck(p) ==
    /\ At(p, "app", "wait_fin_ack")
    /\ \/ /\ fin_ack_received[p]
          /\ fin_retransmission' = [fin_retransmission EXCEPT ![p] = Stop(@)]
          /\ GoTo(p, "app", "wait_fin")
          /\ UNCHANGED <<network, state, socket_open>>
       \/ /\ ~fin_ack_received[p]
          /\ Exhausted(fin_retransmission[p])
          /\ ReleaseSocket(p)
          /\ state' = [state EXCEPT ![p] = "CLOSED"]
          /\ GoTo(p, "app", "closed")
          /\ UNCHANGED <<network, fin_retransmission>>
       \/ /\ ~fin_ack_received[p]
          /\ ~Exhausted(fin_retransmission[p])
          /\ Transmit(p, fin_packet[p])
          /\ fin_retransmission' = [fin_retransmission EXCEPT ![p] = Restart(@)]
          /\ UNCHANGED <<pc, state, socket_open>>
    /\ UNCHANGED <<sequenceVars, windowVars, retransmission, receiveVars,
                   packet, current, historyVars, fin_packet, fin_ack_received, fin_received>>

\* close() waits for the other side's FIN, for five seconds at most, and releases
\* everything.
WaitFin(p) ==
    /\ At(p, "app", "wait_fin")
    /\ buffer' = [buffer EXCEPT ![p] = << >>]
    /\ ReleaseSocket(p)
    /\ state' = [state EXCEPT ![p] = "CLOSED"]
    /\ GoTo(p, "app", "closed")
    /\ UNCHANGED <<sequenceVars, windowVars, retransmission, out_of_order, network,
                   packet, current, historyVars, finVars>>

Close(p) ==
    \/ StartClosing(p)
    \/ BuildFin(p)
    \/ KeepFin(p)
    \/ TransmitFin(p)
    \/ WaitFinAck(p)
    \/ WaitFin(p)

-----------------------------------------------------------------------------
(* The receive loop *)

\* while self.connected: the receiver goes back to recvfrom(), or ends.
EnterLoop(p) ==
    /\ At(p, "receiver", "wait")
    /\ GoTo(p, "receiver", IF connected(p) THEN "reading" ELSE "ended")
    /\ UNCHANGED <<sequenceVars, windowVars, retransmission, receiveVars, network,
                   packet, current, historyVars, teardownVars>>

\* _wait_for_packet() returns a segment.
ReadPacket(p) ==
    /\ At(p, "receiver", "reading")
    /\ socket_open[p]
    /\ \E pk \in network[p], keep \in {FALSE, CanDuplicate} :
         /\ current' = [current EXCEPT ![p] = pk]
         /\ network' = IF keep THEN network ELSE [network EXCEPT ![p] = @ \ {pk}]
    /\ GoTo(p, "receiver", "check")
    /\ UNCHANGED <<sequenceVars, windowVars, retransmission, receiveVars,
                   packet, historyVars, teardownVars>>

\* The statements of the receiver that use the socket, which raise OSError once
\* the application has closed it: the loop ends.  Those of _process_fin() are below.
UsesSocket(p) ==
    \/ pc[p]["receiver"] \in {"reading", "transmit", "reply"}
    \/ At(p, "receiver", "check") /\ retransmission[p].timer = "expired" /\ pending[p] # {}
         /\ ~Exhausted(retransmission[p])

SocketClosed(p) ==
    /\ ~socket_open[p]
    /\ UsesSocket(p)
    /\ GoTo(p, "receiver", "ended")
    /\ UNCHANGED <<sequenceVars, windowVars, retransmission, receiveVars, network,
                   packet, current, historyVars, teardownVars>>

\* The handling of ACK and DATA segments as in the data transfer.
ReceiverTransfers(p) ==
    /\ socket_open[p] \/ ~UsesSocket(p)
    /\ \/ CheckRetransmission(p)
       \/ ProcessAck(p) /\ state[p] # "FIN_WAIT"
       \/ FlushWindow(p, "receiver")
       \/ StopTimer(p)
       \/ LogWindow(p)
       \/ ProcessData(p) /\ "DATA" \in current[p].flags
       \/ FlushOutOfOrder(p)
       \/ Reply(p)
    /\ UNCHANGED teardownVars

\* In FIN_WAIT, any segment with the ACK flag confirms the FIN.
FinAcknowledged(p) ==
    /\ At(p, "receiver", "ack")
    /\ state[p] = "FIN_WAIT"
    /\ current' = [current EXCEPT ![p] = NoPacket]
    /\ fin_retransmission' = [fin_retransmission EXCEPT ![p] = Stop(@)]
    /\ fin_ack_received' = [fin_ack_received EXCEPT ![p] = TRUE]
    /\ GoTo(p, "receiver", "wait")
    /\ UNCHANGED <<sequenceVars, windowVars, retransmission, receiveVars, network,
                   packet, historyVars, state, fin_packet, fin_received, socket_open>>

\* MUTANT: counts a FIN that was received before once more.
ProcessFinAgain(p) ==
    /\ At(p, "receiver", "data")
    /\ "FIN" \in current[p].flags
    /\ recv_next' = [recv_next EXCEPT ![p] = @ + SequenceSpace(current[p])]
    /\ current' = [current EXCEPT ![p] = NoPacket]
    /\ GoTo(p, "receiver", "fin")
    /\ UNCHANGED <<send_unacked, send_next, windowVars, retransmission, receiveVars, network,
                   packet, historyVars, teardownVars>>

\* _process_fin(): sequence.receive(), which counts the FIN if it is expected.
ProcessFin(p) ==
    /\ At(p, "receiver", "data")
    /\ "FIN" \in current[p].flags
    /\ recv_next' = [recv_next EXCEPT ![p] =
         IF ReceiveStatus(@, current[p].seq) = "EXPECTED"
         THEN @ + SequenceSpace(current[p]) ELSE @]
    /\ current' = [current EXCEPT ![p] = NoPacket]
    /\ GoTo(p, "receiver", "fin")
    /\ UNCHANGED <<send_unacked, send_next, windowVars, retransmission, receiveVars, network,
                   packet, historyVars, teardownVars>>

\* A FIN-ACK, then perhaps a FIN.
BuildFinAck(p) ==
    At(p, "receiver", "fin")
        /\ BuildSegment(p, "receiver", {"FIN", "ACK"}, NoPayload, "fin_ack_built")

BuildFinReply(p) ==
    At(p, "receiver", "fin_reply")
        /\ BuildSegment(p, "receiver", {"FIN"}, NoPayload, "fin_reply_built")

\* The segment has its number and is transmitted, if it can be encoded and the
\* application has not closed the socket.
SendFromReceiver(p, from, to) ==
    /\ At(p, "receiver", from)
    /\ AdvanceSend(p, "receiver")
    /\ \/ /\ Encodable(packet[p]["receiver"])
          /\ socket_open[p]
          /\ Transmit(p, packet[p]["receiver"])
          /\ GoTo(p, "receiver", to)
       \/ /\ Encodable(packet[p]["receiver"])
          /\ ~socket_open[p]
          /\ GoTo(p, "receiver", "ended")
          /\ UNCHANGED network
       \/ /\ ~Encodable(packet[p]["receiver"])
          /\ GoTo(p, "receiver", "dead")
          /\ UNCHANGED network
    /\ UNCHANGED <<send_unacked, recv_next, windowVars, retransmission, receiveVars,
                   current, historyVars, teardownVars>>

SendFinAck(p) == SendFromReceiver(p, "fin_ack_built", "signal")

SendFinReply(p) == SendFromReceiver(p, "fin_reply_built", "fin_wait")

\* self.fin_received.set()
SignalFin(p) ==
    /\ At(p, "receiver", "signal")
    /\ fin_received' = [fin_received EXCEPT ![p] = TRUE]
    /\ GoTo(p, "receiver", "established")
    /\ UNCHANGED <<sequenceVars, windowVars, retransmission, receiveVars, network,
                   packet, current, historyVars, state, fin_packet, fin_retransmission,
                   fin_ack_received, socket_open>>

\* MUTANT: answers with a FIN of its own whatever the state.
CheckEstablishedAlways(p) ==
    /\ At(p, "receiver", "established")
    /\ GoTo(p, "receiver", "fin_reply")
    /\ UNCHANGED <<sequenceVars, windowVars, retransmission, receiveVars, network,
                   packet, current, historyVars, teardownVars>>

\* if self.state == TTPState.ESTABLISHED
CheckEstablished(p) ==
    /\ At(p, "receiver", "established")
    /\ GoTo(p, "receiver", IF state[p] = "ESTABLISHED" THEN "fin_reply" ELSE "wait")
    /\ UNCHANGED <<sequenceVars, windowVars, retransmission, receiveVars, network,
                   packet, current, historyVars, teardownVars>>

\* self.state = TTPState.FIN_WAIT, the last statement of _process_fin().
PassiveFinWait(p) ==
    /\ At(p, "receiver", "fin_wait")
    /\ state' = [state EXCEPT ![p] = "FIN_WAIT"]
    /\ GoTo(p, "receiver", "wait")
    /\ UNCHANGED <<sequenceVars, windowVars, retransmission, receiveVars, network,
                   packet, current, historyVars, finVars, socket_open>>

TeardownReceiveLoop(p) ==
    \/ EnterLoop(p)
    \/ ReadPacket(p)
    \/ SocketClosed(p)
    \/ ReceiverTransfers(p)
    \/ FinAcknowledged(p)
    \/ ProcessFin(p)
    \/ BuildFinAck(p)
    \/ SendFinAck(p)
    \/ SignalFin(p)
    \/ CheckEstablished(p)
    \/ BuildFinReply(p)
    \/ SendFinReply(p)
    \/ PassiveFinWait(p)

-----------------------------------------------------------------------------

\* The listener that lent its socket closes it after the connection is over.
CloseListener(p) ==
    /\ ~OwnsSocket[p]
    /\ At(p, "app", "closed")
    /\ socket_open[p]
    /\ socket_open' = [socket_open EXCEPT ![p] = FALSE]
    /\ UNCHANGED <<transferVars, state, finVars>>

Environment(p) == (TimerExpires(p) \/ Lose(p)) /\ UNCHANGED teardownVars

TeardownNext ==
    \E p \in Peer :
        \/ BuildData(p)
        \/ EnqueueData(p)
        \/ AppTransfers(p)
        \/ RecvCall(p)
        \/ RecvReturns(p)
        \/ CloseCall(p)
        \/ Close(p)
        \/ TeardownReceiveLoop(p)
        \/ CloseListener(p)
        \/ Environment(p)

TeardownSpec == TeardownInit /\ [][TeardownNext]_allVars

(***************************************************************************)
(* Both threads run and time passes.  Nobody is obliged to call close().   *)
(***************************************************************************)
TeardownFairness ==
    \A p \in Peer :
        /\ WF_allVars(EnqueueData(p) \/ (App(p) /\ UNCHANGED teardownVars))
        /\ WF_allVars(Close(p))
        /\ WF_allVars(TeardownReceiveLoop(p))
        /\ WF_allVars(TimerExpires(p) /\ UNCHANGED teardownVars)

FairTeardownSpec == TeardownSpec /\ TeardownFairness

-----------------------------------------------------------------------------
(* Properties *)

\* The labels and the variables of the teardown; a FIN is retransmitted at most
\* MaxRetries times, and a thread advances SND.NXT only for a segment it has built.
TeardownTypeOK ==
    /\ \A p \in Peer :
         /\ pc[p]["app"] \in TeardownAppLabel
         /\ pc[p]["receiver"] \in TeardownReceiverLabel
         /\ pc[p]["receiver"] \in {"fin_ack_built", "fin_reply_built"} =>
              "FIN" \in packet[p]["receiver"].flags
         /\ At(p, "app", "fin_built") => "FIN" \in packet[p]["app"].flags
         /\ At(p, "app", "chunk_built") => "DATA" \in packet[p]["app"].flags
         /\ fin_retransmission[p].retries <= MaxRetries
    /\ state \in [Peer -> TTPState]
    /\ fin_packet \in [Peer -> TTPPacket]
    /\ fin_retransmission \in [Peer -> RetransmissionManager]
    /\ fin_ack_received \in [Peer -> BOOLEAN]
    /\ fin_received \in [Peer -> BOOLEAN]
    /\ socket_open \in [Peer -> BOOLEAN]

\* The segments p has built, as if all of them were pending at once.
BuiltEntries(p) == {[packet |-> sent[p][i], position |-> i] : i \in DOMAIN sent[p]}

\* Sequence numbers p has given to FIN segments: all but those of its data.
FinNumbers(p) == send_next[p] - ISN[p] - 1 - BytesInFlight(BuiltEntries(p))

\* FINs do not answer each other for ever.  A peer numbers at most its own two FINs
\* (the one of close() and the one of _process_fin(), which a race may make it send
\* both) and one FIN-ACK for each FIN it is sent: the other side's two and the
\* retransmissions of the one of close().
FinsAreBounded == \A p \in Peer : FinNumbers(p) <= 2 + (2 + MaxRetries)

\* Of a connection that carried no data of p, the only segments with the ACK flag
\* that reach p answer its FINs: when close() goes on to wait for the other side's
\* FIN, the other side has p's.
FinConfirmedWithoutData ==
    \A p \in Peer : At(p, "app", "wait_fin") /\ sent[p] = << >> =>
        fin_received[Other(p)] \/ At(Other(p), "receiver", "signal")

\* close() returns, whatever the other side does and the network loses.
CloseReturns == \A p \in Peer : At(p, "app", "closing") ~> pc[p]["app"] \in {"closed", "raised"}

\* When close() has returned on a connection that owns its socket, its receiver
\* ends, wherever it was, although recvfrom() swallows timeouts and does not look
\* at the state.
OwnerReceiverEnds ==
    \A p \in Peer : OwnsSocket[p] =>
        (At(p, "app", "closed") ~> pc[p]["receiver"] \in {"ended", "dead"})

-----------------------------------------------------------------------------
(* What the comments of the code claim, and the code does not do. *)

\* The comment of recv(): it pops the next chunk that the receiver has already
\* accepted.  A call made while there is one is not refused.
RecvGetsAccepted ==
    [][\A p \in Peer : RecvCall(p) /\ buffer[p] # << >> => At(p, "app", "receiving")']_allVars

\* The comment of close(): it waits for confirmation on both sides.  When it goes
\* on to wait for the other side's FIN, its own has reached the other side.
FinAckConfirmsFin ==
    \A p \in Peer : At(p, "app", "wait_fin") =>
        fin_received[Other(p)] \/ At(Other(p), "receiver", "signal")
=============================================================================
