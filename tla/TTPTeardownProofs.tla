------------------------- MODULE TTPTeardownProofs -------------------------
(***************************************************************************)
(* Theorems about TTPTeardown for every instance of its constants: type    *)
(* correctness; that what a segment says of its sender stays true until it *)
(* is read, from which the sequence numbers are ordered and an ACK means   *)
(* what it should; and, when the network duplicates nothing, that the      *)
(* peers give only so many numbers to FINs.                                *)
(***************************************************************************)
EXTENDS TTPTeardownInvariant, TTPTransferWindowProofs

-----------------------------------------------------------------------------
(* Type correctness *)

LEMMA TeardownLabels ==
    /\ AppLabel \subseteq TeardownAppLabel
    /\ ReceiverLabel \subseteq TeardownReceiverLabel
    /\ {"chunk_built", "receiving", "refused", "closed", "closing", "send_fin", "fin_built",
        "transmit_fin", "wait_fin_ack", "wait_fin"} \subseteq TeardownAppLabel
    /\ {"fin", "fin_ack_built", "signal", "established", "fin_reply", "fin_reply_built",
        "fin_wait", "reading", "ended"} \subseteq TeardownReceiverLabel
BY DEF TeardownAppLabel, TeardownReceiverLabel, CloseLabel, FinLabel

\* Moving one thread to a statement of its own leaves every thread at one, and
\* the others where they were.
LEMMA TeardownGoTo ==
    ASSUME TeardownPcOK, NEW p \in Peer, NEW t \in Thread, NEW label, GoTo(p, t, label)
    PROVE  /\ pc'[p][t] = label
           /\ \A q \in Peer, u \in Thread : q # p \/ u # t => pc'[q][u] = pc[q][u]
           /\ \/ t = "app" /\ label \in TeardownAppLabel
              \/ t = "receiver" /\ label \in TeardownReceiverLabel
              => TeardownPcOK'
<1>1. /\ pc'[p][t] = label
      /\ \A q \in Peer, u \in Thread : q # p \/ u # t => pc'[q][u] = pc[q][u]
  BY DEF TeardownPcOK, GoTo
<1>2. ASSUME \/ t = "app" /\ label \in TeardownAppLabel
             \/ t = "receiver" /\ label \in TeardownReceiverLabel
      PROVE  TeardownPcOK'
  <2>1. pc' \in [Peer -> [Thread -> TeardownAppLabel \cup TeardownReceiverLabel]]
    BY <1>2 DEF TeardownPcOK, GoTo
  <2>2. ASSUME NEW q \in Peer
        PROVE  pc'[q]["app"] \in TeardownAppLabel /\ pc'[q]["receiver"] \in TeardownReceiverLabel
    BY <1>1, <1>2 DEF TeardownPcOK, Thread
  <2> QED BY <2>1, <2>2 DEF TeardownPcOK
<1> QED BY <1>1, <1>2

\* The actions of the data transfer, but for those the end of the connection replaces.
Transfers(p) ==
    \/ StartFlush(p) \/ WaitForAcks(p) \/ WaitForAcksReturns(p)
    \/ \E t \in Thread : FlushWindow(p, t)
    \/ CheckRetransmission(p) \/ StopTimer(p) \/ LogWindow(p) \/ FlushOutOfOrder(p) \/ Reply(p)
    \/ ProcessAck(p) /\ state[p] # "FIN_WAIT"
    \/ ProcessData(p) /\ "DATA" \in current[p].flags
    \/ TimerExpires(p) \/ Lose(p)

\* The rest of the application, and of the receiver.
AppEnds(p) ==
    \/ BuildData(p) \/ EnqueueData(p) \/ RecvCall(p) \/ RecvReturns(p) \/ CloseCall(p)
    \/ StartClosing(p) \/ BuildFin(p) \/ KeepFin(p) \/ TransmitFin(p) \/ WaitFinAck(p)
    \/ WaitFin(p) \/ CloseListener(p)

ReceiverEnds(p) ==
    \/ EnterLoop(p) \/ ReadPacket(p) \/ SocketClosed(p) \/ FinAcknowledged(p) \/ ProcessFin(p)
    \/ BuildFinAck(p) \/ SendFinAck(p) \/ SignalFin(p) \/ CheckEstablished(p)
    \/ BuildFinReply(p) \/ SendFinReply(p) \/ PassiveFinWait(p)

\* A step of TTPTeardown is one of these.
LEMMA TeardownSteps ==
    ASSUME TeardownNext
    PROVE  \E p \in Peer :
             (Transfers(p) /\ UNCHANGED teardownVars) \/ AppEnds(p) \/ ReceiverEnds(p)
<1>1. PICK p \in Peer :
        \/ BuildData(p) \/ EnqueueData(p) \/ AppTransfers(p) \/ RecvCall(p) \/ RecvReturns(p)
        \/ CloseCall(p) \/ Close(p) \/ TeardownReceiveLoop(p) \/ CloseListener(p)
        \/ Environment(p)
  BY DEF TeardownNext
<1>2. "app" \in Thread /\ "receiver" \in Thread
  BY DEF Thread
<1>3. CASE AppTransfers(p)
  BY <1>2, <1>3, Zenon DEF AppTransfers, App, Transfers
<1>4. CASE TeardownReceiveLoop(p)
  BY <1>2, <1>4, Zenon DEF TeardownReceiveLoop, ReceiverTransfers, Transfers, ReceiverEnds
<1>5. CASE \/ BuildData(p) \/ EnqueueData(p) \/ RecvCall(p) \/ RecvReturns(p) \/ CloseCall(p)
           \/ Close(p) \/ CloseListener(p)
  BY <1>5, Zenon DEF Close, AppEnds
<1>6. CASE Environment(p)
  BY <1>6, Zenon DEF Environment, Transfers
<1> QED BY <1>1, <1>3, <1>4, <1>5, <1>6, Zenon

LEMMA TransferLabels ==
    ASSUME TeardownPcOK, NEW p \in Peer, Transfers(p)
    PROVE  TeardownPcOK'
<1> USE TeardownGoTo, TeardownLabels DEF Thread, AppLabel, ReceiverLabel, FlushLabel
<1>1. ASSUME NEW t \in Thread, FlushWindow(p, t)
      PROVE  TeardownPcOK'
  <2>1. CASE Peek(p, t) BY <2>1 DEF Peek, Flushed, Failed
  <2>2. CASE Admit(p, t) BY <2>2 DEF Admit, Flushed, Failed
  <2>3. CASE PopHead(p, t) BY <2>3 DEF PopHead, Failed
  <2>4. CASE InsertPending(p, t) BY <2>4 DEF InsertPending
  <2>5. CASE TransmitHead(p, t) BY <2>5 DEF TransmitHead, Failed
  <2>6. CASE CheckFirstPending(p, t) BY <2>6 DEF CheckFirstPending, Failed
  <2>7. CASE StartTimer(p, t) BY <2>7 DEF StartTimer
  <2> QED BY <1>1, <2>1, <2>2, <2>3, <2>4, <2>5, <2>6, <2>7 DEF FlushWindow
<1>2. CASE CheckRetransmission(p) BY <1>2 DEF CheckRetransmission, Dispatch
<1>3. CASE ProcessAck(p) BY <1>3 DEF ProcessAck
<1>4. CASE StopTimer(p) BY <1>4 DEF StopTimer
<1>5. CASE ProcessData(p) BY <1>5 DEF ProcessData
<1>6. CASE FlushOutOfOrder(p) BY <1>6 DEF FlushOutOfOrder, TeardownPcOK
<1>7. CASE Reply(p) BY <1>7 DEF Reply
<1>8. CASE LogWindow(p) BY <1>8 DEF LogWindow
<1>9. CASE StartFlush(p) BY <1>9 DEF StartFlush
<1>10. CASE WaitForAcks(p) BY <1>10 DEF WaitForAcks
<1>11. CASE WaitForAcksReturns(p) BY <1>11 DEF WaitForAcksReturns
<1>12. CASE TimerExpires(p) \/ Lose(p) BY <1>12 DEF TimerExpires, Lose, TeardownPcOK
<1> QED
  BY <1>1, <1>2, <1>3, <1>4, <1>5, <1>6, <1>7, <1>8, <1>9, <1>10, <1>11, <1>12, Zenon
  DEF Transfers

LEMMA EndLabels ==
    ASSUME TeardownPcOK, NEW p \in Peer, AppEnds(p) \/ ReceiverEnds(p)
    PROVE  TeardownPcOK'
<1> USE TeardownGoTo, TeardownLabels DEF Thread, AppLabel, ReceiverLabel
<1>1. CASE RecvCall(p) BY <1>1 DEF RecvCall
<1>2. CASE RecvReturns(p) BY <1>2 DEF RecvReturns
<1>3. CASE CloseCall(p) BY <1>3 DEF CloseCall
<1>4. CASE StartClosing(p) BY <1>4 DEF StartClosing
<1>5. CASE BuildFin(p) BY <1>5 DEF BuildFin, BuildSegment
<1>6. CASE TransmitFin(p) BY <1>6 DEF TransmitFin
<1>7. CASE WaitFinAck(p) BY <1>7 DEF WaitFinAck, TeardownPcOK
<1>8. CASE WaitFin(p) BY <1>8 DEF WaitFin
<1>9. CASE CloseListener(p) BY <1>9 DEF CloseListener, transferVars, vars, TeardownPcOK
<1>10. CASE EnterLoop(p) BY <1>10 DEF EnterLoop
<1>11. CASE ReadPacket(p) BY <1>11 DEF ReadPacket
<1>12. CASE SocketClosed(p) BY <1>12 DEF SocketClosed
<1>13. CASE FinAcknowledged(p) BY <1>13 DEF FinAcknowledged
<1>14. CASE ProcessFin(p) BY <1>14 DEF ProcessFin
<1>15. CASE BuildFinAck(p) BY <1>15 DEF BuildFinAck, BuildSegment
<1>16. CASE SendFinAck(p) BY <1>16 DEF SendFinAck, SendFromReceiver
<1>17. CASE SignalFin(p) BY <1>17 DEF SignalFin
<1>18. CASE CheckEstablished(p) BY <1>18 DEF CheckEstablished
<1>19. CASE BuildFinReply(p) BY <1>19 DEF BuildFinReply, BuildSegment
<1>20. CASE SendFinReply(p) BY <1>20 DEF SendFinReply, SendFromReceiver
<1>21. CASE PassiveFinWait(p) BY <1>21 DEF PassiveFinWait
<1>22. CASE BuildData(p) BY <1>22 DEF BuildData, BuildSegment
<1>23. CASE EnqueueData(p) BY <1>23 DEF EnqueueData
<1>24. CASE KeepFin(p) BY <1>24 DEF KeepFin
<1> QED
  BY <1>1, <1>2, <1>3, <1>4, <1>5, <1>6, <1>7, <1>8, <1>9, <1>10, <1>11, <1>12, <1>13,
     <1>14, <1>15, <1>16, <1>17, <1>18, <1>19, <1>20, <1>21, <1>22, <1>23, <1>24, Zenon
  DEF AppEnds, ReceiverEnds

LEMMA TransferData ==
    ASSUME DataTypeOK, NEW p \in Peer, Transfers(p)
    PROVE  DataTypeOK'
BY FlushWindowData, ReceiveData, AppData, Zenon DEF Transfers

\* A segment is built with the current numbers.
LEMMA BuiltSays ==
    ASSUME DataTypeOK, NEW p \in Peer, NEW flags \in SUBSET TTPFlags,
           NEW payload \in Chunk \cup {NoPayload}
    PROVE  LET pk == BuildPacket(p, flags, payload)
           IN  /\ pk \in TTPPacket
               /\ pk.flags = flags /\ pk.payload = payload
               /\ pk.seq = send_next[p] /\ pk.ack = recv_next[p]
BY DEF BuildPacket, TTPPacket, DataTypeOK

\* What each statement that has built a segment has built.
BuiltAs(label, pk) ==
    /\ label = "chunk_built" => pk.flags = {"DATA"}
    /\ label # "chunk_built" => pk.payload = NoPayload
    /\ label \in {"fin_built", "fin_reply_built"} => pk.flags = {"FIN"}
    /\ label = "fin_ack_built" => pk.flags = {"FIN", "ACK"}

\* A thread builds a segment.
Builds(p, t) ==
    \/ t = "app" /\ (BuildData(p) \/ BuildFin(p))
    \/ t = "receiver" /\ (BuildFinAck(p) \/ BuildFinReply(p))

LEMMA BuildEffect ==
    ASSUME DataTypeOK, TeardownPcOK, NEW p \in Peer, NEW t \in Thread, Builds(p, t)
    PROVE  /\ pc[p][t] \in {"idle", "building", "send_fin", "fin", "fin_reply"}
           /\ pc'[p][t] \in BuiltLabel
           /\ \E pk \in TTPPacket :
                /\ packet' = [packet EXCEPT ![p][t] = pk]
                /\ pk.seq = send_next[p] /\ pk.ack = recv_next[p]
                /\ BuiltAs(pc'[p][t], pk)
           /\ UNCHANGED <<send_next, recv_next>>
<1> DEFINE Built(flags, payload, to) ==
             /\ \E pk \in TTPPacket :
                  /\ packet' = [packet EXCEPT ![p][t] = pk]
                  /\ pk.flags = flags /\ pk.payload = payload
                  /\ pk.seq = send_next[p] /\ pk.ack = recv_next[p]
             /\ pc'[p][t] = to
             /\ UNCHANGED <<send_next, recv_next>>
<1>1. ASSUME NEW flags \in SUBSET TTPFlags, NEW payload \in Chunk \cup {NoPayload}, NEW to,
             BuildSegment(p, t, flags, payload, to)
      PROVE  Built(flags, payload, to)
  <2> DEFINE pk == BuildPacket(p, flags, payload)
  <2>1. /\ pk \in TTPPacket /\ pk.flags = flags /\ pk.payload = payload
        /\ pk.seq = send_next[p] /\ pk.ack = recv_next[p]
    BY BuiltSays
  <2>2. packet' = [packet EXCEPT ![p][t] = pk] /\ GoTo(p, t, to)
        /\ UNCHANGED <<send_next, recv_next>>
    BY <1>1 DEF BuildSegment, sequenceVars
  <2> HIDE DEF pk
  <2>3. pc'[p][t] = to
    BY <2>2, TeardownGoTo
  <2> QED BY <2>1, <2>2, <2>3
<1>2. {"DATA"} \in SUBSET TTPFlags /\ {"FIN"} \in SUBSET TTPFlags
      /\ {"FIN", "ACK"} \in SUBSET TTPFlags
  BY DEF TTPFlags
<1>3. CASE BuildData(p) /\ t = "app"
  <2>1. PICK chunk \in Chunk : BuildSegment(p, "app", {"DATA"}, chunk, "chunk_built")
    BY <1>3 DEF BuildData
  <2>2. pc[p][t] \in {"idle", "building"}
    BY <1>3 DEF BuildData, At
  <2>3. Built({"DATA"}, chunk, "chunk_built")
    BY <1>1, <1>2, <1>3, <2>1
  <2> QED BY <2>2, <2>3 DEF BuiltLabel, BuiltAs
<1>4. CASE BuildFin(p) /\ t = "app"
  <2>1. pc[p][t] = "send_fin" /\ BuildSegment(p, "app", {"FIN"}, NoPayload, "fin_built")
    BY <1>4 DEF BuildFin, At
  <2>2. Built({"FIN"}, NoPayload, "fin_built")
    BY <1>1, <1>2, <1>4, <2>1
  <2> QED BY <2>1, <2>2 DEF BuiltLabel, BuiltAs
<1>5. CASE BuildFinAck(p) /\ t = "receiver"
  <2>1. pc[p][t] = "fin"
        /\ BuildSegment(p, "receiver", {"FIN", "ACK"}, NoPayload, "fin_ack_built")
    BY <1>5 DEF BuildFinAck, At
  <2>2. Built({"FIN", "ACK"}, NoPayload, "fin_ack_built")
    BY <1>1, <1>2, <1>5, <2>1
  <2> QED BY <2>1, <2>2 DEF BuiltLabel, BuiltAs
<1>6. CASE BuildFinReply(p) /\ t = "receiver"
  <2>1. pc[p][t] = "fin_reply"
        /\ BuildSegment(p, "receiver", {"FIN"}, NoPayload, "fin_reply_built")
    BY <1>6 DEF BuildFinReply, At
  <2>2. Built({"FIN"}, NoPayload, "fin_reply_built")
    BY <1>1, <1>2, <1>6, <2>1
  <2> QED BY <2>1, <2>2 DEF BuiltLabel, BuiltAs
<1> QED BY <1>3, <1>4, <1>5, <1>6 DEF Builds

\* A thread counts the segment it has built.
Counts(p, t) ==
    \/ t = "app" /\ (EnqueueData(p) \/ KeepFin(p))
    \/ t = "receiver" /\ (SendFinAck(p) \/ SendFinReply(p))

LEMMA CountEffect ==
    ASSUME DataTypeOK, TeardownPcOK, NEW p \in Peer, NEW t \in Thread, Counts(p, t)
    PROVE  /\ pc[p][t] \in BuiltLabel
           /\ pc'[p][t] \in {"building", "transmit_fin", "signal", "fin_wait", "ended", "dead"}
           /\ packet[p][t] \in TTPPacket
           /\ packet' = [packet EXCEPT ![p][t] = NoPacket]
           /\ send_next' = [send_next EXCEPT ![p] = @ + SequenceSpace(packet[p][t])]
           /\ recv_next' = recv_next
<1>1. packet[p][t] \in TTPPacket
  BY DEF DataTypeOK
<1> USE TeardownGoTo DEF Counts, BuiltLabel, At, AdvanceSend
<1>2. CASE EnqueueData(p) /\ t = "app"
  BY <1>1, <1>2 DEF EnqueueData
<1>3. CASE KeepFin(p) /\ t = "app"
  BY <1>1, <1>3 DEF KeepFin
<1>4. CASE SendFinAck(p) /\ t = "receiver"
  BY <1>1, <1>4 DEF SendFinAck, SendFromReceiver
<1>5. CASE SendFinReply(p) /\ t = "receiver"
  BY <1>1, <1>5 DEF SendFinReply, SendFromReceiver
<1> QED BY <1>2, <1>3, <1>4, <1>5

\* It leaves numbers and segments.
LEMMA CountType ==
    ASSUME DataTypeOK, NEW p \in Peer, NEW t \in Thread, AdvanceSend(p, t)
    PROVE  packet' \in [Peer -> [Thread -> TTPPacket]] /\ send_next' \in [Peer -> Nat]
<1>1. packet[p][t] \in TTPPacket
  BY DEF DataTypeOK
<1>2. SequenceSpace(packet[p][t]) \in Nat
  BY <1>1, SequenceSpaceType
<1>3. packet' \in [Peer -> [Thread -> TTPPacket]]
  BY SetPacketType, NoPacketType DEF AdvanceSend, DataTypeOK
<1>4. send_next' \in [Peer -> Nat]
  BY <1>2 DEF AdvanceSend, DataTypeOK
<1> QED BY <1>3, <1>4

\* What the application ends with preserves the types of the data.
LEMMA AppEndsData ==
    ASSUME DataTypeOK, fin_packet \in [Peer -> TTPPacket], NEW p \in Peer, AppEnds(p)
    PROVE  DataTypeOK'
<1> USE DEF sequenceVars, windowVars, receiveVars, historyVars
<1>1. CASE RecvCall(p) BY <1>1 DEF RecvCall, DataTypeOK
<1>2. CASE RecvReturns(p)
  <2>1. Head(buffer[p]) \in Chunk \cup {NoPayload}
        /\ Tail(buffer[p]) \in Seq(Chunk \cup {NoPayload})
    BY <1>2 DEF RecvReturns, DataTypeOK
  <2>2. Append(received[p], Head(buffer[p])) \in Seq(Chunk \cup {NoPayload})
    BY <2>1 DEF DataTypeOK
  <2>3. buffer' \in [Peer -> Seq(Chunk \cup {NoPayload})]
        /\ received' \in [Peer -> Seq(Chunk \cup {NoPayload})]
    BY <1>2, <2>1, <2>2 DEF RecvReturns, DataTypeOK
  <2> QED BY <1>2, <2>3 DEF RecvReturns, DataTypeOK
<1>3. CASE CloseCall(p) BY <1>3 DEF CloseCall, DataTypeOK
<1>4. CASE StartClosing(p) BY <1>4 DEF StartClosing, DataTypeOK
<1>5. CASE BuildData(p) \/ BuildFin(p)
  <2>1. PICK flags \in SUBSET TTPFlags, payload \in Chunk \cup {NoPayload}, to \in BuiltLabel :
          BuildSegment(p, "app", flags, payload, to)
    BY <1>5 DEF BuildData, BuildFin, TTPFlags, BuiltLabel
  <2>2. packet' \in [Peer -> [Thread -> TTPPacket]]
    BY <2>1, BuiltSays, SetPacketType DEF BuildSegment, DataTypeOK, Thread
  <2> QED BY <2>1, <2>2 DEF BuildSegment, DataTypeOK
<1>10. CASE EnqueueData(p)
  <2>1. packet' \in [Peer -> [Thread -> TTPPacket]] /\ send_next' \in [Peer -> Nat]
    BY <1>10, CountType DEF EnqueueData, Thread
  <2>2. packet[p]["app"] \in TTPPacket
    BY DEF DataTypeOK, Thread
  <2>3. /\ Append(queue[p], packet[p]["app"]) \in Seq(TTPPacket)
        /\ Append(sent[p], packet[p]["app"]) \in Seq(TTPPacket)
    BY <2>2 DEF DataTypeOK
  <2>4. queue' \in [Peer -> Seq(TTPPacket)] /\ sent' \in [Peer -> Seq(TTPPacket)]
    BY <1>10, <2>3 DEF EnqueueData, DataTypeOK
  <2> QED BY <1>10, <2>1, <2>4 DEF EnqueueData, DataTypeOK
<1>11. CASE KeepFin(p)
  <2>1. packet' \in [Peer -> [Thread -> TTPPacket]] /\ send_next' \in [Peer -> Nat]
    BY <1>11, CountType DEF KeepFin, Thread
  <2> QED BY <1>11, <2>1 DEF KeepFin, DataTypeOK
<1>6. CASE TransmitFin(p)
  <2>1. network' \in [Peer -> SUBSET TTPPacket]
    BY <1>6, TransmitType DEF TransmitFin, DataTypeOK
  <2> QED BY <1>6, <2>1 DEF TransmitFin, DataTypeOK
<1>7. CASE WaitFinAck(p)
  <2>1. network' \in [Peer -> SUBSET TTPPacket]
    BY <1>7, TransmitType DEF WaitFinAck, DataTypeOK
  <2> QED BY <1>7, <2>1 DEF WaitFinAck, DataTypeOK
<1>8. CASE WaitFin(p)
  <2>1. buffer' \in [Peer -> Seq(Chunk \cup {NoPayload})]
    <3>1. << >> \in Seq(Chunk \cup {NoPayload})
      OBVIOUS
    <3>2. buffer \in [Peer -> Seq(Chunk \cup {NoPayload})]
          /\ buffer' = [buffer EXCEPT ![p] = << >>]
      BY <1>8 DEF WaitFin, DataTypeOK
    <3> QED BY <3>1, <3>2
  <2> QED BY <1>8, <2>1 DEF WaitFin, DataTypeOK
<1>9. CASE CloseListener(p) BY <1>9 DEF CloseListener, transferVars, vars, DataTypeOK
<1> QED
  BY <1>1, <1>2, <1>3, <1>4, <1>5, <1>6, <1>7, <1>8, <1>9, <1>10, <1>11, Zenon DEF AppEnds

\* What the receiver ends with preserves the types of the data.
LEMMA ReceiverEndsData ==
    ASSUME DataTypeOK, NEW p \in Peer, ReceiverEnds(p)
    PROVE  DataTypeOK'
<1> USE DEF sequenceVars, windowVars, receiveVars, historyVars
<1>1. [current EXCEPT ![p] = NoPacket] \in [Peer -> TTPPacket]
  BY NoPacketType DEF DataTypeOK
<1>2. ASSUME NEW pk \in TTPPacket
      PROVE  [packet EXCEPT ![p]["receiver"] = pk] \in [Peer -> [Thread -> TTPPacket]]
  BY SetPacketType DEF DataTypeOK, Thread
<1>3. CASE EnterLoop(p) BY <1>3 DEF EnterLoop, DataTypeOK
<1>4. CASE ReadPacket(p)
  <2>1. PICK pk \in network[p] :
           /\ current' = [current EXCEPT ![p] = pk]
           /\ network' = network \/ network' = [network EXCEPT ![p] = @ \ {pk}]
    BY <1>4 DEF ReadPacket
  <2>2. current' \in [Peer -> TTPPacket] /\ network' \in [Peer -> SUBSET TTPPacket]
    BY <2>1 DEF DataTypeOK
  <2> QED BY <1>4, <2>2 DEF ReadPacket, DataTypeOK
<1>5. CASE SocketClosed(p) BY <1>5 DEF SocketClosed, DataTypeOK
<1>6. CASE FinAcknowledged(p) BY <1>1, <1>6 DEF FinAcknowledged, DataTypeOK
<1>7. CASE ProcessFin(p)
  <2>1. SequenceSpace(current[p]) \in Nat
    BY SequenceSpaceType DEF DataTypeOK
  <2>2. recv_next' \in [Peer -> Nat]
    BY <1>7, <2>1 DEF ProcessFin, DataTypeOK
  <2> QED BY <1>1, <1>7, <2>2 DEF ProcessFin, DataTypeOK
<1>8. ASSUME NEW flags \in SUBSET TTPFlags, NEW to,
             BuildSegment(p, "receiver", flags, NoPayload, to)
      PROVE  DataTypeOK'
  <2>1. packet' \in [Peer -> [Thread -> TTPPacket]]
    BY <1>2, <1>8, BuiltSays DEF BuildSegment
  <2> QED BY <1>8, <2>1 DEF BuildSegment, DataTypeOK
<1>9. ASSUME NEW from, NEW to, SendFromReceiver(p, from, to)
      PROVE  DataTypeOK'
  <2>1. packet[p]["receiver"] \in TTPPacket
    BY DEF DataTypeOK, Thread
  <2>2. packet' \in [Peer -> [Thread -> TTPPacket]] /\ send_next' \in [Peer -> Nat]
    BY <1>9, CountType DEF SendFromReceiver, Thread
  <2>3. network' \in [Peer -> SUBSET TTPPacket]
    BY <1>9, <2>1, TransmitType DEF SendFromReceiver, DataTypeOK
  <2> QED BY <1>9, <2>2, <2>3 DEF SendFromReceiver, DataTypeOK
<1>10. CASE BuildFinAck(p) \/ BuildFinReply(p)
  BY <1>8, <1>10 DEF BuildFinAck, BuildFinReply, TTPFlags
<1>11. CASE SendFinAck(p) \/ SendFinReply(p)
  BY <1>9, <1>11 DEF SendFinAck, SendFinReply
<1>12. CASE SignalFin(p) BY <1>12 DEF SignalFin, DataTypeOK
<1>13. CASE CheckEstablished(p) BY <1>13 DEF CheckEstablished, DataTypeOK
<1>14. CASE PassiveFinWait(p) BY <1>14 DEF PassiveFinWait, DataTypeOK
<1> QED
  BY <1>3, <1>4, <1>5, <1>6, <1>7, <1>10, <1>11, <1>12, <1>13, <1>14, Zenon
  DEF ReceiverEnds

-----------------------------------------------------------------------------
(* How the threads move *)

\* A step of the data transfer moves a thread of its peer between the statements of
\* the data transfer, and only its own actions lead to those the invariants speak of.
LEMMA TransferMoves ==
    ASSUME TeardownPcOK, NEW b \in Peer, Transfers(b), NEW p \in Peer, NEW t \in Thread,
           pc'[p][t] # pc[p][t]
    PROVE  /\ p = b
           /\ pc[p][t] \in (AppLabel \cup ReceiverLabel) \ {"dead"}
           /\ pc'[p][t] \in AppLabel \cup ReceiverLabel
           /\ pc'[p][t] = "insert" => PopHead(p, t)
           /\ pc'[p][t] = "transmit" => InsertPending(p, t)
           /\ t = "receiver" =>
                /\ pc'[p]["receiver"] \in {"drain", "reply"} =>
                     \/ At(p, "receiver", "data") /\ "DATA" \in current[p].flags
                     \/ pc[p]["receiver"] = "drain"
                /\ pc'[p]["receiver"] \in {"ack", "data"} => CheckRetransmission(p)
                /\ pc'[p]["receiver"] = "ack" => "ACK" \in current[p].flags
                /\ pc'[p]["receiver"] = "data" => "ACK" \notin current[p].flags
<1>1. "app" \in Thread /\ "receiver" \in Thread /\ \A u \in Thread : u = "app" \/ u = "receiver"
  BY DEF Thread
<1> USE <1>1, TeardownGoTo DEF At, AppLabel, ReceiverLabel, FlushLabel
<1>2. ASSUME NEW u \in Thread, FlushWindow(b, u)
      PROVE  p = b /\ t = u
  BY <1>2 DEF FlushWindow, Peek, Admit, PopHead, InsertPending, TransmitHead, CheckFirstPending,
              StartTimer
<1>3. ASSUME NEW u \in Thread, FlushWindow(b, u)
      PROVE  /\ pc[p][t] \in FlushLabel
             /\ pc'[p][t] \in FlushLabel \cup {"idle", "raised", "stop", "dead"}
             /\ pc'[p][t] = "insert" => PopHead(p, t)
             /\ pc'[p][t] = "transmit" => InsertPending(p, t)
  <2>1. b = p /\ u = t
    BY <1>2, <1>3
  <2>2. CASE Peek(p, t) BY <2>2 DEF Peek, Flushed, Failed
  <2>3. CASE Admit(p, t) BY <2>3 DEF Admit, Flushed, Failed
  <2>4. CASE PopHead(p, t) BY <2>4 DEF PopHead, Failed
  <2>5. CASE InsertPending(p, t) BY <2>5 DEF InsertPending
  <2>6. CASE TransmitHead(p, t) BY <2>6 DEF TransmitHead, Failed
  <2>7. CASE CheckFirstPending(p, t) BY <2>7 DEF CheckFirstPending, Failed
  <2>8. CASE StartTimer(p, t) BY <2>8 DEF StartTimer
  <2> QED BY <1>3, <2>1, <2>2, <2>3, <2>4, <2>5, <2>6, <2>7, <2>8 DEF FlushWindow
<1>4. CASE CheckRetransmission(b) BY <1>4 DEF CheckRetransmission, Dispatch
<1>5. CASE ProcessAck(b) BY <1>5 DEF ProcessAck
<1>6. CASE StopTimer(b) BY <1>6 DEF StopTimer
<1>7. CASE ProcessData(b) /\ "DATA" \in current[b].flags
  BY <1>7 DEF ProcessData
<1>8. CASE FlushOutOfOrder(b) BY <1>8 DEF FlushOutOfOrder
<1>9. CASE Reply(b) BY <1>9 DEF Reply
<1>10. CASE LogWindow(b) BY <1>10 DEF LogWindow
<1>11. CASE StartFlush(b) BY <1>11 DEF StartFlush
<1>12. CASE WaitForAcks(b) BY <1>12 DEF WaitForAcks
<1>13. CASE WaitForAcksReturns(b) BY <1>13 DEF WaitForAcksReturns
<1>14. CASE TimerExpires(b) \/ Lose(b) BY <1>14 DEF TimerExpires, Lose
<1>15. CASE \E u \in Thread : FlushWindow(b, u)
  BY <1>2, <1>3, <1>15
<1> QED
  BY <1>4, <1>5, <1>6, <1>7, <1>8, <1>9, <1>10, <1>11, <1>12, <1>13, <1>14, <1>15
  DEF Transfers

\* What the application ends with moves that application only, and not to a
\* statement of _flush_window.
LEMMA AppMoves ==
    ASSUME TeardownPcOK, NEW b \in Peer, AppEnds(b), NEW p \in Peer, NEW t \in Thread,
           pc'[p][t] # pc[p][t]
    PROVE  /\ p = b /\ t = "app"
           /\ pc'[p]["app"] \in {"idle", "building", "raised"} \cup CloseLabel
                                  \cup {"chunk_built", "receiving", "refused", "closed"}
           /\ pc'[p]["app"] = "wait_fin" => fin_ack_received[p]
           /\ pc'[p]["app"] = "closing" => state[p] = "ESTABLISHED"
           /\ pc'[p]["app"] = "send_fin" => StartClosing(p)
           /\ pc'[p]["app"] = "chunk_built" => BuildData(p)
           /\ pc'[p]["app"] = "fin_built" => BuildFin(p)
           /\ pc'[p]["app"] = "transmit_fin" => KeepFin(p)
           /\ pc'[p]["app"] = "wait_fin_ack" => TransmitFin(p)
<1>1. "app" \in Thread
  BY DEF Thread
<1> USE <1>1, TeardownGoTo DEF At, CloseLabel
<1>2. CASE RecvCall(b) BY <1>2 DEF RecvCall
<1>3. CASE RecvReturns(b) BY <1>3 DEF RecvReturns
<1>4. CASE CloseCall(b) BY <1>4 DEF CloseCall
<1>5. CASE StartClosing(b)
  <2>1. p = b /\ t = "app" /\ pc'[p]["app"] = "send_fin"
    BY <1>5 DEF StartClosing
  <2> QED BY <1>5, <2>1
<1>6. CASE BuildFin(b)
  <2>1. p = b /\ t = "app" /\ pc'[p]["app"] = "fin_built"
    BY <1>6 DEF BuildFin, BuildSegment
  <2> QED BY <1>6, <2>1
<1>7. CASE TransmitFin(b)
  <2>1. p = b /\ t = "app" /\ pc'[p]["app"] \in {"wait_fin_ack", "raised"}
    BY <1>7 DEF TransmitFin
  <2> QED BY <1>7, <2>1
<1>8. CASE WaitFinAck(b) BY <1>8 DEF WaitFinAck
<1>9. CASE WaitFin(b) BY <1>9 DEF WaitFin
<1>10. CASE CloseListener(b) BY <1>10 DEF CloseListener, transferVars, vars
<1>11. CASE BuildData(b)
  <2>1. p = b /\ t = "app" /\ pc'[p]["app"] = "chunk_built"
    BY <1>11 DEF BuildData, BuildSegment
  <2> QED BY <1>11, <2>1
<1>12. CASE EnqueueData(b) BY <1>12 DEF EnqueueData
<1>13. CASE KeepFin(b)
  <2>1. p = b /\ t = "app" /\ pc'[p]["app"] = "transmit_fin"
    BY <1>13 DEF KeepFin
  <2> QED BY <1>13, <2>1
<1> QED
  BY <1>2, <1>3, <1>4, <1>5, <1>6, <1>7, <1>8, <1>9, <1>10, <1>11, <1>12, <1>13, Zenon
  DEF AppEnds

\* What the receiver ends with moves that receiver only, and not to a statement
\* that handles data.
LEMMA ReceiverMoves ==
    ASSUME TeardownPcOK, NEW b \in Peer, ReceiverEnds(b), NEW p \in Peer, NEW t \in Thread,
           pc'[p][t] # pc[p][t]
    PROVE  /\ p = b /\ t = "receiver"
           /\ pc'[p]["receiver"] \in {"wait", "check", "dead", "reading", "ended"} \cup FinLabel
           /\ pc'[p]["receiver"] = "fin_ack_built" => BuildFinAck(p)
           /\ pc'[p]["receiver"] = "fin_reply_built" => BuildFinReply(p)
           /\ pc[p]["receiver"] = "signal" => SignalFin(p)
           /\ pc[p]["receiver"] \notin {"dead", "ended"}
           /\ pc[p]["receiver"] = "fin_wait" => PassiveFinWait(p)
           /\ pc'[p]["receiver"] = "fin" => ProcessFin(p)
           /\ pc'[p]["receiver"] = "fin_reply" =>
                pc[p]["receiver"] = "established" /\ state[p] = "ESTABLISHED"
<1>1. "receiver" \in Thread
  BY DEF Thread
<1> USE <1>1, TeardownGoTo DEF At, FinLabel
<1>2. CASE EnterLoop(b) BY <1>2 DEF EnterLoop
<1>3. CASE ReadPacket(b) BY <1>3 DEF ReadPacket
<1>4. CASE SocketClosed(b) BY <1>4 DEF SocketClosed, UsesSocket
<1>5. CASE FinAcknowledged(b) BY <1>5 DEF FinAcknowledged
<1>6. CASE ProcessFin(b)
  <2>1. /\ p = b /\ t = "receiver"
        /\ pc[p]["receiver"] = "data" /\ pc'[p]["receiver"] = "fin"
    BY <1>6 DEF ProcessFin
  <2> QED BY <1>6, <2>1
<1>7. CASE BuildFinAck(b)
  <2>1. /\ p = b /\ t = "receiver"
        /\ pc[p]["receiver"] = "fin" /\ pc'[p]["receiver"] = "fin_ack_built"
    BY <1>7 DEF BuildFinAck, BuildSegment
  <2> QED BY <1>7, <2>1
<1>8. CASE SendFinAck(b) BY <1>8 DEF SendFinAck, SendFromReceiver
<1>9. CASE SignalFin(b)
  <2>1. /\ p = b /\ t = "receiver"
        /\ pc[p]["receiver"] = "signal" /\ pc'[p]["receiver"] = "established"
    BY <1>9 DEF SignalFin
  <2> QED BY <1>9, <2>1
<1>10. CASE CheckEstablished(b) BY <1>10 DEF CheckEstablished
<1>11. CASE BuildFinReply(b)
  <2>1. /\ p = b /\ t = "receiver"
        /\ pc[p]["receiver"] = "fin_reply" /\ pc'[p]["receiver"] = "fin_reply_built"
    BY <1>11 DEF BuildFinReply, BuildSegment
  <2> QED BY <1>11, <2>1
<1>12. CASE SendFinReply(b) BY <1>12 DEF SendFinReply, SendFromReceiver
<1>13. CASE PassiveFinWait(b)
  <2>1. /\ p = b /\ t = "receiver"
        /\ pc[p]["receiver"] = "fin_wait" /\ pc'[p]["receiver"] = "wait"
    BY <1>13 DEF PassiveFinWait
  <2> QED BY <1>13, <2>1
<1> QED
  BY <1>2, <1>3, <1>4, <1>5, <1>6, <1>7, <1>8, <1>9, <1>10, <1>11, <1>12, <1>13, Zenon
  DEF ReceiverEnds

-----------------------------------------------------------------------------
(* What a step changes *)

\* The statements that write each variable the invariants speak of.
Writes(p, t) ==
    /\ UNCHANGED sent \/ EnqueueData(p)
    /\ UNCHANGED send_next \/ Counts(p, t)
    /\ UNCHANGED recv_next \/ ProcessData(p) \/ FlushOutOfOrder(p) \/ ProcessFin(p)
    /\ UNCHANGED send_unacked \/ ProcessAck(p)
    /\ UNCHANGED queue \/ EnqueueData(p) \/ PopHead(p, t)
    /\ UNCHANGED pending \/ ProcessAck(p) \/ InsertPending(p, t)
    /\ UNCHANGED out_of_order \/ ProcessData(p) \/ FlushOutOfOrder(p)
    /\ UNCHANGED network
         \/ TransmitHead(p, t) \/ CheckRetransmission(p) \/ Reply(p) \/ TransmitFin(p)
         \/ WaitFinAck(p) \/ SendFinAck(p) \/ SendFinReply(p) \/ ReadPacket(p) \/ Lose(p)
    /\ UNCHANGED current
         \/ ReadPacket(p) \/ ProcessAck(p) \/ ProcessData(p) \/ FinAcknowledged(p)
         \/ ProcessFin(p)
    /\ UNCHANGED packet
         \/ Peek(p, t) \/ Admit(p, t) \/ PopHead(p, t) \/ TransmitHead(p, t)
         \/ Builds(p, t) \/ Counts(p, t)
    /\ UNCHANGED fin_packet \/ KeepFin(p)
    /\ UNCHANGED fin_received \/ SignalFin(p)
    /\ UNCHANGED fin_ack_received \/ FinAcknowledged(p)

LEMMA WhoWrites ==
    ASSUME TeardownNext
    PROVE  \E p \in Peer, t \in Thread : Writes(p, t)
<1>1. PICK p \in Peer :
        (Transfers(p) /\ UNCHANGED teardownVars) \/ AppEnds(p) \/ ReceiverEnds(p)
  BY TeardownSteps
<1>2. "app" \in Thread /\ "receiver" \in Thread
  BY DEF Thread
<1> USE DEF sequenceVars, windowVars, receiveVars, historyVars, teardownVars, finVars
<1>3. CASE Transfers(p) /\ UNCHANGED teardownVars
  <2>1. UNCHANGED <<fin_packet, fin_received, fin_ack_received>>
    BY <1>3
  <2>2. CASE \/ StartFlush(p) \/ WaitForAcks(p) \/ WaitForAcksReturns(p) \/ StopTimer(p)
             \/ LogWindow(p) \/ TimerExpires(p)
    <3>1. UNCHANGED <<sequenceVars, windowVars, receiveVars, historyVars, network, current,
                      packet>>
      BY <2>2 DEF StartFlush, WaitForAcks, WaitForAcksReturns, StopTimer, LogWindow, TimerExpires
    <3> QED BY <1>2, <2>1, <3>1, Zenon DEF Writes
  <2>4. CASE CheckRetransmission(p) \/ Reply(p) \/ Lose(p)
    <3>1. UNCHANGED <<sequenceVars, windowVars, receiveVars, historyVars, current, packet>>
      BY <2>4 DEF CheckRetransmission, Reply, Lose
    <3> QED BY <1>2, <2>1, <2>4, <3>1, Zenon DEF Writes
  <2>5. CASE ProcessAck(p)
    <3>1. UNCHANGED <<send_next, recv_next, queue, receiveVars, historyVars, network, packet>>
      BY <2>5 DEF ProcessAck
    <3> QED BY <1>2, <2>1, <2>5, <3>1, Zenon DEF Writes
  <2>6. CASE ProcessData(p)
    <3>1. UNCHANGED <<send_unacked, send_next, windowVars, historyVars, network, packet>>
      BY <2>6 DEF ProcessData
    <3> QED BY <1>2, <2>1, <2>6, <3>1, Zenon DEF Writes
  <2>7. CASE FlushOutOfOrder(p)
    <3>1. UNCHANGED <<send_unacked, send_next, windowVars, historyVars, network, current, packet>>
      BY <2>7 DEF FlushOutOfOrder
    <3> QED BY <1>2, <2>1, <2>7, <3>1, Zenon DEF Writes
  <2>8. ASSUME NEW t \in Thread, FlushWindow(p, t)
        PROVE  Writes(p, t)
    <3>1. CASE Peek(p, t) \/ Admit(p, t) \/ CheckFirstPending(p, t) \/ StartTimer(p, t)
      <4>1. /\ UNCHANGED <<sequenceVars, windowVars, receiveVars, historyVars, network, current>>
            /\ UNCHANGED packet \/ Peek(p, t) \/ Admit(p, t)
        BY <3>1 DEF Peek, Admit, CheckFirstPending, StartTimer
      <4> QED BY <2>1, <4>1, Zenon DEF Writes
    <3>2. CASE PopHead(p, t)
      <4>1. UNCHANGED <<sequenceVars, pending, receiveVars, historyVars, network, current>>
        BY <3>2 DEF PopHead
      <4> QED BY <2>1, <3>2, <4>1, Zenon DEF Writes
    <3>3. CASE InsertPending(p, t)
      <4>1. UNCHANGED <<sequenceVars, queue, receiveVars, historyVars, network, current, packet>>
        BY <3>3 DEF InsertPending
      <4> QED BY <2>1, <3>3, <4>1, Zenon DEF Writes
    <3>4. CASE TransmitHead(p, t)
      <4>1. UNCHANGED <<sequenceVars, windowVars, receiveVars, historyVars, current>>
        BY <3>4 DEF TransmitHead
      <4> QED BY <2>1, <3>4, <4>1, Zenon DEF Writes
    <3> QED BY <2>8, <3>1, <3>2, <3>3, <3>4, Zenon DEF FlushWindow
  <2> QED BY <1>3, <2>2, <2>4, <2>5, <2>6, <2>7, <2>8, Zenon DEF Transfers
<1>4. CASE AppEnds(p)
  <2>1. CASE \/ RecvCall(p) \/ RecvReturns(p) \/ CloseCall(p) \/ StartClosing(p) \/ WaitFin(p)
             \/ CloseListener(p)
    <3>1. UNCHANGED <<sequenceVars, windowVars, out_of_order, network, current, packet, sent,
                      finVars>>
      BY <2>1
      DEF RecvCall, RecvReturns, CloseCall, StartClosing, WaitFin, CloseListener,
          transferVars, vars
    <3> QED BY <1>2, <3>1, Zenon DEF Writes
  <2>2. CASE BuildData(p) \/ BuildFin(p)
    <3>1. UNCHANGED <<sequenceVars, windowVars, receiveVars, historyVars, network, current,
                      finVars>>
      BY <2>2 DEF BuildData, BuildFin, BuildSegment
    <3>2. Builds(p, "app")
      BY <2>2 DEF Builds
    <3> QED BY <1>2, <3>1, <3>2, Zenon DEF Writes
  <2>4. CASE EnqueueData(p)
    <3>1. UNCHANGED <<send_unacked, recv_next, pending, receiveVars, network, current, finVars>>
      BY <2>4 DEF EnqueueData
    <3>2. Counts(p, "app")
      BY <2>4 DEF Counts
    <3> QED BY <1>2, <2>4, <3>1, <3>2, Zenon DEF Writes
  <2>5. CASE KeepFin(p)
    <3>1. UNCHANGED <<send_unacked, recv_next, windowVars, receiveVars, historyVars, network,
                      current, fin_received, fin_ack_received>>
      BY <2>5 DEF KeepFin
    <3>2. Counts(p, "app")
      BY <2>5 DEF Counts
    <3> QED BY <1>2, <2>5, <3>1, <3>2, Zenon DEF Writes
  <2>3. CASE TransmitFin(p) \/ WaitFinAck(p)
    <3>1. UNCHANGED <<sequenceVars, windowVars, receiveVars, historyVars, current, packet,
                      fin_packet, fin_received, fin_ack_received>>
      BY <2>3 DEF TransmitFin, WaitFinAck
    <3> QED BY <1>2, <2>3, <3>1, Zenon DEF Writes
  <2> QED BY <1>4, <2>1, <2>2, <2>3, <2>4, <2>5, Zenon DEF AppEnds
<1>5. CASE ReceiverEnds(p)
  <2>1. CASE EnterLoop(p) \/ SocketClosed(p) \/ CheckEstablished(p) \/ PassiveFinWait(p)
    <3>1. UNCHANGED <<sequenceVars, windowVars, receiveVars, historyVars, network, current,
                      packet, finVars>>
      BY <2>1 DEF EnterLoop, SocketClosed, CheckEstablished, PassiveFinWait
    <3> QED BY <1>2, <3>1, Zenon DEF Writes
  <2>2. CASE ReadPacket(p)
    <3>1. UNCHANGED <<sequenceVars, windowVars, receiveVars, historyVars, packet, finVars>>
      BY <2>2 DEF ReadPacket
    <3> QED BY <1>2, <2>2, <3>1, Zenon DEF Writes
  <2>3. CASE FinAcknowledged(p)
    <3>1. UNCHANGED <<sequenceVars, windowVars, receiveVars, historyVars, network, packet,
                      fin_packet, fin_received>>
      BY <2>3 DEF FinAcknowledged
    <3> QED BY <1>2, <2>3, <3>1, Zenon DEF Writes
  <2>4. CASE ProcessFin(p)
    <3>1. UNCHANGED <<send_unacked, send_next, windowVars, receiveVars, historyVars, network,
                      packet, finVars>>
      BY <2>4 DEF ProcessFin
    <3> QED BY <1>2, <2>4, <3>1, Zenon DEF Writes
  <2>5. CASE BuildFinAck(p) \/ BuildFinReply(p)
    <3>1. UNCHANGED <<sequenceVars, windowVars, receiveVars, historyVars, network, current,
                      finVars>>
      BY <2>5 DEF BuildFinAck, BuildFinReply, BuildSegment
    <3>2. Builds(p, "receiver")
      BY <2>5 DEF Builds
    <3> QED BY <1>2, <3>1, <3>2, Zenon DEF Writes
  <2>6. CASE SendFinAck(p) \/ SendFinReply(p)
    <3>1. UNCHANGED <<send_unacked, recv_next, windowVars, receiveVars, historyVars, current,
                      finVars>>
      BY <2>6 DEF SendFinAck, SendFinReply, SendFromReceiver
    <3>2. Counts(p, "receiver")
      BY <2>6 DEF Counts
    <3> QED BY <1>2, <2>6, <3>1, <3>2, Zenon DEF Writes
  <2>7. CASE SignalFin(p)
    <3>1. UNCHANGED <<sequenceVars, windowVars, receiveVars, historyVars, network, current,
                      packet, fin_packet, fin_ack_received>>
      BY <2>7 DEF SignalFin
    <3> QED BY <1>2, <2>7, <3>1, Zenon DEF Writes
  <2> QED BY <1>5, <2>1, <2>2, <2>3, <2>4, <2>5, <2>6, <2>7, Zenon DEF ReceiverEnds
<1> QED BY <1>1, <1>3, <1>4, <1>5

\* A step that writes a thread's segment writes that one only.
LEMMA WrittenPacket ==
    ASSUME DataTypeOK, TeardownPcOK, NEW p \in Peer, NEW t \in Thread, Writes(p, t)
    PROVE  packet' = packet \/ \E x : packet' = [packet EXCEPT ![p][t] = x]
<1>1. CASE Peek(p, t) \/ Admit(p, t) \/ PopHead(p, t) \/ TransmitHead(p, t)
  BY <1>1 DEF Peek, Admit, PopHead, TransmitHead
<1>2. CASE Builds(p, t)
  BY <1>2, BuildEffect
<1>3. CASE Counts(p, t)
  BY <1>3, CountEffect
<1> QED BY <1>1, <1>2, <1>3 DEF Writes

\* A segment a thread has built and not yet counted was built in this step, or is still
\* the same.
LEMMA BuiltFrame ==
    ASSUME DataTypeOK, TeardownPcOK, TeardownNext, NEW p \in Peer, NEW t \in Thread,
           pc'[p][t] \in BuiltLabel
    PROVE  \/ /\ \E pk \in TTPPacket :
                   /\ packet'[p][t] = pk
                   /\ pk.seq = send_next[p] /\ pk.ack = recv_next[p]
                   /\ BuiltAs(pc'[p][t], pk)
              /\ UNCHANGED <<send_next, recv_next>>
           \/ pc'[p][t] = pc[p][t] /\ packet'[p][t] = packet[p][t]
<1>1. PICK b \in Peer, u \in Thread : Writes(b, u)
  BY WhoWrites
<1>2. PICK c \in Peer :
        (Transfers(c) /\ UNCHANGED teardownVars) \/ AppEnds(c) \/ ReceiverEnds(c)
  BY TeardownSteps
<1>3. packet \in [Peer -> [Thread -> TTPPacket]]
  BY DEF DataTypeOK
<1>4. CASE pc'[p][t] # pc[p][t]
  <2>1. Builds(p, t)
    <3>1. CASE Transfers(c)
      <4>1. pc'[p][t] \in AppLabel \cup ReceiverLabel
        BY <1>4, <3>1, TransferMoves
      <4> QED BY <4>1 DEF BuiltLabel, AppLabel, ReceiverLabel, FlushLabel
    <3>2. CASE AppEnds(c)
      BY <1>4, <3>2, AppMoves DEF Builds, BuiltLabel, CloseLabel
    <3>3. CASE ReceiverEnds(c)
      BY <1>4, <3>3, ReceiverMoves DEF Builds, BuiltLabel, FinLabel
    <3> QED BY <1>2, <3>1, <3>2, <3>3
  <2>2. UNCHANGED <<send_next, recv_next>>
    BY <2>1, BuildEffect
  <2>3. PICK pk \in TTPPacket :
          /\ packet' = [packet EXCEPT ![p][t] = pk]
          /\ pk.seq = send_next[p] /\ pk.ack = recv_next[p]
          /\ BuiltAs(pc'[p][t], pk)
    BY <2>1, BuildEffect
  <2>4. packet'[p][t] = pk
    BY <1>3, <2>3
  <2> QED BY <2>2, <2>3, <2>4
<1>5. CASE pc'[p][t] = pc[p][t]
  <2>1. ASSUME b = p, u = t
        PROVE  UNCHANGED packet
    <3>1. ~Peek(b, u) /\ ~Admit(b, u) /\ ~PopHead(b, u) /\ ~TransmitHead(b, u)
      BY <1>5, <2>1 DEF Peek, Admit, PopHead, TransmitHead, At, BuiltLabel
    <3>2. ~Builds(b, u)
      BY <1>5, <2>1, BuildEffect DEF BuiltLabel
    <3>3. ~Counts(b, u)
      BY <2>1, CountEffect DEF BuiltLabel
    <3> QED BY <1>1, <3>1, <3>2, <3>3 DEF Writes
  <2>2. packet' = packet \/ \E x : packet' = [packet EXCEPT ![b][u] = x]
    BY <1>1, WrittenPacket
  <2>3. packet'[p][t] = packet[p][t]
    BY <1>3, <2>1, <2>2
  <2> QED BY <1>5, <2>3
<1> QED BY <1>4, <1>5

-----------------------------------------------------------------------------
(* The variables of the teardown *)

\* The variables of the teardown keep their types, and a FIN is sent again at most
\* MaxRetries times.
LEMMA TeardownVariables ==
    ASSUME TeardownTypes, TeardownNext
    PROVE  /\ state' \in [Peer -> TTPState]
           /\ fin_packet' \in [Peer -> TTPPacket]
           /\ fin_retransmission' \in [Peer -> RetransmissionManager]
           /\ fin_ack_received' \in [Peer -> BOOLEAN]
           /\ fin_received' \in [Peer -> BOOLEAN]
           /\ socket_open' \in [Peer -> BOOLEAN]
           /\ \A p \in Peer : fin_retransmission'[p].retries <= MaxRetries
<1>1. PICK b \in Peer :
        (Transfers(b) /\ UNCHANGED teardownVars) \/ AppEnds(b) \/ ReceiverEnds(b)
  BY TeardownSteps
<1>2. TeardownTypeOK
  BY DEF TeardownTypes
<1> USE DEF teardownVars, finVars, TeardownTypeOK, TTPState
<1>3. ASSUME NEW r \in RetransmissionManager, r.retries <= MaxRetries
      PROVE  /\ Start(r) \in RetransmissionManager /\ Start(r).retries <= MaxRetries
             /\ Stop(r) \in RetransmissionManager /\ Stop(r).retries <= MaxRetries
             /\ ~Exhausted(r) =>
                  Restart(r) \in RetransmissionManager /\ Restart(r).retries <= MaxRetries
  BY <1>3, MaxRetriesAssumption
  DEF Start, Stop, Restart, Exhausted, RetransmissionManager, TimerState
<1>4. CASE Transfers(b) /\ UNCHANGED teardownVars
  BY <1>2, <1>4
<1>5. CASE AppEnds(b)
  <2>1. CASE RecvCall(b) BY <1>2, <2>1 DEF RecvCall
  <2>2. CASE RecvReturns(b) BY <1>2, <2>2 DEF RecvReturns
  <2>3. CASE CloseCall(b)
    BY <1>2, <2>3, TeardownAssumption DEF CloseCall, ReleaseSocket
  <2>4. CASE StartClosing(b) BY <1>2, <2>4 DEF StartClosing
  <2>5. CASE KeepFin(b)
    <3>1. packet[b]["app"] \in TTPPacket
      BY DEF TeardownTypes, DataTypeOK, Thread
    <3> QED BY <1>2, <2>5, <3>1 DEF KeepFin
  <2>10. CASE BuildData(b) \/ EnqueueData(b) \/ BuildFin(b)
    BY <1>2, <2>10 DEF BuildData, EnqueueData, BuildFin, BuildSegment
  <2>6. CASE TransmitFin(b) BY <1>2, <1>3, <2>6 DEF TransmitFin
  <2>7. CASE WaitFinAck(b)
    BY <1>2, <1>3, <2>7, TeardownAssumption DEF WaitFinAck, ReleaseSocket
  <2>8. CASE WaitFin(b) BY <1>2, <2>8, TeardownAssumption DEF WaitFin, ReleaseSocket
  <2>9. CASE CloseListener(b) BY <1>2, <2>9 DEF CloseListener
  <2> QED
    BY <1>5, <2>1, <2>2, <2>3, <2>4, <2>5, <2>6, <2>7, <2>8, <2>9, <2>10, Zenon DEF AppEnds
<1>6. CASE ReceiverEnds(b)
  <2>1. CASE EnterLoop(b) \/ ReadPacket(b) \/ SocketClosed(b) \/ ProcessFin(b)
             \/ BuildFinAck(b) \/ BuildFinReply(b) \/ SendFinAck(b) \/ SendFinReply(b)
             \/ CheckEstablished(b)
    <3>1. UNCHANGED teardownVars
      BY <2>1
      DEF EnterLoop, ReadPacket, SocketClosed, ProcessFin, BuildFinAck, BuildFinReply,
          BuildSegment, SendFinAck, SendFinReply, SendFromReceiver, CheckEstablished
    <3> QED BY <1>2, <3>1
  <2>2. CASE FinAcknowledged(b) BY <1>2, <1>3, <2>2 DEF FinAcknowledged
  <2>3. CASE SignalFin(b) BY <1>2, <2>3 DEF SignalFin
  <2>4. CASE PassiveFinWait(b) BY <1>2, <2>4 DEF PassiveFinWait
  <2> QED BY <1>6, <2>1, <2>2, <2>3, <2>4, Zenon DEF ReceiverEnds
<1> QED BY <1>1, <1>4, <1>5, <1>6

LEMMA TeardownTypesStep ==
    ASSUME TeardownTypes, TeardownNext
    PROVE  TeardownTypes'
<1>1. DataTypeOK /\ TeardownPcOK /\ TeardownTypeOK
  BY DEF TeardownTypes
<1>2. PICK b \in Peer :
        (Transfers(b) /\ UNCHANGED teardownVars) \/ AppEnds(b) \/ ReceiverEnds(b)
  BY TeardownSteps
<1>3. DataTypeOK'
  BY <1>1, <1>2, TransferData, AppEndsData, ReceiverEndsData DEF TeardownTypeOK
<1>4. TeardownPcOK'
  BY <1>1, <1>2, TransferLabels, EndLabels
<1>5. ASSUME NEW p \in Peer, NEW t \in Thread, pc'[p][t] \in BuiltLabel
      PROVE  /\ pc'[p][t] = "chunk_built" => "DATA" \in packet'[p][t].flags
             /\ pc'[p][t] # "chunk_built" => "FIN" \in packet'[p][t].flags
  <2>1. CASE /\ pc'[p][t] = pc[p][t]
             /\ packet'[p][t] = packet[p][t]
    BY <1>1, <1>5, <2>1
    DEF TeardownTypeOK, TeardownPcOK, TeardownAppLabel, TeardownReceiverLabel, CloseLabel,
        FinLabel, AppLabel, ReceiverLabel, FlushLabel, BuiltLabel, At, Thread
  <2>2. ASSUME NEW pk \in TTPPacket, BuiltAs(pc'[p][t], pk)
        PROVE  /\ pc'[p][t] = "chunk_built" => "DATA" \in pk.flags
               /\ pc'[p][t] # "chunk_built" => "FIN" \in pk.flags
    BY <1>5, <2>2 DEF BuiltAs, BuiltLabel
  <2> QED BY <1>1, <1>5, <2>1, <2>2, BuiltFrame
<1>8. "app" \in Thread /\ "receiver" \in Thread
  BY DEF Thread
<1>6. \A p \in Peer :
        /\ pc'[p]["app"] \in TeardownAppLabel
        /\ pc'[p]["receiver"] \in TeardownReceiverLabel
        /\ pc'[p]["receiver"] \in {"fin_ack_built", "fin_reply_built"} =>
             "FIN" \in packet'[p]["receiver"].flags
        /\ pc'[p]["app"] = "fin_built" => "FIN" \in packet'[p]["app"].flags
        /\ pc'[p]["app"] = "chunk_built" => "DATA" \in packet'[p]["app"].flags
        /\ fin_retransmission'[p].retries <= MaxRetries
  BY <1>4, <1>5, <1>8, TeardownVariables DEF TeardownPcOK, BuiltLabel
<1>7. TeardownTypeOK'
  BY <1>6, TeardownVariables DEF TeardownTypeOK, At
<1> QED BY <1>3, <1>4, <1>7 DEF TeardownTypes

LEMMA TeardownTypesInit == ASSUME TeardownInit PROVE TeardownTypes
<1>1. TypeOK
  BY InitTypes DEF TeardownInit
<1>2. DataTypeOK /\ PcOK
  BY <1>1, TypeParts
<1>3. TeardownPcOK
  BY <1>2 DEF PcOK, TeardownPcOK, TeardownAppLabel, TeardownReceiverLabel
<1>4. Fresh \in RetransmissionManager /\ Fresh.retries = 0
  BY DEF Fresh, RetransmissionManager, TimerState
<1>5. \A p \in Peer : pc[p]["receiver"] = "wait" /\ pc[p]["app"] = "idle"
  BY DEF TeardownInit, Init, Thread
<1>6. TeardownTypeOK
  BY <1>3, <1>4, <1>5, NoPacketType, MaxRetriesAssumption
  DEF TeardownInit, TeardownPcOK, TeardownTypeOK, TTPState, At
<1> QED BY <1>2, <1>3, <1>6 DEF TeardownTypes

-----------------------------------------------------------------------------
(* What only grows *)

\* A number to which something is added does not shrink.
LEMMA AddedTo ==
    ASSUME NEW f \in [Peer -> Nat], NEW b \in Peer, NEW pk \in TTPPacket, NEW p \in Peer
    PROVE  f[p] <= [f EXCEPT ![b] = @ + SequenceSpace(pk)][p]
<1>1. SequenceSpace(pk) \in Nat
  BY SequenceSpaceType
<1>2. CASE b = p BY <1>1, <1>2
<1>3. CASE b # p BY <1>3
<1> QED BY <1>2, <1>3

\* What a peer has given out, accepted, sent and heard only grows.
LEMMA Growth ==
    ASSUME TeardownTypes, TeardownNext, NEW p \in Peer
    PROVE  /\ send_next[p] \in Nat /\ send_next'[p] \in Nat /\ send_next[p] <= send_next'[p]
           /\ recv_next[p] \in Nat /\ recv_next'[p] \in Nat /\ recv_next[p] <= recv_next'[p]
           /\ sent[p] # << >> => sent'[p] # << >>
           /\ HasHeardFin(p) => HasHeardFin(p)'
           /\ fin_ack_received[p] => fin_ack_received'[p]
<1>1. DataTypeOK /\ TeardownPcOK /\ TeardownTypeOK /\ DataTypeOK'
  BY TeardownTypesStep DEF TeardownTypes
<1>2. PICK b \in Peer, u \in Thread : Writes(b, u)
  BY WhoWrites
<1>3. send_next[p] \in Nat /\ recv_next[p] \in Nat
      /\ send_next'[p] \in Nat /\ recv_next'[p] \in Nat
  BY <1>1 DEF DataTypeOK
<1>4. send_next \in [Peer -> Nat] /\ recv_next \in [Peer -> Nat]
  BY <1>1 DEF DataTypeOK
<1>5. send_next[p] <= send_next'[p]
  <2>1. CASE UNCHANGED send_next
    BY <1>3, <2>1
  <2>2. CASE Counts(b, u)
    <3>1. packet[b][u] \in TTPPacket
          /\ send_next' = [send_next EXCEPT ![b] = @ + SequenceSpace(packet[b][u])]
      BY <1>1, <2>2, CountEffect
    <3> QED BY <1>4, <3>1, AddedTo
  <2> QED BY <1>2, <2>1, <2>2 DEF Writes
<1>6. recv_next[p] <= recv_next'[p]
  <2>1. recv_next' = recv_next \/ \E pk \in TTPPacket :
           recv_next' = [recv_next EXCEPT ![b] = @ + SequenceSpace(pk)]
    <3>1. CASE ProcessData(b)
      BY <1>1, <3>1 DEF ProcessData, Accept, DataTypeOK
    <3>2. CASE FlushOutOfOrder(b)
      BY <1>1, <3>2 DEF FlushOutOfOrder, Accept, DataTypeOK
    <3>3. CASE ProcessFin(b)
      <4>1. current[b] \in TTPPacket
        BY <1>1 DEF DataTypeOK
      <4>2. \/ recv_next' = [recv_next EXCEPT ![b] = @ + SequenceSpace(current[b])]
            \/ recv_next' = [recv_next EXCEPT ![b] = @]
        BY <3>3 DEF ProcessFin
      <4> QED BY <1>1, <4>1, <4>2 DEF DataTypeOK
    <3> QED BY <1>2, <3>1, <3>2, <3>3 DEF Writes
  <2> QED BY <1>3, <1>4, <2>1, AddedTo
<1>7. ASSUME sent[p] # << >>
      PROVE  sent'[p] # << >>
  <2>1. CASE EnqueueData(b)
    <3> DEFINE pk == packet[b]["app"]
    <3>1. sent' = [sent EXCEPT ![b] = Append(@, pk)] /\ pk \in TTPPacket
      BY <1>1, <2>1 DEF EnqueueData, DataTypeOK, Thread
    <3> HIDE DEF pk
    <3>2. sent[p] \in Seq(TTPPacket)
      BY <1>1 DEF DataTypeOK
    <3>3. Append(sent[p], pk) # << >>
      BY <3>1, <3>2
    <3>4. sent'[p] = sent[p] \/ sent'[p] = Append(sent[p], pk)
      BY <1>1, <3>1 DEF DataTypeOK
    <3> QED BY <1>7, <3>3, <3>4
  <2> QED BY <1>2, <1>7, <2>1 DEF Writes
<1>8. fin_received[p] => fin_received'[p]
  BY <1>1, <1>2 DEF Writes, SignalFin, TeardownTypeOK
<1>9. ASSUME pc[p]["receiver"] = "signal", pc'[p]["receiver"] # "signal"
      PROVE  fin_received'[p]
  <2>1. PICK c \in Peer :
          (Transfers(c) /\ UNCHANGED teardownVars) \/ AppEnds(c) \/ ReceiverEnds(c)
    BY TeardownSteps
  <2>2. "receiver" \in Thread
    BY DEF Thread
  <2>3. SignalFin(p)
    BY <1>1, <1>9, <2>1, <2>2, TransferMoves, AppMoves, ReceiverMoves
    DEF AppLabel, ReceiverLabel, FlushLabel
  <2> QED BY <1>1, <2>3 DEF SignalFin, TeardownTypeOK
<1>10. fin_ack_received[p] => fin_ack_received'[p]
  BY <1>1, <1>2 DEF Writes, FinAcknowledged, TeardownTypeOK
<1> QED BY <1>3, <1>5, <1>6, <1>7, <1>8, <1>9, <1>10 DEF HasHeardFin, At

-----------------------------------------------------------------------------
(* What the segments say *)

\* IsTrue(p, pk) in the next state.
TrueNext(p, pk) ==
    /\ pk.ack <= recv_next'[p]
    /\ End(pk) <= send_next'[p]
    /\ "DATA" \in pk.flags => sent'[p] # << >>
    /\ "ACK" \in pk.flags => sent'[Other(p)] # << >> \/ HasHeardFin(p)'

\* What a segment says stays true.
LEMMA TruthStays ==
    ASSUME TeardownTypes, TeardownNext, NEW p \in Peer,
           NEW pk \in TTPPacket, IsTrue(p, pk)
    PROVE  TrueNext(p, pk)
<1>1. Other(p) \in Peer
  BY OtherPeer
<1>2. pk.ack \in Nat /\ End(pk) \in Nat
  <2>1. SequenceSpace(pk) \in Nat
    BY SequenceSpaceType
  <2> QED BY <2>1 DEF End, TTPPacket
<1>3. /\ send_next[p] \in Nat /\ send_next'[p] \in Nat /\ send_next[p] <= send_next'[p]
      /\ recv_next[p] \in Nat /\ recv_next'[p] \in Nat /\ recv_next[p] <= recv_next'[p]
  BY Growth
<1>4. pk.ack <= recv_next'[p] /\ End(pk) <= send_next'[p]
  BY <1>2, <1>3 DEF IsTrue
<1>5. /\ sent[p] # << >> => sent'[p] # << >>
      /\ sent[Other(p)] # << >> => sent'[Other(p)] # << >>
      /\ HasHeardFin(p) => HasHeardFin(p)'
  BY <1>1, Growth
<1> QED BY <1>4, <1>5 DEF IsTrue, TrueNext

\* The segment no thread holds says nothing.
LEMMA NoPacketIsTrue ==
    ASSUME TeardownTypes, TeardownNext, NEW p \in Peer
    PROVE  TrueNext(p, NoPacket)
<1>1. NoPacket.flags = {} /\ NoPacket.ack = 0 /\ NoPacket.seq = 0
      /\ NoPacket.payload = NoPayload
  BY DEF NoPacket
<1>2. SequenceSpace(NoPacket) = 0
  <2>1. NoPacket.flags \cap {"SYN", "FIN"} = {}
    BY <1>1
  <2>2. Cardinality(NoPacket.flags \cap {"SYN", "FIN"}) = 0
    BY <2>1, FS_EmptySet
  <2>3. PayloadLength(NoPacket) = 0
    BY <1>1 DEF PayloadLength
  <2> QED BY <2>2, <2>3 DEF SequenceSpace
<1>3. send_next'[p] \in Nat /\ recv_next'[p] \in Nat
  BY Growth
<1> HIDE DEF NoPacket
<1>4. End(NoPacket) = 0
  BY <1>1, <1>2 DEF End
<1> QED BY <1>1, <1>3, <1>4 DEF TrueNext

\* The sizes of the segments without data.
LEMMA ControlSpace ==
    ASSUME NEW pk, pk.payload = NoPayload
    PROVE  /\ "FIN" \in pk.flags /\ "SYN" \notin pk.flags => SequenceSpace(pk) = 1
           /\ "FIN" \notin pk.flags /\ "SYN" \notin pk.flags => SequenceSpace(pk) = 0
<1>1. PayloadLength(pk) = 0
  BY DEF PayloadLength
<1>2. ASSUME "FIN" \in pk.flags, "SYN" \notin pk.flags
      PROVE  SequenceSpace(pk) = 1
  <2>1. pk.flags \cap {"SYN", "FIN"} = {"FIN"}
    BY <1>2
  <2>2. Cardinality({"FIN"}) = 1
    BY FS_Singleton
  <2> QED BY <1>1, <2>1, <2>2 DEF SequenceSpace
<1>3. ASSUME "FIN" \notin pk.flags, "SYN" \notin pk.flags
      PROVE  SequenceSpace(pk) = 0
  <2>1. pk.flags \cap {"SYN", "FIN"} = {}
    BY <1>3
  <2>2. Cardinality(pk.flags \cap {"SYN", "FIN"}) = 0
    BY <2>1, FS_EmptySet
  <2> QED BY <1>1, <2>2 DEF SequenceSpace
<1> QED BY <1>2, <1>3

\* A segment a thread counts ends within the numbers that are given out by then.
LEMMA CountedFits ==
    ASSUME TeardownTypes, TeardownNext, NEW p \in Peer, NEW t \in Thread, SegmentIsBuilt(p),
           Counts(p, t)
    PROVE  End(packet[p][t]) <= send_next'[p] /\ packet[p][t].ack <= recv_next'[p]
<1>1. DataTypeOK /\ TeardownPcOK
  BY DEF TeardownTypes
<1>2. /\ pc[p][t] \in BuiltLabel /\ packet[p][t] \in TTPPacket
      /\ send_next' = [send_next EXCEPT ![p] = @ + SequenceSpace(packet[p][t])]
  BY <1>1, CountEffect
<1>3. packet[p][t].ack <= recv_next[p] /\ packet[p][t].seq <= send_next[p]
  BY <1>2 DEF SegmentIsBuilt
<1>4. /\ SequenceSpace(packet[p][t]) \in Nat /\ packet[p][t].seq \in Nat
      /\ packet[p][t].ack \in Nat
  BY <1>2, SequenceSpaceType DEF TTPPacket
<1>5. send_next'[p] = send_next[p] + SequenceSpace(packet[p][t])
  BY <1>1, <1>2 DEF DataTypeOK
<1>6. send_next[p] \in Nat /\ recv_next[p] \in Nat /\ recv_next'[p] \in Nat
      /\ recv_next[p] <= recv_next'[p]
  BY Growth
<1> QED BY <1>3, <1>4, <1>5, <1>6 DEF End

\* A segment in the queue was there before, or has just been counted.
LEMMA QueueFrame ==
    ASSUME TeardownTypes, TeardownNext, NEW p \in Peer, SegmentIsBuilt(p),
           NEW k \in 1..Len(queue'[p])
    PROVE  \/ \E j \in 1..Len(queue[p]) : queue'[p][k] = queue[p][j]
           \/ \E pk \in TTPPacket :
                /\ pk.flags = {"DATA"} /\ pk.ack <= recv_next'[p] /\ End(pk) <= send_next'[p]
                /\ sent'[p] # << >>
                /\ queue'[p][k] = pk
<1>1. PICK b \in Peer, u \in Thread : Writes(b, u)
  BY WhoWrites
<1>2. DataTypeOK /\ queue[p] \in Seq(TTPPacket) /\ Len(queue[p]) \in Nat
  <2>1. DataTypeOK
    BY DEF TeardownTypes
  <2>2. queue[p] \in Seq(TTPPacket)
    BY <2>1 DEF DataTypeOK
  <2> QED BY <2>1, <2>2
<1>3. CASE queue'[p] = queue[p]
  BY <1>3
<1>4. CASE EnqueueData(p)
  <2> DEFINE pk == packet[p]["app"]
  <2>1. pk \in TTPPacket /\ queue'[p] = Append(queue[p], pk)
        /\ sent'[p] = Append(sent[p], pk) /\ pc[p]["app"] = "chunk_built"
    BY <1>2, <1>4 DEF EnqueueData, DataTypeOK, Thread, At
  <2>2. /\ pk.flags = {"DATA"} /\ End(pk) <= send_next'[p] /\ pk.ack <= recv_next'[p]
    <3>1. pk.flags = {"DATA"}
      BY <2>1 DEF SegmentIsBuilt, At
    <3> QED BY <1>4, <3>1, CountedFits DEF Counts, Thread
  <2> HIDE DEF pk
  <2>3. sent[p] \in Seq(TTPPacket)
    BY <1>2 DEF DataTypeOK
  <2>4. Append(sent[p], pk) # << >>
    BY <2>3
  <2>5. queue'[p][k] = pk \/ \E j \in 1..Len(queue[p]) : queue'[p][k] = queue[p][j]
    BY <1>2, <2>1
  <2> QED BY <2>1, <2>2, <2>4, <2>5
<1>5. CASE queue'[p] = Tail(queue[p]) /\ queue[p] # << >>
  <2>1. k + 1 \in 1..Len(queue[p]) /\ queue'[p][k] = queue[p][k + 1]
    BY <1>2, <1>5
  <2> QED BY <2>1
<1>6. \/ queue'[p] = queue[p]
      \/ EnqueueData(p)
      \/ queue'[p] = Tail(queue[p]) /\ queue[p] # << >>
  <2>1. CASE UNCHANGED queue BY <2>1
  <2>2. CASE EnqueueData(b)
    <3>1. CASE b = p BY <2>2, <3>1
    <3>2. CASE b # p BY <2>2, <3>2 DEF EnqueueData
    <3> QED BY <3>1, <3>2
  <2>3. CASE PopHead(b, u)
    BY <1>2, <2>3 DEF PopHead, DataTypeOK
  <2> QED BY <1>1, <2>1, <2>2, <2>3 DEF Writes
<1> QED BY <1>3, <1>4, <1>5, <1>6

\* An entry of pending was there before, or has just been inserted.
LEMMA EntryFrame ==
    ASSUME DataTypeOK, TeardownNext, NEW p \in Peer, NEW e \in pending'[p]
    PROVE  \/ e \in pending[p]
           \/ \E t \in Thread : pc[p][t] = "insert" /\ e.packet = packet[p][t]
<1>1. PICK b \in Peer, u \in Thread : Writes(b, u)
  BY WhoWrites
<1>2. CASE ProcessAck(b)
  BY <1>2 DEF ProcessAck, Unacknowledged, DataTypeOK
<1>3. CASE InsertPending(b, u)
  BY <1>3 DEF InsertPending, MarkPending, At, DataTypeOK
<1> QED BY <1>1, <1>2, <1>3 DEF Writes

\* A thread between popleft() and the transmission has just popped its segment or
\* still holds it.
LEMMA HandFrame ==
    ASSUME DataTypeOK, TeardownPcOK, TeardownNext, NEW p \in Peer, NEW t \in Thread,
           pc'[p][t] \in {"insert", "transmit"}
    PROVE  \/ 1 \in 1..Len(queue[p]) /\ packet'[p][t] = queue[p][1]
           \/ pc[p][t] \in {"insert", "transmit"} /\ packet'[p][t] = packet[p][t]
<1>1. PICK b \in Peer, u \in Thread : Writes(b, u)
  BY WhoWrites
<1>2. \/ pc[p][t] = pc'[p][t]
      \/ PopHead(p, t) /\ pc'[p][t] = "insert"
      \/ InsertPending(p, t) /\ pc'[p][t] = "transmit"
  <2>1. PICK c \in Peer :
          (Transfers(c) /\ UNCHANGED teardownVars) \/ AppEnds(c) \/ ReceiverEnds(c)
    BY TeardownSteps
  <2> QED BY <2>1, TransferMoves, AppMoves, ReceiverMoves DEF CloseLabel, FinLabel
<1>3. CASE PopHead(p, t) /\ pc'[p][t] = "insert"
  <2>1. queue[p] # << >> /\ packet' = [packet EXCEPT ![p][t] = Head(queue[p])]
    BY <1>3, TeardownGoTo DEF PopHead, Failed
  <2>2. queue[p] \in Seq(TTPPacket)
    BY DEF DataTypeOK
  <2>3. 1 \in 1..Len(queue[p]) /\ Head(queue[p]) = queue[p][1]
    BY <2>1, <2>2
  <2>4. packet'[p][t] = Head(queue[p])
    BY <2>1 DEF DataTypeOK
  <2> QED BY <2>3, <2>4
<1>4. CASE InsertPending(p, t)
  BY <1>4 DEF InsertPending, At
<1>5. CASE pc[p][t] = pc'[p][t]
  <2>1. ASSUME Peek(b, u) \/ Admit(b, u) \/ PopHead(b, u) \/ TransmitHead(b, u)
        PROVE  packet'[p][t] = packet[p][t]
    <3>1. CASE b = p /\ u = t
      BY <1>5, <2>1, <3>1, TeardownGoTo
      DEF Peek, Admit, PopHead, TransmitHead, At, Failed, Flushed
    <3>2. CASE ~(b = p /\ u = t)
      <4>1. packet' = packet \/ \E x : packet' = [packet EXCEPT ![b][u] = x]
        BY <2>1 DEF Peek, Admit, PopHead, TransmitHead
      <4>2. packet \in [Peer -> [Thread -> TTPPacket]]
        BY DEF DataTypeOK
      <4> QED BY <3>2, <4>1, <4>2
    <3> QED BY <3>1, <3>2
  <2>2. ASSUME Builds(b, u) \/ Counts(b, u)
        PROVE  packet'[p][t] = packet[p][t]
    <3>1. ~(b = p /\ u = t)
      BY <1>5, <2>2, BuildEffect, CountEffect DEF BuiltLabel
    <3>2. packet' = packet \/ \E x : packet' = [packet EXCEPT ![b][u] = x]
      BY <1>1, WrittenPacket
    <3>3. packet \in [Peer -> [Thread -> TTPPacket]]
      BY DEF DataTypeOK
    <3> QED BY <3>1, <3>2, <3>3
  <2> QED BY <1>1, <1>5, <2>1, <2>2 DEF Writes
<1> QED BY <1>2, <1>3, <1>4, <1>5

\* The FIN of close() was kept before, or just now.
LEMMA FinFrame ==
    ASSUME TeardownTypes, TeardownNext, NEW p \in Peer, SegmentIsBuilt(p)
    PROVE  \/ fin_packet'[p] = fin_packet[p]
           \/ \E fin \in TTPPacket :
                /\ fin.flags = {"FIN"} /\ fin.ack <= recv_next'[p] /\ End(fin) <= send_next'[p]
                /\ fin.payload = NoPayload /\ fin_packet'[p] = fin
                /\ KeepFin(p)
<1>1. DataTypeOK /\ TeardownTypeOK
  BY DEF TeardownTypes
<1>2. PICK b \in Peer, u \in Thread : Writes(b, u)
  BY WhoWrites
<1>3. CASE KeepFin(p)
  <2> DEFINE fin == packet[p]["app"]
  <2>1. pc[p]["app"] = "fin_built" /\ fin_packet'[p] = fin
    BY <1>1, <1>3 DEF KeepFin, At, TeardownTypeOK
  <2>2. fin \in TTPPacket
    BY <1>1 DEF DataTypeOK, Thread
  <2>3. fin.flags = {"FIN"} /\ fin.payload = NoPayload
    BY <2>1 DEF SegmentIsBuilt, At
  <2>4. End(fin) <= send_next'[p] /\ fin.ack <= recv_next'[p]
    BY <1>3, CountedFits DEF Counts, Thread
  <2> HIDE DEF fin
  <2> QED BY <1>3, <2>1, <2>2, <2>3, <2>4
<1>4. CASE KeepFin(b) /\ b # p
  BY <1>4 DEF KeepFin
<1> QED BY <1>2, <1>3, <1>4 DEF Writes

\* A segment on its way was there before, or has just been transmitted.
LEMMA WayFrame ==
    ASSUME DataTypeOK, TeardownNext, NEW p \in Peer, NEW pk \in network'[Other(p)]
    PROVE  \/ pk \in network[Other(p)]
           \/ \E t \in Thread : pc[p][t] = "transmit" /\ pk = packet[p][t]
           \/ \E e \in pending[p] : pk = e.packet
           \/ At(p, "receiver", "reply") /\ pk = BuildPacket(p, {"ACK"}, NoPayload)
           \/ (TransmitFin(p) \/ WaitFinAck(p)) /\ pk = fin_packet[p]
           \/ /\ SendFinAck(p) /\ GoTo(p, "receiver", "signal")
              /\ pk = packet[p]["receiver"]
           \/ SendFinReply(p) /\ pk = packet[p]["receiver"]
<1>1. PICK b \in Peer, u \in Thread : Writes(b, u)
  BY WhoWrites
<1> DEFINE q == Other(p)
<1>2. q \in Peer /\ Other(q) = p /\ q # p /\ pk \in network'[q]
  BY OtherPeer
<1> HIDE DEF q
<1>3. ASSUME NEW c \in Peer, NEW new, Transmit(c, new)
      PROVE  pk \in network[q] \/ (c = p /\ pk = new)
  <2>1. Other(c) \in Peer /\ Other(Other(c)) = c
    BY OtherPeer
  <2> QED BY <1>2, <1>3, <2>1 DEF Transmit, DataTypeOK
<1>4. CASE TransmitHead(b, u)
  <2>1. /\ pc[b][u] = "transmit"
        /\ network' = network \/ Transmit(b, packet[b][u])
    BY <1>4 DEF TransmitHead, At
  <2> QED BY <1>2, <1>3, <2>1 DEF q
<1>5. CASE CheckRetransmission(b)
  <2>1. network' = network \/ \E e \in pending[b] : Transmit(b, e.packet)
    BY <1>5 DEF CheckRetransmission
  <2> QED BY <1>2, <1>3, <2>1 DEF q
<1>6. CASE Reply(b)
  <2>1. /\ At(b, "receiver", "reply")
        /\ network' = network \/ Transmit(b, BuildPacket(b, {"ACK"}, NoPayload))
    BY <1>6 DEF Reply
  <2> QED BY <1>2, <1>3, <2>1 DEF q
<1>7. CASE TransmitFin(b) \/ WaitFinAck(b)
  <2>1. network' = network \/ Transmit(b, fin_packet[b])
    BY <1>7 DEF TransmitFin, WaitFinAck
  <2> QED BY <1>2, <1>3, <1>7, <2>1 DEF q
<1>8. CASE SendFinAck(b)
  <2>1. \/ network' = network
        \/ Transmit(b, packet[b]["receiver"]) /\ GoTo(b, "receiver", "signal")
    BY <1>8 DEF SendFinAck, SendFromReceiver
  <2> QED BY <1>2, <1>3, <1>8, <2>1 DEF q
<1>9. CASE SendFinReply(b)
  <2>1. network' = network \/ Transmit(b, packet[b]["receiver"])
    BY <1>9 DEF SendFinReply, SendFromReceiver
  <2> QED BY <1>2, <1>3, <1>9, <2>1 DEF q
<1>10. CASE ReadPacket(b) \/ Lose(b)
  <2>1. network' = network \/ \E x : network' = [network EXCEPT ![b] = @ \ {x}]
    BY <1>10 DEF ReadPacket, Lose
  <2>2. pk \in network[q]
    BY <1>2, <2>1 DEF DataTypeOK
  <2> QED BY <2>2 DEF q
<1> QED BY <1>1, <1>2, <1>4, <1>5, <1>6, <1>7, <1>8, <1>9, <1>10 DEF Writes, q

\* The segments of p, wherever they are, say the truth after every step.
LEMMA WindowIsTrue ==
    ASSUME TeardownTypes, TeardownNext, NEW p \in Peer, SegmentsAreTrue(p), SegmentIsBuilt(p)
    PROVE  /\ \A k \in 1..Len(queue'[p]) : TrueNext(p, queue'[p][k])
           /\ \A e \in pending'[p] : TrueNext(p, e.packet)
           /\ \A t \in Thread : pc'[p][t] \in {"insert", "transmit"} =>
                TrueNext(p, packet'[p][t])
           /\ TrueNext(p, fin_packet'[p])
<1>1. DataTypeOK /\ TeardownPcOK /\ TeardownTypeOK
  BY DEF TeardownTypes
<1>2. ASSUME NEW pk \in TTPPacket, IsTrue(p, pk)
      PROVE  TrueNext(p, pk)
  BY <1>2, TruthStays
<1>4. ASSUME NEW j \in 1..Len(queue[p])
      PROVE  TrueNext(p, queue[p][j])
  <2>1. queue[p][j] \in TTPPacket
    BY <1>1 DEF DataTypeOK
  <2>2. IsTrue(p, queue[p][j])
    BY DEF SegmentsAreTrue
  <2> QED BY <1>2, <2>1, <2>2
<1>5. ASSUME NEW t \in Thread, pc[p][t] \in {"insert", "transmit"}
      PROVE  TrueNext(p, packet[p][t])
  <2>1. packet[p][t] \in TTPPacket /\ IsTrue(p, packet[p][t])
    BY <1>1, <1>5 DEF SegmentsAreTrue, DataTypeOK
  <2> QED BY <1>2, <2>1
<1>6. ASSUME NEW k \in 1..Len(queue'[p])
      PROVE  TrueNext(p, queue'[p][k])
  <2>1. ASSUME NEW pk \in TTPPacket, pk.flags = {"DATA"}, pk.ack <= recv_next'[p],
               End(pk) <= send_next'[p], sent'[p] # << >>
        PROVE  TrueNext(p, pk)
    BY <2>1 DEF TrueNext
  <2>2. \/ \E j \in 1..Len(queue[p]) : queue'[p][k] = queue[p][j]
        \/ \E pk \in TTPPacket :
             /\ pk.flags = {"DATA"} /\ pk.ack <= recv_next'[p] /\ End(pk) <= send_next'[p]
             /\ sent'[p] # << >>
             /\ queue'[p][k] = pk
    BY QueueFrame
  <2>3. CASE \E j \in 1..Len(queue[p]) : queue'[p][k] = queue[p][j]
    BY <1>4, <2>3
  <2> QED BY <2>1, <2>2, <2>3
<1>7. ASSUME NEW e \in pending'[p]
      PROVE  TrueNext(p, e.packet)
  <2>1. ASSUME e \in pending[p]
        PROVE  TrueNext(p, e.packet)
    <3>1. e.packet \in TTPPacket /\ IsTrue(p, e.packet)
      BY <1>1, <2>1 DEF SegmentsAreTrue, DataTypeOK, PendingEntry
    <3> QED BY <1>2, <3>1
  <2> QED BY <1>1, <1>5, <2>1, EntryFrame
<1>8. ASSUME NEW t \in Thread, pc'[p][t] \in {"insert", "transmit"}
      PROVE  TrueNext(p, packet'[p][t])
  BY <1>1, <1>4, <1>5, <1>8, HandFrame
<1>9. TrueNext(p, fin_packet'[p])
  <2>1. CASE fin_packet'[p] = fin_packet[p]
    <3>1. fin_packet[p] \in TTPPacket /\ IsTrue(p, fin_packet[p])
      BY <1>1 DEF SegmentsAreTrue, TeardownTypeOK
    <3> QED BY <1>2, <2>1, <3>1
  <2>2. ASSUME NEW fin \in TTPPacket, fin.flags = {"FIN"}, fin.ack <= recv_next'[p],
               End(fin) <= send_next'[p]
        PROVE  TrueNext(p, fin)
    BY <2>2 DEF TrueNext
  <2> QED BY <2>1, <2>2, FinFrame
<1> QED BY <1>6, <1>7, <1>8, <1>9

LEMMA WayIsTrue ==
    ASSUME TeardownTypes, TeardownNext, NEW p \in Peer, SegmentsAreTrue(p), SegmentIsBuilt(p),
           AnswersAreTrue(p)
    PROVE  /\ \A pk \in network'[Other(p)] : TrueNext(p, pk)
           /\ TrueNext(p, current'[Other(p)])
           /\ \A pk \in out_of_order'[Other(p)] : TrueNext(p, pk)
<1>1. DataTypeOK /\ TeardownPcOK /\ TeardownTypeOK
  BY DEF TeardownTypes
<1>2. PICK b \in Peer, u \in Thread : Writes(b, u)
  BY WhoWrites
<1>3. ASSUME NEW pk \in TTPPacket, IsTrue(p, pk)
      PROVE  TrueNext(p, pk)
  BY <1>3, TruthStays
<1> DEFINE q == Other(p)
<1>4. q \in Peer /\ Other(q) = p /\ q # p
  BY OtherPeer
<1> HIDE DEF q
<1>5. ASSUME NEW pk \in network[q]
      PROVE  TrueNext(p, pk)
  <2>1. pk \in TTPPacket /\ IsTrue(p, pk)
    BY <1>1, <1>4 DEF q, SegmentsAreTrue, DataTypeOK
  <2> QED BY <1>3, <2>1
<1>6. current[q] \in TTPPacket /\ TrueNext(p, current[q])
  <2>1. current[q] \in TTPPacket /\ IsTrue(p, current[q])
    BY <1>1, <1>4 DEF q, SegmentsAreTrue, DataTypeOK
  <2> QED BY <1>3, <2>1
<1>7. ASSUME NEW pk \in out_of_order[q]
      PROVE  TrueNext(p, pk)
  <2>1. pk \in TTPPacket /\ IsTrue(p, pk)
    BY <1>1, <1>4 DEF q, SegmentsAreTrue, DataTypeOK
  <2> QED BY <1>3, <2>1
<1>8. ASSUME NEW pk \in network'[q]
      PROVE  TrueNext(p, pk)
  <2>1. CASE \E t \in Thread : pc[p][t] = "transmit" /\ pk = packet[p][t]
    <3>1. PICK t \in Thread : pc[p][t] = "transmit" /\ pk = packet[p][t]
      BY <2>1
    <3>2. packet[p][t] \in TTPPacket /\ IsTrue(p, packet[p][t])
      BY <1>1, <3>1 DEF SegmentsAreTrue, DataTypeOK
    <3> QED BY <1>3, <3>1, <3>2
  <2>2. CASE \E e \in pending[p] : pk = e.packet
    <3>1. ASSUME NEW e \in pending[p]
          PROVE  e.packet \in TTPPacket /\ IsTrue(p, e.packet)
      BY <1>1 DEF SegmentsAreTrue, DataTypeOK, PendingEntry
    <3> QED BY <1>3, <2>2, <3>1
  <2>3. CASE At(p, "receiver", "reply") /\ pk = BuildPacket(p, {"ACK"}, NoPayload)
    <3>1. pk \in TTPPacket /\ pk.flags = {"ACK"} /\ pk.payload = NoPayload
          /\ pk.seq = send_next[p] /\ pk.ack = recv_next[p]
      BY <1>1, <2>3, BuiltSays DEF TTPFlags
    <3>2. SequenceSpace(pk) = 0
      BY <3>1, ControlSpace
    <3>3. sent[Other(p)] # << >>
      BY <2>3 DEF AnswersAreTrue, At
    <3>4. End(pk) = send_next[p]
      BY <3>1, <3>2, Growth DEF End
    <3>5. IsTrue(p, pk)
      BY <3>1, <3>3, <3>4, Growth DEF IsTrue
    <3> QED BY <1>3, <3>1, <3>5
  <2>4. CASE pk = fin_packet[p]
    <3>1. fin_packet[p] \in TTPPacket /\ IsTrue(p, fin_packet[p])
      BY <1>1 DEF SegmentsAreTrue, TeardownTypeOK
    <3> QED BY <1>3, <2>4, <3>1
  <2>5. CASE /\ \/ SendFinAck(p) /\ GoTo(p, "receiver", "signal")
                \/ SendFinReply(p)
             /\ pk = packet[p]["receiver"]
    <3>1. \/ At(p, "receiver", "fin_ack_built") /\ GoTo(p, "receiver", "signal")
          \/ At(p, "receiver", "fin_reply_built")
      BY <2>5 DEF SendFinAck, SendFinReply, SendFromReceiver
    <3>3. /\ \/ At(p, "receiver", "fin_ack_built")
             \/ pk.flags = {"FIN"}
          /\ "DATA" \notin pk.flags
      BY <2>5, <3>1 DEF SegmentIsBuilt, At
    <3>6. End(pk) <= send_next'[p] /\ pk.ack <= recv_next'[p]
      BY <2>5, CountedFits DEF Counts, Thread
    <3>7. "ACK" \in pk.flags => HasHeardFin(p)'
      <4>1. CASE GoTo(p, "receiver", "signal")
        BY <1>1, <4>1, TeardownGoTo DEF HasHeardFin, At, Thread
      <4>2. CASE At(p, "receiver", "fin_reply_built")
        <5>1. pk.flags = {"FIN"}
          BY <3>3, <4>2 DEF At
        <5> QED BY <5>1
      <4> QED BY <3>1, <4>1, <4>2
    <3> QED BY <3>3, <3>6, <3>7 DEF TrueNext
  <2> QED
    <3>1. pk \in network'[Other(p)] /\ \A x \in network[Other(p)] : TrueNext(p, x)
      BY <1>5, <1>8 DEF q
    <3> QED BY <1>1, <2>1, <2>2, <2>3, <2>4, <2>5, <3>1, WayFrame
<1>9. TrueNext(p, current'[q])
  <2>1. \/ current'[q] = current[q]
        \/ current'[q] = NoPacket
        \/ current'[q] \in network[q]
    <3>1. CASE ReadPacket(b)
      BY <1>1, <1>4, <3>1 DEF ReadPacket, DataTypeOK
    <3>2. CASE ProcessAck(b) \/ ProcessData(b) \/ FinAcknowledged(b) \/ ProcessFin(b)
      <4>1. current' = [current EXCEPT ![b] = NoPacket]
        BY <3>2 DEF ProcessAck, ProcessData, FinAcknowledged, ProcessFin
      <4> QED BY <1>1, <1>4, <4>1 DEF DataTypeOK
    <3> QED BY <1>2, <3>1, <3>2 DEF Writes
  <2> QED BY <1>5, <1>6, <2>1, NoPacketIsTrue
<1>10. ASSUME NEW pk \in out_of_order'[q]
       PROVE  TrueNext(p, pk)
  <2>1. pk \in out_of_order[q] \/ pk = current[q]
    <3>1. CASE ProcessData(b)
      <4>1. \/ out_of_order' = out_of_order
            \/ out_of_order' = [out_of_order EXCEPT ![b] =
                 {x \in @ : x.seq # current[b].seq} \cup {current[b]}]
        BY <3>1 DEF ProcessData, Store
      <4>2. \/ out_of_order'[q] = out_of_order[q]
            \/ out_of_order'[q] =
                 {x \in out_of_order[q] : x.seq # current[q].seq} \cup {current[q]}
        <5>1. q \in DOMAIN out_of_order
          BY <1>1, <1>4 DEF DataTypeOK
        <5>2. CASE b = q BY <4>1, <5>1, <5>2
        <5>3. CASE b # q BY <4>1, <5>1, <5>3
        <5> QED BY <5>2, <5>3
      <4> QED BY <1>10, <4>2
    <3>2. CASE FlushOutOfOrder(b)
      BY <1>1, <1>4, <1>10, <3>2 DEF FlushOutOfOrder, receiveVars, DataTypeOK
    <3> QED BY <1>2, <1>10, <3>1, <3>2 DEF Writes
  <2> QED BY <1>6, <1>7, <2>1
<1> QED BY <1>8, <1>9, <1>10 DEF q

LEMMA SegmentsStep ==
    ASSUME TeardownTypes, TeardownNext, NEW p \in Peer, SegmentsAreTrue(p), SegmentIsBuilt(p),
           AnswersAreTrue(p)
    PROVE  SegmentsAreTrue(p)'
<1>1. /\ \A k \in 1..Len(queue'[p]) : TrueNext(p, queue'[p][k])
      /\ \A e \in pending'[p] : TrueNext(p, e.packet)
      /\ \A t \in Thread : pc'[p][t] \in {"insert", "transmit"} => TrueNext(p, packet'[p][t])
      /\ TrueNext(p, fin_packet'[p])
  BY WindowIsTrue
<1>2. /\ \A pk \in network'[Other(p)] : TrueNext(p, pk)
      /\ TrueNext(p, current'[Other(p)])
      /\ \A pk \in out_of_order'[Other(p)] : TrueNext(p, pk)
  BY WayIsTrue
<1> QED BY <1>1, <1>2, Zenon DEF SegmentsAreTrue, IsTrue, TrueNext

\* A segment a thread has built stays as it was built, and its number given out or the
\* next one.
LEMMA BuiltStep ==
    ASSUME TeardownTypes, TeardownNext, NEW p \in Peer, SegmentIsBuilt(p)
    PROVE  SegmentIsBuilt(p)'
<1>1. DataTypeOK /\ TeardownPcOK /\ "app" \in Thread /\ "receiver" \in Thread
  BY DEF TeardownTypes, Thread
<1>2. /\ send_next[p] \in Nat /\ send_next'[p] \in Nat /\ send_next[p] <= send_next'[p]
      /\ recv_next[p] \in Nat /\ recv_next'[p] \in Nat /\ recv_next[p] <= recv_next'[p]
  BY Growth
<1>3. /\ pc'[p]["app"] \in {"chunk_built", "fin_built"} \/ pc'[p]["app"] \notin BuiltLabel
      /\ pc[p]["app"] \in {"chunk_built", "fin_built"} \/ pc[p]["app"] \notin BuiltLabel
      /\ pc[p]["receiver"] \in {"fin_ack_built", "fin_reply_built"}
         \/ pc[p]["receiver"] \notin BuiltLabel
  <2>1. TeardownPcOK'
    BY TeardownTypesStep DEF TeardownTypes
  <2> QED
    BY <1>1, <2>1
    DEF TeardownPcOK, TeardownAppLabel, TeardownReceiverLabel, CloseLabel, FinLabel, AppLabel,
        ReceiverLabel, FlushLabel, BuiltLabel
<1>4. ASSUME NEW t \in Thread, pc'[p][t] \in BuiltLabel
      PROVE  /\ packet'[p][t].ack <= recv_next'[p] /\ packet'[p][t].seq <= send_next'[p]
             /\ BuiltAs(pc'[p][t], packet'[p][t])
  <2>1. CASE pc'[p][t] = pc[p][t] /\ packet'[p][t] = packet[p][t]
    <3>1. packet[p][t].ack <= recv_next[p] /\ packet[p][t].seq <= send_next[p]
      BY <1>4, <2>1 DEF SegmentIsBuilt
    <3>2. packet[p][t].ack \in Nat /\ packet[p][t].seq \in Nat
      BY <1>1 DEF DataTypeOK, TTPPacket
    <3>3. BuiltAs(pc[p][t], packet[p][t])
      BY <1>3, <1>4, <2>1 DEF SegmentIsBuilt, BuiltAs, BuiltLabel, At, Thread
    <3> QED BY <1>2, <2>1, <3>1, <3>2, <3>3
  <2>2. ASSUME NEW pk \in TTPPacket, packet'[p][t] = pk, pk.seq = send_next[p],
               pk.ack = recv_next[p], BuiltAs(pc'[p][t], pk)
        PROVE  /\ packet'[p][t].ack <= recv_next'[p] /\ packet'[p][t].seq <= send_next'[p]
               /\ BuiltAs(pc'[p][t], packet'[p][t])
    BY <1>2, <2>2
  <2> QED BY <1>1, <1>4, <2>1, <2>2, BuiltFrame
<1>5. /\ pc'[p]["app"] \in BuiltLabel => BuiltAs(pc'[p]["app"], packet'[p]["app"])
      /\ pc'[p]["receiver"] \in BuiltLabel =>
           BuiltAs(pc'[p]["receiver"], packet'[p]["receiver"])
  BY <1>1, <1>4
<1>6. \A t \in Thread : pc'[p][t] \in BuiltLabel =>
        packet'[p][t].ack <= recv_next'[p] /\ packet'[p][t].seq <= send_next'[p]
  BY <1>4
<1>7. /\ pc'[p]["app"] = "chunk_built" => packet'[p]["app"].flags = {"DATA"}
      /\ pc'[p]["app"] = "fin_built" =>
           packet'[p]["app"].flags = {"FIN"} /\ packet'[p]["app"].payload = NoPayload
      /\ pc'[p]["receiver"] \in {"fin_ack_built", "fin_reply_built"} =>
           /\ packet'[p]["receiver"].payload = NoPayload
           /\ packet'[p]["receiver"].flags =
                IF pc'[p]["receiver"] = "fin_ack_built" THEN {"FIN", "ACK"} ELSE {"FIN"}
  BY <1>5 DEF BuiltAs, BuiltLabel
<1> QED BY <1>6, <1>7 DEF SegmentIsBuilt, At

\* An ACK is sent, and looked at, for the reasons there are.
LEMMA AnswersStep ==
    ASSUME TeardownTypes, TeardownNext, NEW p \in Peer, AnswersAreTrue(p),
           SegmentsAreTrue(Other(p))
    PROVE  AnswersAreTrue(p)'
<1>1. DataTypeOK /\ TeardownPcOK /\ TeardownTypeOK
  BY DEF TeardownTypes
<1>2. PICK b \in Peer, u \in Thread : Writes(b, u)
  BY WhoWrites
<1>3. Other(p) \in Peer /\ Other(Other(p)) = p
  BY OtherPeer
<1>4. IsTrue(Other(p), current[p])
  BY <1>3 DEF SegmentsAreTrue
<1>5. "app" \in Thread /\ "receiver" \in Thread
  BY DEF Thread
<1>6. PICK c \in Peer :
        (Transfers(c) /\ UNCHANGED teardownVars) \/ AppEnds(c) \/ ReceiverEnds(c)
  BY TeardownSteps
<1>7. ASSUME pc'[p]["receiver"] \in {"drain", "reply"}
      PROVE  sent'[Other(p)] # << >>
  <2>1. \/ pc[p]["receiver"] \in {"drain", "reply"}
        \/ "DATA" \in current[p].flags
    BY <1>1, <1>5, <1>6, <1>7, TransferMoves, AppMoves, ReceiverMoves DEF FinLabel
  <2>2. sent[Other(p)] # << >>
    BY <1>4, <2>1 DEF AnswersAreTrue, IsTrue
  <2> QED BY <1>3, <2>2, Growth
<1>8. ASSUME pc'[p]["receiver"] \in {"ack", "data"}
      PROVE  "ACK" \in current'[p].flags <=> pc'[p]["receiver"] = "ack"
  <2>1. \/ pc[p]["receiver"] = pc'[p]["receiver"]
        \/ CheckRetransmission(p) /\ ("ACK" \in current[p].flags <=> pc'[p]["receiver"] = "ack")
    BY <1>1, <1>5, <1>6, <1>8, TransferMoves, AppMoves, ReceiverMoves DEF FinLabel
  <2>2. CASE /\ CheckRetransmission(p)
             /\ "ACK" \in current[p].flags <=> pc'[p]["receiver"] = "ack"
    BY <2>2 DEF CheckRetransmission
  <2>3. CASE pc[p]["receiver"] = pc'[p]["receiver"]
    <3>1. "ACK" \in current[p].flags <=> pc'[p]["receiver"] = "ack"
      BY <1>8, <2>3 DEF AnswersAreTrue, At
    <3>2. current'[p] = current[p]
      <4>1. CASE b = p /\ (ReadPacket(b) \/ ProcessAck(b) \/ FinAcknowledged(b)
                              \/ ProcessData(b) \/ ProcessFin(b))
        <5>1. \/ pc[p]["receiver"] = "reading" \/ pc'[p]["receiver"] # pc[p]["receiver"]
          BY <1>1, <1>5, <4>1, TeardownGoTo
          DEF ReadPacket, ProcessAck, FinAcknowledged, ProcessData, ProcessFin, At
        <5> QED BY <1>8, <2>3, <5>1
      <4>2. CASE b # p
        <5>1. current' = current \/ \E x : current' = [current EXCEPT ![b] = x]
          BY <1>2 DEF Writes, ReadPacket, ProcessAck, ProcessData, FinAcknowledged, ProcessFin
        <5> QED BY <1>1, <4>2, <5>1 DEF DataTypeOK
      <4> QED BY <1>2, <4>1, <4>2 DEF Writes
    <3> QED BY <3>1, <3>2
  <2> QED BY <2>1, <2>2, <2>3
<1>9. ASSUME fin_ack_received'[p]
      PROVE  sent'[p] # << >> \/ HasHeardFin(Other(p))'
  <2>1. fin_ack_received[p] \/ At(p, "receiver", "ack")
    BY <1>1, <1>2, <1>9 DEF Writes, FinAcknowledged, TeardownTypeOK
  <2>2. sent[p] # << >> \/ HasHeardFin(Other(p))
    <3>1. CASE fin_ack_received[p]
      BY <3>1 DEF AnswersAreTrue
    <3>2. CASE At(p, "receiver", "ack")
      BY <1>3, <1>4, <3>2 DEF AnswersAreTrue, IsTrue
    <3> QED BY <2>1, <3>1, <3>2
  <2> QED BY <1>3, <2>2, Growth
<1>10. ASSUME pc'[p]["app"] = "wait_fin"
       PROVE  fin_ack_received'[p]
  <2>1. pc[p]["app"] = "wait_fin" \/ fin_ack_received[p]
    BY <1>1, <1>5, <1>6, <1>10, TransferMoves, AppMoves, ReceiverMoves
    DEF AppLabel, ReceiverLabel, FlushLabel
  <2> QED BY <2>1, Growth DEF AnswersAreTrue, At
<1> QED BY <1>7, <1>8, <1>9, <1>10, Zenon DEF AnswersAreTrue, At

\* SND.UNA follows what the other side has accepted, which follows what was given out.
LEMMA OrderStep ==
    ASSUME TeardownTypes, TeardownNext, NEW p \in Peer, NumbersAreOrdered(p),
           SegmentsAreTrue(p), SegmentsAreTrue(Other(p))
    PROVE  NumbersAreOrdered(p)'
<1>1. DataTypeOK /\ TeardownPcOK /\ DataTypeOK'
  BY TeardownTypesStep DEF TeardownTypes
<1>2. PICK b \in Peer, u \in Thread : Writes(b, u)
  BY WhoWrites
<1> DEFINE q == Other(p)
<1>3. q \in Peer /\ Other(q) = p
  BY OtherPeer
<1>4. /\ send_unacked[p] \in Nat /\ send_unacked'[p] \in Nat
      /\ current[p] \in TTPPacket /\ current[p].ack \in Nat
  BY <1>1 DEF DataTypeOK, TTPPacket
<1>5. /\ send_next[p] \in Nat /\ send_next'[p] \in Nat /\ send_next[p] <= send_next'[p]
      /\ recv_next[q] \in Nat /\ recv_next'[q] \in Nat /\ recv_next[q] <= recv_next'[q]
  BY <1>3, Growth
<1>6. send_unacked[p] <= recv_next[q] /\ recv_next[q] <= send_next[p]
  BY DEF NumbersAreOrdered
<1>7. IsTrue(q, current[p]) /\ IsTrue(p, current[q])
      /\ \A pk \in out_of_order[q] : IsTrue(p, pk)
  BY <1>3 DEF SegmentsAreTrue
<1> HIDE DEF q
<1>8. send_unacked'[p] <= recv_next'[q]
  <2>1. send_unacked'[p] = send_unacked[p] \/ send_unacked'[p] = current[p].ack
    <3>1. CASE ProcessAck(b)
      <4>1. send_unacked' = [send_unacked EXCEPT ![b] = Acknowledged(@, current[b].ack)]
        BY <3>1 DEF ProcessAck
      <4> QED BY <1>1, <4>1 DEF Acknowledged, DataTypeOK
    <3> QED BY <1>2, <3>1 DEF Writes
  <2>2. current[p].ack <= recv_next[q]
    BY <1>7 DEF IsTrue
  <2> QED BY <1>4, <1>5, <1>6, <2>1, <2>2
<1>9. recv_next'[q] <= send_next'[p]
  <2>1. \/ recv_next'[q] = recv_next[q]
        \/ recv_next'[q] = End(current[q])
        \/ \E pk \in out_of_order[q] : recv_next'[q] = End(pk)
    <3>1. CASE ProcessData(b)
      <4>1. \/ recv_next' = recv_next
            \/ /\ recv_next[b] = current[b].seq
               /\ recv_next' = [recv_next EXCEPT ![b] = @ + SequenceSpace(current[b])]
        BY <3>1 DEF ProcessData, Accept, ReceiveStatus
      <4> QED BY <1>1, <1>3, <4>1 DEF End, DataTypeOK
    <3>2. CASE FlushOutOfOrder(b)
      <4>1. \/ recv_next' = recv_next
            \/ \E pk \in out_of_order[b] :
                 /\ recv_next[b] = pk.seq
                 /\ recv_next' = [recv_next EXCEPT ![b] = @ + SequenceSpace(pk)]
        BY <3>2 DEF FlushOutOfOrder, Accept
      <4> QED BY <1>1, <1>3, <4>1 DEF End, DataTypeOK
    <3>3. CASE ProcessFin(b)
      <4>1. recv_next' = [recv_next EXCEPT ![b] =
              IF recv_next[b] = current[b].seq THEN @ + SequenceSpace(current[b]) ELSE @]
        BY <3>3 DEF ProcessFin, ReceiveStatus
      <4> QED BY <1>1, <1>3, <4>1 DEF End, DataTypeOK
    <3> QED BY <1>2, <3>1, <3>2, <3>3 DEF Writes
  <2>2. End(current[q]) <= send_next[p]
        /\ \A pk \in out_of_order[q] : End(pk) <= send_next[p]
    BY <1>7 DEF IsTrue
  <2>3. CASE recv_next'[q] = recv_next[q]
    BY <1>5, <1>6, <2>3
  <2>4. CASE recv_next'[q] <= send_next[p]
    BY <1>5, <2>4
  <2> QED BY <2>1, <2>2, <2>3, <2>4
<1> QED BY <1>8, <1>9 DEF NumbersAreOrdered, q

-----------------------------------------------------------------------------
(* The invariant and what it says *)

\* Two connections that have just been established have sent nothing yet.
LEMMA TeardownInvInit == ASSUME TeardownInit PROVE TeardownInv
<1>1. TeardownTypes
  BY TeardownTypesInit
<1>2. Init
  BY DEF TeardownInit
<1>3. ASSUME NEW p \in Peer
      PROVE  NumbersAreOrdered(p)
  <2>1. Other(p) \in Peer /\ Other(Other(p)) = p
    BY OtherPeer
  <2>2. ISN[p] \in Nat
    BY TransferAssumption
  <2> QED BY <1>2, <2>1, <2>2 DEF Init, NumbersAreOrdered
<1>4. ASSUME NEW p \in Peer
      PROVE  IsTrue(p, NoPacket)
  <2>1. NoPacket.flags = {} /\ NoPacket.ack = 0 /\ NoPacket.seq = 0
        /\ NoPacket.payload = NoPayload
    BY DEF NoPacket
  <2>2. SequenceSpace(NoPacket) = 0
    BY <2>1, ControlSpace
  <2>3. send_next[p] \in Nat /\ recv_next[p] \in Nat
    BY <1>1 DEF TeardownTypes, DataTypeOK
  <2> HIDE DEF NoPacket
  <2> QED BY <2>1, <2>2, <2>3 DEF IsTrue, End
<1>5. ASSUME NEW p \in Peer
      PROVE  /\ pc[p]["app"] = "idle" /\ pc[p]["receiver"] = "wait"
             /\ queue[p] = << >> /\ pending[p] = {} /\ network[Other(p)] = {}
             /\ out_of_order[Other(p)] = {} /\ current[Other(p)] = NoPacket
             /\ fin_packet[p] = NoPacket /\ fin_ack_received[p] = FALSE
  BY <1>2, OtherPeer DEF TeardownInit, Init, Thread
<1>6. ASSUME NEW p \in Peer
      PROVE  SegmentsAreTrue(p)
  <2>1. \A t \in Thread : pc[p][t] \notin {"insert", "transmit"}
    BY <1>5 DEF Thread
  <2>2. 1..0 = {}
    OBVIOUS
  <2>3. queue[p] = << >> /\ Len(<< >>) = 0
    <3>1. queue[p] = << >>
      BY <1>5
    <3>2. Len(<< >>) = 0
      OBVIOUS
    <3> QED BY <3>1, <3>2
  <2>4. /\ \A k \in 1..Len(queue[p]) : IsTrue(p, queue[p][k])
        /\ \A e \in pending[p] : IsTrue(p, e.packet)
        /\ \A pk \in network[Other(p)] : IsTrue(p, pk)
        /\ \A pk \in out_of_order[Other(p)] : IsTrue(p, pk)
    BY <1>5, <2>2, <2>3, Zenon
  <2>5. IsTrue(p, fin_packet[p]) /\ IsTrue(p, current[Other(p)])
    BY <1>4, <1>5
  <2> QED BY <2>1, <2>4, <2>5 DEF SegmentsAreTrue
<1>7. ASSUME NEW p \in Peer
      PROVE  SegmentIsBuilt(p) /\ AnswersAreTrue(p)
  BY <1>5 DEF SegmentIsBuilt, BuiltLabel, AnswersAreTrue, At, Thread
<1> QED BY <1>1, <1>3, <1>6, <1>7 DEF TeardownInv

LEMMA TeardownInvStep == ASSUME TeardownInv, TeardownNext PROVE TeardownInv'
<1>1. TeardownTypes
  BY DEF TeardownInv
<1>2. ASSUME NEW p \in Peer
      PROVE  /\ SegmentsAreTrue(p)' /\ SegmentIsBuilt(p)' /\ AnswersAreTrue(p)'
             /\ NumbersAreOrdered(p)'
  <2>1. /\ SegmentsAreTrue(p) /\ SegmentIsBuilt(p) /\ AnswersAreTrue(p) /\ NumbersAreOrdered(p)
        /\ SegmentsAreTrue(Other(p))
    BY OtherPeer DEF TeardownInv
  <2> QED BY <1>1, <2>1, SegmentsStep, BuiltStep, AnswersStep, OrderStep
<1>3. TeardownTypes'
  BY <1>1, TeardownTypesStep
<1> QED BY <1>2, <1>3 DEF TeardownInv

\* The whole life of the connections keeps the invariant: what a segment says of the
\* peer that sent it is true for as long as anybody can still read it.
THEOREM TeardownInvariance == TeardownSpec => []TeardownInv
<1>1. TeardownInit => TeardownInv
  BY TeardownInvInit
<1>2. TeardownInv /\ [TeardownNext]_allVars => TeardownInv'
  <2> SUFFICES ASSUME TeardownInv, [TeardownNext]_allVars PROVE TeardownInv'
    OBVIOUS
  <2>1. CASE TeardownNext
    BY <2>1, TeardownInvStep
  <2>2. CASE UNCHANGED allVars
    <3>1. UNCHANGED <<send_unacked, send_next, recv_next, queue, pending, inserted,
                      retransmission, out_of_order, buffer, network, pc, packet, current,
                      sent, received, state, fin_packet, fin_retransmission,
                      fin_ack_received, fin_received, socket_open>>
      BY <2>2
      DEF allVars, transferVars, vars, teardownVars, finVars, sequenceVars, windowVars,
          receiveVars, historyVars
    <3>2. TeardownTypes'
      BY <3>1 DEF TeardownInv, TeardownTypes, DataTypeOK, TeardownPcOK, TeardownTypeOK, At
    <3>3. ASSUME NEW p \in Peer
          PROVE  /\ SegmentsAreTrue(p)' /\ SegmentIsBuilt(p)' /\ AnswersAreTrue(p)'
                 /\ NumbersAreOrdered(p)'
      <4>1. /\ SegmentsAreTrue(p) /\ SegmentIsBuilt(p) /\ AnswersAreTrue(p)
            /\ NumbersAreOrdered(p)
        BY DEF TeardownInv
      <4> QED
        BY <3>1, <4>1
        DEF SegmentsAreTrue, SegmentIsBuilt, AnswersAreTrue, NumbersAreOrdered, IsTrue,
            HasHeardFin, At
    <3> QED BY <3>2, <3>3 DEF TeardownInv
  <2> QED BY <2>1, <2>2
<1> QED BY <1>1, <1>2, PTL DEF TeardownSpec

\* Type correctness: closing, from either side and in any order with the data, keeps
\* every variable a value of its type, retransmits a FIN MaxRetries times at most, and
\* never sends from the receiver anything but a FIN it has built.
THEOREM TeardownTypeCorrect == TeardownSpec => []TeardownTypeOK
<1>1. TeardownInv => TeardownTypeOK
  BY DEF TeardownInv, TeardownTypes
<1> QED BY <1>1, TeardownInvariance, PTL

\* To the end of the connections an acknowledgement is never a lie, although FINs and
\* data are numbered by two threads without a lock and SND.UNA is moved by any ACK.
THEOREM AcknowledgementsStayTrue == TeardownSpec => []AcknowledgedIsReceived
<1>1. TeardownInv => AcknowledgedIsReceived
  BY DEF TeardownInv, NumbersAreOrdered, AcknowledgedIsReceived
<1> QED BY <1>1, TeardownInvariance, PTL

\* Without data the confirmation close() waits for means what it should: the other
\* side has taken the FIN, whatever is lost, delayed or sent again.
THEOREM ConfirmationMeansFin == TeardownSpec => []FinConfirmedWithoutData
<1>1. TeardownInv => FinConfirmedWithoutData
  BY DEF TeardownInv, AnswersAreTrue, HasHeardFin, FinConfirmedWithoutData
<1> QED BY <1>1, TeardownInvariance, PTL

-----------------------------------------------------------------------------
(* What FINs can still come: the numbers given to FINs *)

\* The segments of a sequence, as if all of them were pending at once.
Entries(s) == {[packet |-> s[i], position |-> i] : i \in DOMAIN s}

LEMMA EntriesType ==
    ASSUME NEW s \in Seq(TTPPacket)
    PROVE  /\ Entries(s) \in SUBSET PendingEntry
           /\ IsFiniteSet(Entries(s))
           /\ BytesInFlight(Entries(s)) \in Nat
<1> DEFINE f == [i \in 1..Len(s) |-> [packet |-> s[i], position |-> i]]
<1>1. Entries(s) \in SUBSET PendingEntry
  BY DEF Entries, PendingEntry
<1>2. f \in Surjection(1..Len(s), Entries(s))
  <2>1. \A i \in 1..Len(s) : f[i] \in Entries(s)
    BY DEF Entries
  <2>2. ASSUME NEW e \in Entries(s)
        PROVE  \E i \in 1..Len(s) : f[i] = e
    BY DEF Entries
  <2>3. f \in [1..Len(s) -> Entries(s)]
    BY <2>1
  <2> HIDE DEF f
  <2> QED BY <2>2, <2>3 DEF Surjection
<1>3. IsFiniteSet(1..Len(s))
  <2>1. Len(s) \in Int /\ 1 \in Int
    OBVIOUS
  <2> QED BY <2>1, FS_Interval
<1>4. IsFiniteSet(Entries(s))
  <2> HIDE DEF f
  <2> QED BY <1>2, <1>3, FS_Surjection
<1> QED BY <1>1, <1>4, BytesType

\* A segment more is its sequence space more.
LEMMA EntriesAppend ==
    ASSUME NEW s \in Seq(TTPPacket), NEW pk \in TTPPacket
    PROVE  BytesInFlight(Entries(Append(s, pk))) = BytesInFlight(Entries(s)) + SequenceSpace(pk)
<1> DEFINE n == Len(s) + 1
           e == [packet |-> pk, position |-> n]
           t == Append(s, pk)
<1>1. t \in Seq(TTPPacket) /\ n \in Nat
  OBVIOUS
<1>2. /\ DOMAIN t = DOMAIN s \cup {n} /\ n \notin DOMAIN s
      /\ t[n] = pk /\ \A i \in DOMAIN s : t[i] = s[i]
  <2>1. /\ DOMAIN s = 1..Len(s) /\ DOMAIN t = 1..n /\ Len(s) \in Nat
        /\ t[n] = pk /\ \A i \in 1..Len(s) : t[i] = s[i]
    OBVIOUS
  <2> HIDE DEF t
  <2> QED BY <2>1
<1>3. e.packet = pk /\ e.position = n
  OBVIOUS
<1> HIDE DEF t, n
<1>4. Entries(t) = Entries(s) \cup {e}
  BY <1>2 DEF Entries
<1>5. e \notin Entries(s)
  <2>1. \A x \in Entries(s) : x.position \in DOMAIN s
    BY DEF Entries
  <2> HIDE DEF e
  <2> QED BY <1>2, <1>3, <2>1
<1> HIDE DEF e
<1>6. e \in Entries(t) /\ Entries(t) \ {e} = Entries(s)
  BY <1>4, <1>5
<1>7. BytesInFlight(Entries(t)) = SequenceSpace(pk) + BytesInFlight(Entries(s))
  <2>1. Entries(t) \in SUBSET PendingEntry /\ IsFiniteSet(Entries(t))
    BY <1>1, EntriesType
  <2> QED BY <1>3, <1>6, <2>1, BytesRemove
<1>8. SequenceSpace(pk) \in Nat /\ BytesInFlight(Entries(s)) \in Nat
  BY SequenceSpaceType, EntriesType
<1> QED BY <1>7, <1>8 DEF t

\* The numbers given to FINs grow by one with the FIN of close(), the answer to a FIN
\* and the FIN that may follow it, and with nothing else.
LEMMA FinNumbersStep ==
    ASSUME TeardownInv, TeardownNext, NEW p \in Peer
    PROVE  /\ FinNumbers(p) \in Int /\ FinNumbers(p)' \in Int
           /\ \/ FinNumbers(p)' = FinNumbers(p)
              \/ /\ KeepFin(p) \/ SendFinAck(p) \/ SendFinReply(p)
                 /\ FinNumbers(p)' = FinNumbers(p) + 1
                 /\ send_next'[p] # send_next[p]
<1>1. TeardownTypes /\ DataTypeOK /\ TeardownTypeOK /\ DataTypeOK'
  BY TeardownTypesStep DEF TeardownInv, TeardownTypes
<1>2. PICK b \in Peer, u \in Thread : Writes(b, u)
  BY WhoWrites
<1> DEFINE bytes == BytesInFlight(Entries(sent[p]))
           bytesNext == BytesInFlight(Entries(sent'[p]))
<1>3. /\ FinNumbers(p) = send_next[p] - ISN[p] - 1 - bytes
      /\ FinNumbers(p)' = send_next'[p] - ISN[p] - 1 - bytesNext
  BY DEF FinNumbers, BuiltEntries, Entries
<1>4. sent[p] \in Seq(TTPPacket) /\ sent'[p] \in Seq(TTPPacket)
  BY <1>1 DEF DataTypeOK
<1>5. bytes \in Nat /\ bytesNext \in Nat
  BY <1>4, EntriesType
<1>6. send_next[p] \in Nat /\ send_next'[p] \in Nat /\ ISN[p] \in Nat
  BY <1>1, TransferAssumption DEF DataTypeOK
<1>7. CASE send_next'[p] = send_next[p] /\ sent'[p] = sent[p]
  BY <1>3, <1>5, <1>6, <1>7
<1>8. CASE EnqueueData(p)
  <2> DEFINE pk == packet[p]["app"]
  <2>1. /\ sent' = [sent EXCEPT ![p] = Append(@, pk)]
        /\ send_next' = [send_next EXCEPT ![p] = @ + SequenceSpace(pk)]
        /\ pk \in TTPPacket
    BY <1>1, <1>8 DEF EnqueueData, AdvanceSend, DataTypeOK, Thread
  <2> HIDE DEF pk
  <2>2. sent'[p] = Append(sent[p], pk) /\ send_next'[p] = send_next[p] + SequenceSpace(pk)
    BY <1>1, <2>1 DEF DataTypeOK
  <2>3. bytesNext = bytes + SequenceSpace(pk)
    BY <1>4, <2>1, <2>2, EntriesAppend
  <2>4. SequenceSpace(pk) \in Nat
    BY <2>1, SequenceSpaceType
  <2> DEFINE space == SequenceSpace(pk)
  <2>5. /\ FinNumbers(p) = send_next[p] - ISN[p] - 1 - bytes
        /\ FinNumbers(p)' = (send_next[p] + space) - ISN[p] - 1 - (bytes + space)
    BY <1>3, <2>2, <2>3
  <2>6. space \in Nat /\ bytes \in Nat /\ send_next[p] \in Nat /\ ISN[p] \in Nat
    BY <1>5, <1>6, <2>4
  <2> HIDE DEF bytes, bytesNext, space
  <2>7. FinNumbers(p) \in Int /\ FinNumbers(p)' = FinNumbers(p)
    BY <2>5, <2>6
  <2> QED BY <2>7
<1>9. ASSUME NEW pk \in TTPPacket, "FIN" \in pk.flags, "SYN" \notin pk.flags,
             pk.payload = NoPayload, sent'[p] = sent[p],
             send_next' = [send_next EXCEPT ![p] = @ + SequenceSpace(pk)]
      PROVE  FinNumbers(p)' = FinNumbers(p) + 1 /\ send_next'[p] # send_next[p]
  <2>1. SequenceSpace(pk) = 1
    BY <1>9, ControlSpace
  <2>2. send_next'[p] = send_next[p] + 1 /\ bytesNext = bytes
    BY <1>1, <1>9, <2>1 DEF DataTypeOK
  <2> HIDE DEF bytes, bytesNext
  <2> QED BY <1>3, <1>5, <1>6, <2>2
<1>10. ASSUME NEW t \in Thread, Counts(p, t), ~EnqueueData(p)
       PROVE  FinNumbers(p)' = FinNumbers(p) + 1 /\ send_next'[p] # send_next[p]
  <2> DEFINE fin == packet[p][t]
  <2>1. /\ pc[p][t] \in BuiltLabel /\ fin \in TTPPacket
        /\ send_next' = [send_next EXCEPT ![p] = @ + SequenceSpace(fin)]
    BY <1>1, <1>10, CountEffect DEF TeardownTypes
  <2>2. SegmentIsBuilt(p)
    BY DEF TeardownInv
  <2>3. \/ t = "app" /\ pc[p]["app"] = "fin_built"
        \/ t = "receiver" /\ pc[p]["receiver"] \in {"fin_ack_built", "fin_reply_built"}
    BY <1>10 DEF Counts, KeepFin, SendFinAck, SendFinReply, SendFromReceiver, At
  <2>4. "FIN" \in fin.flags /\ "SYN" \notin fin.flags /\ fin.payload = NoPayload
    BY <2>2, <2>3 DEF SegmentIsBuilt, At
  <2>5. sent' = sent
    BY <1>10 DEF Counts, KeepFin, SendFinAck, SendFinReply, SendFromReceiver, historyVars
  <2> HIDE DEF fin
  <2> QED BY <1>9, <2>1, <2>4, <2>5
<1>11. CASE KeepFin(p) \/ SendFinAck(p) \/ SendFinReply(p)
  <2>1. Counts(p, "app") \/ Counts(p, "receiver")
    BY <1>11 DEF Counts
  <2>2. ~EnqueueData(p)
    <3>1. ASSUME EnqueueData(p), KeepFin(p)
          PROVE  FALSE
      BY <3>1 DEF EnqueueData, KeepFin, At
    <3>2. ASSUME EnqueueData(p), SendFinAck(p) \/ SendFinReply(p)
          PROVE  FALSE
      <4>1. GoTo(p, "app", "building") /\ pc[p]["app"] = "chunk_built"
        BY <3>2 DEF EnqueueData, At
      <4>2. pc'[p]["receiver"] # pc[p]["receiver"]
        BY <1>1, <3>2, CountEffect DEF Counts, Thread, BuiltLabel, TeardownTypes
      <4> QED BY <1>1, <4>1, <4>2, TeardownGoTo DEF TeardownTypes, Thread
    <3> QED BY <1>11, <3>1, <3>2
  <2>3. FinNumbers(p)' = FinNumbers(p) + 1 /\ send_next'[p] # send_next[p]
    BY <1>10, <2>1, <2>2 DEF Thread
  <2> QED BY <1>3, <1>5, <1>6, <1>11, <2>3
<1>12. \/ send_next'[p] = send_next[p] /\ sent'[p] = sent[p]
       \/ EnqueueData(p) \/ KeepFin(p) \/ SendFinAck(p) \/ SendFinReply(p)
  <2>1. CASE b = p
    <3>1. UNCHANGED <<send_next, sent>> \/ EnqueueData(p) \/ Counts(p, u)
      BY <1>2, <2>1, Zenon DEF Writes
    <3> QED BY <3>1 DEF Counts
  <2>2. CASE b # p
    <3>1. sent' = sent \/ \E x : sent' = [sent EXCEPT ![b] = x]
      BY <1>2 DEF Writes, EnqueueData
    <3>2. send_next' = send_next \/ \E x : send_next' = [send_next EXCEPT ![b] = x]
      BY <1>1, <1>2, CountEffect DEF Writes, TeardownTypes
    <3> QED BY <1>1, <2>2, <3>1, <3>2 DEF DataTypeOK
  <2> QED BY <2>1, <2>2
<1> QED BY <1>3, <1>5, <1>6, <1>7, <1>8, <1>11, <1>12

-----------------------------------------------------------------------------
(* What FINs can still come: what each peer may still build and transmit *)

LEMMA OneType ==
    ASSUME NEW c \in BOOLEAN
    PROVE  One(c) \in 0..1 /\ (c => One(c) = 1) /\ (~c => One(c) = 0)
BY DEF One

\* Which statement leads to those of the teardown.
LEMMA ThreadMoves ==
    ASSUME TeardownPcOK, TeardownNext, NEW p \in Peer
    PROVE  /\ pc'[p]["app"] # pc[p]["app"] =>
                /\ pc'[p]["app"] = "closing" => state[p] = "ESTABLISHED"
                /\ pc'[p]["app"] = "send_fin" => StartClosing(p)
                /\ pc'[p]["app"] = "fin_built" => BuildFin(p)
                /\ pc'[p]["app"] = "transmit_fin" => KeepFin(p)
                /\ pc'[p]["app"] = "wait_fin_ack" => TransmitFin(p)
           /\ pc'[p]["receiver"] # pc[p]["receiver"] =>
                /\ pc[p]["receiver"] \notin {"dead", "ended"}
                /\ pc[p]["receiver"] = "fin_wait" => PassiveFinWait(p)
                /\ pc'[p]["receiver"] = "fin" => ProcessFin(p)
                /\ pc'[p]["receiver"] = "fin_ack_built" => BuildFinAck(p)
                /\ pc'[p]["receiver"] = "fin_reply" =>
                     pc[p]["receiver"] = "established" /\ state[p] = "ESTABLISHED"
                /\ pc'[p]["receiver"] = "fin_reply_built" => BuildFinReply(p)
<1>1. PICK b \in Peer :
        (Transfers(b) /\ UNCHANGED teardownVars) \/ AppEnds(b) \/ ReceiverEnds(b)
  BY TeardownSteps
<1>2. "app" \in Thread /\ "receiver" \in Thread
  BY DEF Thread
<1>3. {"closing", "send_fin", "fin_built", "transmit_fin", "wait_fin_ack", "fin",
       "fin_ack_built", "fin_reply", "fin_reply_built", "ended", "fin_wait"}
        \cap (AppLabel \cup ReceiverLabel) = {}
  BY DEF AppLabel, ReceiverLabel, FlushLabel
<1>4. ASSUME NEW t \in Thread, pc'[p][t] # pc[p][t], Transfers(b)
      PROVE  /\ pc[p][t] \in (AppLabel \cup ReceiverLabel) \ {"dead"}
             /\ pc'[p][t] \in AppLabel \cup ReceiverLabel
  BY <1>4, TransferMoves
<1>5. CASE Transfers(b)
  BY <1>2, <1>3, <1>4, <1>5
<1>6. CASE AppEnds(b)
  <2>1. pc'[p]["receiver"] = pc[p]["receiver"]
    BY <1>2, <1>6, AppMoves
  <2>2. pc'[p]["app"] # pc[p]["app"] =>
          /\ pc'[p]["app"] = "closing" => state[p] = "ESTABLISHED"
          /\ pc'[p]["app"] = "send_fin" => StartClosing(p)
          /\ pc'[p]["app"] = "fin_built" => BuildFin(p)
          /\ pc'[p]["app"] = "transmit_fin" => KeepFin(p)
          /\ pc'[p]["app"] = "wait_fin_ack" => TransmitFin(p)
    BY <1>2, <1>6, AppMoves, Zenon
  <2> QED BY <2>1, <2>2, Zenon
<1>7. CASE ReceiverEnds(b)
  BY <1>2, <1>7, ReceiverMoves
<1> QED BY <1>1, <1>5, <1>6, <1>7, Zenon

\* The state never goes back to ESTABLISHED.
LEMMA StateFrame ==
    ASSUME TeardownTypes, TeardownNext, NEW p \in Peer, state'[p] = "ESTABLISHED"
    PROVE  state[p] = "ESTABLISHED"
<1>1. PICK b \in Peer :
        (Transfers(b) /\ UNCHANGED teardownVars) \/ AppEnds(b) \/ ReceiverEnds(b)
  BY TeardownSteps
<1>2. \/ UNCHANGED state
      \/ \E s \in {"FIN_WAIT", "CLOSED"} : state' = [state EXCEPT ![b] = s]
  <2>1. CASE UNCHANGED teardownVars
    BY <2>1 DEF teardownVars
  <2>2. CASE AppEnds(b)
    BY <2>2
    DEF AppEnds, BuildData, EnqueueData, RecvCall, RecvReturns, CloseCall, StartClosing,
        BuildFin, BuildSegment, KeepFin, TransmitFin, WaitFinAck, WaitFin, CloseListener,
        teardownVars
  <2>3. CASE ReceiverEnds(b)
    BY <2>3
    DEF ReceiverEnds, EnterLoop, ReadPacket, SocketClosed, FinAcknowledged, ProcessFin,
        BuildFinAck, BuildFinReply, BuildSegment, SendFinAck, SendFinReply,
        SendFromReceiver, SignalFin, CheckEstablished, PassiveFinWait, teardownVars
  <2> QED BY <1>1, <2>1, <2>2, <2>3
<1> QED BY <1>2 DEF TeardownTypes, TeardownTypeOK

\* close() numbers its FIN once.
LEMMA CloseStep ==
    ASSUME TeardownTypes, TeardownNext, NEW p \in Peer, SegmentIsBuilt(p), CloseIsOnce(p)
    PROVE  /\ CloseIsOnce(p)'
           /\ KeepFin(p) => fin_packet[p] = NoPacket /\ fin_packet'[p] # NoPacket
           /\ ~KeepFin(p) => fin_packet'[p] = fin_packet[p]
<1>1. TeardownPcOK /\ TeardownTypeOK /\ DataTypeOK
  BY DEF TeardownTypes
<1>2. "app" \in Thread
  BY DEF Thread
<1>3. ASSUME KeepFin(p)
      PROVE  /\ fin_packet[p] = NoPacket /\ fin_packet'[p].flags = {"FIN"}
             /\ pc'[p]["app"] = "transmit_fin" /\ state'[p] # "ESTABLISHED"
  <2>1. At(p, "app", "fin_built") /\ GoTo(p, "app", "transmit_fin") /\ UNCHANGED state
        /\ fin_packet' = [fin_packet EXCEPT ![p] = packet[p]["app"]]
    BY <1>3 DEF KeepFin
  <2>2. packet[p]["app"].flags = {"FIN"}
    BY <2>1 DEF SegmentIsBuilt
  <2>3. fin_packet'[p].flags = {"FIN"}
    BY <1>1, <2>1, <2>2 DEF TeardownTypeOK
  <2>4. pc'[p]["app"] = "transmit_fin"
    BY <1>1, <1>2, <2>1, TeardownGoTo
  <2> QED BY <2>1, <2>3, <2>4 DEF CloseIsOnce, At
<1>4. NoPacket.flags = {}
  BY DEF NoPacket
<1> HIDE DEF NoPacket
<1>5. ~KeepFin(p) => fin_packet'[p] = fin_packet[p]
  BY FinFrame
<1>6. CASE KeepFin(p)
  BY <1>3, <1>4, <1>6 DEF CloseIsOnce, At
<1>7. CASE ~KeepFin(p)
  <2>1. ASSUME pc'[p]["app"] \in {"closing", "send_fin", "fin_built"}
        PROVE  fin_packet[p] = NoPacket
    <3>1. \/ pc[p]["app"] \in {"closing", "send_fin", "fin_built"} \/ state[p] = "ESTABLISHED"
          \/ StartClosing(p) \/ BuildFin(p)
      BY <1>1, <2>1, ThreadMoves
    <3> QED BY <3>1 DEF StartClosing, BuildFin, CloseIsOnce, At
  <2>2. ASSUME pc'[p]["app"] \in {"send_fin", "fin_built"}
        PROVE  state'[p] # "ESTABLISHED"
    <3>1. CASE pc[p]["app"] \in {"send_fin", "fin_built"}
      BY <3>1, StateFrame DEF CloseIsOnce, At
    <3>2. CASE StartClosing(p)
      BY <1>1, <3>2 DEF StartClosing, TeardownTypeOK
    <3>3. CASE BuildFin(p)
      BY <3>1, <3>3 DEF BuildFin, At
    <3> QED BY <1>1, <2>2, <3>1, <3>2, <3>3, ThreadMoves
  <2>3. ASSUME pc'[p]["app"] \in {"transmit_fin", "wait_fin_ack"}
        PROVE  "FIN" \in fin_packet[p].flags
    <3>1. pc[p]["app"] \in {"transmit_fin", "wait_fin_ack"} \/ TransmitFin(p)
      BY <1>1, <1>7, <2>3, ThreadMoves
    <3> QED BY <3>1 DEF TransmitFin, CloseIsOnce, At
  <2>4. state'[p] = "ESTABLISHED" => fin_packet[p] = NoPacket
    BY StateFrame DEF CloseIsOnce
  <2> QED BY <1>5, <1>7, <2>1, <2>2, <2>3, <2>4 DEF CloseIsOnce, At
<1> QED BY <1>3, <1>4, <1>5, <1>6, <1>7

LEMMA CloseIsLeftStep ==
    ASSUME TeardownTypes, TeardownNext, NEW p \in Peer, SegmentIsBuilt(p), CloseIsOnce(p)
    PROVE  /\ CloseIsLeft(p) \in Nat /\ CloseIsLeft(p)' \in Nat
           /\ CloseIsLeft(p)' <= CloseIsLeft(p)
           /\ KeepFin(p) => CloseIsLeft(p)' + 1 = CloseIsLeft(p)
BY CloseStep DEF CloseIsLeft, One

\* _process_fin() answers with a FIN of its own once.
LEMMA ReplyIsLeftStep ==
    ASSUME TeardownTypes, TeardownNext, NEW p \in Peer
    PROVE  /\ ReplyIsLeft(p) \in Nat /\ ReplyIsLeft(p)' \in Nat
           /\ ReplyIsLeft(p)' <= ReplyIsLeft(p)
           /\ SendFinReply(p) => ReplyIsLeft(p)' + 1 = ReplyIsLeft(p)
<1>1. TeardownPcOK /\ TeardownTypeOK
  BY DEF TeardownTypes
<1>2. "receiver" \in Thread
  BY DEF Thread
<1> DEFINE r == pc[p]["receiver"]
           s == pc'[p]["receiver"]
           May == \/ r \in {"fin_reply", "fin_reply_built"}
                  \/ state[p] = "ESTABLISHED" /\ r \notin {"fin_wait", "dead", "ended"}
           MayNext == \/ s \in {"fin_reply", "fin_reply_built"}
                      \/ state'[p] = "ESTABLISHED" /\ s \notin {"fin_wait", "dead", "ended"}
<1>3. ReplyIsLeft(p) = One(May) /\ ReplyIsLeft(p)' = One(MayNext)
  BY DEF ReplyIsLeft
<1>4. ASSUME MayNext
      PROVE  May
  <2>1. CASE s = r
    BY <1>4, <2>1, StateFrame
  <2>2. CASE s = "fin_reply" /\ s # r
    BY <1>1, <2>2, ThreadMoves
  <2>3. CASE s = "fin_reply_built" /\ s # r
    <3>1. BuildFinReply(p)
      BY <1>1, <2>3, ThreadMoves
    <3> QED BY <3>1 DEF BuildFinReply, BuildSegment, At
  <2>4. CASE /\ state'[p] = "ESTABLISHED" /\ s \notin {"fin_wait", "dead", "ended"} /\ s # r
    <3>1. state[p] = "ESTABLISHED"
      BY <2>4, StateFrame
    <3>2. r \notin {"dead", "ended"} /\ (r = "fin_wait" => PassiveFinWait(p))
      BY <1>1, <2>4, ThreadMoves
    <3>3. ~PassiveFinWait(p)
      BY <1>1, <2>4 DEF PassiveFinWait, TeardownTypeOK
    <3> QED BY <3>1, <3>2, <3>3
  <2> QED BY <1>4, <2>1, <2>2, <2>3, <2>4
<1>5. ASSUME SendFinReply(p)
      PROVE  May /\ ~MayNext
  <2>1. r = "fin_reply_built" /\ s \in {"fin_wait", "ended", "dead"}
    BY <1>1, <1>2, <1>5, TeardownGoTo DEF SendFinReply, SendFromReceiver, At
  <2> QED BY <2>1
<1> HIDE DEF May, MayNext
<1> QED BY <1>3, <1>4, <1>5 DEF One

\* close() transmits its FIN and retransmits it until the retries are exhausted.
LEMMA TransmissionsLeftStep ==
    ASSUME TeardownTypes, TeardownNext, NEW p \in Peer, SegmentIsBuilt(p), CloseIsOnce(p)
    PROVE  /\ TransmissionsLeft(p) \in Nat /\ TransmissionsLeft(p)' \in Nat
           /\ TransmissionsLeft(p)' <= TransmissionsLeft(p)
           /\ TransmitFin(p) \/ WaitFinAck(p) =>
                TransmissionsLeft(p)' + 1 <= TransmissionsLeft(p) \/ UNCHANGED network
<1>1. TeardownPcOK /\ TeardownTypeOK
  BY DEF TeardownTypes
<1>2. "app" \in Thread
  BY DEF Thread
<1> DEFINE a == pc[p]["app"]
           c == pc'[p]["app"]
           retries == fin_retransmission[p].retries
           retriesNext == fin_retransmission'[p].retries
<1>3. /\ TransmissionsLeft(p) =
           IF fin_packet[p] = NoPacket \/ a = "transmit_fin" THEN 1 + MaxRetries
           ELSE IF a = "wait_fin_ack" THEN MaxRetries - retries ELSE 0
      /\ TransmissionsLeft(p)' =
           IF fin_packet'[p] = NoPacket \/ c = "transmit_fin" THEN 1 + MaxRetries
           ELSE IF c = "wait_fin_ack" THEN MaxRetries - retriesNext ELSE 0
  BY DEF TransmissionsLeft, At
<1>4. /\ retries \in Nat /\ retries <= MaxRetries
      /\ retriesNext \in Nat /\ retriesNext <= MaxRetries
  BY <1>1, TeardownVariables DEF TeardownTypeOK, RetransmissionManager
<1>5. MaxRetries \in Nat
  BY MaxRetriesAssumption
<1>6. /\ KeepFin(p) => fin_packet[p] = NoPacket
      /\ ~KeepFin(p) => fin_packet'[p] = fin_packet[p]
      /\ a \in {"transmit_fin", "wait_fin_ack"} => fin_packet[p] # NoPacket
  <2>1. NoPacket.flags = {}
    BY DEF NoPacket
  <2>2. a \in {"transmit_fin", "wait_fin_ack"} => "FIN" \in fin_packet[p].flags
    BY DEF CloseIsOnce
  <2> HIDE DEF NoPacket
  <2>3. a \in {"transmit_fin", "wait_fin_ack"} => fin_packet[p] # NoPacket
    BY <2>1, <2>2
  <2> QED BY <2>3, CloseStep
<1>7. CASE TransmitFin(p)
  <2>1. \/ /\ c = "wait_fin_ack" /\ retriesNext = 0
        \/ /\ c = "raised" /\ UNCHANGED network
    BY <1>1, <1>2, <1>7, TeardownGoTo DEF TransmitFin, TeardownTypeOK, Start
  <2>2. a = "transmit_fin" /\ fin_packet'[p] = fin_packet[p]
    BY <1>7 DEF TransmitFin, At
  <2> HIDE DEF a, c, retries, retriesNext
  <2> QED BY <1>3, <1>4, <1>5, <1>6, <2>1, <2>2
<1>8. CASE WaitFinAck(p)
  <2>1. \/ /\ c \in {"wait_fin", "closed"} /\ UNCHANGED network
        \/ /\ c = "wait_fin_ack" /\ retriesNext = retries + 1
    BY <1>1, <1>2, <1>8, TeardownGoTo DEF WaitFinAck, TeardownTypeOK, Restart, At
  <2>2. a = "wait_fin_ack" /\ fin_packet'[p] = fin_packet[p]
    BY <1>8 DEF WaitFinAck, At
  <2> HIDE DEF a, c, retries, retriesNext
  <2> QED BY <1>3, <1>4, <1>5, <1>6, <2>1, <2>2
<1>9. CASE ~TransmitFin(p) /\ ~WaitFinAck(p)
  <2>1. retriesNext = retries
    <3>1. PICK b \in Peer :
            (Transfers(b) /\ UNCHANGED teardownVars) \/ AppEnds(b) \/ ReceiverEnds(b)
      BY TeardownSteps
    <3>2. \/ UNCHANGED fin_retransmission
          \/ FinAcknowledged(b)
          \/ TransmitFin(b) \/ WaitFinAck(b)
      BY <3>1
      DEF AppEnds, BuildData, EnqueueData, RecvCall, RecvReturns, CloseCall, StartClosing,
          BuildFin, KeepFin, WaitFin, CloseListener, ReceiverEnds, EnterLoop, ReadPacket, SocketClosed, ProcessFin,
          BuildFinAck, BuildFinReply, BuildSegment, SendFinAck, SendFinReply,
          SendFromReceiver, SignalFin, CheckEstablished, PassiveFinWait, teardownVars, finVars
    <3>3. CASE FinAcknowledged(b)
      BY <1>1, <3>3 DEF FinAcknowledged, Stop, TeardownTypeOK
    <3>4. CASE (TransmitFin(b) \/ WaitFinAck(b)) /\ b # p
      BY <1>1, <3>4 DEF TransmitFin, WaitFinAck, TeardownTypeOK
    <3> QED BY <1>9, <3>2, <3>3, <3>4
  <2>2. c = "transmit_fin" => a = "transmit_fin" \/ KeepFin(p)
    BY <1>1, ThreadMoves
  <2>3. c = "wait_fin_ack" => a = "wait_fin_ack"
    BY <1>1, <1>9, ThreadMoves
  <2> HIDE DEF a, c, retries, retriesNext
  <2> QED BY <1>3, <1>4, <1>5, <1>6, <1>9, <2>1, <2>2, <2>3
<1> QED BY <1>7, <1>8, <1>9

-----------------------------------------------------------------------------
(* What FINs can still come: the FINs a peer is to answer *)

LEMMA DataIsNoRequestStep ==
    ASSUME TeardownTypes, TeardownNext, NEW p \in Peer, SegmentIsBuilt(p), DataIsNoRequest(p)
    PROVE  DataIsNoRequest(p)'
<1>1. DataTypeOK /\ TeardownPcOK
  BY DEF TeardownTypes
<1>2. ASSUME NEW k \in 1..Len(queue'[p])
      PROVE  ~IsRequest(queue'[p][k])
  <2>1. ASSUME NEW pk \in TTPPacket, pk.flags = {"DATA"}
        PROVE  ~IsRequest(pk)
    BY <2>1 DEF IsRequest
  <2>2. \A j \in 1..Len(queue[p]) : ~IsRequest(queue[p][j])
    BY DEF DataIsNoRequest
  <2> QED BY <2>1, <2>2, QueueFrame
<1>3. ASSUME NEW e \in pending'[p]
      PROVE  ~IsRequest(e.packet)
  BY <1>1, EntryFrame DEF DataIsNoRequest
<1>4. ASSUME NEW t \in Thread, pc'[p][t] \in {"insert", "transmit"}
      PROVE  ~IsRequest(packet'[p][t])
  <2>1. /\ \A j \in 1..Len(queue[p]) : ~IsRequest(queue[p][j])
        /\ pc[p][t] \in {"insert", "transmit"} => ~IsRequest(packet[p][t])
    BY DEF DataIsNoRequest
  <2> QED BY <1>1, <1>4, <2>1, HandFrame
<1> QED BY <1>2, <1>3, <1>4 DEF DataIsNoRequest

\* Only so many segments are on their way.
LEMMA NetworkStaysFinite ==
    ASSUME DataTypeOK, TeardownNext, NEW p \in Peer, IsFiniteSet(network[p])
    PROVE  IsFiniteSet(network'[p])
<1>1. PICK b \in Peer, u \in Thread : Writes(b, u)
  BY WhoWrites
<1>2. \/ UNCHANGED network
      \/ \E c \in Peer : \E x : network' = [network EXCEPT ![c] = @ \cup {x}]
      \/ \E c \in Peer : \E x : network' = [network EXCEPT ![c] = @ \ {x}]
  <2>1. Other(b) \in Peer
    BY OtherPeer
  <2>2. \/ UNCHANGED network
        \/ \E x : Transmit(b, x)
        \/ \E x : network' = [network EXCEPT ![b] = @ \ {x}]
    BY <1>1
    DEF Writes, TransmitHead, CheckRetransmission, Reply, TransmitFin, WaitFinAck, SendFinAck,
        SendFinReply, SendFromReceiver, ReadPacket, Lose
  <2> QED BY <2>1, <2>2 DEF Transmit
<1>3. \/ network'[p] = network[p]
      \/ \E x : network'[p] = network[p] \cup {x}
      \/ \E x : network'[p] = network[p] \ {x}
  BY <1>2 DEF DataTypeOK
<1> QED BY <1>3, FS_AddElement, FS_RemoveElement

\* A FIN that asks for an answer is transmitted.
Asks(p) == TransmitFin(p) \/ WaitFinAck(p) \/ SendFinReply(p)

\* Only close() and the FIN that follows an answer add to the FINs on their way.
LEMMA RequestsStep ==
    ASSUME TeardownInv, TeardownNext, NEW p \in Peer, IsFiniteSet(network[p]),
           DataIsNoRequest(Other(p))
    PROVE  /\ Cardinality(Requests(p)) \in Nat /\ Cardinality(Requests(p)') \in Nat
           /\ \/ Cardinality(Requests(p)') <= Cardinality(Requests(p))
              \/ /\ Asks(Other(p)) /\ ~UNCHANGED network
                 /\ Cardinality(Requests(p)') <= Cardinality(Requests(p)) + 1
<1>1. DataTypeOK /\ TeardownTypes
  BY DEF TeardownInv, TeardownTypes
<1> DEFINE q == Other(p)
           R == Requests(p)
           S == Requests(p)'
<1>2. q \in Peer /\ Other(q) = p
  BY OtherPeer
<1>3. IsFiniteSet(R) /\ IsFiniteSet(S)
  <2>1. IsFiniteSet(network'[p])
    BY <1>1, NetworkStaysFinite
  <2>2. R \in SUBSET network[p] /\ S \in SUBSET network'[p]
    BY DEF Requests
  <2> QED BY <2>1, <2>2, FS_Subset
<1>4. Cardinality(R) \in Nat /\ Cardinality(S) \in Nat
  BY <1>3, FS_CardinalityType
<1>5. UNCHANGED network => S = R
  BY DEF Requests
<1>6. ASSUME NEW pk \in S
      PROVE  \/ pk \in R
             \/ (TransmitFin(q) \/ WaitFinAck(q)) /\ pk = fin_packet[q]
             \/ SendFinReply(q) /\ pk = packet[q]["receiver"]
  <2>1. pk \in network'[Other(q)] /\ IsRequest(pk)
    BY <1>2 DEF Requests
  <2>2. pk \in network[Other(q)] => pk \in R
    BY <1>2, <2>1 DEF Requests
  <2>3. ~(\E t \in Thread : pc[q][t] = "transmit" /\ pk = packet[q][t])
    BY <2>1 DEF DataIsNoRequest
  <2>4. ~(\E e \in pending[q] : pk = e.packet)
    BY <2>1 DEF DataIsNoRequest
  <2>5. pk # BuildPacket(q, {"ACK"}, NoPayload)
    BY <2>1 DEF BuildPacket, IsRequest
  <2>6. ~(SendFinAck(q) /\ pk = packet[q]["receiver"])
    BY <1>2, <2>1
    DEF SendFinAck, SendFromReceiver, TeardownInv, SegmentIsBuilt, IsRequest, At
  <2> HIDE DEF q, R, S
  <2> QED BY <1>1, <1>2, <2>1, <2>2, <2>3, <2>4, <2>5, <2>6, WayFrame
<1>7. TransmitFin(q) \/ WaitFinAck(q) => ~SendFinReply(q)
  <2>1. ASSUME SendFinReply(q)
        PROVE  send_next'[q] # send_next[q]
    <3>1. SequenceSpace(packet[q]["receiver"]) = 1
      BY <1>2, <2>1, ControlSpace
      DEF SendFinReply, SendFromReceiver, TeardownInv, SegmentIsBuilt, At
    <3>2. send_next[q] \in Nat
      BY <1>1, <1>2 DEF DataTypeOK
    <3> QED
      BY <1>1, <1>2, <2>1, <3>1, <3>2 DEF SendFinReply, SendFromReceiver, AdvanceSend, DataTypeOK
  <2>2. TransmitFin(q) \/ WaitFinAck(q) => UNCHANGED send_next
    BY DEF TransmitFin, WaitFinAck, sequenceVars
  <2> QED BY <2>1, <2>2
<1>8. CASE S \in SUBSET R
  <2>1. Cardinality(S) <= Cardinality(R)
    BY <1>3, <1>8, FS_Subset
  <2> QED BY <1>4, <2>1
<1>9. CASE ~(S \in SUBSET R)
  <2>1. Asks(q)
    BY <1>6, <1>9, Zenon DEF Asks
  <2>2. PICK x : S \in SUBSET (R \cup {x})
    BY <1>6, <1>7
  <2>3. ~UNCHANGED network
    BY <1>5, <1>9
  <2> HIDE DEF q, R, S
  <2>4. /\ IsFiniteSet(R \cup {x})
        /\ \/ Cardinality(R \cup {x}) = Cardinality(R)
           \/ Cardinality(R \cup {x}) = Cardinality(R) + 1
    BY <1>3, FS_AddElement
  <2>5. Cardinality(S) <= Cardinality(R \cup {x})
    BY <2>2, <2>4, FS_Subset
  <2>6. Cardinality(S) <= Cardinality(R) + 1
    BY <1>4, <2>4, <2>5
  <2> QED BY <1>4, <2>1, <2>3, <2>6 DEF q, R, S
<1> QED BY <1>8, <1>9

\* What the receiver has in its hands: a FIN comes there from the network, is answered
\* in the order read, numbered, transmitted, and does not come back.
LEMMA HandsStep ==
    ASSUME TeardownInv, TeardownNext, ~CanDuplicate, NEW p \in Peer
    PROVE  /\ ReadPacket(p) =>
                /\ pc'[p]["receiver"] \notin {"fin", "fin_ack_built"}
                /\ \E pk \in network[p] :
                     current'[p] = pk /\ network'[p] = network[p] \ {pk}
           /\ ~ReadPacket(p) /\ IsRequest(current'[p]) => IsRequest(current[p])
           /\ ProcessFin(p) =>
                /\ IsRequest(current[p]) /\ ~IsRequest(current'[p]) /\ UNCHANGED network
                /\ pc[p]["receiver"] \notin {"fin", "fin_ack_built"}
           /\ ~ProcessFin(p) /\ pc'[p]["receiver"] \in {"fin", "fin_ack_built"} =>
                pc[p]["receiver"] \in {"fin", "fin_ack_built"}
           /\ SendFinAck(p) =>
                /\ pc[p]["receiver"] \in {"fin", "fin_ack_built"}
                /\ pc'[p]["receiver"] \notin {"fin", "fin_ack_built"}
<1>1. DataTypeOK /\ TeardownPcOK /\ TeardownTypes
  BY DEF TeardownInv, TeardownTypes
<1>2. "receiver" \in Thread
  BY DEF Thread
<1>3. PICK b \in Peer, u \in Thread : Writes(b, u)
  BY WhoWrites
<1>4. NoPacket.flags = {}
  BY DEF NoPacket
<1> HIDE DEF NoPacket
<1>5. ASSUME ReadPacket(p)
      PROVE  /\ pc'[p]["receiver"] \notin {"fin", "fin_ack_built"}
             /\ \E pk \in network[p] : current'[p] = pk /\ network'[p] = network[p] \ {pk}
  <2>1. pc'[p]["receiver"] = "check"
    BY <1>1, <1>2, <1>5, TeardownGoTo DEF ReadPacket
  <2>2. CanDuplicate = FALSE
    BY TransferAssumption
  <2>3. PICK pk \in network[p] :
          /\ current' = [current EXCEPT ![p] = pk]
          /\ network' = [network EXCEPT ![p] = @ \ {pk}]
    BY <1>5, <2>2 DEF ReadPacket
  <2> QED BY <1>1, <2>1, <2>3 DEF DataTypeOK
<1>6. ASSUME ~ReadPacket(p), IsRequest(current'[p])
      PROVE  IsRequest(current[p])
  <2>1. current'[p] = current[p] \/ current'[p] = NoPacket
    <3>1. CASE ReadPacket(b)
      <4>1. b # p
        BY <1>6, <3>1
      <4> QED BY <1>1, <3>1, <4>1 DEF ReadPacket, DataTypeOK
    <3>2. CASE ProcessAck(b) \/ ProcessData(b) \/ FinAcknowledged(b) \/ ProcessFin(b)
      <4>1. current' = [current EXCEPT ![b] = NoPacket]
        BY <3>2 DEF ProcessAck, ProcessData, FinAcknowledged, ProcessFin
      <4> QED BY <1>1, <4>1 DEF DataTypeOK
    <3> QED BY <1>3, <3>1, <3>2 DEF Writes
  <2> QED BY <1>4, <1>6, <2>1 DEF IsRequest
<1>7. ASSUME ProcessFin(p)
      PROVE  /\ IsRequest(current[p]) /\ ~IsRequest(current'[p]) /\ UNCHANGED network
             /\ pc[p]["receiver"] \notin {"fin", "fin_ack_built"}
  <2>1. /\ At(p, "receiver", "data") /\ "FIN" \in current[p].flags /\ UNCHANGED network
        /\ current' = [current EXCEPT ![p] = NoPacket]
    BY <1>7 DEF ProcessFin
  <2>2. AnswersAreTrue(p)
    BY DEF TeardownInv
  <2>3. "ACK" \notin current[p].flags
    BY <2>1, <2>2 DEF AnswersAreTrue
  <2>4. current'[p] = NoPacket
    BY <1>1, <2>1 DEF DataTypeOK
  <2> QED BY <1>4, <2>1, <2>3, <2>4 DEF IsRequest, At
<1>8. ASSUME ~ProcessFin(p), pc'[p]["receiver"] \in {"fin", "fin_ack_built"}
      PROVE  pc[p]["receiver"] \in {"fin", "fin_ack_built"}
  <2>1. pc'[p]["receiver"] = pc[p]["receiver"] \/ BuildFinAck(p)
    BY <1>1, <1>8, ThreadMoves
  <2> QED BY <1>8, <2>1 DEF BuildFinAck, BuildSegment, At
<1>9. ASSUME SendFinAck(p)
      PROVE  /\ pc[p]["receiver"] \in {"fin", "fin_ack_built"}
             /\ pc'[p]["receiver"] \notin {"fin", "fin_ack_built"}
  BY <1>1, <1>2, <1>9, TeardownGoTo DEF SendFinAck, SendFromReceiver, At
<1> QED BY <1>5, <1>6, <1>7, <1>8, <1>9, Zenon

\* What a peer is to answer grows only when the other side asks once more, and an
\* answer makes it smaller.
LEMMA ToAnswerStep ==
    ASSUME TeardownInv, TeardownNext, ~CanDuplicate, NEW p \in Peer, IsFiniteSet(network[p]),
           DataIsNoRequest(Other(p))
    PROVE  /\ ToAnswer(p) \in Nat /\ ToAnswer(p)' \in Nat
           /\ \/ ToAnswer(p)' <= ToAnswer(p) /\ (SendFinAck(p) => ToAnswer(p)' + 1 <= ToAnswer(p))
              \/ /\ Asks(Other(p)) /\ ~UNCHANGED network
                 /\ ToAnswer(p)' <= ToAnswer(p) + 1
<1> DEFINE R == Cardinality(Requests(p))
           S == Cardinality(Requests(p)')
           c == One(IsRequest(current[p]))
           d == One(IsRequest(current'[p]))
           h == One(pc[p]["receiver"] \in {"fin", "fin_ack_built"})
           i == One(pc'[p]["receiver"] \in {"fin", "fin_ack_built"})
           asks == Asks(Other(p)) /\ ~UNCHANGED network
<1>1. ToAnswer(p) = R + c + h /\ ToAnswer(p)' = S + d + i
  BY DEF ToAnswer, IsRequest
<1>2. /\ R \in Nat /\ S \in Nat
      /\ S <= R \/ (asks /\ S <= R + 1)
      /\ UNCHANGED network => S <= R
  BY RequestsStep
<1>3. c \in 0..1 /\ d \in 0..1 /\ h \in 0..1 /\ i \in 0..1
  BY DEF One
<1>4. ReadPacket(p) => S + d <= R /\ i = 0
  <2> SUFFICES ASSUME ReadPacket(p) PROVE S + d <= R /\ i = 0
    OBVIOUS
  <2>1. PICK pk \in network[p] : current'[p] = pk /\ network'[p] = network[p] \ {pk}
    BY HandsStep
  <2>2. i = 0
    BY HandsStep DEF One
  <2>3. Requests(p)' = Requests(p) \ {pk}
    BY <2>1 DEF Requests
  <2>4. IsFiniteSet(Requests(p))
    <3>1. Requests(p) \in SUBSET network[p]
      BY DEF Requests
    <3> QED BY <3>1, FS_Subset
  <2>5. /\ pk \in Requests(p) => S = R - 1
        /\ pk \notin Requests(p) => S = R
    BY <2>3, <2>4, FS_RemoveElement
  <2>6. IsRequest(current'[p]) <=> pk \in Requests(p)
    BY <2>1 DEF Requests
  <2>7. /\ pk \in Requests(p) => d = 1
        /\ pk \notin Requests(p) => d = 0
    BY <2>6 DEF One
  <2> HIDE DEF R, S, d
  <2> QED BY <1>2, <2>2, <2>5, <2>7
<1>5. ~ReadPacket(p) => d <= c
  <2>1. ~ReadPacket(p) => (IsRequest(current'[p]) => IsRequest(current[p]))
    BY HandsStep
  <2> QED BY <2>1 DEF One
<1>6. ProcessFin(p) => c = 1 /\ d = 0 /\ h = 0 /\ S <= R
  <2>1. ProcessFin(p) =>
          /\ IsRequest(current[p]) /\ ~IsRequest(current'[p]) /\ UNCHANGED network
          /\ pc[p]["receiver"] \notin {"fin", "fin_ack_built"}
    BY HandsStep
  <2> QED BY <1>2, <2>1 DEF One
<1>7. ~ProcessFin(p) => i <= h
  <2>1. ~ProcessFin(p) => (pc'[p]["receiver"] \in {"fin", "fin_ack_built"} =>
                             pc[p]["receiver"] \in {"fin", "fin_ack_built"})
    BY HandsStep
  <2> QED BY <2>1 DEF One
<1>8. SendFinAck(p) => h = 1 /\ i = 0 /\ ~ReadPacket(p) /\ ~ProcessFin(p)
  <2>1. SendFinAck(p) =>
          /\ pc[p]["receiver"] \in {"fin", "fin_ack_built"}
          /\ pc'[p]["receiver"] \notin {"fin", "fin_ack_built"}
    BY HandsStep
  <2>2. SendFinAck(p) => ~ReadPacket(p) /\ ~ProcessFin(p)
    BY DEF SendFinAck, SendFromReceiver, ReadPacket, ProcessFin, At
  <2> QED BY <2>1, <2>2 DEF One
<1>9. ReadPacket(p) => ~ProcessFin(p)
  BY DEF ReadPacket, ProcessFin, At
<1> HIDE DEF R, S, c, d, h, i, asks
<1>10. /\ R + c + h \in Nat /\ S + d + i \in Nat
       /\ \/ S + d + i <= R + c + h /\ (SendFinAck(p) => S + d + i + 1 <= R + c + h)
          \/ asks /\ S + d + i <= R + c + h + 1
  <2>1. R + c + h \in Nat /\ S + d + i \in Nat
    BY <1>2, <1>3
  <2>2. CASE ReadPacket(p)
    BY <1>2, <1>3, <1>4, <1>8, <2>1, <2>2
  <2>3. CASE ProcessFin(p)
    BY <1>2, <1>3, <1>6, <1>8, <2>1, <2>3
  <2>4. CASE ~ReadPacket(p) /\ ~ProcessFin(p) /\ S <= R
    BY <1>2, <1>3, <1>5, <1>7, <1>8, <2>1, <2>4
  <2>5. CASE ~ReadPacket(p) /\ ~ProcessFin(p) /\ asks /\ S <= R + 1
    BY <1>2, <1>3, <1>5, <1>7, <2>1, <2>5
  <2> QED BY <1>2, <1>9, <2>2, <2>3, <2>4, <2>5
<1> QED BY <1>1, <1>10 DEF asks

-----------------------------------------------------------------------------
(* What FINs can still come: the bound *)

\* A number given to a FIN is paid for by what is left to come.
LEMMA FinStep ==
    ASSUME TeardownInv, FinInv, TeardownNext, ~CanDuplicate, NEW p \in Peer
    PROVE  /\ FinNumbers(p)' + FinsToCome(p)' <= FinNumbers(p) + FinsToCome(p)
           /\ FinNumbers(p) + FinsToCome(p) \in Int /\ FinNumbers(p)' + FinsToCome(p)' \in Int
<1> DEFINE q == Other(p)
           x == FinNumbers(p)
           y == FinNumbers(p)'
           a == CloseIsLeft(p)
           b == CloseIsLeft(p)'
           r == ReplyIsLeft(p)
           s == ReplyIsLeft(p)'
           t == ToAnswer(p)
           u == ToAnswer(p)'
           v == TransmissionsLeft(q)
           w == TransmissionsLeft(q)'
           m == ReplyIsLeft(q)
           n == ReplyIsLeft(q)'
           same == UNCHANGED network
<1>1. TeardownTypes /\ DataTypeOK
  BY DEF TeardownInv, TeardownTypes
<1>2. q \in Peer /\ q # p
  BY OtherPeer
<1>3. /\ CloseIsOnce(p) /\ CloseIsOnce(q) /\ DataIsNoRequest(q) /\ IsFiniteSet(network[p])
      /\ SegmentIsBuilt(p) /\ SegmentIsBuilt(q)
  BY <1>2 DEF FinInv, TeardownInv
<1>4. /\ x \in Int /\ y \in Int
      /\ \/ y = x
         \/ /\ KeepFin(p) \/ SendFinAck(p) \/ SendFinReply(p)
            /\ y = x + 1 /\ send_next'[p] # send_next[p]
  BY FinNumbersStep
<1>5. a \in Nat /\ b \in Nat /\ b <= a /\ (KeepFin(p) => b + 1 = a)
  BY <1>1, <1>3, CloseIsLeftStep
<1>6. r \in Nat /\ s \in Nat /\ s <= r /\ (SendFinReply(p) => s + 1 = r)
  BY <1>1, ReplyIsLeftStep
<1>7. m \in Nat /\ n \in Nat /\ n <= m /\ (SendFinReply(q) => n + 1 = m)
  BY <1>1, <1>2, ReplyIsLeftStep
<1>8. /\ v \in Nat /\ w \in Nat /\ w <= v
      /\ TransmitFin(q) \/ WaitFinAck(q) => w + 1 <= v \/ same
  BY <1>1, <1>2, <1>3, TransmissionsLeftStep
<1>9. /\ t \in Nat /\ u \in Nat
      /\ \/ u <= t /\ (SendFinAck(p) => u + 1 <= t)
         \/ Asks(q) /\ ~same /\ u <= t + 1
  BY <1>3, ToAnswerStep
<1>10. Asks(q) => send_next'[p] = send_next[p]
  <2>1. TransmitFin(q) \/ WaitFinAck(q) => UNCHANGED send_next
    BY DEF TransmitFin, WaitFinAck, sequenceVars
  <2>2. SendFinReply(q) =>
          send_next' = [send_next EXCEPT ![q] = @ + SequenceSpace(packet[q]["receiver"])]
    BY DEF SendFinReply, SendFromReceiver, AdvanceSend
  <2> QED BY <1>1, <1>2, <2>1, <2>2 DEF Asks, DataTypeOK
<1>11. /\ FinsToCome(p) = a + r + t + v + m
       /\ FinsToCome(p)' = b + s + u + w + n
  BY DEF FinsToCome
<1>12. Asks(q) => (TransmitFin(q) \/ WaitFinAck(q)) \/ SendFinReply(q)
  BY DEF Asks
<1> HIDE DEF q, x, y, a, b, r, s, t, u, v, w, m, n, same
<1>13. y + (b + s + u + w + n) <= x + (a + r + t + v + m)
  <2>1. CASE Asks(q) /\ ~same /\ u <= t + 1
    BY <1>4, <1>5, <1>6, <1>7, <1>8, <1>9, <1>10, <1>12, <2>1
  <2>2. CASE u <= t /\ (SendFinAck(p) => u + 1 <= t)
    BY <1>4, <1>5, <1>6, <1>7, <1>8, <1>9, <2>2
  <2> QED BY <1>9, <2>1, <2>2
<1>14. x + (a + r + t + v + m) \in Int /\ y + (b + s + u + w + n) \in Int
  BY <1>4, <1>5, <1>6, <1>7, <1>8, <1>9
<1> QED BY <1>11, <1>13, <1>14 DEF x, y

LEMMA FinInvStep ==
    ASSUME TeardownInv, FinInv, TeardownNext, ~CanDuplicate
    PROVE  FinInv'
<1>1. TeardownTypes /\ DataTypeOK
  BY DEF TeardownInv, TeardownTypes
<1>2. ASSUME NEW p \in Peer
      PROVE  /\ CloseIsOnce(p)' /\ DataIsNoRequest(p)' /\ IsFiniteSet(network'[p])
             /\ FinNumbers(p)' + FinsToCome(p)' <= 2 + (2 + MaxRetries)
  <2>1. /\ CloseIsOnce(p) /\ DataIsNoRequest(p) /\ IsFiniteSet(network[p])
        /\ SegmentIsBuilt(p)
        /\ FinNumbers(p) + FinsToCome(p) <= 2 + (2 + MaxRetries)
    BY DEF FinInv, TeardownInv
  <2>2. CloseIsOnce(p)' /\ DataIsNoRequest(p)' /\ IsFiniteSet(network'[p])
    BY <1>1, <2>1, CloseStep, DataIsNoRequestStep, NetworkStaysFinite
  <2>3. /\ FinNumbers(p)' + FinsToCome(p)' <= FinNumbers(p) + FinsToCome(p)
        /\ FinNumbers(p) + FinsToCome(p) \in Int /\ FinNumbers(p)' + FinsToCome(p)' \in Int
    BY FinStep
  <2>4. MaxRetries \in Nat
    BY MaxRetriesAssumption
  <2> QED BY <2>1, <2>2, <2>3, <2>4
<1> QED BY <1>2 DEF FinInv

\* What is left to come is a number.
LEMMA FinsToComeType ==
    ASSUME TeardownInv, FinInv, NEW p \in Peer
    PROVE  FinNumbers(p) \in Int /\ FinsToCome(p) \in Nat
<1>1. DataTypeOK /\ TeardownTypeOK
  BY DEF TeardownInv, TeardownTypes
<1>2. ASSUME NEW q \in Peer
      PROVE  CloseIsLeft(q) \in Nat /\ ReplyIsLeft(q) \in Nat /\ TransmissionsLeft(q) \in Nat
  <2>1. fin_retransmission[q].retries \in Nat /\ fin_retransmission[q].retries <= MaxRetries
    BY <1>1 DEF TeardownTypeOK, RetransmissionManager
  <2> QED BY <2>1, MaxRetriesAssumption DEF CloseIsLeft, ReplyIsLeft, TransmissionsLeft, One
<1>3. ToAnswer(p) \in Nat
  <2>1. Requests(p) \in SUBSET network[p] /\ IsFiniteSet(network[p])
    BY DEF Requests, FinInv
  <2>2. Cardinality(Requests(p)) \in Nat
    BY <2>1, FS_Subset, FS_CardinalityType
  <2> QED BY <2>2 DEF ToAnswer, One
<1>4. FinsToCome(p) \in Nat
  <2>1. Other(p) \in Peer
    BY OtherPeer
  <2> QED BY <1>2, <1>3, <2>1 DEF FinsToCome
<1>5. FinNumbers(p) \in Int
  <2>1. sent[p] \in Seq(TTPPacket) /\ send_next[p] \in Nat /\ ISN[p] \in Nat
    BY <1>1, TransferAssumption DEF DataTypeOK
  <2>2. FinNumbers(p) = send_next[p] - ISN[p] - 1 - BytesInFlight(Entries(sent[p]))
    BY DEF FinNumbers, BuiltEntries, Entries
  <2> QED BY <2>1, <2>2, EntriesType
<1> QED BY <1>4, <1>5

LEMMA FinInvInit == ASSUME TeardownInit PROVE FinInv
<1>1. Init
  BY DEF TeardownInit
<1>2. NoPacket.flags = {}
  BY DEF NoPacket
<1> HIDE DEF NoPacket
<1>3. ASSUME NEW p \in Peer
      PROVE  /\ pc[p]["app"] = "idle" /\ pc[p]["receiver"] = "wait"
             /\ queue[p] = << >> /\ pending[p] = {} /\ network[p] = {} /\ sent[p] = << >>
             /\ current[p] = NoPacket /\ fin_packet[p] = NoPacket
             /\ state[p] = "ESTABLISHED" /\ send_next[p] = ISN[p] + 1 /\ ISN[p] \in Nat
  BY <1>1, TransferAssumption DEF TeardownInit, Init, Thread
<1>4. ASSUME NEW p \in Peer
      PROVE  CloseIsOnce(p)
  BY <1>2, <1>3 DEF CloseIsOnce, At
<1>5. ASSUME NEW p \in Peer
      PROVE  DataIsNoRequest(p)
  <2>1. 1..0 = {}
    OBVIOUS
  <2>2. Len(<< >>) = 0
    OBVIOUS
  <2>3. \A k \in 1..Len(queue[p]) : ~IsRequest(queue[p][k])
    BY <1>3, <2>1, <2>2, Zenon
  <2>4. \A t \in Thread : pc[p][t] \notin {"insert", "transmit"}
    BY <1>3 DEF Thread
  <2>5. \A e \in pending[p] : ~IsRequest(e.packet)
    BY <1>3
  <2> QED BY <2>3, <2>4, <2>5 DEF DataIsNoRequest
<1>6. ASSUME NEW p \in Peer
      PROVE  IsFiniteSet(network[p])
  BY <1>3, FS_EmptySet
<1>7. ASSUME NEW p \in Peer
      PROVE  FinNumbers(p) = 0
  <2>1. BuiltEntries(p) = {}
    <3>1. DOMAIN << >> = {}
      OBVIOUS
    <3>2. DOMAIN sent[p] = {}
      BY <1>3, <3>1
    <3> QED BY <3>2 DEF BuiltEntries
  <2>2. BytesInFlight({}) = 0
    BY FS_EmptySet, BytesByPicked
  <2> QED BY <1>3, <2>1, <2>2 DEF FinNumbers
<1>8. ASSUME NEW p \in Peer
      PROVE  FinsToCome(p) = 4 + MaxRetries
  <2>1. Other(p) \in Peer
    BY OtherPeer
  <2>2. ASSUME NEW q \in Peer
        PROVE  CloseIsLeft(q) = 1 /\ ReplyIsLeft(q) = 1 /\ TransmissionsLeft(q) = 1 + MaxRetries
    BY <1>3 DEF CloseIsLeft, ReplyIsLeft, TransmissionsLeft, One
  <2>3. ToAnswer(p) = 0
    <3>1. Requests(p) = {}
      BY <1>3 DEF Requests
    <3>2. Cardinality(Requests(p)) = 0
      BY <3>1, FS_EmptySet
    <3>3. ~IsRequest(current[p])
      BY <1>2, <1>3 DEF IsRequest
    <3> QED BY <1>3, <3>2, <3>3 DEF ToAnswer, One
  <2> QED BY <2>1, <2>2, <2>3, MaxRetriesAssumption DEF FinsToCome
<1>9. ASSUME NEW p \in Peer
      PROVE  FinNumbers(p) + FinsToCome(p) <= 2 + (2 + MaxRetries)
  BY <1>7, <1>8, MaxRetriesAssumption
<1> QED BY <1>4, <1>5, <1>6, <1>9 DEF FinInv

\* FINs do not answer each other for ever: on a network that loses and delays but
\* duplicates nothing, each peer numbers at most its own two FINs and an answer to each
\* FIN it can be sent.
THEOREM FinsStayBounded == ~CanDuplicate => (TeardownSpec => []FinsAreBounded)
<1>1. SUFFICES ASSUME ~CanDuplicate PROVE TeardownSpec => []FinsAreBounded
  OBVIOUS
<1>2. TeardownInit => FinInv
  BY FinInvInit
<1>3. TeardownInv /\ FinInv /\ [TeardownNext]_allVars => FinInv'
  <2> SUFFICES ASSUME TeardownInv, FinInv, [TeardownNext]_allVars PROVE FinInv'
    OBVIOUS
  <2>1. CASE TeardownNext
    BY <1>1, <2>1, FinInvStep
  <2>2. CASE UNCHANGED allVars
    <3>1. UNCHANGED <<send_next, queue, pending, network, pc, packet, current, sent, state,
                      fin_packet, fin_retransmission>>
      BY <2>2
      DEF allVars, transferVars, vars, teardownVars, finVars, sequenceVars, windowVars,
          receiveVars, historyVars
    <3>2. ASSUME NEW p \in Peer
          PROVE  CloseIsOnce(p)' /\ DataIsNoRequest(p)' /\ IsFiniteSet(network'[p])
      BY <3>1 DEF FinInv, CloseIsOnce, DataIsNoRequest, At
    <3>3. ASSUME NEW p \in Peer
          PROVE  FinNumbers(p)' + FinsToCome(p)' <= 2 + (2 + MaxRetries)
      <4>1. FinNumbers(p)' = FinNumbers(p)
        BY <3>1 DEF FinNumbers, BuiltEntries
      <4>2. FinsToCome(p)' = FinsToCome(p)
        BY <3>1
        DEF FinsToCome, CloseIsLeft, ReplyIsLeft, ToAnswer, Requests, TransmissionsLeft, At
      <4> QED BY <4>1, <4>2 DEF FinInv
    <3> QED BY <3>2, <3>3 DEF FinInv
  <2> QED BY <2>1, <2>2
<1>4. TeardownInv /\ FinInv => FinsAreBounded
  <2> SUFFICES ASSUME TeardownInv, FinInv, NEW p \in Peer
               PROVE  FinNumbers(p) <= 2 + (2 + MaxRetries)
    BY DEF FinsAreBounded
  <2>1. FinNumbers(p) + FinsToCome(p) <= 2 + (2 + MaxRetries)
    BY DEF FinInv
  <2> QED BY <2>1, FinsToComeType, MaxRetriesAssumption
<1> QED BY <1>2, <1>3, <1>4, TeardownInvariance, PTL DEF TeardownSpec
=============================================================================
