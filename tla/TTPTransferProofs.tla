------------------------- MODULE TTPTransferProofs -------------------------
(***************************************************************************)
(* Theorems about TTPTransfer for every instance of its constants, in      *)
(* three parts: type correctness; lemmas about one step (what it changes,  *)
(* that the chain of sequence numbers stays a chain, and that what a       *)
(* receiver delivers stays a prefix of what the other side sent); and the  *)
(* induction of IInv with the safety properties it yields, and the         *)
(* implementation of ReliableStream.                                       *)
(***************************************************************************)
EXTENDS TTPTransferInvariant, TLAPS, FiniteSetTheorems, SequenceTheorems

-----------------------------------------------------------------------------
(* Facts about segments and the operators on them *)

\* The segment no thread holds is a segment like any other to the types.
LEMMA NoPacketType == NoPacket \in TTPPacket
BY DEF NoPacket, TTPPacket, TTPFlags

\* A segment takes up a number of bytes of sequence space.
LEMMA SequenceSpaceType ==
    ASSUME NEW pk \in TTPPacket
    PROVE  SequenceSpace(pk) \in Nat
<1>1. PayloadLength(pk) \in Nat
  BY ChunkAssumption DEF PayloadLength, TTPPacket
<1>2. IsFiniteSet({"SYN", "FIN"})
  <2>1. IsFiniteSet({"SYN"})
    BY FS_Singleton
  <2>2. IsFiniteSet({"SYN"} \cup {"FIN"})
    BY <2>1, FS_AddElement
  <2> QED BY <2>2
<1>3. Cardinality(pk.flags \cap {"SYN", "FIN"}) \in Nat
  BY <1>2, FS_Intersection, FS_CardinalityType
<1> QED BY <1>1, <1>3 DEF SequenceSpace

\* A DATA segment takes up its payload, which is never empty.
LEMMA DataSpace ==
    ASSUME NEW pk \in TTPPacket, pk.flags = {"DATA"}, pk.payload \in Chunk
    PROVE  /\ SequenceSpace(pk) = ChunkSize[pk.payload]
           /\ SequenceSpace(pk) \in Nat \ {0}
<1>1. PayloadLength(pk) = ChunkSize[pk.payload]
  BY ChunkAssumption DEF PayloadLength
<1>2. pk.flags \cap {"SYN", "FIN"} = {}
  OBVIOUS
<1>3. Cardinality(pk.flags \cap {"SYN", "FIN"}) = 0
  BY <1>2, FS_EmptySet
<1> QED BY <1>1, <1>3, ChunkAssumption DEF SequenceSpace

LEMMA OtherPeer ==
    ASSUME NEW p \in Peer
    PROVE  /\ Other(p) \in Peer
           /\ Other(p) # p
           /\ Other(Other(p)) = p
           /\ \A q \in Peer : q # p => q = Other(p)
BY TransferAssumption DEF Peer, Other

-----------------------------------------------------------------------------
(* Type correctness *)

\* The types of the data, and the statements of the threads.
LEMMA TypeParts == TypeOK <=> DataTypeOK /\ PcOK
BY DEF TypeOK, DataTypeOK, PcOK

\* Moving one thread to a statement of its own leaves every thread at one.
LEMMA GoToType ==
    ASSUME PcOK, NEW p \in Peer, NEW t \in Thread, NEW label, GoTo(p, t, label),
           t = "app" => label \in AppLabel,
           t = "receiver" => label \in ReceiverLabel
    PROVE  PcOK'
<1>1. label \in AppLabel \cup ReceiverLabel
  BY DEF Thread
<1>2. pc' \in [Peer -> [Thread -> AppLabel \cup ReceiverLabel]]
  BY <1>1 DEF PcOK, GoTo
<1>3. ASSUME NEW q \in Peer
      PROVE  pc'[q]["app"] \in AppLabel /\ pc'[q]["receiver"] \in ReceiverLabel
  <2>1. CASE q # p BY <2>1 DEF PcOK, GoTo
  <2>2. CASE q = p BY <2>2 DEF PcOK, GoTo, Thread
  <2> QED BY <2>1, <2>2
<1> QED BY <1>2, <1>3 DEF PcOK

\* Assigning a segment to one thread's local variable preserves its type.
LEMMA SetPacketType ==
    ASSUME packet \in [Peer -> [Thread -> TTPPacket]],
           NEW p \in Peer, NEW t \in Thread, NEW pk \in TTPPacket
    PROVE  [packet EXCEPT ![p][t] = pk] \in [Peer -> [Thread -> TTPPacket]]
OBVIOUS

\* Transmitting a segment leaves segments in flight.
LEMMA TransmitType ==
    ASSUME network \in [Peer -> SUBSET TTPPacket], NEW p \in Peer, NEW pk \in TTPPacket,
           Transmit(p, pk)
    PROVE  network' \in [Peer -> SUBSET TTPPacket]
<1>1. network[Other(p)] \cup {pk} \in SUBSET TTPPacket
  BY OtherPeer
<1> QED BY <1>1 DEF Transmit

\* A step of _flush_window, in either thread, leaves every thread at a statement.
LEMMA FlushWindowLabels ==
    ASSUME PcOK, NEW p \in Peer, NEW t \in Thread, FlushWindow(p, t)
    PROVE  PcOK'
<1> USE GoToType DEF Flushed, Failed, Thread, AppLabel, ReceiverLabel, FlushLabel
<1>1. CASE Peek(p, t) BY <1>1 DEF Peek
<1>2. CASE Admit(p, t) BY <1>2 DEF Admit
<1>3. CASE PopHead(p, t) BY <1>3 DEF PopHead
<1>4. CASE InsertPending(p, t) BY <1>4 DEF InsertPending
<1>5. CASE TransmitHead(p, t) BY <1>5 DEF TransmitHead
<1>6. CASE CheckFirstPending(p, t) BY <1>6 DEF CheckFirstPending, Failed
<1>7. CASE StartTimer(p, t) BY <1>7 DEF StartTimer
<1> QED BY <1>1, <1>2, <1>3, <1>4, <1>5, <1>6, <1>7 DEF FlushWindow

\* A step of _flush_window, in either thread, preserves the types of the data.
LEMMA FlushWindowData ==
    ASSUME DataTypeOK, NEW p \in Peer, NEW t \in Thread, FlushWindow(p, t)
    PROVE  DataTypeOK'
<1>1. queue[p] # << >> => Head(queue[p]) \in TTPPacket /\ Tail(queue[p]) \in Seq(TTPPacket)
  BY DEF DataTypeOK
<1>2. packet[p][t] \in TTPPacket
  BY DEF DataTypeOK
<1>3. packet \in [Peer -> [Thread -> TTPPacket]]
  BY DEF DataTypeOK
<1> USE DEF sequenceVars, windowVars, receiveVars, historyVars
<1>4. CASE Peek(p, t)
  <2>1. packet' \in [Peer -> [Thread -> TTPPacket]]
    BY <1>4, <1>1, <1>3, SetPacketType DEF Peek
  <2> QED BY <1>4, <2>1 DEF Peek, DataTypeOK
<1>5. CASE Admit(p, t)
  <2>1. packet' \in [Peer -> [Thread -> TTPPacket]]
    BY <1>5, <1>3, SetPacketType, NoPacketType DEF Admit
  <2> QED BY <1>5, <2>1 DEF Admit, DataTypeOK
<1>6. CASE PopHead(p, t)
  <2>1. packet' \in [Peer -> [Thread -> TTPPacket]]
    <3>1. CASE queue[p] = << >>
      BY <1>6, <1>3, <3>1 DEF PopHead
    <3>2. CASE queue[p] # << >>
      <4>1. packet' = [packet EXCEPT ![p][t] = Head(queue[p])]
        BY <1>6, <3>2 DEF PopHead
      <4> QED BY <4>1, <1>1, <1>3, <3>2, SetPacketType
    <3> QED BY <3>1, <3>2
  <2>2. queue' \in [Peer -> Seq(TTPPacket)]
    BY <1>6, <1>1 DEF PopHead, DataTypeOK
  <2> QED BY <1>6, <2>1, <2>2 DEF PopHead, DataTypeOK
<1>7. CASE InsertPending(p, t)
  <2>1. pending' \in [Peer -> SUBSET PendingEntry]
    BY <1>7, <1>2 DEF InsertPending, MarkPending, PendingEntry, DataTypeOK
  <2>2. inserted' \in [Peer -> Nat]
    BY <1>7 DEF InsertPending, DataTypeOK
  <2> QED BY <1>7, <2>1, <2>2 DEF InsertPending, DataTypeOK
<1>8. CASE TransmitHead(p, t)
  <2>1. packet' \in [Peer -> [Thread -> TTPPacket]]
    BY <1>8, <1>3, SetPacketType, NoPacketType DEF TransmitHead
  <2>2. network' \in [Peer -> SUBSET TTPPacket]
    BY <1>8, <1>2, TransmitType DEF TransmitHead, DataTypeOK
  <2> QED BY <1>8, <2>1, <2>2 DEF TransmitHead, DataTypeOK
<1>9. CASE CheckFirstPending(p, t)
  BY <1>9 DEF CheckFirstPending, DataTypeOK
<1>10. CASE StartTimer(p, t)
  BY <1>10 DEF StartTimer, Start, RetransmissionManager, TimerState, DataTypeOK
<1> QED BY <1>4, <1>5, <1>6, <1>7, <1>8, <1>9, <1>10 DEF FlushWindow

\* A step of the receive loop outside _flush_window leaves every thread at a statement.
LEMMA ReceiveLabels ==
    ASSUME PcOK, NEW p \in Peer,
           \/ WaitForPacket(p) \/ CheckRetransmission(p) \/ ProcessAck(p) \/ StopTimer(p)
           \/ LogWindow(p) \/ ProcessData(p) \/ FlushOutOfOrder(p) \/ Reply(p)
    PROVE  PcOK'
<1> USE GoToType DEF Thread, AppLabel, ReceiverLabel, FlushLabel
<1>1. CASE WaitForPacket(p) BY <1>1 DEF WaitForPacket
<1>2. CASE CheckRetransmission(p) BY <1>2 DEF CheckRetransmission, Dispatch
<1>3. CASE ProcessAck(p) BY <1>3 DEF ProcessAck
<1>4. CASE StopTimer(p) \/ LogWindow(p) BY <1>4 DEF StopTimer, LogWindow
<1>5. CASE ProcessData(p) BY <1>5 DEF ProcessData
<1>6. CASE FlushOutOfOrder(p) BY <1>6 DEF FlushOutOfOrder, PcOK
<1>7. CASE Reply(p) BY <1>7 DEF Reply
<1> QED BY <1>1, <1>2, <1>3, <1>4, <1>5, <1>6, <1>7

\* A step of the receive loop outside _flush_window preserves the types of the data.
LEMMA ReceiveData ==
    ASSUME DataTypeOK, NEW p \in Peer,
           \/ WaitForPacket(p) \/ CheckRetransmission(p) \/ ProcessAck(p) \/ StopTimer(p)
           \/ LogWindow(p) \/ ProcessData(p) \/ FlushOutOfOrder(p) \/ Reply(p)
    PROVE  DataTypeOK'
<1>1. current[p] \in TTPPacket /\ current[p].ack \in Nat /\ current[p].seq \in Nat
  BY DEF DataTypeOK, TTPPacket
<1>2. [current EXCEPT ![p] = NoPacket] \in [Peer -> TTPPacket]
  BY NoPacketType DEF DataTypeOK
<1>3. ASSUME NEW pk \in TTPPacket, Accept(p, pk)
      PROVE  recv_next' \in [Peer -> Nat] /\ buffer' \in [Peer -> Seq(Chunk \cup {NoPayload})]
  <2>1. pk.payload \in Chunk \cup {NoPayload}
    BY DEF TTPPacket
  <2>2. SequenceSpace(pk) \in Nat
    BY SequenceSpaceType
  <2>3. recv_next[p] + SequenceSpace(pk) \in Nat
        /\ Append(buffer[p], pk.payload) \in Seq(Chunk \cup {NoPayload})
    BY <2>1, <2>2 DEF DataTypeOK
  <2> QED BY <1>3, <2>3 DEF Accept, DataTypeOK
<1> USE DEF sequenceVars, windowVars, receiveVars, historyVars
<1>4. CASE WaitForPacket(p)
  <2>1. PICK pk \in network[p] :
           /\ current' = [current EXCEPT ![p] = pk]
           /\ network' = network \/ network' = [network EXCEPT ![p] = @ \ {pk}]
    BY <1>4 DEF WaitForPacket
  <2>2. current' \in [Peer -> TTPPacket] /\ network' \in [Peer -> SUBSET TTPPacket]
    BY <2>1 DEF DataTypeOK
  <2> QED BY <1>4, <2>2 DEF WaitForPacket, DataTypeOK
<1>5. CASE CheckRetransmission(p)
  <2>1. network' \in [Peer -> SUBSET TTPPacket]
    <3>1. \A oldest \in pending[p] : oldest.packet \in TTPPacket
      BY DEF PendingEntry, DataTypeOK
    <3>2. \A pk \in TTPPacket : Transmit(p, pk) => network' \in [Peer -> SUBSET TTPPacket]
      BY TransmitType DEF DataTypeOK
    <3> QED BY <1>5, <3>1, <3>2 DEF CheckRetransmission, DataTypeOK
  <2>2. retransmission' \in [Peer -> RetransmissionManager]
    <3>1. Restart(retransmission[p]) \in RetransmissionManager
      BY DEF Restart, RetransmissionManager, TimerState, DataTypeOK
    <3> QED BY <1>5, <3>1 DEF CheckRetransmission, DataTypeOK
  <2> QED BY <1>5, <2>1, <2>2 DEF CheckRetransmission, DataTypeOK
<1>6. CASE ProcessAck(p)
  <2>1. send_unacked' \in [Peer -> Nat]
    BY <1>6, <1>1 DEF ProcessAck, Acknowledged, DataTypeOK
  <2>2. pending' \in [Peer -> SUBSET PendingEntry]
    BY <1>6 DEF ProcessAck, Unacknowledged, DataTypeOK
  <2> QED BY <1>6, <1>2, <2>1, <2>2 DEF ProcessAck, DataTypeOK
<1>7. CASE StopTimer(p) \/ LogWindow(p)
  <2>1. CASE StopTimer(p)
    BY <2>1 DEF StopTimer, Stop, RetransmissionManager, TimerState, DataTypeOK
  <2>2. CASE LogWindow(p)
    BY <2>2 DEF LogWindow, DataTypeOK
  <2> QED BY <1>7, <2>1, <2>2
<1>8. CASE ProcessData(p)
  <2>1. recv_next' \in [Peer -> Nat] /\ buffer' \in [Peer -> Seq(Chunk \cup {NoPayload})]
    BY <1>8, <1>1, <1>3 DEF ProcessData, DataTypeOK
  <2>2. out_of_order' \in [Peer -> SUBSET TTPPacket]
    <3>1. {q \in out_of_order[p] : q.seq # current[p].seq} \cup {current[p]} \in SUBSET TTPPacket
      BY <1>1 DEF DataTypeOK
    <3> QED BY <1>8, <3>1 DEF ProcessData, Store, DataTypeOK
  <2> QED BY <1>8, <1>2, <2>1, <2>2 DEF ProcessData, DataTypeOK
<1>9. CASE FlushOutOfOrder(p)
  <2>1. recv_next' \in [Peer -> Nat] /\ buffer' \in [Peer -> Seq(Chunk \cup {NoPayload})]
    BY <1>9, <1>3 DEF FlushOutOfOrder, DataTypeOK
  <2>2. out_of_order' \in [Peer -> SUBSET TTPPacket]
    BY <1>9 DEF FlushOutOfOrder, DataTypeOK
  <2> QED BY <1>9, <2>1, <2>2 DEF FlushOutOfOrder, DataTypeOK
<1>10. CASE Reply(p)
  <2>1. BuildPacket(p, {"ACK"}, NoPayload) \in TTPPacket
    BY DEF BuildPacket, TTPPacket, TTPFlags, DataTypeOK
  <2>2. network' \in [Peer -> SUBSET TTPPacket]
    BY <1>10, <2>1, TransmitType DEF Reply, DataTypeOK
  <2> QED BY <1>10, <2>2 DEF Reply, DataTypeOK
<1> QED BY <1>4, <1>5, <1>6, <1>7, <1>8, <1>9, <1>10

\* A step of the application outside _flush_window, or of the environment,
\* leaves every thread at a statement.
LEMMA AppLabels ==
    ASSUME PcOK, NEW p \in Peer,
           \/ BuildChunk(p) \/ StartFlush(p) \/ Recv(p) \/ WaitForAcks(p)
           \/ WaitForAcksReturns(p) \/ TimerExpires(p) \/ Lose(p)
    PROVE  PcOK'
<1> USE GoToType DEF Thread, AppLabel, ReceiverLabel, FlushLabel
<1>1. CASE BuildChunk(p) BY <1>1 DEF BuildChunk
<1>2. CASE StartFlush(p) BY <1>2 DEF StartFlush
<1>3. CASE Recv(p) BY <1>3 DEF Recv, PcOK
<1>4. CASE WaitForAcks(p) BY <1>4 DEF WaitForAcks
<1>5. CASE WaitForAcksReturns(p) BY <1>5 DEF WaitForAcksReturns
<1>6. CASE TimerExpires(p) BY <1>6 DEF TimerExpires, PcOK
<1>7. CASE Lose(p) BY <1>7 DEF Lose, PcOK
<1> QED BY <1>1, <1>2, <1>3, <1>4, <1>5, <1>6, <1>7

\* A step of the application outside _flush_window, or of the environment,
\* preserves the types of the data.
LEMMA AppData ==
    ASSUME DataTypeOK, NEW p \in Peer,
           \/ BuildChunk(p) \/ StartFlush(p) \/ Recv(p) \/ WaitForAcks(p)
           \/ WaitForAcksReturns(p) \/ TimerExpires(p) \/ Lose(p)
    PROVE  DataTypeOK'
<1> USE DEF sequenceVars, windowVars, receiveVars, historyVars
<1>1. CASE BuildChunk(p)
  <2>1. PICK chunk \in Chunk :
          LET pk == BuildPacket(p, {"DATA"}, chunk)
          IN  /\ queue' = [queue EXCEPT ![p] = Append(@, pk)]
              /\ sent' = [sent EXCEPT ![p] = Append(@, pk)]
              /\ send_next' = [send_next EXCEPT ![p] = @ + SequenceSpace(pk)]
    BY <1>1 DEF BuildChunk
  <2> DEFINE pk == BuildPacket(p, {"DATA"}, chunk)
  <2>2. pk \in TTPPacket
    BY DEF BuildPacket, TTPPacket, TTPFlags, DataTypeOK
  <2> HIDE DEF pk
  <2>3. queue' \in [Peer -> Seq(TTPPacket)] /\ sent' \in [Peer -> Seq(TTPPacket)]
    BY <2>1, <2>2 DEF pk, DataTypeOK
  <2>4. send_next' \in [Peer -> Nat]
    BY <2>1, <2>2, SequenceSpaceType DEF pk, DataTypeOK
  <2> QED BY <1>1, <2>3, <2>4 DEF BuildChunk, DataTypeOK
<1>2. CASE StartFlush(p)
  BY <1>2 DEF StartFlush, DataTypeOK
<1>3. CASE Recv(p)
  <2>1. Head(buffer[p]) \in Chunk \cup {NoPayload}
        /\ Tail(buffer[p]) \in Seq(Chunk \cup {NoPayload})
    BY <1>3 DEF Recv, DataTypeOK
  <2>2. buffer' \in [Peer -> Seq(Chunk \cup {NoPayload})]
        /\ received' \in [Peer -> Seq(Chunk \cup {NoPayload})]
    <3>1. Append(received[p], Head(buffer[p])) \in Seq(Chunk \cup {NoPayload})
      BY <2>1 DEF DataTypeOK
    <3> QED BY <1>3, <2>1, <3>1 DEF Recv, DataTypeOK
  <2> QED BY <1>3, <2>2 DEF Recv, DataTypeOK
<1>4. CASE WaitForAcks(p)
  BY <1>4 DEF WaitForAcks, DataTypeOK
<1>5. CASE WaitForAcksReturns(p)
  BY <1>5 DEF WaitForAcksReturns, DataTypeOK
<1>6. CASE TimerExpires(p)
  BY <1>6 DEF TimerExpires, Expire, RetransmissionManager, TimerState, DataTypeOK
<1>7. CASE Lose(p)
  <2>1. network' \in [Peer -> SUBSET TTPPacket]
    BY <1>7 DEF Lose, DataTypeOK
  <2> QED BY <1>7, <2>1 DEF Lose, DataTypeOK
<1> QED BY <1>1, <1>2, <1>3, <1>4, <1>5, <1>6, <1>7

\* Every statement of a thread, and every step of the environment, preserves the types.
LEMMA StepTypes == ASSUME TypeOK, Next PROVE TypeOK'
<1>1. PcOK'
  BY TypeParts, FlushWindowLabels, ReceiveLabels, AppLabels DEF Next, App, ReceiveLoop, Thread
<1>2. DataTypeOK'
  BY TypeParts, FlushWindowData, ReceiveData, AppData DEF Next, App, ReceiveLoop, Thread
<1> QED BY <1>1, <1>2 DEF TypeOK, DataTypeOK, PcOK

\* A connection starts with a value of its type in every variable.
LEMMA InitTypes == ASSUME Init PROVE TypeOK
<1>1. PcOK
  BY DEF Init, PcOK, Thread, AppLabel, ReceiverLabel, FlushLabel
<1> QED
  BY <1>1, NoPacketType, OtherPeer, TransferAssumption
  DEF Init, PcOK, TypeOK, Fresh, RetransmissionManager, TimerState

\* Type correctness: whatever the two threads of each peer and the network do,
\* every variable holds a value of its type and every thread is at one of its statements.
THEOREM TypeCorrect == Spec => []TypeOK
<1>1. Init => TypeOK
  BY InitTypes
<1>2. TypeOK /\ [Next]_vars => TypeOK'
  <2> SUFFICES ASSUME TypeOK, [Next]_vars PROVE TypeOK'
    OBVIOUS
  <2>1. CASE Next
    BY <2>1, StepTypes
  <2>2. CASE UNCHANGED vars
    BY <2>2 DEF vars, sequenceVars, windowVars, receiveVars, historyVars, TypeOK
  <2> QED BY <2>1, <2>2
<1> QED BY <1>1, <1>2, PTL DEF Spec

-----------------------------------------------------------------------------
(* What a step changes *)

\* Only BuildChunk builds a segment that is remembered.
LEMMA SentFrame ==
    ASSUME TypeOK, Next
    PROVE  \/ \E p \in Peer : BuildChunk(p)
           \/ UNCHANGED <<sent, send_next>>
BY DEF Next, App, ReceiveLoop, FlushWindow, Recv, WaitForAcks, StartFlush, WaitForAcksReturns,
       Peek, Admit, PopHead, InsertPending, TransmitHead, CheckFirstPending, StartTimer,
       WaitForPacket, CheckRetransmission, ProcessAck, StopTimer, LogWindow, ProcessData,
       FlushOutOfOrder, Reply, TimerExpires, Lose,
       sequenceVars, historyVars

\* Only Recv and the two actions that accept a segment change what is delivered.
LEMMA DeliveryFrame ==
    ASSUME TypeOK, Next
    PROVE  \/ \E p \in Peer : Recv(p) \/ ProcessData(p) \/ FlushOutOfOrder(p)
           \/ UNCHANGED <<recv_next, buffer, received>>
BY DEF Next, App, ReceiveLoop, FlushWindow, BuildChunk, WaitForAcks, StartFlush,
       WaitForAcksReturns,
       Peek, Admit, PopHead, InsertPending, TransmitHead, CheckFirstPending, StartTimer,
       WaitForPacket, CheckRetransmission, ProcessAck, StopTimer, LogWindow, Reply,
       TimerExpires, Lose, sequenceVars, receiveVars, historyVars

\* GoTo moves one thread and no other.
LEMMA GoToEffect ==
    ASSUME TypeOK, NEW p \in Peer, NEW t \in Thread, NEW label, GoTo(p, t, label)
    PROVE  /\ pc'[p][t] = label
           /\ \A q \in Peer, u \in Thread : q # p \/ u # t => pc'[q][u] = pc[q][u]
BY DEF TypeOK, GoTo

-----------------------------------------------------------------------------
(* The chain of sequence numbers *)

\* What BuildChunk does to the segments built and to the queue.
LEMMA BuildChunkEffect ==
    ASSUME DataTypeOK, NEW p \in Peer, BuildChunk(p)
    PROVE  \E pk \in TTPPacket :
             /\ pk.flags = {"DATA"} /\ pk.payload \in Chunk /\ pk.seq = send_next[p]
             /\ sent' = [sent EXCEPT ![p] = Append(@, pk)]
             /\ queue' = [queue EXCEPT ![p] = Append(@, pk)]
             /\ send_next' = [send_next EXCEPT ![p] = @ + SequenceSpace(pk)]
             /\ End(pk) = send_next'[p] /\ send_next[p] < send_next'[p]
<1>1. PICK chunk \in Chunk :
         LET pk == BuildPacket(p, {"DATA"}, chunk)
         IN  /\ queue' = [queue EXCEPT ![p] = Append(@, pk)]
             /\ sent' = [sent EXCEPT ![p] = Append(@, pk)]
             /\ send_next' = [send_next EXCEPT ![p] = @ + SequenceSpace(pk)]
  BY DEF BuildChunk
<1> DEFINE pk == BuildPacket(p, {"DATA"}, chunk)
<1>2. /\ pk \in TTPPacket /\ pk.flags = {"DATA"}
      /\ pk.payload = chunk /\ pk.seq = send_next[p]
  BY DEF BuildPacket, TTPPacket, TTPFlags, DataTypeOK
<1> HIDE DEF pk
<1>3. SequenceSpace(pk) \in Nat \ {0}
  BY <1>2, DataSpace
<1>4. send_next[p] \in Nat /\ send_next'[p] = send_next[p] + SequenceSpace(pk)
  BY <1>1 DEF pk, DataTypeOK
<1>5. End(pk) = send_next'[p] /\ send_next[p] < send_next'[p]
  BY <1>2, <1>3, <1>4 DEF End
<1> QED BY <1>1, <1>2, <1>5 DEF pk

\* The segments built so far keep their places and their numbers.
LEMMA SentGrows ==
    ASSUME TypeOK, Next, NEW p \in Peer
    PROVE  /\ Len(sent[p]) \in Nat /\ Len(sent'[p]) \in Nat
           /\ Len(sent[p]) <= Len(sent'[p])
           /\ \A i \in 1..Len(sent[p]) : sent'[p][i] = sent[p][i]
           /\ \A i \in 1..(Len(sent[p]) + 1) : SeqOf(p, i)' = SeqOf(p, i)
<1>1. sent[p] \in Seq(TTPPacket)
  BY DEF TypeOK
<1>2. CASE UNCHANGED <<sent, send_next>>
  BY <1>1, <1>2 DEF SeqOf
<1>3. ASSUME NEW b \in Peer, BuildChunk(b)
      PROVE  /\ Len(sent'[p]) \in Nat
             /\ Len(sent[p]) <= Len(sent'[p])
             /\ \A i \in 1..Len(sent[p]) : sent'[p][i] = sent[p][i]
             /\ \A i \in 1..(Len(sent[p]) + 1) : SeqOf(p, i)' = SeqOf(p, i)
  <2>1. PICK pk \in TTPPacket :
           /\ pk.seq = send_next[b]
           /\ sent' = [sent EXCEPT ![b] = Append(@, pk)]
           /\ send_next' = [send_next EXCEPT ![b] = @ + SequenceSpace(pk)]
    BY <1>3, BuildChunkEffect, TypeParts
  <2>2. CASE b # p
    <3>1. sent'[p] = sent[p] /\ send_next'[p] = send_next[p]
      BY <2>1, <2>2 DEF TypeOK
    <3> QED BY <1>1, <3>1 DEF SeqOf
  <2>3. CASE b = p
    <3>1. sent'[p] = Append(sent[p], pk)
      BY <2>1, <2>3 DEF TypeOK
    <3>2. /\ Len(sent'[p]) = Len(sent[p]) + 1
          /\ \A i \in 1..Len(sent[p]) : sent'[p][i] = sent[p][i]
          /\ sent'[p][Len(sent[p]) + 1] = pk
      BY <1>1, <3>1
    <3>3. ASSUME NEW i \in 1..(Len(sent[p]) + 1)
          PROVE  SeqOf(p, i)' = SeqOf(p, i)
      BY <1>1, <2>1, <2>3, <3>2 DEF SeqOf
    <3> QED BY <1>1, <3>2, <3>3
  <2> QED BY <2>2, <2>3
<1> QED BY <1>1, <1>2, <1>3, SentFrame

\* Every step keeps the numbers of the segments built chained.
LEMMA ChainStep ==
    ASSUME TypeOK, Next, NEW p \in Peer, SentIsChained(p)
    PROVE  SentIsChained(p)'
<1>1. sent[p] \in Seq(TTPPacket) /\ Len(sent[p]) \in Nat
  BY DEF TypeOK
<1>2. CASE UNCHANGED <<sent, send_next>>
  BY <1>2 DEF SentIsChained, SeqOf
<1>3. ASSUME NEW b \in Peer, BuildChunk(b)
      PROVE  SentIsChained(p)'
  <2>1. PICK pk \in TTPPacket :
           /\ pk.flags = {"DATA"} /\ pk.payload \in Chunk /\ pk.seq = send_next[b]
           /\ sent' = [sent EXCEPT ![b] = Append(@, pk)]
           /\ send_next' = [send_next EXCEPT ![b] = @ + SequenceSpace(pk)]
           /\ End(pk) = send_next'[b] /\ send_next[b] < send_next'[b]
    BY <1>3, BuildChunkEffect, TypeParts
  <2>2. CASE b # p
    <3>1. sent'[p] = sent[p] /\ send_next'[p] = send_next[p]
      BY <2>1, <2>2 DEF TypeOK
    <3> QED BY <3>1 DEF SentIsChained, SeqOf
  <2>3. CASE b = p
    <3> DEFINE n == Len(sent[p])
    <3>1. sent'[p] = Append(sent[p], pk)
      BY <2>1, <2>3 DEF TypeOK
    <3>2. /\ Len(sent'[p]) = n + 1
          /\ \A i \in 1..n : sent'[p][i] = sent[p][i]
          /\ sent'[p][n + 1] = pk
      BY <1>1, <3>1
    <3>3. \A i \in 1..(n + 1) : SeqOf(p, i)' = SeqOf(p, i)
      BY SentGrows
    <3>4. SeqOf(p, n + 1) = send_next[p]
      BY <1>1 DEF SeqOf
    <3>5. send_next[p] < send_next'[p] /\ send_next[p] \in Nat /\ send_next'[p] \in Nat
      BY <2>1, <2>3, SequenceSpaceType DEF TypeOK
    <3>6. SeqOf(p, 1)' = ISN[p] + 1
      BY <1>1, <3>3 DEF SentIsChained
    <3>7. ASSUME NEW i \in 1..(n + 1)
          PROVE  /\ sent'[p][i].flags = {"DATA"}
                 /\ sent'[p][i].payload \in Chunk
                 /\ SeqOf(p, i + 1)' = End(sent'[p][i])
      <4>1. CASE i = n + 1
        <5>1. SeqOf(p, i + 1)' = send_next'[p]
          BY <1>1, <3>2, <4>1 DEF SeqOf
        <5> QED BY <2>1, <2>3, <3>2, <4>1, <5>1
      <4>2. CASE i \in 1..n
        <5>1. SeqOf(p, i + 1)' = SeqOf(p, i + 1)
          BY <1>1, <3>3, <4>2
        <5> QED BY <3>2, <4>2, <5>1 DEF SentIsChained
      <4> QED BY <1>1, <4>1, <4>2
    <3>8. ASSUME NEW i \in 1..(n + 2), NEW j \in 1..(n + 2), i < j
          PROVE  SeqOf(p, i)' < SeqOf(p, j)'
      <4>1. CASE j \in 1..(n + 1)
        BY <1>1, <3>3, <3>8, <4>1 DEF SentIsChained
      <4>2. CASE j = n + 2
        <5>1. i \in 1..(n + 1)
          BY <1>1, <3>8, <4>2
        <5>2. SeqOf(p, i)' = SeqOf(p, i)
          BY <3>3, <5>1
        <5>3. CASE i = n + 1
          <6>1. SeqOf(p, i)' = send_next[p]
            BY <3>4, <5>2, <5>3
          <6>2. SeqOf(p, j)' = send_next'[p]
            BY <1>1, <3>2, <4>2 DEF SeqOf
          <6> QED BY <3>5, <6>1, <6>2
        <5>4. CASE i < n + 1
          <6>1. SeqOf(p, i) < send_next[p]
            BY <1>1, <3>4, <5>1, <5>4 DEF SentIsChained
          <6>2. SeqOf(p, i) \in Nat
            <7>1. i \in 1..n /\ sent[p][i] \in TTPPacket
              BY <1>1, <5>1, <5>4
            <7>2. sent[p][i].seq \in Nat
              BY <7>1 DEF TTPPacket
            <7> QED BY <1>1, <7>1, <7>2 DEF SeqOf
          <6>3. SeqOf(p, j)' = send_next'[p]
            BY <1>1, <3>2, <4>2 DEF SeqOf
          <6> QED BY <3>5, <5>2, <6>1, <6>2, <6>3
        <5> QED BY <1>1, <5>1, <5>3, <5>4
      <4> QED BY <1>1, <4>1, <4>2
    <3> QED BY <1>1, <3>2, <3>6, <3>7, <3>8 DEF SentIsChained
  <2> QED BY <2>2, <2>3
<1> QED BY <1>2, <1>3, SentFrame

-----------------------------------------------------------------------------
(* How the threads move *)

\* A thread gets to the statements the invariant speaks of in the actions that
\* lead there, and nowhere else.
LEMMA PcFrame ==
    ASSUME TypeOK, Next, NEW p \in Peer, NEW t \in Thread
    PROVE  /\ (pc'[p]["receiver"] = "drain") # (pc[p]["receiver"] = "drain") =>
                ProcessData(p) \/ FlushOutOfOrder(p)
           /\ pc'[p][t] \in {"insert", "transmit"} =>
                pc'[p][t] = pc[p][t] \/ PopHead(p, t) \/ InsertPending(p, t)
           /\ pc'[p]["receiver"] \in {"check", "ack", "data"} =>
                \/ pc'[p]["receiver"] = pc[p]["receiver"]
                \/ WaitForPacket(p) \/ CheckRetransmission(p)
<1>1. "app" \in Thread /\ "receiver" \in Thread /\ \A u \in Thread : u = "app" \/ u = "receiver"
  BY DEF Thread
<1> USE <1>1, GoToEffect DEF At
<1>2. ASSUME NEW b \in Peer, NEW u \in Thread, FlushWindow(b, u)
      PROVE  /\ (pc'[p]["receiver"] = "drain") # (pc[p]["receiver"] = "drain") => FALSE
             /\ pc'[p][t] \in {"insert", "transmit"} =>
                  pc'[p][t] = pc[p][t] \/ PopHead(p, t) \/ InsertPending(p, t)
             /\ pc'[p]["receiver"] \in {"check", "ack", "data"} =>
                  pc'[p]["receiver"] = pc[p]["receiver"]
  <2>1. CASE Peek(b, u) BY <2>1 DEF Peek, Flushed, Failed
  <2>2. CASE Admit(b, u) BY <2>2 DEF Admit, Flushed, Failed
  <2>3. CASE PopHead(b, u)
    <3>1. CASE b = p /\ u = t
      BY <2>3, <3>1 DEF PopHead, Flushed, Failed
    <3>2. CASE ~(b = p /\ u = t)
      BY <2>3, <3>2 DEF PopHead, Flushed, Failed
    <3> QED BY <3>1, <3>2
  <2>4. CASE InsertPending(b, u)
    <3>1. CASE b = p /\ u = t
      BY <2>4, <3>1 DEF InsertPending
    <3>2. CASE ~(b = p /\ u = t)
      BY <2>4, <3>2 DEF InsertPending
    <3> QED BY <3>1, <3>2
  <2>5. CASE TransmitHead(b, u) BY <2>5 DEF TransmitHead, Failed
  <2>6. CASE CheckFirstPending(b, u) BY <2>6 DEF CheckFirstPending, Failed
  <2>7. CASE StartTimer(b, u) BY <2>7 DEF StartTimer
  <2> QED BY <1>2, <2>1, <2>2, <2>3, <2>4, <2>5, <2>6, <2>7 DEF FlushWindow
<1>3. ASSUME NEW b \in Peer,
             \/ WaitForPacket(b) \/ CheckRetransmission(b) \/ ProcessAck(b) \/ StopTimer(b)
             \/ LogWindow(b) \/ ProcessData(b) \/ FlushOutOfOrder(b) \/ Reply(b)
      PROVE  /\ (pc'[p]["receiver"] = "drain") # (pc[p]["receiver"] = "drain") =>
                  ProcessData(p) \/ FlushOutOfOrder(p)
             /\ pc'[p][t] \in {"insert", "transmit"} => pc'[p][t] = pc[p][t]
             /\ pc'[p]["receiver"] \in {"check", "ack", "data"} =>
                  \/ pc'[p]["receiver"] = pc[p]["receiver"]
                  \/ WaitForPacket(p) \/ CheckRetransmission(p)
  <2>1. CASE b # p
    BY <1>3, <2>1
    DEF WaitForPacket, CheckRetransmission, Dispatch, ProcessAck, StopTimer, LogWindow,
        ProcessData, FlushOutOfOrder, Reply
  <2>2. CASE b = p
    <3>1. CASE WaitForPacket(p)
      <4>1. GoTo(p, "receiver", "check") /\ pc[p]["receiver"] = "wait"
        BY <3>1 DEF WaitForPacket
      <4> QED BY <3>1, <4>1
    <3>2. CASE CheckRetransmission(p) BY <3>2 DEF CheckRetransmission, Dispatch
    <3>3. CASE ProcessAck(p) BY <3>3 DEF ProcessAck
    <3>4. CASE StopTimer(p) \/ LogWindow(p) BY <3>4 DEF StopTimer, LogWindow
    <3>5. CASE ProcessData(p) BY <3>5 DEF ProcessData
    <3>6. CASE FlushOutOfOrder(p) BY <3>6 DEF FlushOutOfOrder
    <3>7. CASE Reply(p) BY <3>7 DEF Reply
    <3> QED BY <1>3, <2>2, <3>1, <3>2, <3>3, <3>4, <3>5, <3>6, <3>7
  <2> QED BY <2>1, <2>2
<1>4. ASSUME NEW b \in Peer,
             \/ BuildChunk(b) \/ StartFlush(b) \/ Recv(b) \/ WaitForAcks(b)
             \/ WaitForAcksReturns(b) \/ TimerExpires(b) \/ Lose(b)
      PROVE  /\ pc'[p]["receiver"] = pc[p]["receiver"]
             /\ pc'[p][t] \in {"insert", "transmit"} => pc'[p][t] = pc[p][t]
  BY <1>4
  DEF BuildChunk, StartFlush, Recv, WaitForAcks, WaitForAcksReturns, TimerExpires, Lose
<1> QED BY <1>2, <1>3, <1>4 DEF Next, App, ReceiveLoop

-----------------------------------------------------------------------------
(* What is delivered *)

\* Appending after a concatenation, and moving the head of the second sequence
\* to the end of the first, which is what Recv does.
LEMMA ConcatAppend ==
    ASSUME NEW S, NEW s \in Seq(S), NEW u \in Seq(S), NEW e \in S
    PROVE  s \o Append(u, e) = Append(s \o u, e)
<1>1. s \o Append(u, e) \in Seq(S) /\ Append(s \o u, e) \in Seq(S)
  BY ConcatProperties, AppendProperties
<1>2. Len(s \o Append(u, e)) = Len(Append(s \o u, e))
  BY ConcatProperties, AppendProperties, LenProperties
<1>3. ASSUME NEW i \in 1..Len(s \o Append(u, e))
      PROVE  (s \o Append(u, e))[i] = Append(s \o u, e)[i]
  BY ConcatProperties, AppendProperties, LenProperties
<1> QED BY <1>1, <1>2, <1>3, SeqEqual

LEMMA ConcatMoveHead ==
    ASSUME NEW S, NEW s \in Seq(S), NEW u \in Seq(S), u # << >>
    PROVE  Append(s, Head(u)) \o Tail(u) = s \o u
<1>1. Head(u) \in S /\ Tail(u) \in Seq(S) /\ Head(u) = u[1]
  BY HeadTailProperties
<1>2. Append(s, Head(u)) \o Tail(u) \in Seq(S) /\ s \o u \in Seq(S)
  BY <1>1, ConcatProperties, AppendProperties
<1>3. Len(Append(s, Head(u)) \o Tail(u)) = Len(s \o u)
  BY <1>1, ConcatProperties, AppendProperties, HeadTailProperties, LenProperties
<1>4. ASSUME NEW i \in 1..Len(s \o u)
      PROVE  (Append(s, Head(u)) \o Tail(u))[i] = (s \o u)[i]
  BY <1>1, ConcatProperties, AppendProperties, HeadTailProperties, LenProperties
<1> QED BY <1>2, <1>3, <1>4, SeqEqual

LEMMA DeliveredType ==
    ASSUME TypeOK, NEW p \in Peer
    PROVE  /\ Delivered(p) \in Seq(Chunk \cup {NoPayload})
           /\ Len(Delivered(p)) \in Nat
BY ConcatProperties, LenProperties DEF TypeOK, Delivered

\* A segment the other side built that starts at RCV.NXT is the first one not
\* yet delivered, and accepting it delivers its payload.
LEMMA AcceptEffect ==
    ASSUME TypeOK, NEW p \in Peer, DeliveredIsPrefix(p), SentIsChained(Other(p)),
           NEW pk \in TTPPacket, IsSent(Other(p), pk), pk.seq = recv_next[p],
           Accept(p, pk), UNCHANGED <<received, sent, send_next>>
    PROVE  /\ pk = sent[Other(p)][Len(Delivered(p)) + 1]
           /\ Len(Delivered(p)) < Len(sent[Other(p)])
           /\ Delivered(p)' = Append(Delivered(p), pk.payload)
           /\ recv_next'[p] = SeqOf(Other(p), Len(Delivered(p)) + 2)
           /\ recv_next[p] <= recv_next'[p]
           /\ \A b \in Peer : b # p => recv_next'[b] = recv_next[b] /\ buffer'[b] = buffer[b]
<1> DEFINE q == Other(p)
           n == Len(Delivered(p)) + 1
<1>1. q \in Peer
  BY OtherPeer
<1>2. sent[q] \in Seq(TTPPacket) /\ Len(sent[q]) \in Nat /\ n \in Nat /\ n >= 1
  BY <1>1, DeliveredType DEF TypeOK
<1>3. PICK i \in 1..Len(sent[q]) : pk = sent[q][i]
  BY DEF IsSent
<1>4. SeqOf(q, i) = SeqOf(q, n)
  BY <1>2, <1>3 DEF SeqOf, DeliveredIsPrefix
<1>5. i \in 1..(Len(sent[q]) + 1) /\ n \in 1..(Len(sent[q]) + 1)
  BY <1>2 DEF DeliveredIsPrefix
<1>6. \A k \in 1..(Len(sent[q]) + 1) : SeqOf(q, k) \in Nat
  <2>1. send_next[q] \in Nat
    BY <1>1 DEF TypeOK
  <2>2. ASSUME NEW k \in 1..Len(sent[q])
        PROVE  sent[q][k].seq \in Nat
    <3>1. sent[q][k] \in TTPPacket
      BY <1>2
    <3> QED BY <3>1 DEF TTPPacket
  <2> QED BY <1>2, <2>1, <2>2 DEF SeqOf
<1>7. i = n
  <2>1. ~(i < n)
    BY <1>4, <1>5, <1>6 DEF SentIsChained
  <2>2. ~(n < i)
    BY <1>4, <1>5, <1>6 DEF SentIsChained
  <2> QED BY <1>2, <2>1, <2>2
<1>8. SequenceSpace(pk) \in Nat
  BY SequenceSpaceType
<1>9. recv_next'[p] = recv_next[p] + SequenceSpace(pk) /\ recv_next[p] \in Nat
  BY DEF Accept, TypeOK
<1>10. SeqOf(q, n + 1) = End(pk)
  BY <1>2, <1>3, <1>7 DEF SentIsChained
<1>11. recv_next'[p] = SeqOf(q, n + 1) /\ recv_next[p] <= recv_next'[p]
  BY <1>8, <1>9, <1>10 DEF End
<1>12. Delivered(p)' = Append(Delivered(p), pk.payload)
  <2>1. pk.payload \in Chunk \cup {NoPayload}
    BY DEF TTPPacket
  <2>2. buffer'[p] = Append(buffer[p], pk.payload) /\ received'[p] = received[p]
    BY DEF Accept, TypeOK
  <2>3. received[p] \in Seq(Chunk \cup {NoPayload}) /\ buffer[p] \in Seq(Chunk \cup {NoPayload})
    BY DEF TypeOK
  <2>4. \A s, u \in Seq(Chunk \cup {NoPayload}), e \in Chunk \cup {NoPayload} :
          s \o Append(u, e) = Append(s \o u, e)
    BY ConcatAppend
  <2>5. received[p] \o Append(buffer[p], pk.payload)
          = Append(received[p] \o buffer[p], pk.payload)
    BY <2>1, <2>3, <2>4
  <2> QED BY <2>2, <2>5 DEF Delivered
<1>13. \A b \in Peer : b # p => recv_next'[b] = recv_next[b] /\ buffer'[b] = buffer[b]
  BY DEF Accept, TypeOK
<1>14. n + 1 = Len(Delivered(p)) + 2
  BY DeliveredType
<1> QED BY <1>2, <1>3, <1>7, <1>11, <1>12, <1>13, <1>14

\* Delivering one more chunk of the stream leaves a prefix of it.
LEMMA DeliverOne ==
    ASSUME TypeOK, NEW p \in Peer, DeliveredIsPrefix(p), SentIsChained(Other(p)),
           NEW pk \in TTPPacket, IsSent(Other(p), pk), pk.seq = recv_next[p],
           Accept(p, pk), UNCHANGED <<received, sent, send_next>>
    PROVE  DeliveredIsPrefix(p)'
<1> DEFINE n == Len(Delivered(p))
<1>1. /\ pk = sent[Other(p)][n + 1]
      /\ n < Len(sent[Other(p)])
      /\ Delivered(p)' = Append(Delivered(p), pk.payload)
      /\ recv_next'[p] = SeqOf(Other(p), n + 2)
  BY AcceptEffect
<1>2. Delivered(p) \in Seq(Chunk \cup {NoPayload}) /\ n \in Nat
  BY DeliveredType
<1>3. Len(sent[Other(p)]) \in Nat
  BY OtherPeer DEF TypeOK
<1>4. /\ Len(Delivered(p)') = n + 1
      /\ \A i \in 1..n : Delivered(p)'[i] = Delivered(p)[i]
      /\ Delivered(p)'[n + 1] = pk.payload
  <2>1. pk.payload \in Chunk \cup {NoPayload}
    BY DEF TTPPacket
  <2> QED BY <1>1, <1>2, <2>1, AppendProperties
<1>5. \A i \in 1..(n + 1) : Delivered(p)'[i] = sent[Other(p)][i].payload
  BY <1>1, <1>2, <1>4 DEF DeliveredIsPrefix
<1>6. recv_next'[p] = SeqOf(Other(p), Len(Delivered(p)') + 1)
  BY <1>1, <1>2, <1>4
<1>7. sent' = sent /\ send_next' = send_next
  OBVIOUS
<1> QED BY <1>1, <1>2, <1>3, <1>4, <1>5, <1>6, <1>7 DEF DeliveredIsPrefix, SeqOf

\* What the receiver accepts in a step is a segment the other side built and
\* starts at RCV.NXT; every other step leaves RCV.NXT alone.
LEMMA AcceptStep ==
    ASSUME TypeOK, Next, NEW p \in Peer, ArrivalsAreGenuine(p)
    PROVE  \/ \E pk \in TTPPacket :
                /\ IsSent(Other(p), pk) /\ pk.seq = recv_next[p] /\ Accept(p, pk)
                /\ UNCHANGED <<received, sent, send_next>>
           \/ recv_next'[p] = recv_next[p] /\ buffer'[p] = buffer[p] /\ received'[p] = received[p]
           \/ recv_next'[p] = recv_next[p] /\ Recv(p)
<1>1. ASSUME NEW b \in Peer, Recv(b)
      PROVE  \/ recv_next'[p] = recv_next[p] /\ buffer'[p] = buffer[p] /\ received'[p] = received[p]
             \/ recv_next'[p] = recv_next[p] /\ Recv(p)
  BY <1>1 DEF Recv, sequenceVars, TypeOK
<1>2. ASSUME NEW b \in Peer, b # p, ProcessData(b) \/ FlushOutOfOrder(b)
      PROVE  recv_next'[p] = recv_next[p] /\ buffer'[p] = buffer[p] /\ received'[p] = received[p]
  BY <1>2 DEF ProcessData, FlushOutOfOrder, Accept, receiveVars, historyVars, TypeOK
<1>3. CASE ProcessData(p)
  <2>1. current[p] \in TTPPacket /\ IsSent(Other(p), current[p])
    BY <1>3 DEF ProcessData, At, ArrivalsAreGenuine, IsGenuine, TypeOK
  <2>2. \/ current[p].seq = recv_next[p] /\ Accept(p, current[p])
        \/ UNCHANGED <<recv_next, buffer>>
    BY <1>3 DEF ProcessData, ReceiveStatus
  <2>3. UNCHANGED <<received, sent, send_next>>
    BY <1>3 DEF ProcessData, historyVars
  <2> QED BY <2>1, <2>2, <2>3
<1>4. CASE FlushOutOfOrder(p)
  <2>1. \A pk \in out_of_order[p] : pk \in TTPPacket /\ IsSent(Other(p), pk)
    BY DEF ArrivalsAreGenuine, TypeOK
  <2>2. \/ \E pk \in out_of_order[p] : pk.seq = recv_next[p] /\ Accept(p, pk)
        \/ UNCHANGED <<recv_next, buffer>>
    BY <1>4 DEF FlushOutOfOrder, receiveVars
  <2>3. UNCHANGED <<received, sent, send_next>>
    BY <1>4 DEF FlushOutOfOrder, historyVars
  <2> QED BY <2>1, <2>2, <2>3
<1> QED BY <1>1, <1>2, <1>3, <1>4, DeliveryFrame

\* Every step leaves what is delivered a prefix of the stream, and RCV.NXT where
\* that prefix ends.
LEMMA DeliveryStep ==
    ASSUME TypeOK, Next, NEW p \in Peer, DeliveredIsPrefix(p), SentIsChained(Other(p)),
           ArrivalsAreGenuine(p)
    PROVE  DeliveredIsPrefix(p)' /\ recv_next[p] <= recv_next'[p]
<1>1. recv_next[p] \in Nat /\ Other(p) \in Peer
  BY OtherPeer DEF TypeOK
<1>2. ASSUME Delivered(p)' = Delivered(p), recv_next'[p] = recv_next[p]
      PROVE  DeliveredIsPrefix(p)' /\ recv_next[p] <= recv_next'[p]
  <2> DEFINE n == Len(Delivered(p))
             q == Other(p)
  <2>1. n \in Nat /\ n <= Len(sent[q])
    BY DeliveredType DEF DeliveredIsPrefix
  <2>2. /\ Len(sent[q]) \in Nat /\ Len(sent'[q]) \in Nat /\ Len(sent[q]) <= Len(sent'[q])
        /\ \A i \in 1..Len(sent[q]) : sent'[q][i] = sent[q][i]
        /\ \A i \in 1..(Len(sent[q]) + 1) : SeqOf(q, i)' = SeqOf(q, i)
    BY <1>1, SentGrows
  <2>3. Len(Delivered(p)') <= Len(sent'[q])
    BY <1>2, <2>1, <2>2
  <2>4. \A i \in 1..Len(Delivered(p)') : Delivered(p)'[i] = sent'[q][i].payload
    BY <1>2, <2>1, <2>2 DEF DeliveredIsPrefix
  <2>5. PICK m \in Nat : m = n + 1
    BY <2>1
  <2>6. SeqOf(q, m)' = SeqOf(q, m)
    BY <2>1, <2>2, <2>5
  <2>7. recv_next'[p] = SeqOf(q, m)'
    BY <1>2, <2>5, <2>6 DEF DeliveredIsPrefix
  <2>8. m = Len(Delivered(p)') + 1
    BY <1>2, <2>5
  <2> QED BY <1>1, <1>2, <2>3, <2>4, <2>7, <2>8 DEF DeliveredIsPrefix
<1>3. CASE \E pk \in TTPPacket :
             /\ IsSent(Other(p), pk) /\ pk.seq = recv_next[p] /\ Accept(p, pk)
             /\ UNCHANGED <<received, sent, send_next>>
  BY <1>3, DeliverOne, AcceptEffect
<1>4. CASE recv_next'[p] = recv_next[p] /\ buffer'[p] = buffer[p] /\ received'[p] = received[p]
  BY <1>2, <1>4 DEF Delivered
<1>5. CASE recv_next'[p] = recv_next[p] /\ Recv(p)
  <2>1. received[p] \in Seq(Chunk \cup {NoPayload}) /\ buffer[p] \in Seq(Chunk \cup {NoPayload})
    BY DEF TypeOK
  <2>2. /\ buffer[p] # << >>
        /\ buffer'[p] = Tail(buffer[p])
        /\ received'[p] = Append(received[p], Head(buffer[p]))
    BY <1>5 DEF Recv, TypeOK
  <2>3. Delivered(p)' = Delivered(p)
    BY <2>1, <2>2, ConcatMoveHead DEF Delivered
  <2> QED BY <1>2, <1>5, <2>3
<1> QED BY <1>3, <1>4, <1>5, AcceptStep

-----------------------------------------------------------------------------
(* The send window *)

\* What a step can do to the segments built, the queue and pending.
LEMMA WindowFrame ==
    ASSUME TypeOK, Next
    PROVE  \/ \E p \in Peer : BuildChunk(p) \/ ProcessAck(p)
           \/ \E p \in Peer, t \in Thread : PopHead(p, t) \/ InsertPending(p, t)
           \/ UNCHANGED <<sent, queue, pending>>
BY DEF Next, App, ReceiveLoop, FlushWindow, Thread, Recv, WaitForAcks, StartFlush,
       WaitForAcksReturns, Peek, Admit, TransmitHead, CheckFirstPending, StartTimer,
       WaitForPacket, CheckRetransmission, StopTimer, LogWindow, ProcessData,
       FlushOutOfOrder, Reply, TimerExpires, Lose,
       windowVars, historyVars

\* A thread that is, after a step, between popleft() and the transmission has
\* just popped its segment or still holds it.
LEMMA PacketFrame ==
    ASSUME TypeOK, Next, NEW p \in Peer, NEW t \in Thread,
           pc'[p][t] \in {"insert", "transmit"}
    PROVE  \/ PopHead(p, t)
           \/ /\ pc'[p][t] = pc[p][t] \/ InsertPending(p, t)
              /\ packet'[p][t] = packet[p][t]
<1>1. ASSUME NEW b \in Peer, NEW u \in Thread, b # p \/ u # t,
             Peek(b, u) \/ Admit(b, u) \/ PopHead(b, u) \/ TransmitHead(b, u)
      PROVE  packet'[p][t] = packet[p][t]
  BY <1>1 DEF Peek, Admit, PopHead, TransmitHead, TypeOK
<1>2. ASSUME Peek(p, t) \/ Admit(p, t) \/ TransmitHead(p, t)
      PROVE  FALSE
  BY <1>2, GoToEffect DEF Peek, Admit, TransmitHead, Flushed, Failed
<1>3. \/ \E b \in Peer, u \in Thread :
            Peek(b, u) \/ Admit(b, u) \/ PopHead(b, u) \/ TransmitHead(b, u)
      \/ UNCHANGED packet
  BY DEF Next, App, ReceiveLoop, FlushWindow, Thread, BuildChunk, Recv, WaitForAcks, StartFlush,
         WaitForAcksReturns, InsertPending, CheckFirstPending, StartTimer,
         WaitForPacket, CheckRetransmission, ProcessAck, StopTimer, LogWindow, ProcessData,
         FlushOutOfOrder, Reply, TimerExpires, Lose
<1>4. \/ pc'[p][t] = pc[p][t] \/ PopHead(p, t) \/ InsertPending(p, t)
  BY PcFrame
<1> QED BY <1>1, <1>2, <1>3, <1>4

\* What WindowIsGenuine says of a segment taken stays true.
LEMMA TakenStays ==
    ASSUME TypeOK, Next, NEW p \in Peer, WindowIsGenuine(p), Taken(p) <= Taken(p)'
    PROVE  \A pk \in TTPPacket : WasTaken(p, pk) => WasTaken(p, pk)'
<1>1. Taken(p) \in Nat /\ Taken(p) <= Len(sent[p]) /\ Taken(p)' \in Int
  BY DEF WindowIsGenuine, Taken, TypeOK
<1>2. ASSUME NEW pk \in TTPPacket, NEW i \in 1..Taken(p), pk = sent[p][i]
      PROVE  WasTaken(p, pk)'
  <2>1. i \in 1..Len(sent[p]) /\ i \in 1..(Taken(p)')
    BY <1>1
  <2>2. pk = sent'[p][i]
    BY <1>2, <2>1, SentGrows
  <2> QED BY <2>1, <2>2 DEF WasTaken
<1> QED BY <1>2 DEF WasTaken

\* Taking a segment out of the queue takes the next one in the chain.
LEMMA WindowPop ==
    ASSUME TypeOK, Next, NEW p \in Peer, NEW t \in Thread, WindowIsGenuine(p), PopHead(p, t)
    PROVE  /\ WindowIsGenuine(p)'
           /\ \/ queue[p] = << >> /\ queue'[p] = queue[p] /\ pc'[p][t] \in {"raised", "dead"}
              \/ /\ queue[p] # << >> /\ pc'[p][t] = "insert"
                 /\ packet'[p][t] = sent[p][Taken(p) + 1] /\ Head(queue[p]) = packet'[p][t]
                 /\ queue'[p] = Tail(queue[p])
                 /\ Taken(p) \in Nat /\ Taken(p)' = Taken(p) + 1 /\ Taken(p) < Len(sent[p])
<1>1. /\ queue[p] \in Seq(TTPPacket) /\ Len(queue[p]) \in Nat
      /\ sent[p] \in Seq(TTPPacket) /\ Len(sent[p]) \in Nat
  BY DEF TypeOK
<1>2. sent' = sent /\ pending' = pending
  BY DEF PopHead, historyVars
<1>3. \A e \in pending[p] : e.packet \in TTPPacket
  BY DEF TypeOK, PendingEntry
<1>4. \A u \in Thread : packet[p][u] \in TTPPacket
  BY DEF TypeOK
<1>5. \A u \in Thread : u # t => pc'[p][u] = pc[p][u] /\ packet'[p][u] = packet[p][u]
  <2>1. \E label : GoTo(p, t, label)
    BY DEF PopHead
  <2>2. \A u \in Thread : u # t => pc'[p][u] = pc[p][u]
    BY <2>1, GoToEffect
  <2>3. \A u \in Thread : u # t => packet'[p][u] = packet[p][u]
    BY DEF PopHead, TypeOK
  <2> QED BY <2>2, <2>3
<1>6. CASE queue[p] = << >>
  <2>1. queue' = queue /\ pc'[p][t] = Failed(t)
    BY <1>6, GoToEffect DEF PopHead
  <2>2. Taken(p)' = Taken(p)
    BY <1>2, <2>1 DEF Taken
  <2>3. pc'[p][t] \in {"raised", "dead"}
    BY <2>1 DEF Failed
  <2>4. \A pk : WasTaken(p, pk) => WasTaken(p, pk)'
    BY <1>2, <2>2 DEF WasTaken
  <2>5. \A u \in Thread : pc'[p][u] \in {"insert", "transmit"} => WasTaken(p, packet'[p][u])
    BY <1>5, <2>3 DEF WindowIsGenuine
  <2>6. \A u \in Thread : pc'[p][u] \in {"insert", "transmit"} => WasTaken(p, packet[p][u])'
    BY <1>2, <2>2, <2>5 DEF WasTaken
  <2>7. WindowIsGenuine(p)'
    BY <1>2, <2>1, <2>2, <2>4, <2>6 DEF WindowIsGenuine
  <2> QED BY <1>6, <2>1, <2>3, <2>7
<1>7. CASE queue[p] # << >>
  <2>1. /\ queue'[p] = Tail(queue[p]) /\ packet'[p][t] = Head(queue[p])
        /\ pc'[p][t] = "insert"
    <3>1. pc'[p][t] = "insert"
      BY <1>7, GoToEffect DEF PopHead
    <3>2. queue'[p] = Tail(queue[p]) /\ packet'[p][t] = Head(queue[p])
      BY <1>7 DEF PopHead, TypeOK
    <3> QED BY <3>1, <3>2
  <2>2. /\ Len(queue[p]) >= 1 /\ Head(queue[p]) = queue[p][1]
        /\ Len(Tail(queue[p])) = Len(queue[p]) - 1
        /\ \A k \in 1..(Len(queue[p]) - 1) : Tail(queue[p])[k] = queue[p][k + 1]
    BY <1>1, <1>7
  <2>3. /\ Taken(p) \in Nat /\ Taken(p)' = Taken(p) + 1 /\ Taken(p) < Len(sent[p])
    <3>1. Len(queue[p]) <= Len(sent[p])
      BY DEF WindowIsGenuine
    <3>2. Len(queue'[p]) = Len(queue[p]) - 1 /\ sent'[p] = sent[p]
      BY <1>2, <2>1, <2>2
    <3>3. Taken(p)' = Len(sent'[p]) - Len(queue'[p]) /\ Taken(p) = Len(sent[p]) - Len(queue[p])
      BY DEF Taken
    <3>4. Len(queue[p]) >= 1
      BY <2>2
    <3>5. PICK a \in Nat, b \in Nat : a = Len(sent[p]) /\ b = Len(queue[p])
      BY <1>1
    <3>6. Taken(p) = a - b /\ Taken(p)' = a - (b - 1) /\ b >= 1 /\ b <= a
      BY <3>1, <3>2, <3>3, <3>4, <3>5
    <3>7. Taken(p) \in Nat
      BY <3>6
    <3>8. Taken(p)' = Taken(p) + 1
      BY <3>6
    <3>9. a - b < a
      BY <3>6
    <3>10. Taken(p) < a
      BY <3>6, <3>9
    <3>11. Taken(p) < Len(sent[p])
      BY <3>5, <3>10
    <3> QED BY <3>7, <3>8, <3>11
  <2>4. queue[p][1] = sent[p][Taken(p) + 1]
    BY <2>2 DEF WindowIsGenuine
  <2>5. \A k \in 1..Len(queue'[p]) : queue'[p][k] = sent[p][Taken(p) + 1 + k]
    <3>1. ASSUME NEW k \in 1..(Len(queue[p]) - 1)
          PROVE  queue'[p][k] = sent[p][Taken(p) + 1 + k]
      <4>1. queue'[p][k] = queue[p][k + 1] /\ k + 1 \in 1..Len(queue[p])
        BY <1>1, <2>1, <2>2
      <4>2. queue[p][k + 1] = sent[p][Taken(p) + (k + 1)]
        BY <4>1 DEF WindowIsGenuine
      <4>3. Taken(p) + (k + 1) = Taken(p) + 1 + k
        BY <2>3
      <4> QED BY <4>1, <4>2, <4>3
    <3> QED BY <2>1, <2>2, <3>1
  <2>6. \A k \in 1..Len(queue'[p]) : queue'[p][k] = sent'[p][Taken(p)' + k]
    BY <1>2, <2>3, <2>5
  <2>7. \A pk \in TTPPacket : WasTaken(p, pk) => WasTaken(p, pk)'
    BY <2>3, TakenStays
  <2>8. \A e \in pending'[p] : WasTaken(p, e.packet)'
    BY <1>2, <1>3, <2>7 DEF WindowIsGenuine
  <2>9. ASSUME NEW u \in Thread, pc'[p][u] \in {"insert", "transmit"}
        PROVE  WasTaken(p, packet[p][u])'
    <3>1. CASE u = t
      <4>1. packet'[p][u] = sent'[p][Taken(p) + 1]
        BY <1>2, <2>1, <2>2, <2>4, <3>1
      <4>2. Taken(p) + 1 \in 1..(Taken(p)')
        BY <2>3
      <4> QED BY <4>1, <4>2 DEF WasTaken
    <3>2. CASE u # t
      <4>1. packet'[p][u] = packet[p][u] /\ WasTaken(p, packet[p][u])
        BY <1>5, <2>9, <3>2 DEF WindowIsGenuine
      <4>2. PICK i \in 1..Taken(p) : packet[p][u] = sent[p][i]
        BY <4>1 DEF WasTaken
      <4> QED BY <1>2, <2>3, <4>1, <4>2 DEF WasTaken
    <3> QED BY <3>1, <3>2
  <2>10. Len(queue'[p]) <= Len(sent'[p])
    BY <1>1, <1>2, <2>1, <2>2 DEF WindowIsGenuine
  <2>11. WindowIsGenuine(p)'
    BY <2>6, <2>8, <2>9, <2>10 DEF WindowIsGenuine
  <2> QED BY <1>7, <2>1, <2>2, <2>3, <2>4, <2>11
<1> QED BY <1>6, <1>7

\* A segment just built goes to the end of the chain and of the queue.
LEMMA WindowBuild ==
    ASSUME TypeOK, Next, NEW p \in Peer, WindowIsGenuine(p), BuildChunk(p)
    PROVE  WindowIsGenuine(p)'
<1>1. /\ queue[p] \in Seq(TTPPacket) /\ Len(queue[p]) \in Nat
      /\ sent[p] \in Seq(TTPPacket) /\ Len(sent[p]) \in Nat
  BY DEF TypeOK
<1>2. PICK pk \in TTPPacket :
         /\ sent' = [sent EXCEPT ![p] = Append(@, pk)]
         /\ queue' = [queue EXCEPT ![p] = Append(@, pk)]
  BY BuildChunkEffect, TypeParts
<1>3. sent'[p] = Append(sent[p], pk) /\ queue'[p] = Append(queue[p], pk)
  BY <1>2 DEF TypeOK
<1>4. PICK a \in Nat, b \in Nat : a = Len(sent[p]) /\ b = Len(queue[p])
  BY <1>1
<1>5. /\ Len(sent'[p]) = a + 1 /\ Len(queue'[p]) = b + 1
      /\ \A i \in 1..a : sent'[p][i] = sent[p][i]
      /\ \A i \in 1..b : queue'[p][i] = queue[p][i]
      /\ sent'[p][a + 1] = pk /\ queue'[p][b + 1] = pk
  BY <1>1, <1>3, <1>4
<1>6. b <= a /\ Taken(p) = a - b /\ Taken(p)' = a - b
  <2>1. Len(queue[p]) <= Len(sent[p])
    BY DEF WindowIsGenuine
  <2>2. Taken(p) = Len(sent[p]) - Len(queue[p]) /\ Taken(p)' = Len(sent'[p]) - Len(queue'[p])
    BY DEF Taken
  <2>3. Taken(p) = a - b /\ Taken(p)' = (a + 1) - (b + 1)
    BY <1>4, <1>5, <2>2
  <2>4. b <= a
    BY <1>4, <2>1
  <2> QED BY <2>3, <2>4
<1>7. ASSUME NEW k \in 1..(b + 1)
      PROVE  queue'[p][k] = sent'[p][(a - b) + k]
  <2>1. CASE k = b + 1
    <3>1. (a - b) + k = a + 1
      BY <2>1
    <3> QED BY <1>5, <2>1, <3>1
  <2>2. CASE k \in 1..b
    <3>1. (a - b) + k \in 1..a
      BY <1>6, <2>2
    <3>2. queue[p][k] = sent[p][(a - b) + k]
      BY <1>4, <1>6, <2>2 DEF WindowIsGenuine
    <3> QED BY <1>5, <2>2, <3>1, <3>2
  <2> QED BY <2>1, <2>2
<1>8. \A k \in 1..Len(queue'[p]) : queue'[p][k] = sent'[p][Taken(p)' + k]
  BY <1>5, <1>6, <1>7
<1>9. \A pk2 \in TTPPacket : WasTaken(p, pk2) => WasTaken(p, pk2)'
  <2>1. Taken(p) <= Taken(p)'
    BY <1>6
  <2> QED BY <2>1, TakenStays
<1>10. Len(queue'[p]) <= Len(sent'[p])
  BY <1>5, <1>6
<1>11. \A e \in pending'[p] : WasTaken(p, e.packet)'
  <2>1. pending' = pending /\ \A e \in pending[p] : e.packet \in TTPPacket
    BY DEF BuildChunk, TypeOK, PendingEntry
  <2> QED BY <1>9, <2>1 DEF WindowIsGenuine
<1>12. ASSUME NEW t \in Thread, pc'[p][t] \in {"insert", "transmit"}
       PROVE  WasTaken(p, packet[p][t])'
  <2>1. packet'[p][t] = packet[p][t] /\ packet[p][t] \in TTPPacket
    BY DEF BuildChunk, TypeOK
  <2>2. pc[p][t] \in {"insert", "transmit"}
    BY <1>12, GoToEffect DEF BuildChunk, Thread
  <2>3. PICK c \in TTPPacket : c = packet[p][t]
    BY <2>1
  <2>4. WasTaken(p, c)'
    BY <1>9, <2>2, <2>3 DEF WindowIsGenuine
  <2> QED BY <2>1, <2>3, <2>4 DEF WasTaken
<1> QED BY <1>8, <1>10, <1>11, <1>12 DEF WindowIsGenuine

\* Every step keeps the send window part of the chain.
LEMMA WindowStep ==
    ASSUME TypeOK, Next, NEW p \in Peer, WindowIsGenuine(p)
    PROVE  WindowIsGenuine(p)'
<1>1. CASE BuildChunk(p)
  BY <1>1, WindowBuild
<1>2. CASE \E t \in Thread : PopHead(p, t)
  BY <1>2, WindowPop
<1>3. CASE /\ ~BuildChunk(p)
           /\ ~(\E t \in Thread : PopHead(p, t))
  <2>1. sent'[p] = sent[p] /\ queue'[p] = queue[p]
    <3>1. ASSUME NEW b \in Peer, b # p, BuildChunk(b)
          PROVE  sent'[p] = sent[p] /\ queue'[p] = queue[p]
      BY <3>1 DEF BuildChunk, TypeOK
    <3>2. ASSUME NEW b \in Peer, b # p, NEW t \in Thread, PopHead(b, t)
          PROVE  sent'[p] = sent[p] /\ queue'[p] = queue[p]
      BY <3>2 DEF PopHead, historyVars, TypeOK
    <3>3. ASSUME NEW b \in Peer, NEW t \in Thread, InsertPending(b, t) \/ ProcessAck(b)
          PROVE  sent' = sent /\ queue' = queue
      BY <3>3 DEF InsertPending, ProcessAck, historyVars
    <3> QED BY <1>3, <3>1, <3>2, <3>3, WindowFrame DEF Thread
  <2>2. Taken(p)' = Taken(p)
    BY <2>1 DEF Taken
  <2>3. \A pk \in TTPPacket : WasTaken(p, pk)' <=> WasTaken(p, pk)
    BY <2>1, <2>2 DEF WasTaken
  <2>4. ASSUME NEW e \in pending'[p]
        PROVE  WasTaken(p, e.packet)'
    <3>1. \/ e \in pending[p]
          \/ \E t \in Thread : At(p, t, "insert") /\ e.packet = packet[p][t]
      <4>1. ASSUME NEW b \in Peer, NEW t \in Thread, InsertPending(b, t)
            PROVE  \/ e \in pending[p]
                   \/ At(p, t, "insert") /\ e.packet = packet[p][t]
        BY <4>1 DEF InsertPending, MarkPending, TypeOK
      <4>2. ASSUME NEW b \in Peer, ProcessAck(b)
            PROVE  e \in pending[p]
        BY <4>2 DEF ProcessAck, Unacknowledged, TypeOK
      <4>3. ASSUME NEW b \in Peer, NEW t \in Thread, BuildChunk(b) \/ PopHead(b, t)
            PROVE  e \in pending[p]
        BY <4>3 DEF BuildChunk, PopHead
      <4> QED BY <4>1, <4>2, <4>3, WindowFrame DEF Thread
    <3>2. WasTaken(p, e.packet)
      BY <3>1 DEF WindowIsGenuine, At
    <3> QED BY <2>1, <2>2, <3>2 DEF WasTaken
  <2>5. ASSUME NEW t \in Thread, pc'[p][t] \in {"insert", "transmit"}
        PROVE  WasTaken(p, packet[p][t])'
    <3>1. /\ pc'[p][t] = pc[p][t] \/ InsertPending(p, t)
          /\ packet'[p][t] = packet[p][t]
      BY <1>3, <2>5, PacketFrame
    <3>2. pc[p][t] \in {"insert", "transmit"}
      BY <2>5, <3>1 DEF InsertPending, At
    <3>3. WasTaken(p, packet[p][t])
      BY <3>2 DEF WindowIsGenuine
    <3> QED BY <2>1, <2>2, <3>1, <3>3 DEF WasTaken
  <2> QED BY <2>1, <2>2, <2>4, <2>5 DEF WindowIsGenuine
<1> QED BY <1>1, <1>2, <1>3

-----------------------------------------------------------------------------
(* What arrives *)

\* Segments get into the network from a flush, a retransmission or a reply.
LEMMA NetworkFrame ==
    ASSUME TypeOK, Next, NEW p \in Peer, NEW pk \in network'[p]
    PROVE  \/ pk \in network[p]
           \/ \E t \in Thread : At(Other(p), t, "transmit") /\ pk = packet[Other(p)][t]
           \/ \E e \in pending[Other(p)] : pk = e.packet
           \/ pk = BuildPacket(Other(p), {"ACK"}, NoPayload)
<1>1. network \in [Peer -> SUBSET TTPPacket]
  BY DEF TypeOK
<1>2. ASSUME NEW b \in Peer, NEW new \in TTPPacket, Transmit(b, new)
      PROVE  pk \in network[p] \/ (b = Other(p) /\ pk = new)
  <2>1. Other(b) \in Peer /\ Other(Other(b)) = b
    BY OtherPeer
  <2> QED BY <1>1, <1>2, <2>1 DEF Transmit
<1>3. ASSUME NEW b \in Peer, NEW t \in Thread, TransmitHead(b, t)
      PROVE  pk \in network[p] \/ (At(Other(p), t, "transmit") /\ pk = packet[Other(p)][t])
  <2>1. packet[b][t] \in TTPPacket
    BY DEF TypeOK
  <2> QED BY <1>2, <1>3, <2>1 DEF TransmitHead
<1>4. ASSUME NEW b \in Peer, CheckRetransmission(b)
      PROVE  pk \in network[p] \/ (\E e \in pending[Other(p)] : pk = e.packet)
  <2>1. \A e \in pending[b] : e.packet \in TTPPacket
    BY DEF TypeOK, PendingEntry
  <2>2. network' = network \/ \E e \in pending[b] : Transmit(b, e.packet)
    BY <1>4 DEF CheckRetransmission
  <2> QED BY <1>2, <2>1, <2>2
<1>5. ASSUME NEW b \in Peer, Reply(b)
      PROVE  pk \in network[p] \/ pk = BuildPacket(Other(p), {"ACK"}, NoPayload)
  <2>1. BuildPacket(b, {"ACK"}, NoPayload) \in TTPPacket
    BY DEF BuildPacket, TTPPacket, TTPFlags, TypeOK
  <2>2. network' = network \/ Transmit(b, BuildPacket(b, {"ACK"}, NoPayload))
    BY <1>5 DEF Reply
  <2> QED BY <1>2, <2>1, <2>2
<1>6. ASSUME NEW b \in Peer, WaitForPacket(b) \/ Lose(b)
      PROVE  pk \in network[p]
  BY <1>1, <1>6 DEF WaitForPacket, Lose
<1>7. \/ \E b \in Peer, t \in Thread : TransmitHead(b, t)
      \/ \E b \in Peer : CheckRetransmission(b) \/ Reply(b) \/ WaitForPacket(b) \/ Lose(b)
      \/ UNCHANGED network
  BY DEF Next, App, ReceiveLoop, FlushWindow, Thread, BuildChunk, Recv, WaitForAcks, StartFlush,
         WaitForAcksReturns, Peek, Admit, PopHead, InsertPending, CheckFirstPending, StartTimer,
         ProcessAck, StopTimer, LogWindow, ProcessData, FlushOutOfOrder, TimerExpires
<1> QED BY <1>3, <1>4, <1>5, <1>6, <1>7

\* A receiver between reading a segment and processing it has just read it or
\* still holds it, and has looked at its ACK flag.
LEMMA CurrentFrame ==
    ASSUME TypeOK, Next, NEW p \in Peer,
           pc'[p]["receiver"] \in {"check", "ack", "data"}
    PROVE  \/ /\ WaitForPacket(p) /\ pc'[p]["receiver"] = "check"
              /\ current'[p] \in network[p]
           \/ /\ current'[p] = current[p]
              /\ \/ pc'[p]["receiver"] = pc[p]["receiver"]
                 \/ /\ pc[p]["receiver"] = "check"
                    /\ pc'[p]["receiver"] = IF "ACK" \in current[p].flags THEN "ack" ELSE "data"
<1>1. CASE WaitForPacket(p)
  <2>1. "receiver" \in Thread
    BY DEF Thread
  <2>2. pc'[p]["receiver"] = "check"
    BY <1>1, <2>1, GoToEffect DEF WaitForPacket
  <2>3. current'[p] \in network[p]
    BY <1>1 DEF WaitForPacket, TypeOK
  <2> QED BY <1>1, <2>2, <2>3
<1>2. CASE CheckRetransmission(p)
  <2>1. "receiver" \in Thread
    BY DEF Thread
  <2>2. pc[p]["receiver"] = "check" /\ current' = current
    BY <1>2 DEF CheckRetransmission, At
  <2>3. \/ pc'[p]["receiver"] = IF "ACK" \in current[p].flags THEN "ack" ELSE "data"
        \/ pc'[p]["receiver"] = "dead"
    BY <1>2, <2>1, GoToEffect DEF CheckRetransmission, Dispatch
  <2> QED BY <2>2, <2>3
<1>3. CASE ~WaitForPacket(p) /\ ~CheckRetransmission(p)
  <2>1. pc'[p]["receiver"] = pc[p]["receiver"]
    BY <1>3, PcFrame DEF Thread
  <2>2. ASSUME NEW b \in Peer, WaitForPacket(b) \/ ProcessAck(b) \/ ProcessData(b)
        PROVE  current'[p] = current[p]
    <3>1. CASE b # p
      BY <2>2, <3>1 DEF WaitForPacket, ProcessAck, ProcessData, TypeOK
    <3>2. CASE b = p
      <4>1. "receiver" \in Thread
        BY DEF Thread
      <4>2. CASE ProcessAck(p)
        BY <4>1, <4>2, GoToEffect DEF ProcessAck
      <4>3. CASE ProcessData(p)
        BY <4>1, <4>3, GoToEffect DEF ProcessData
      <4> QED BY <1>3, <2>2, <3>2, <4>2, <4>3
    <3> QED BY <3>1, <3>2
  <2>3. \/ \E b \in Peer : WaitForPacket(b) \/ ProcessAck(b) \/ ProcessData(b)
        \/ UNCHANGED current
    BY DEF Next, App, ReceiveLoop, FlushWindow, BuildChunk, Recv, WaitForAcks, StartFlush,
           WaitForAcksReturns, Peek, Admit, PopHead, InsertPending, TransmitHead,
           CheckFirstPending, StartTimer, CheckRetransmission, StopTimer, LogWindow,
           FlushOutOfOrder, Reply, TimerExpires, Lose
  <2> QED BY <2>1, <2>2, <2>3
<1> QED BY <1>1, <1>2, <1>3

\* What the receiver keeps out of order it kept before, or has just read.
LEMMA OutOfOrderFrame ==
    ASSUME TypeOK, Next, NEW p \in Peer, NEW pk \in out_of_order'[p]
    PROVE  pk \in out_of_order[p] \/ (At(p, "receiver", "data") /\ pk = current[p])
<1>1. ASSUME NEW b \in Peer, ProcessData(b)
      PROVE  pk \in out_of_order[p] \/ (At(p, "receiver", "data") /\ pk = current[p])
  BY <1>1 DEF ProcessData, Store, TypeOK
<1>2. ASSUME NEW b \in Peer, FlushOutOfOrder(b)
      PROVE  pk \in out_of_order[p]
  BY <1>2 DEF FlushOutOfOrder, receiveVars, TypeOK
<1>3. (\E b \in Peer : ProcessData(b) \/ FlushOutOfOrder(b)) \/ UNCHANGED out_of_order
  BY DEF Next, App, ReceiveLoop, FlushWindow, BuildChunk, Recv, WaitForAcks, StartFlush,
         WaitForAcksReturns, Peek, Admit, PopHead, InsertPending, TransmitHead,
         CheckFirstPending, StartTimer, WaitForPacket, CheckRetransmission, ProcessAck,
         StopTimer, LogWindow, Reply, TimerExpires, Lose, receiveVars
<1> QED BY <1>1, <1>2, <1>3

\* A genuine segment stays genuine: segments built are remembered, and RCV.NXT,
\* which bounds acknowledgements, only grows.
LEMMA GenuineStays ==
    ASSUME TypeOK, Next, NEW p \in Peer, recv_next[Other(p)] <= recv_next'[Other(p)]
    PROVE  /\ \A pk \in TTPPacket : IsGenuine(p, pk) => IsGenuine(p, pk)'
           /\ \A pk \in TTPPacket : IsSent(Other(p), pk) => IsSent(Other(p), pk)'
<1>1. Other(p) \in Peer
  BY OtherPeer
<1>2. recv_next[Other(p)] \in Nat /\ recv_next'[Other(p)] \in Int
  <2>1. recv_next[Other(p)] \in Nat
    BY <1>1 DEF TypeOK
  <2>2. TypeOK'
    BY StepTypes
  <2>3. recv_next'[Other(p)] \in Nat
    BY <1>1, <2>2 DEF TypeOK
  <2> QED BY <2>1, <2>3
<1>3. ASSUME NEW pk \in TTPPacket, IsSent(Other(p), pk)
      PROVE  IsSent(Other(p), pk)'
  <2>1. PICK i \in 1..Len(sent[Other(p)]) : pk = sent[Other(p)][i]
    BY <1>3 DEF IsSent
  <2>2. /\ Len(sent[Other(p)]) \in Nat /\ Len(sent'[Other(p)]) \in Nat
        /\ Len(sent[Other(p)]) <= Len(sent'[Other(p)])
        /\ sent'[Other(p)][i] = sent[Other(p)][i]
    BY <1>1, SentGrows
  <2>3. i \in 1..Len(sent'[Other(p)])
    BY <2>2
  <2> QED BY <2>1, <2>2, <2>3 DEF IsSent
<1>4. ASSUME NEW pk \in TTPPacket, IsGenuine(p, pk)
      PROVE  IsGenuine(p, pk)'
  <2>1. CASE "ACK" \in pk.flags
    <3>1. pk.ack \in Nat /\ pk.ack <= recv_next[Other(p)]
      BY <1>4, <2>1 DEF IsGenuine, TTPPacket
    <3>2. pk.ack <= recv_next'[Other(p)]
      BY <1>2, <3>1
    <3> QED BY <2>1, <3>2 DEF IsGenuine
  <2>2. CASE "ACK" \notin pk.flags
    BY <1>3, <1>4, <2>2 DEF IsGenuine
  <2> QED BY <2>1, <2>2
<1> QED BY <1>3, <1>4

\* Every step leaves only genuine segments on their way to p.
LEMMA ArrivalsStep ==
    ASSUME TypeOK, Next, NEW p \in Peer, ArrivalsAreGenuine(p), WindowIsGenuine(Other(p)),
           SentIsChained(Other(p)), recv_next[Other(p)] <= recv_next'[Other(p)]
    PROVE  ArrivalsAreGenuine(p)'
<1>1. /\ \A pk \in TTPPacket : IsGenuine(p, pk) => IsGenuine(p, pk)'
      /\ \A pk \in TTPPacket : IsSent(Other(p), pk) => IsSent(Other(p), pk)'
  BY GenuineStays
<1>2. Other(p) \in Peer /\ Other(Other(p)) = p
  BY OtherPeer
<1>3. network[p] \in SUBSET TTPPacket /\ out_of_order[p] \in SUBSET TTPPacket
      /\ current[p] \in TTPPacket
  BY DEF TypeOK
<1>4. ASSUME NEW pk \in TTPPacket, WasTaken(Other(p), pk)
      PROVE  IsGenuine(p, pk)
  <2>1. PICK i \in 1..Taken(Other(p)) : pk = sent[Other(p)][i]
    BY <1>4 DEF WasTaken
  <2>2. i \in 1..Len(sent[Other(p)])
    BY <1>2 DEF Taken, WindowIsGenuine, TypeOK
  <2>3. pk.flags = {"DATA"}
    BY <2>1, <2>2 DEF SentIsChained
  <2>4. "ACK" \notin pk.flags
    BY <2>3
  <2> QED BY <2>1, <2>2, <2>4 DEF IsGenuine, IsSent
<1>5. ASSUME NEW pk \in network'[p]
      PROVE  IsGenuine(p, pk)'
  <2>1. CASE pk \in network[p]
    BY <1>1, <1>3, <2>1 DEF ArrivalsAreGenuine
  <2>2. CASE \E t \in Thread : At(Other(p), t, "transmit") /\ pk = packet[Other(p)][t]
    <3>1. pk \in TTPPacket
      BY <1>2, <2>2 DEF TypeOK
    <3>2. WasTaken(Other(p), pk)
      BY <2>2 DEF WindowIsGenuine, At
    <3> QED BY <1>1, <1>4, <3>1, <3>2
  <2>3. CASE \E e \in pending[Other(p)] : pk = e.packet
    <3>1. pk \in TTPPacket
      BY <1>2, <2>3 DEF TypeOK, PendingEntry
    <3>2. WasTaken(Other(p), pk)
      BY <2>3 DEF WindowIsGenuine
    <3> QED BY <1>1, <1>4, <3>1, <3>2
  <2>4. CASE pk = BuildPacket(Other(p), {"ACK"}, NoPayload)
    <3>1. pk \in TTPPacket
      BY <1>2, <2>4 DEF BuildPacket, TTPPacket, TTPFlags, TypeOK
    <3>2. "ACK" \in pk.flags /\ pk.ack = recv_next[Other(p)] /\ recv_next[Other(p)] \in Nat
      BY <1>2, <2>4 DEF BuildPacket, TypeOK
    <3>3. IsGenuine(p, pk)
      BY <3>2 DEF IsGenuine
    <3> QED BY <1>1, <3>1, <3>3
  <2> QED BY <2>1, <2>2, <2>3, <2>4, NetworkFrame
<1>6. ASSUME pc'[p]["receiver"] \in {"check", "ack", "data"}
      PROVE  IsGenuine(p, current[p])'
  <2>1. \/ current'[p] \in network[p]
        \/ current'[p] = current[p] /\ pc[p]["receiver"] \in {"check", "ack", "data"}
    BY <1>6, CurrentFrame
  <2>2. PICK c \in TTPPacket : c = current'[p] /\ IsGenuine(p, c)
    BY <1>3, <2>1 DEF ArrivalsAreGenuine
  <2>3. IsGenuine(p, c)'
    BY <1>1, <2>2
  <2> QED BY <2>2, <2>3 DEF IsGenuine, IsSent
<1>7. /\ pc'[p]["receiver"] = "ack" => "ACK" \in current'[p].flags
      /\ pc'[p]["receiver"] = "data" => "ACK" \notin current'[p].flags
  BY CurrentFrame DEF ArrivalsAreGenuine, At
<1>8. ASSUME NEW pk \in out_of_order'[p]
      PROVE  IsSent(Other(p), pk)'
  <2>1. CASE pk \in out_of_order[p]
    BY <1>1, <1>3, <2>1 DEF ArrivalsAreGenuine
  <2>2. CASE At(p, "receiver", "data") /\ pk = current[p]
    <3>1. IsSent(Other(p), pk)
      BY <2>2 DEF ArrivalsAreGenuine, IsGenuine, At
    <3> QED BY <1>1, <1>3, <2>2, <3>1
  <2> QED BY <2>1, <2>2, OutOfOrderFrame
<1> QED BY <1>5, <1>6, <1>7, <1>8 DEF ArrivalsAreGenuine, At

-----------------------------------------------------------------------------
(* What is kept out of order *)

\* When the expected segment pk is accepted, any other segment at or beyond it
\* starts at the new RCV.NXT or beyond.
LEMMA AheadOfAccepted ==
    ASSUME TypeOK, NEW p \in Peer, SentIsChained(Other(p)),
           NEW n \in Nat, n < Len(sent[Other(p)]),
           NEW pk, pk = sent[Other(p)][n + 1],
           NEW k, IsSent(Other(p), k), k # pk, k.seq >= SeqOf(Other(p), n + 1)
    PROVE  k.seq >= SeqOf(Other(p), n + 2)
<1> DEFINE q == Other(p)
<1>1. q \in Peer
  BY OtherPeer
<1>2. PICK m \in Nat : m = Len(sent[q])
  BY <1>1 DEF TypeOK
<1>3. PICK j \in 1..m : k = sent[q][j]
  BY <1>2 DEF IsSent
<1>4. k.seq = SeqOf(q, j) /\ j \in 1..(m + 1) /\ n + 1 \in 1..(m + 1) /\ n + 2 \in 1..(m + 1)
  BY <1>2, <1>3 DEF SeqOf
<1>5. j # n + 1
  BY <1>3
<1>6. \A i \in 1..(m + 1) : SeqOf(q, i) \in Nat
  <2>1. send_next[q] \in Nat
    BY <1>1 DEF TypeOK
  <2>2. ASSUME NEW i \in 1..m
        PROVE  sent[q][i].seq \in Nat
    <3>1. sent[q][i] \in TTPPacket
      BY <1>1, <1>2 DEF TypeOK
    <3> QED BY <3>1 DEF TTPPacket
  <2> QED BY <1>2, <2>1, <2>2 DEF SeqOf
<1>7. \A i1, i2 \in 1..(m + 1) : i1 < i2 => SeqOf(q, i1) < SeqOf(q, i2)
  BY <1>2 DEF SentIsChained
<1>8. ~(j < n + 1)
  BY <1>4, <1>6, <1>7
<1>9. j = n + 2 \/ n + 2 < j
  BY <1>5, <1>8
<1> QED BY <1>4, <1>6, <1>7, <1>9

\* Every step leaves what is kept ahead of RCV.NXT.
LEMMA KeptStep ==
    ASSUME TypeOK, Next, NEW p \in Peer, KeptIsAhead(p), ArrivalsAreGenuine(p),
           DeliveredIsPrefix(p), SentIsChained(Other(p))
    PROVE  KeptIsAhead(p)'
<1>1. "receiver" \in Thread /\ recv_next[p] \in Nat
      /\ out_of_order[p] \in SUBSET TTPPacket /\ current[p] \in TTPPacket
  BY DEF Thread, TypeOK
<1>2. \A k \in out_of_order[p] : k.seq \in Nat /\ IsSent(Other(p), k)
  BY <1>1 DEF TTPPacket, ArrivalsAreGenuine
<1>3. PICK n \in Nat : n = Len(Delivered(p))
  BY DeliveredType
<1>4. recv_next[p] = SeqOf(Other(p), n + 1)
  BY <1>3 DEF DeliveredIsPrefix
<1>5. ASSUME NEW pk \in TTPPacket, IsSent(Other(p), pk), pk.seq = recv_next[p], Accept(p, pk),
             UNCHANGED <<received, sent, send_next>>,
             NEW k \in out_of_order[p], k # pk, k.seq >= recv_next[p]
      PROVE  k.seq >= recv_next'[p]
  <2>1. /\ pk = sent[Other(p)][n + 1] /\ n < Len(sent[Other(p)])
        /\ recv_next'[p] = SeqOf(Other(p), n + 2)
    BY <1>3, <1>5, AcceptEffect
  <2> QED BY <1>2, <1>4, <1>5, <2>1, AheadOfAccepted
<1>6. CASE ProcessData(p)
  <2>1. pc[p]["receiver"] = "data" /\ UNCHANGED <<received, sent, send_next>>
    BY <1>6 DEF ProcessData, At, historyVars
  <2>2. \A k \in out_of_order[p] : k.seq > recv_next[p]
    BY <2>1 DEF KeptIsAhead, At
  <2>3. CASE current[p].seq = recv_next[p]
    <3>1. Accept(p, current[p]) /\ out_of_order' = out_of_order /\ pc'[p]["receiver"] = "drain"
      BY <1>1, <1>6, <2>3, GoToEffect DEF ProcessData, ReceiveStatus
    <3>2. IsSent(Other(p), current[p])
      BY <2>1 DEF ArrivalsAreGenuine, IsGenuine, At
    <3>3. \A k \in out_of_order[p] : k # current[p] /\ k.seq >= recv_next[p]
      BY <1>1, <1>2, <2>2, <2>3
    <3>4. \A k \in out_of_order[p] : k.seq >= recv_next'[p]
      BY <1>1, <1>5, <2>1, <2>3, <3>1, <3>2, <3>3
    <3> QED BY <3>1, <3>4 DEF KeptIsAhead, At
  <2>4. CASE current[p].seq # recv_next[p]
    <3>1. pc'[p]["receiver"] = "reply" /\ recv_next' = recv_next
      BY <1>1, <1>6, <2>4, GoToEffect DEF ProcessData, ReceiveStatus
    <3>2. current[p].seq \in Nat
      BY <1>1 DEF TTPPacket
    <3>3. \A k \in out_of_order'[p] : k \in out_of_order[p] \/ (k = current[p] /\ k.seq > recv_next[p])
      BY <1>1, <1>6, <2>4, <3>2 DEF ProcessData, ReceiveStatus, Store, TypeOK
    <3> QED BY <2>2, <3>1, <3>3 DEF KeptIsAhead, At
  <2> QED BY <2>3, <2>4
<1>7. CASE FlushOutOfOrder(p)
  <2>1. pc[p]["receiver"] = "drain" /\ UNCHANGED <<received, sent, send_next>>
    BY <1>7 DEF FlushOutOfOrder, At, historyVars
  <2>2. \A k \in out_of_order[p] : k.seq >= recv_next[p]
    BY <2>1 DEF KeptIsAhead, At
  <2>3. CASE \E pk \in out_of_order[p] :
                /\ pk.seq = recv_next[p]
                /\ Accept(p, pk)
                /\ out_of_order' = [out_of_order EXCEPT ![p] = @ \ {pk}]
                /\ UNCHANGED pc
    <3>1. PICK pk \in out_of_order[p] :
                /\ pk.seq = recv_next[p]
                /\ Accept(p, pk)
                /\ out_of_order' = [out_of_order EXCEPT ![p] = @ \ {pk}]
                /\ UNCHANGED pc
      BY <2>3
    <3>2. out_of_order'[p] = out_of_order[p] \ {pk}
      BY <3>1 DEF TypeOK
    <3>3. \A k \in out_of_order'[p] : k.seq >= recv_next'[p]
      BY <1>1, <1>2, <1>5, <2>1, <2>2, <3>1, <3>2
    <3> QED BY <2>1, <3>1, <3>3 DEF KeptIsAhead, At
  <2>4. CASE /\ \A pk \in out_of_order[p] : pk.seq # recv_next[p]
             /\ GoTo(p, "receiver", "reply")
             /\ UNCHANGED <<recv_next, receiveVars>>
    <3>1. pc'[p]["receiver"] = "reply"
      BY <1>1, <2>4, GoToEffect
    <3>2. \A k \in out_of_order[p] : k.seq > recv_next[p]
      BY <1>1, <1>2, <2>2, <2>4
    <3>3. recv_next' = recv_next /\ out_of_order' = out_of_order
      BY <2>4 DEF receiveVars
    <3> QED BY <3>1, <3>2, <3>3 DEF KeptIsAhead, At
  <2> QED BY <1>7, <2>3, <2>4 DEF FlushOutOfOrder
<1>8. CASE ~ProcessData(p) /\ ~FlushOutOfOrder(p)
  <2>1. (pc'[p]["receiver"] = "drain") = (pc[p]["receiver"] = "drain")
    BY <1>1, <1>8, PcFrame
  <2>2. recv_next'[p] = recv_next[p] /\ out_of_order'[p] = out_of_order[p]
    <3>1. ASSUME NEW b \in Peer, b # p, ProcessData(b) \/ FlushOutOfOrder(b)
          PROVE  recv_next'[p] = recv_next[p] /\ out_of_order'[p] = out_of_order[p]
      BY <3>1 DEF ProcessData, FlushOutOfOrder, Accept, Store, receiveVars, TypeOK
    <3>2. \/ \E b \in Peer : ProcessData(b) \/ FlushOutOfOrder(b)
          \/ UNCHANGED <<recv_next, out_of_order>>
      BY DEF Next, App, ReceiveLoop, FlushWindow, BuildChunk, Recv, WaitForAcks, StartFlush,
             WaitForAcksReturns, Peek, Admit, PopHead, InsertPending, TransmitHead,
             CheckFirstPending, StartTimer, WaitForPacket, CheckRetransmission, ProcessAck,
             StopTimer, LogWindow, Reply, TimerExpires, Lose, receiveVars, sequenceVars
    <3> QED BY <1>8, <3>1, <3>2
  <2> QED BY <2>1, <2>2 DEF KeptIsAhead, At
<1> QED BY <1>6, <1>7, <1>8

-----------------------------------------------------------------------------
(* What is acknowledged *)

\* Every step leaves SND.UNA no further than what the other side has accepted.
LEMMA AckStep ==
    ASSUME TypeOK, Next, NEW p \in Peer, ArrivalsAreGenuine(p),
           send_unacked[p] <= recv_next[Other(p)], recv_next[Other(p)] <= recv_next'[Other(p)]
    PROVE  send_unacked'[p] <= recv_next'[Other(p)]
<1>1. Other(p) \in Peer
  BY OtherPeer
<1>2. /\ send_unacked[p] \in Nat /\ recv_next[Other(p)] \in Nat
      /\ recv_next'[Other(p)] \in Nat
  <2>1. send_unacked[p] \in Nat /\ recv_next[Other(p)] \in Nat
    BY <1>1 DEF TypeOK
  <2>2. recv_next'[Other(p)] \in Nat
    BY <1>1, StepTypes DEF TypeOK
  <2> QED BY <2>1, <2>2
<1>3. CASE ProcessAck(p)
  <2>1. send_unacked'[p] = Acknowledged(send_unacked[p], current[p].ack)
    BY <1>3 DEF ProcessAck, TypeOK
  <2>2. current[p].ack \in Nat
    BY DEF TypeOK, TTPPacket
  <2>3. current[p].ack <= recv_next[Other(p)]
    BY <1>3 DEF ProcessAck, At, ArrivalsAreGenuine, IsGenuine
  <2> QED BY <1>2, <2>1, <2>2, <2>3 DEF Acknowledged
<1>4. CASE ~ProcessAck(p)
  <2>1. ASSUME NEW b \in Peer, b # p, ProcessAck(b)
        PROVE  send_unacked'[p] = send_unacked[p]
    BY <2>1 DEF ProcessAck, TypeOK
  <2>2. (\E b \in Peer : ProcessAck(b)) \/ UNCHANGED send_unacked
    BY DEF Next, App, ReceiveLoop, FlushWindow, BuildChunk, Recv, WaitForAcks, StartFlush,
           WaitForAcksReturns, Peek, Admit, PopHead, InsertPending, TransmitHead,
           CheckFirstPending, StartTimer, WaitForPacket, CheckRetransmission, StopTimer,
           LogWindow, ProcessData, FlushOutOfOrder, Reply, TimerExpires, Lose, sequenceVars
  <2>3. send_unacked'[p] = send_unacked[p]
    BY <1>4, <2>1, <2>2
  <2> QED BY <1>2, <2>3
<1> QED BY <1>3, <1>4

-----------------------------------------------------------------------------
(* Where the segments of the window are *)

\* A thread that holds a segment between popleft() and the insertion keeps it
\* until it inserts it, whatever the other threads do.
LEMMA HeldFrame ==
    ASSUME TypeOK, Next, NEW p \in Peer, NEW t \in Thread, At(p, t, "insert")
    PROVE  InsertPending(p, t) \/ (pc'[p][t] = "insert" /\ packet'[p][t] = packet[p][t])
<1>1. "app" \in Thread /\ "receiver" \in Thread /\ \A u \in Thread : u = "app" \/ u = "receiver"
  BY DEF Thread
<1>2. ASSUME NEW b \in Peer, NEW u \in Thread, b # p \/ u # t,
             Peek(b, u) \/ Admit(b, u) \/ PopHead(b, u) \/ TransmitHead(b, u)
      PROVE  packet'[p][t] = packet[p][t]
  BY <1>2 DEF Peek, Admit, PopHead, TransmitHead, TypeOK
<1>3. ASSUME Peek(p, t) \/ Admit(p, t) \/ PopHead(p, t) \/ TransmitHead(p, t)
      PROVE  FALSE
  BY <1>3 DEF Peek, Admit, PopHead, TransmitHead, At
<1>4. packet'[p][t] = packet[p][t]
  <2>1. \/ \E b \in Peer, u \in Thread :
              Peek(b, u) \/ Admit(b, u) \/ PopHead(b, u) \/ TransmitHead(b, u)
        \/ UNCHANGED packet
    BY DEF Next, App, ReceiveLoop, FlushWindow, Thread, BuildChunk, Recv, WaitForAcks,
           StartFlush, WaitForAcksReturns, InsertPending, CheckFirstPending, StartTimer,
           WaitForPacket, CheckRetransmission, ProcessAck, StopTimer, LogWindow, ProcessData,
           FlushOutOfOrder, Reply, TimerExpires, Lose
  <2> QED BY <1>2, <1>3, <2>1
<1>5. \/ UNCHANGED pc
      \/ \E b \in Peer, u \in Thread, label \in AppLabel \cup ReceiverLabel :
            GoTo(b, u, label) /\ (pc[b][u] # "insert" \/ InsertPending(b, u))
  <2> USE DEF At, AppLabel, ReceiverLabel, FlushLabel
  <2>1. ASSUME NEW b \in Peer, NEW u \in Thread, FlushWindow(b, u)
        PROVE  \E label \in AppLabel \cup ReceiverLabel :
                  GoTo(b, u, label) /\ (pc[b][u] # "insert" \/ InsertPending(b, u))
    <3>1. Flushed(u) \in AppLabel \cup ReceiverLabel /\ Failed(u) \in AppLabel \cup ReceiverLabel
      BY DEF Flushed, Failed
    <3>2. CASE Peek(b, u) BY <3>1, <3>2 DEF Peek
    <3>3. CASE Admit(b, u) BY <3>1, <3>3 DEF Admit
    <3>4. CASE PopHead(b, u) BY <3>1, <3>4 DEF PopHead
    <3>5. CASE InsertPending(b, u)
      <4>1. GoTo(b, u, "transmit")
        BY <3>5 DEF InsertPending
      <4> QED BY <3>5, <4>1
    <3>6. CASE TransmitHead(b, u) BY <3>1, <3>6 DEF TransmitHead
    <3>7. CASE CheckFirstPending(b, u) BY <3>7 DEF CheckFirstPending, Failed
    <3>8. CASE StartTimer(b, u) BY <3>8 DEF StartTimer
    <3> QED BY <2>1, <3>2, <3>3, <3>4, <3>5, <3>6, <3>7, <3>8 DEF FlushWindow
  <2>2. ASSUME NEW b \in Peer,
               BuildChunk(b) \/ StartFlush(b) \/ WaitForAcks(b) \/ WaitForAcksReturns(b)
        PROVE  \E label \in AppLabel \cup ReceiverLabel :
                  GoTo(b, "app", label) /\ pc[b]["app"] # "insert"
    BY <2>2 DEF BuildChunk, StartFlush, WaitForAcks, WaitForAcksReturns
  <2>3. ASSUME NEW b \in Peer,
               \/ WaitForPacket(b) \/ CheckRetransmission(b) \/ ProcessAck(b) \/ StopTimer(b)
               \/ LogWindow(b) \/ ProcessData(b) \/ FlushOutOfOrder(b) \/ Reply(b)
        PROVE  \/ UNCHANGED pc
               \/ \E label \in AppLabel \cup ReceiverLabel :
                     GoTo(b, "receiver", label) /\ pc[b]["receiver"] # "insert"
    <3>1. CASE WaitForPacket(b) BY <3>1 DEF WaitForPacket
    <3>2. CASE CheckRetransmission(b) BY <3>2 DEF CheckRetransmission, Dispatch
    <3>3. CASE ProcessAck(b) BY <3>3 DEF ProcessAck
    <3>4. CASE StopTimer(b) \/ LogWindow(b) BY <3>4 DEF StopTimer, LogWindow
    <3>5. CASE ProcessData(b) BY <3>5 DEF ProcessData
    <3>6. CASE FlushOutOfOrder(b) BY <3>6 DEF FlushOutOfOrder
    <3>7. CASE Reply(b) BY <3>7 DEF Reply
    <3> QED BY <2>3, <3>1, <3>2, <3>3, <3>4, <3>5, <3>6, <3>7
  <2>4. ASSUME NEW b \in Peer, Recv(b) \/ TimerExpires(b) \/ Lose(b)
        PROVE  UNCHANGED pc
    BY <2>4 DEF Recv, TimerExpires, Lose
  <2> QED BY <1>1, <2>1, <2>2, <2>3, <2>4 DEF Next, App, ReceiveLoop
<1>6. CASE ~InsertPending(p, t)
  <2>1. ASSUME NEW b \in Peer, NEW u \in Thread, NEW label \in AppLabel \cup ReceiverLabel,
               GoTo(b, u, label), pc[b][u] # "insert" \/ InsertPending(b, u)
        PROVE  pc'[p][t] = "insert"
    <3>1. b # p \/ t # u
      BY <1>6, <2>1 DEF At
    <3> QED BY <2>1, <3>1, GoToEffect DEF At
  <2>2. pc'[p][t] = "insert"
    BY <1>5, <2>1 DEF At
  <2> QED BY <1>4, <2>2
<1> QED BY <1>6

\* What is pending is removed by an ACK for all of it, and by nothing else.
LEMMA PendingFrame ==
    ASSUME TypeOK, Next, NEW p \in Peer, NEW e \in pending[p]
    PROVE  \/ e \in pending'[p]
           \/ /\ At(p, "receiver", "ack")
              /\ End(e.packet) <= current[p].ack /\ current[p].ack <= send_unacked'[p]
<1>1. e \in PendingEntry /\ current[p] \in TTPPacket
  BY DEF TypeOK
<1>2. e.packet \in TTPPacket
  BY <1>1 DEF PendingEntry
<1>3. End(e.packet) \in Nat /\ current[p].ack \in Nat
  <2>1. SequenceSpace(e.packet) \in Nat
    BY <1>2, SequenceSpaceType
  <2> QED BY <1>1, <1>2, <2>1 DEF End, TTPPacket
<1>4. ASSUME NEW b \in Peer, ProcessAck(b)
      PROVE  \/ e \in pending'[p]
             \/ /\ At(p, "receiver", "ack")
                /\ End(e.packet) <= current[p].ack /\ current[p].ack <= send_unacked'[p]
  <2>1. CASE b # p
    BY <1>4, <2>1 DEF ProcessAck, TypeOK
  <2>2. CASE b = p
    <3>1. e \in pending'[p] \/ End(e.packet) <= current[p].ack
      BY <1>3, <1>4, <2>2 DEF ProcessAck, Unacknowledged, TypeOK
    <3>2. current[p].ack <= send_unacked'[p]
      BY <1>3, <1>4, <2>2 DEF ProcessAck, Acknowledged, TypeOK
    <3>3. At(p, "receiver", "ack")
      BY <1>4, <2>2 DEF ProcessAck
    <3> QED BY <3>1, <3>2, <3>3
  <2> QED BY <2>1, <2>2
<1>5. ASSUME NEW b \in Peer, NEW t \in Thread, InsertPending(b, t)
      PROVE  e \in pending'[p]
  BY <1>5 DEF InsertPending, MarkPending, TypeOK
<1>6. ASSUME NEW b \in Peer, NEW t \in Thread, BuildChunk(b) \/ PopHead(b, t)
      PROVE  e \in pending'[p]
  BY <1>6 DEF BuildChunk, PopHead
<1> QED BY <1>4, <1>5, <1>6, WindowFrame DEF Thread

\* A segment in the send window stays there until an ACK for all of it has come,
\* which the other side sends once it has accepted it.
LEMMA InWindowStays ==
    ASSUME TypeOK, Next, NEW p \in Peer, WindowIsGenuine(p), ArrivalsAreGenuine(p),
           NEW pk \in TTPPacket, InWindow(p, pk)
    PROVE  \/ InWindow(p, pk)'
           \/ End(pk) <= recv_next[Other(p)] /\ End(pk) <= send_unacked'[p]
<1>1. CASE \E k \in 1..Len(queue[p]) : queue[p][k] = pk
  <2>1. PICK k \in 1..Len(queue[p]) : queue[p][k] = pk
    BY <1>1
  <2>2. queue[p] \in Seq(TTPPacket) /\ Len(queue[p]) \in Nat
    BY DEF TypeOK
  <2>3. ASSUME NEW b \in Peer, BuildChunk(b)
        PROVE  InWindow(p, pk)'
    <3>1. PICK new \in TTPPacket : queue' = [queue EXCEPT ![b] = Append(@, new)]
      BY <2>3, BuildChunkEffect, TypeParts
    <3>2. CASE b # p
      <4>1. queue'[p] = queue[p]
        BY <3>1, <3>2 DEF TypeOK
      <4> QED BY <2>1, <4>1 DEF InWindow
    <3>3. CASE b = p
      <4>1. queue'[p] = Append(queue[p], new)
        BY <3>1, <3>3 DEF TypeOK
      <4>2. k \in 1..Len(queue'[p]) /\ queue'[p][k] = pk
        BY <2>1, <2>2, <4>1
      <4> QED BY <4>2 DEF InWindow
    <3> QED BY <3>2, <3>3
  <2>4. ASSUME NEW b \in Peer, NEW t \in Thread, PopHead(b, t)
        PROVE  InWindow(p, pk)'
    <3>1. CASE b # p
      <4>1. queue'[p] = queue[p]
        BY <2>4, <3>1 DEF PopHead, TypeOK
      <4> QED BY <2>1, <4>1 DEF InWindow
    <3>2. CASE b = p
      <4>1. queue[p] # << >>
        BY <2>1, <2>2
      <4>2. /\ pc'[p][t] = "insert" /\ packet'[p][t] = Head(queue[p])
            /\ queue'[p] = Tail(queue[p])
        BY <2>4, <3>2, <4>1, WindowPop
      <4>3. CASE k = 1
        <5>1. packet'[p][t] = pk
          BY <2>1, <2>2, <4>1, <4>2, <4>3
        <5>2. pk \in Held(p)'
          BY <4>2, <5>1 DEF Held, At
        <5> QED BY <5>2 DEF InWindow
      <4>4. CASE k # 1
        <5>1. k - 1 \in 1..Len(queue'[p]) /\ queue'[p][k - 1] = pk
          BY <2>1, <2>2, <4>1, <4>2, <4>4
        <5> QED BY <5>1 DEF InWindow
      <4> QED BY <4>3, <4>4
    <3> QED BY <3>1, <3>2
  <2>5. ASSUME queue' = queue
        PROVE  InWindow(p, pk)'
    BY <2>1, <2>5 DEF InWindow
  <2>6. ASSUME NEW b \in Peer, NEW t \in Thread, InsertPending(b, t) \/ ProcessAck(b)
        PROVE  queue' = queue
    BY <2>6 DEF InsertPending, ProcessAck
  <2> QED BY <2>3, <2>4, <2>5, <2>6, WindowFrame DEF Thread
<1>2. CASE pk \in PacketsOf(pending[p])
  <2>1. PICK e \in pending[p] : e.packet = pk
    BY <1>2 DEF PacketsOf
  <2>2. CASE e \in pending'[p]
    BY <2>1, <2>2 DEF InWindow, PacketsOf
  <2>3. CASE /\ At(p, "receiver", "ack")
             /\ End(pk) <= current[p].ack /\ current[p].ack <= send_unacked'[p]
    <3>1. current[p].ack <= recv_next[Other(p)]
      BY <2>3 DEF ArrivalsAreGenuine, IsGenuine, At
    <3>2. SequenceSpace(pk) \in Nat /\ pk.seq \in Nat /\ current[p].ack \in Nat
          /\ recv_next[Other(p)] \in Nat
      BY SequenceSpaceType, OtherPeer DEF TypeOK, TTPPacket
    <3>3. send_unacked'[p] \in Nat
      BY StepTypes DEF TypeOK
    <3> QED BY <2>3, <3>1, <3>2, <3>3 DEF End
  <2> QED BY <2>1, <2>2, <2>3, PendingFrame
<1>3. CASE pk \in Held(p)
  <2>1. PICK t \in Thread : At(p, t, "insert") /\ packet[p][t] = pk
    BY <1>3 DEF Held
  <2>2. CASE InsertPending(p, t)
    <3>1. [packet |-> pk, position |-> inserted[p]] \in pending'[p]
      BY <2>1, <2>2 DEF InsertPending, MarkPending, TypeOK
    <3>2. \E e \in pending'[p] : e.packet = pk
      BY <3>1
    <3> QED BY <3>2 DEF InWindow, PacketsOf
  <2>3. CASE pc'[p][t] = "insert" /\ packet'[p][t] = packet[p][t]
    <3>1. pk \in Held(p)'
      BY <2>1, <2>3 DEF Held, At
    <3> QED BY <3>1 DEF InWindow
  <2> QED BY <2>1, <2>2, <2>3, HeldFrame
<1> QED BY <1>1, <1>2, <1>3 DEF InWindow

\* Every step keeps what the other side has not accepted in the send window.
LEMMA UnreceivedStep ==
    ASSUME TypeOK, Next, NEW p \in Peer, WindowIsGenuine(p), ArrivalsAreGenuine(p),
           recv_next[Other(p)] <= recv_next'[Other(p)],
           \A i \in 1..Len(sent[p]) :
              End(sent[p][i]) <= recv_next[Other(p)] \/ InWindow(p, sent[p][i]),
           NEW j \in 1..Len(sent'[p])
    PROVE  End(sent'[p][j]) <= recv_next'[Other(p)] \/ InWindow(p, sent[p][j])'
<1>1. Other(p) \in Peer
  BY OtherPeer
<1>2. recv_next[Other(p)] \in Nat /\ recv_next'[Other(p)] \in Nat
  <2>1. recv_next[Other(p)] \in Nat
    BY <1>1 DEF TypeOK
  <2>2. recv_next'[Other(p)] \in Nat
    BY <1>1, StepTypes DEF TypeOK
  <2> QED BY <2>1, <2>2
<1>3. CASE j \in 1..Len(sent[p])
  <2>1. PICK pk \in TTPPacket : pk = sent[p][j]
    <3>1. sent[p] \in Seq(TTPPacket)
      BY DEF TypeOK
    <3>2. sent[p][j] \in TTPPacket
      BY <1>3, <3>1
    <3> QED BY <3>2
  <2>2. sent'[p][j] = pk
    BY <1>3, <2>1, SentGrows
  <2>3. SequenceSpace(pk) \in Nat /\ pk.seq \in Nat
    BY SequenceSpaceType DEF TTPPacket
  <2>4. End(pk) <= recv_next[Other(p)] \/ InWindow(p, pk)'
    BY <1>3, <2>1, InWindowStays
  <2>5. End(pk) <= recv_next'[Other(p)] \/ InWindow(p, pk)'
    BY <1>2, <2>3, <2>4 DEF End
  <2> QED BY <2>2, <2>5 DEF InWindow
<1>4. CASE j \notin 1..Len(sent[p])
  <2>1. PICK b \in Peer : BuildChunk(b)
    BY <1>4, SentFrame
  <2>2. PICK pk \in TTPPacket :
          /\ sent' = [sent EXCEPT ![b] = Append(@, pk)]
          /\ queue' = [queue EXCEPT ![b] = Append(@, pk)]
    BY <2>1, BuildChunkEffect, TypeParts
  <2>3. b = p
    BY <1>4, <2>2 DEF TypeOK
  <2>4. sent'[p] = Append(sent[p], pk) /\ queue'[p] = Append(queue[p], pk)
    BY <2>2, <2>3 DEF TypeOK
  <2>5. sent[p] \in Seq(TTPPacket) /\ queue[p] \in Seq(TTPPacket)
    BY DEF TypeOK
  <2>6. sent'[p][j] = pk
    BY <1>4, <2>4, <2>5
  <2>7. Len(queue'[p]) \in 1..Len(queue'[p]) /\ queue'[p][Len(queue'[p])] = pk
    BY <2>4, <2>5
  <2> QED BY <2>6, <2>7 DEF InWindow
<1> QED BY <1>3, <1>4

\* No two segments of the chain are equal.
LEMMA SentIsDistinct ==
    ASSUME TypeOK, NEW p \in Peer, SentIsChained(p),
           NEW i \in 1..Len(sent[p]), NEW j \in 1..Len(sent[p]), sent[p][i] = sent[p][j]
    PROVE  i = j
<1>1. PICK m \in Nat : m = Len(sent[p])
  BY DEF TypeOK
<1>2. SeqOf(p, i) = SeqOf(p, j)
  BY <1>1 DEF SeqOf
<1>3. SeqOf(p, i) \in Nat
  <2>1. sent[p][i] \in TTPPacket
    BY DEF TypeOK
  <2> QED BY <1>1, <2>1 DEF SeqOf, TTPPacket
<1>4. i \in 1..(m + 1) /\ j \in 1..(m + 1) /\ i \in Nat /\ j \in Nat
  BY <1>1
<1>5. \A i1, i2 \in 1..(m + 1) : i1 < i2 => SeqOf(p, i1) < SeqOf(p, i2)
  BY <1>1 DEF SentIsChained
<1>6. ~(i < j) /\ ~(j < i)
  BY <1>2, <1>3, <1>4, <1>5
<1> QED BY <1>4, <1>6

\* What is queued has not been taken, and differs from all that has.
LEMMA QueuedIsNotTaken ==
    ASSUME TypeOK, NEW p \in Peer, WindowIsGenuine(p), SentIsChained(p),
           NEW k \in 1..Len(queue[p])
    PROVE  queue[p][k] \notin PacketsOf(pending[p]) \cup Held(p)
<1>1. PICK a \in Nat, b \in Nat : a = Len(sent[p]) /\ b = Len(queue[p])
  BY DEF TypeOK
<1>2. b <= a
  BY <1>1 DEF WindowIsGenuine
<1>3. Taken(p) = a - b
  BY <1>1 DEF Taken
<1>4. queue[p][k] = sent[p][(a - b) + k] /\ (a - b) + k \in 1..a
  <2>1. queue[p][k] = sent[p][Taken(p) + k]
    BY DEF WindowIsGenuine
  <2>2. queue[p][k] = sent[p][(a - b) + k]
    BY <1>3, <2>1
  <2>3. k \in 1..b
    BY <1>1
  <2>4. (a - b) + k \in 1..a
    BY <1>2, <2>3
  <2> QED BY <2>2, <2>4
<1>5. ASSUME NEW i \in 1..(a - b)
      PROVE  queue[p][k] # sent[p][i]
  <2>1. i \in 1..a /\ i # (a - b) + k
    BY <1>1, <1>2
  <2> QED BY <1>1, <1>4, <2>1, SentIsDistinct
<1>6. ASSUME NEW pk, WasTaken(p, pk)
      PROVE  queue[p][k] # pk
  BY <1>3, <1>5, <1>6 DEF WasTaken
<1>7. \A e \in pending[p] : e.packet # queue[p][k]
  BY <1>6 DEF WindowIsGenuine
<1>8. \A t \in Thread : pc[p][t] = "insert" => packet[p][t] # queue[p][k]
  BY <1>6 DEF WindowIsGenuine
<1> QED BY <1>7, <1>8 DEF PacketsOf, Held, At

\* What becomes pending was in the hands of a thread that inserts it.
LEMMA PendingGrowth ==
    ASSUME TypeOK, Next, NEW p \in Peer, NEW e \in pending'[p]
    PROVE  \/ e \in pending[p]
           \/ \E t \in Thread : InsertPending(p, t) /\ e.packet = packet[p][t]
<1>1. ASSUME NEW b \in Peer, NEW t \in Thread, InsertPending(b, t)
      PROVE  \/ e \in pending[p]
             \/ InsertPending(p, t) /\ e.packet = packet[p][t]
  <2>1. CASE b # p
    BY <1>1, <2>1 DEF InsertPending, TypeOK
  <2>2. CASE b = p
    <3>1. pending'[p] = pending[p] \cup {[packet |-> packet[p][t], position |-> inserted[p]]}
      BY <1>1, <2>2 DEF InsertPending, MarkPending, TypeOK
    <3> QED BY <1>1, <2>2, <3>1
  <2> QED BY <2>1, <2>2
<1>2. ASSUME NEW b \in Peer, ProcessAck(b)
      PROVE  e \in pending[p]
  BY <1>2 DEF ProcessAck, Unacknowledged, TypeOK
<1>3. ASSUME NEW b \in Peer, NEW t \in Thread, BuildChunk(b) \/ PopHead(b, t)
      PROVE  e \in pending[p]
  BY <1>3 DEF BuildChunk, PopHead
<1> QED BY <1>1, <1>2, <1>3, WindowFrame DEF Thread

\* No step puts a segment in two hands, or makes pending one that a thread still holds.
LEMMA HeldStep ==
    ASSUME TypeOK, Next, NEW p \in Peer, WindowIsGenuine(p), SentIsChained(p),
           HeldIsDistinct(p)
    PROVE  HeldIsDistinct(p)'
<1>1. "app" \in Thread /\ "receiver" \in Thread /\ "app" # "receiver"
      /\ \A u \in Thread : u = "app" \/ u = "receiver"
  BY DEF Thread
<1>2. \A t, u \in Thread : t # u /\ pc[p][t] = "insert" /\ pc[p][u] = "insert" =>
        packet[p][t] # packet[p][u]
  BY <1>1 DEF HeldIsDistinct, At
<1>3. \A t \in Thread : pc[p][t] = "insert" => \A e \in pending[p] : e.packet # packet[p][t]
  BY DEF HeldIsDistinct, PacketsOf, Held, At
<1>4. SUFFICES
        /\ \A t, u \in Thread : t # u /\ pc'[p][t] = "insert" /\ pc'[p][u] = "insert" =>
             packet'[p][t] # packet'[p][u]
        /\ \A t \in Thread : pc'[p][t] = "insert" =>
             \A e \in pending'[p] : e.packet # packet'[p][t]
  BY <1>1 DEF HeldIsDistinct, PacketsOf, Held, At
<1>5. \A t \in Thread : pc'[p][t] = "insert" /\ ~PopHead(p, t) =>
        pc[p][t] = "insert" /\ packet'[p][t] = packet[p][t] /\ ~InsertPending(p, t)
  <2>1. ASSUME NEW t \in Thread, pc'[p][t] = "insert", InsertPending(p, t)
        PROVE  FALSE
    BY <2>1, GoToEffect DEF InsertPending
  <2> QED BY <2>1, PacketFrame
<1>6. CASE \E t \in Thread : PopHead(p, t)
  <2>1. PICK t \in Thread : PopHead(p, t)
    BY <1>6
  <2>2. pending' = pending
    BY <2>1 DEF PopHead
  <2>3. \A u \in Thread : u # t => pc'[p][u] = pc[p][u] /\ packet'[p][u] = packet[p][u]
    <3>1. \E label : GoTo(p, t, label)
      BY <2>1 DEF PopHead
    <3>2. \A u \in Thread : u # t => pc'[p][u] = pc[p][u]
      BY <3>1, GoToEffect
    <3>3. \A u \in Thread : u # t => packet'[p][u] = packet[p][u]
      BY <2>1 DEF PopHead, TypeOK
    <3> QED BY <3>2, <3>3
  <2>4. CASE pc'[p][t] # "insert"
    BY <1>2, <1>3, <2>2, <2>3, <2>4
  <2>5. CASE pc'[p][t] = "insert"
    <3>1. queue[p] # << >> /\ packet'[p][t] = Head(queue[p])
      BY <2>1, <2>5, WindowPop
    <3>2. 1 \in 1..Len(queue[p]) /\ packet'[p][t] = queue[p][1]
      BY <3>1 DEF TypeOK
    <3>3. packet'[p][t] \notin PacketsOf(pending[p]) \cup Held(p)
      BY <3>2, QueuedIsNotTaken
    <3>4. \A e \in pending[p] : e.packet # packet'[p][t]
      BY <3>3 DEF PacketsOf
    <3>5. \A u \in Thread : pc[p][u] = "insert" => packet[p][u] # packet'[p][t]
      BY <3>3 DEF Held, At
    <3> QED BY <1>2, <1>3, <2>2, <2>3, <3>4, <3>5
  <2> QED BY <2>4, <2>5
<1>7. CASE ~(\E t \in Thread : PopHead(p, t))
  <2>1. \A t, u \in Thread : t # u /\ pc'[p][t] = "insert" /\ pc'[p][u] = "insert" =>
          packet'[p][t] # packet'[p][u]
    BY <1>2, <1>5, <1>7
  <2>2. ASSUME NEW t \in Thread, pc'[p][t] = "insert", NEW e \in pending'[p]
        PROVE  e.packet # packet'[p][t]
    <3>1. pc[p][t] = "insert" /\ packet'[p][t] = packet[p][t] /\ ~InsertPending(p, t)
      BY <1>5, <1>7, <2>2
    <3>2. CASE e \in pending[p]
      BY <1>3, <3>1, <3>2
    <3>3. CASE \E u \in Thread : InsertPending(p, u) /\ e.packet = packet[p][u]
      <4>1. PICK u \in Thread : InsertPending(p, u) /\ e.packet = packet[p][u]
        BY <3>3
      <4>2. pc[p][u] = "insert" /\ u # t
        BY <3>1, <4>1 DEF InsertPending, At
      <4> QED BY <1>2, <3>1, <4>1, <4>2
    <3> QED BY <3>2, <3>3, PendingGrowth
  <2> QED BY <2>1, <2>2
<1> QED BY <1>6, <1>7

-----------------------------------------------------------------------------
(* The inductive invariant *)

LEMMA InvariantInit == ASSUME Init PROVE IInv
<1>1. TypeOK
  BY InitTypes
<1>2. ASSUME NEW p \in Peer
      PROVE  /\ sent[p] = << >> /\ queue[p] = << >> /\ Delivered(p) = << >>
             /\ pending[p] = {} /\ network[p] = {} /\ out_of_order[p] = {}
             /\ pc[p]["receiver"] = "wait" /\ pc[p]["app"] = "idle"
             /\ send_next[p] = ISN[p] + 1 /\ recv_next[p] = ISN[Other(p)] + 1
             /\ send_unacked[p] = ISN[p]
  BY DEF Init, Delivered, Thread
<1>3. \A p \in Peer : Other(p) \in Peer /\ Other(Other(p)) = p
  BY OtherPeer
<1>4. \A p \in Peer : ISN[p] \in Nat
  BY TransferAssumption
<1>5. \A p \in Peer : SentIsChained(p)
  BY <1>2, <1>4 DEF SentIsChained, SeqOf
<1>6. \A p \in Peer, t \in Thread : pc[p][t] \notin {"insert", "transmit"}
  BY <1>2 DEF Thread
<1>7. \A p \in Peer : WindowIsGenuine(p)
  <2>1. Len(<< >>) = 0
    OBVIOUS
  <2>2. \A k \in 1..0 : FALSE
    OBVIOUS
  <2> QED BY <1>2, <1>6, <2>1, <2>2 DEF WindowIsGenuine
<1>8. \A p \in Peer : ArrivalsAreGenuine(p)
  BY <1>2 DEF ArrivalsAreGenuine, At
<1>9. \A p \in Peer : DeliveredIsPrefix(p)
  BY <1>2, <1>3 DEF DeliveredIsPrefix, SeqOf
<1>10. \A p \in Peer : KeptIsAhead(p)
  BY <1>2 DEF KeptIsAhead
<1>11. \A p \in Peer : send_unacked[p] <= recv_next[Other(p)]
  BY <1>2, <1>3, <1>4
<1>12. UnreceivedIsKept
  BY <1>2 DEF UnreceivedIsKept
<1>13. \A p \in Peer : HeldIsDistinct(p)
  BY <1>2 DEF HeldIsDistinct, At, PacketsOf
<1> QED BY <1>1, <1>5, <1>7, <1>8, <1>9, <1>10, <1>11, <1>12, <1>13 DEF IInv

LEMMA InvariantStep == ASSUME IInv, Next PROVE IInv'
<1>1. /\ TypeOK
      /\ \A p \in Peer : /\ SentIsChained(p) /\ WindowIsGenuine(p) /\ ArrivalsAreGenuine(p)
                         /\ DeliveredIsPrefix(p) /\ KeptIsAhead(p) /\ HeldIsDistinct(p)
                         /\ send_unacked[p] <= recv_next[Other(p)]
      /\ UnreceivedIsKept
  BY DEF IInv
<1>2. \A p \in Peer : Other(p) \in Peer
  BY OtherPeer
<1>3. TypeOK'
  BY <1>1, StepTypes
<1>4. \A p \in Peer : SentIsChained(p)'
  BY <1>1, ChainStep
<1>5. \A p \in Peer : WindowIsGenuine(p)'
  BY <1>1, WindowStep
<1>6. \A p \in Peer : DeliveredIsPrefix(p)' /\ recv_next[p] <= recv_next'[p]
  BY <1>1, <1>2, DeliveryStep
<1>7. \A p \in Peer : ArrivalsAreGenuine(p)'
  BY <1>1, <1>2, <1>6, ArrivalsStep
<1>8. \A p \in Peer : KeptIsAhead(p)'
  BY <1>1, <1>2, KeptStep
<1>9. \A p \in Peer : (send_unacked[p] <= recv_next[Other(p)])'
  BY <1>1, <1>2, <1>6, AckStep
<1>10. UnreceivedIsKept'
  <2>1. ASSUME NEW p \in Peer, NEW j \in 1..Len(sent'[p])
        PROVE  End(sent'[p][j]) <= recv_next'[Other(p)] \/ InWindow(p, sent[p][j])'
    <3>1. \A i \in 1..Len(sent[p]) :
             End(sent[p][i]) <= recv_next[Other(p)] \/ InWindow(p, sent[p][i])
      BY <1>1 DEF UnreceivedIsKept, InWindow
    <3> QED BY <1>1, <1>2, <1>6, <3>1, UnreceivedStep
  <2> QED BY <2>1 DEF UnreceivedIsKept, InWindow
<1>11. \A p \in Peer : HeldIsDistinct(p)'
  BY <1>1, HeldStep
<1> QED BY <1>3, <1>4, <1>5, <1>6, <1>7, <1>8, <1>9, <1>10, <1>11 DEF IInv

\* The invariant holds in every state of every instance.
THEOREM Invariance == Spec => []IInv
<1>1. Init => IInv
  BY InvariantInit
<1>2. IInv /\ [Next]_vars => IInv'
  <2> SUFFICES ASSUME IInv, [Next]_vars PROVE IInv'
    OBVIOUS
  <2>1. CASE Next
    BY <2>1, InvariantStep
  <2>2. CASE UNCHANGED vars
    <3> USE <2>2 DEF IInv, vars, sequenceVars, windowVars, receiveVars, historyVars
    <3>1. TypeOK'
      BY DEF TypeOK
    <3>2. \A p \in Peer : SentIsChained(p)'
      BY DEF SentIsChained, SeqOf
    <3>3. \A p \in Peer : WindowIsGenuine(p)'
      BY DEF WindowIsGenuine, WasTaken, Taken
    <3>4. \A p \in Peer : ArrivalsAreGenuine(p)'
      BY DEF ArrivalsAreGenuine, IsGenuine, IsSent, At
    <3>5. \A p \in Peer : DeliveredIsPrefix(p)'
      BY DEF DeliveredIsPrefix, Delivered, SeqOf
    <3>6. \A p \in Peer : KeptIsAhead(p)'
      BY DEF KeptIsAhead, At
    <3>7. \A p \in Peer : (send_unacked[p] <= recv_next[Other(p)])'
      OBVIOUS
    <3>8. UnreceivedIsKept'
      BY DEF UnreceivedIsKept, Held, At
    <3>9. \A p \in Peer : HeldIsDistinct(p)'
      BY DEF HeldIsDistinct, Held, At
    <3> QED BY <3>1, <3>2, <3>3, <3>4, <3>5, <3>6, <3>7, <3>8, <3>9
  <2> QED BY <2>1, <2>2
<1> QED BY <1>1, <1>2, PTL DEF Spec

-----------------------------------------------------------------------------
(* The safety properties *)

\* What a receiver pushed is a prefix of what the other side's send() was given,
\* in every instance.
THEOREM DeliveryIsInOrder == Spec => []InOrderDelivery
<1>1. IInv => InOrderDelivery
  BY DEF IInv, DeliveredIsPrefix, InOrderDelivery
<1> QED BY <1>1, Invariance, PTL

\* SND.UNA never runs ahead of the other side's RCV.NXT, nor that of the SND.NXT
\* it follows.
THEOREM AcknowledgementsAreTrue == Spec => []AcknowledgedIsReceived
<1>1. ASSUME IInv, NEW p \in Peer
      PROVE  recv_next[Other(p)] <= send_next[p]
  <2>1. Other(p) \in Peer /\ Other(Other(p)) = p
    BY OtherPeer
  <2>2. /\ TypeOK /\ SentIsChained(p)
        /\ Len(Delivered(Other(p))) <= Len(sent[p])
        /\ recv_next[Other(p)] = SeqOf(p, Len(Delivered(Other(p))) + 1)
    BY <1>1, <2>1 DEF IInv, DeliveredIsPrefix
  <2>3. PICK n \in Nat : n = Len(Delivered(Other(p)))
    BY <2>1, <2>2, DeliveredType
  <2>4. PICK m \in Nat : m = Len(sent[p])
    BY <2>2 DEF TypeOK
  <2>5. send_next[p] = SeqOf(p, m + 1) /\ send_next[p] \in Nat
    BY <2>2, <2>4 DEF SeqOf, TypeOK
  <2>6. n + 1 = m + 1 \/ (n + 1 < m + 1 /\ n + 1 \in 1..(m + 1))
    BY <2>2, <2>3, <2>4
  <2>7. CASE n + 1 = m + 1
    BY <2>2, <2>3, <2>5, <2>7
  <2>8. CASE n + 1 < m + 1 /\ n + 1 \in 1..(m + 1)
    <3>1. SeqOf(p, n + 1) < SeqOf(p, m + 1)
      BY <2>2, <2>4, <2>8 DEF SentIsChained
    <3>2. recv_next[Other(p)] \in Nat
      BY <2>1, <2>2 DEF TypeOK
    <3> QED BY <2>2, <2>3, <2>5, <3>1, <3>2
  <2> QED BY <2>6, <2>7, <2>8
<1>2. IInv => AcknowledgedIsReceived
  BY <1>1 DEF IInv, AcknowledgedIsReceived
<1> QED BY <1>2, Invariance, PTL

\* A segment sent stays in the send window until it has been accepted, although the
\* two threads flush the window without excluding one another.
THEOREM NothingIsForgotten == Spec => []UnreceivedIsKept
<1>1. IInv => UnreceivedIsKept
  BY DEF IInv
<1> QED BY <1>1, Invariance, PTL

\* The two flushes never take the same segment out of the queue.
THEOREM NothingIsTakenTwice == Spec => []EachSegmentTakenOnce
<1>1. IInv => EachSegmentTakenOnce
  BY QueuedIsNotTaken DEF IInv, HeldIsDistinct, EachSegmentTakenOnce
<1> QED BY <1>1, Invariance, PTL

\* Outside a drain, nothing deliverable is left among the segments kept out of order.
THEOREM NothingDeliverableIsKept == Spec => []OutOfOrderIsAhead
<1>1. IInv => OutOfOrderIsAhead
  BY DEF IInv, KeptIsAhead, OutOfOrderIsAhead
<1> QED BY <1>1, Invariance, PTL

-----------------------------------------------------------------------------
(* Refinement *)

LEMMA PayloadsType ==
    ASSUME NEW s \in Seq(TTPPacket)
    PROVE  /\ PayloadsOf(s) \in Seq(Chunk \cup {NoPayload})
           /\ Len(PayloadsOf(s)) = Len(s)
           /\ \A i \in 1..Len(s) : PayloadsOf(s)[i] = s[i].payload
<1>1. DOMAIN s = 1..Len(s) /\ Len(s) \in Nat
  BY LenProperties
<1>2. \A i \in 1..Len(s) : s[i].payload \in Chunk \cup {NoPayload}
  <2>1. \A i \in 1..Len(s) : s[i] \in TTPPacket
    BY ElementOfSeq
  <2> QED BY <2>1 DEF TTPPacket
<1>3. PayloadsOf(s) = [i \in 1..Len(s) |-> s[i].payload]
  BY <1>1 DEF PayloadsOf
<1> QED BY <1>1, <1>2, <1>3, IsASeq, LenProperties

LEMMA PayloadsAppend ==
    ASSUME NEW s \in Seq(TTPPacket), NEW pk \in TTPPacket
    PROVE  PayloadsOf(Append(s, pk)) = Append(PayloadsOf(s), pk.payload)
<1>1. Append(s, pk) \in Seq(TTPPacket) /\ Len(Append(s, pk)) = Len(s) + 1 /\ Len(s) \in Nat
      /\ \A i \in 1..Len(s) : Append(s, pk)[i] = s[i]
      /\ Append(s, pk)[Len(s) + 1] = pk
  BY AppendProperties, LenProperties
<1>2. pk.payload \in Chunk \cup {NoPayload}
  BY DEF TTPPacket
<1>3. /\ Append(PayloadsOf(s), pk.payload) \in Seq(Chunk \cup {NoPayload})
      /\ Len(Append(PayloadsOf(s), pk.payload)) = Len(s) + 1
      /\ \A i \in 1..Len(s) : Append(PayloadsOf(s), pk.payload)[i] = s[i].payload
      /\ Append(PayloadsOf(s), pk.payload)[Len(s) + 1] = pk.payload
  BY <1>2, PayloadsType, AppendProperties
<1>4. /\ PayloadsOf(Append(s, pk)) \in Seq(Chunk \cup {NoPayload})
      /\ Len(PayloadsOf(Append(s, pk))) = Len(s) + 1
      /\ \A i \in 1..(Len(s) + 1) : PayloadsOf(Append(s, pk))[i] = Append(s, pk)[i].payload
  BY <1>1, PayloadsType
<1>5. ASSUME NEW i \in 1..(Len(s) + 1)
      PROVE  PayloadsOf(Append(s, pk))[i] = Append(PayloadsOf(s), pk.payload)[i]
  <2>1. CASE i \in 1..Len(s)
    BY <1>1, <1>3, <1>4, <2>1
  <2>2. CASE i = Len(s) + 1
    BY <1>1, <1>3, <1>4, <2>2
  <2>3. i \in 1..Len(s) \/ i = Len(s) + 1
    <3>1. Len(s) \in Nat
      BY LenProperties
    <3> QED BY <3>1
  <2> QED BY <2>1, <2>2, <2>3
<1> QED BY <1>3, <1>4, <1>5, SeqEqual

\* Every step sends one chunk from p, delivers the next one, or does neither.
LEMMA StreamStep ==
    ASSUME IInv, Next, NEW p \in Peer
    PROVE  \/ \E chunk \in Chunk :
                /\ PayloadsOf(sent'[p]) = Append(PayloadsOf(sent[p]), chunk)
                /\ Delivered(Other(p))' = Delivered(Other(p))
           \/ /\ Len(Delivered(Other(p))) < Len(PayloadsOf(sent[p]))
              /\ Delivered(Other(p))'
                   = Append(Delivered(Other(p)),
                            PayloadsOf(sent[p])[Len(Delivered(Other(p))) + 1])
              /\ sent'[p] = sent[p]
           \/ sent'[p] = sent[p] /\ Delivered(Other(p))' = Delivered(Other(p))
<1> DEFINE q == Other(p)
<1>1. q \in Peer /\ Other(q) = p
  BY OtherPeer
<1>2. /\ TypeOK /\ SentIsChained(p) /\ ArrivalsAreGenuine(q) /\ DeliveredIsPrefix(q)
      /\ sent[p] \in Seq(TTPPacket)
  BY <1>1 DEF IInv, TypeOK
<1>3. ASSUME NEW b \in Peer, BuildChunk(b)
      PROVE  Delivered(q)' = Delivered(q)
  BY <1>3 DEF BuildChunk, Delivered, receiveVars
<1>4. CASE BuildChunk(p)
  <2>1. PICK pk \in TTPPacket : /\ pk.payload \in Chunk
                                /\ sent' = [sent EXCEPT ![p] = Append(@, pk)]
    BY <1>2, <1>4, BuildChunkEffect, TypeParts
  <2>2. sent'[p] = Append(sent[p], pk)
    BY <1>2, <2>1 DEF TypeOK
  <2>3. PayloadsOf(sent'[p]) = Append(PayloadsOf(sent[p]), pk.payload)
    BY <1>2, <2>2, PayloadsAppend
  <2> QED BY <1>3, <1>4, <2>1, <2>3
<1>5. CASE ~BuildChunk(p)
  <2>1. sent'[p] = sent[p]
    <3>1. ASSUME NEW b \in Peer, b # p, BuildChunk(b)
          PROVE  sent'[p] = sent[p]
      BY <1>2, <3>1 DEF BuildChunk, TypeOK
    <3> QED BY <1>2, <1>5, <3>1, SentFrame
  <2>2. CASE \E pk \in TTPPacket :
                /\ IsSent(Other(q), pk) /\ pk.seq = recv_next[q] /\ Accept(q, pk)
                /\ UNCHANGED <<received, sent, send_next>>
    <3>1. PICK pk \in TTPPacket :
                /\ IsSent(Other(q), pk) /\ pk.seq = recv_next[q] /\ Accept(q, pk)
                /\ UNCHANGED <<received, sent, send_next>>
      BY <2>2
    <3>2. PICK n \in Nat : n = Len(Delivered(q))
      BY <1>1, <1>2, DeliveredType
    <3>3. /\ pk = sent[p][n + 1] /\ n < Len(sent[p])
          /\ Delivered(q)' = Append(Delivered(q), pk.payload)
      BY <1>1, <1>2, <3>1, <3>2, AcceptEffect
    <3>4. n + 1 \in 1..Len(sent[p]) /\ Len(PayloadsOf(sent[p])) = Len(sent[p])
      BY <1>2, <3>3, PayloadsType
    <3>5. PayloadsOf(sent[p])[n + 1] = pk.payload
      BY <1>2, <3>3, <3>4, PayloadsType
    <3> QED BY <2>1, <3>2, <3>3, <3>4, <3>5
  <2>3. CASE buffer'[q] = buffer[q] /\ received'[q] = received[q]
    BY <2>1, <2>3 DEF Delivered
  <2>4. CASE Recv(q)
    <3>1. received[q] \in Seq(Chunk \cup {NoPayload}) /\ buffer[q] \in Seq(Chunk \cup {NoPayload})
      BY <1>1, <1>2 DEF TypeOK
    <3>2. /\ buffer[q] # << >>
          /\ buffer'[q] = Tail(buffer[q])
          /\ received'[q] = Append(received[q], Head(buffer[q]))
      BY <1>1, <1>2, <2>4 DEF Recv, TypeOK
    <3>3. Delivered(q)' = Delivered(q)
      BY <3>1, <3>2, ConcatMoveHead DEF Delivered
    <3> QED BY <2>1, <3>3
  <2> QED BY <1>1, <1>2, <2>2, <2>3, <2>4, AcceptStep
<1> QED BY <1>4, <1>5

\* The direction from client to server implements the reliable stream.
THEOREM ClientToServerRefinement == Spec => StreamToServer
<1>1. Client \in Peer /\ Other(Client) = Server
  BY DEF Peer, Other
<1>2. Init => ToServer!Init
  BY DEF Init, ToServer!Init, PayloadsOf, Delivered, Peer
<1>3. IInv /\ [Next]_vars => [ToServer!Next]_<<PayloadsOf(sent[Client]), Delivered(Server)>>
  <2> SUFFICES ASSUME IInv, [Next]_vars
               PROVE  [ToServer!Next]_<<PayloadsOf(sent[Client]), Delivered(Server)>>
    OBVIOUS
  <2>1. CASE Next
    <3>1. \/ \E chunk \in Chunk :
               /\ PayloadsOf(sent'[Client]) = Append(PayloadsOf(sent[Client]), chunk)
               /\ Delivered(Server)' = Delivered(Server)
          \/ /\ Len(Delivered(Server)) < Len(PayloadsOf(sent[Client]))
             /\ Delivered(Server)'
                  = Append(Delivered(Server), PayloadsOf(sent[Client])[Len(Delivered(Server)) + 1])
             /\ sent'[Client] = sent[Client]
          \/ sent'[Client] = sent[Client] /\ Delivered(Server)' = Delivered(Server)
      BY <1>1, <2>1, StreamStep
    <3>2. sent'[Client] = sent[Client] => PayloadsOf(sent'[Client]) = PayloadsOf(sent[Client])
      OBVIOUS
    <3> QED BY <3>1, <3>2 DEF ToServer!Next, ToServer!Send, ToServer!Deliver, PayloadsOf
  <2>2. CASE UNCHANGED vars
    BY <2>2 DEF vars, receiveVars, historyVars, PayloadsOf, Delivered
  <2> QED BY <2>1, <2>2
<1> QED BY <1>2, <1>3, Invariance, PTL DEF Spec, StreamToServer, ToServer!Spec

\* The direction from server to client implements it too.
THEOREM ServerToClientRefinement == Spec => StreamToClient
<1>1. Server \in Peer /\ Other(Server) = Client
  BY TransferAssumption DEF Peer, Other
<1>2. Init => ToClient!Init
  BY DEF Init, ToClient!Init, PayloadsOf, Delivered, Peer
<1>3. IInv /\ [Next]_vars => [ToClient!Next]_<<PayloadsOf(sent[Server]), Delivered(Client)>>
  <2> SUFFICES ASSUME IInv, [Next]_vars
               PROVE  [ToClient!Next]_<<PayloadsOf(sent[Server]), Delivered(Client)>>
    OBVIOUS
  <2>1. CASE Next
    <3>1. \/ \E chunk \in Chunk :
               /\ PayloadsOf(sent'[Server]) = Append(PayloadsOf(sent[Server]), chunk)
               /\ Delivered(Client)' = Delivered(Client)
          \/ /\ Len(Delivered(Client)) < Len(PayloadsOf(sent[Server]))
             /\ Delivered(Client)'
                  = Append(Delivered(Client), PayloadsOf(sent[Server])[Len(Delivered(Client)) + 1])
             /\ sent'[Server] = sent[Server]
          \/ sent'[Server] = sent[Server] /\ Delivered(Client)' = Delivered(Client)
      BY <1>1, <2>1, StreamStep
    <3>2. sent'[Server] = sent[Server] => PayloadsOf(sent'[Server]) = PayloadsOf(sent[Server])
      OBVIOUS
    <3> QED BY <3>1, <3>2 DEF ToClient!Next, ToClient!Send, ToClient!Deliver, PayloadsOf
  <2>2. CASE UNCHANGED vars
    BY <2>2 DEF vars, receiveVars, historyVars, PayloadsOf, Delivered
  <2> QED BY <2>1, <2>2
<1> QED BY <1>2, <1>3, Invariance, PTL DEF Spec, StreamToClient, ToClient!Spec
=============================================================================
