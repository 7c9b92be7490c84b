-------------------------- MODULE TTPOpeningProofs --------------------------
(***************************************************************************)
(* Theorems about TTPOpening for every instance of its constants: how far  *)
(* the two sides have come together and what is then under way; that a     *)
(* connection being opened implements the transfer from its first SYN on   *)
(* (the steps of the handshake are stutters there, and DATA that overtakes *)
(* its end and is dropped is DATA the network has lost); and what is proved *)
(* of the transfer, stated of that connection.                             *)
(***************************************************************************)
EXTENDS TTPOpeningInvariant, TTPTransferProofs

-----------------------------------------------------------------------------
(* The operators of the transfer, seen through the refinement mapping *)

\* A segment is the same size there, and so is what is in flight.
LEMMA SameSpace == \A pk : Transfer!SequenceSpace(pk) = SequenceSpace(pk)
<1>1. \A S : Transfer!Cardinality(S) = Cardinality(S)
  BY DEF Transfer!Cardinality, Cardinality, Transfer!IsFiniteSet, IsFiniteSet
<1> QED
  BY <1>1 DEF Transfer!SequenceSpace, SequenceSpace, Transfer!PayloadLength, PayloadLength

LEMMA SameEnd == \A pk : Transfer!End(pk) = End(pk)
BY SameSpace DEF Transfer!End, End

LEMMA SameBytes == \A S : Transfer!BytesInFlight(S) = BytesInFlight(S)
BY SameSpace
DEF Transfer!BytesInFlight, BytesInFlight, MapThenSumSet, Transfer!MapThenSumSet,
    MapThenFoldSet, Transfer!MapThenFoldSet

LEMMA SameEncodable == \A pk : Transfer!Encodable(pk) <=> Encodable(pk)
BY DEF Transfer!Encodable, Encodable, Transfer!IPV4_HEADER_SIZE, IPV4_HEADER_SIZE,
       Transfer!HEADER_SIZE, HEADER_SIZE, Transfer!IPV4_MAX_LENGTH, IPV4_MAX_LENGTH,
       Transfer!PayloadLength, PayloadLength

\* The send window and the timer are the same there.
LEMMA SameWindow ==
    /\ \A size, S, n : Transfer!CanSend(size, S, n) <=> CanSend(size, S, n)
    /\ \A S, pk, n : Transfer!MarkPending(S, pk, n) = MarkPending(S, pk, n)
    /\ \A S, n : Transfer!Unacknowledged(S, n) = Unacknowledged(S, n)
    /\ \A S, e : Transfer!IsOldest(S, e) <=> IsOldest(S, e)
    /\ \A q, S : Transfer!Empty(q, S) <=> Empty(q, S)
BY SameBytes, SameEnd
DEF Transfer!CanSend, CanSend, Transfer!MarkPending, MarkPending,
    Transfer!Unacknowledged, Unacknowledged, Transfer!IsOldest, IsOldest,
    Transfer!Empty, Empty

LEMMA SameTimer ==
    /\ \A r : Transfer!Start(r) = Start(r)
    /\ \A r : Transfer!Restart(r) = Restart(r)
    /\ \A r : Transfer!Stop(r) = Stop(r)
    /\ \A r : Transfer!Expire(r) = Expire(r)
    /\ \A r : Transfer!Exhausted(r) <=> Exhausted(r)
BY DEF Transfer!Start, Start, Transfer!Restart, Restart, Transfer!Stop, Stop,
       Transfer!Expire, Expire, Transfer!Exhausted, Exhausted

LEMMA SameNames ==
    /\ Transfer!Peer = Peer
    /\ Transfer!Thread = Thread
    /\ Transfer!NoPacket = NoPacket
    /\ \A p : Transfer!Other(p) = Other(p)
    /\ \A t : Transfer!Flushed(t) = Flushed(t)
    /\ \A t : Transfer!Failed(t) = Failed(t)
    /\ \A n, s : Transfer!ReceiveStatus(n, s) = ReceiveStatus(n, s)
    /\ \A n, s : Transfer!Acknowledged(n, s) = Acknowledged(n, s)
BY DEF Transfer!Peer, Peer, Transfer!Thread, Thread, Transfer!NoPacket, NoPacket,
       Transfer!Other, Other, Transfer!Flushed, Flushed, Transfer!Failed, Failed,
       Transfer!ReceiveStatus, ReceiveStatus, Transfer!Acknowledged, Acknowledged

\* A side that is established is at the same statements there, and what it builds and
\* compares is the same.
LEMMA SameState ==
    ASSUME NEW p \in Peer, ~Opening(p)
    PROVE  /\ \A t, label : Transfer!At(p, t, label) <=> At(p, t, label)
           /\ \A flags, payload :
                Transfer!BuildPacket(p, flags, payload) = BuildPacket(p, flags, payload)
           /\ \A t : Transfer!MutatesPending(p, t) <=> MutatesPending(p, t)
           /\ \A t : Transfer!IterationRaces(p, t) <=> IterationRaces(p, t)
           /\ TransferSendNext[p] = send_next[p]
           /\ TransferRecvNext[p] = recv_next[p]
<1>1. TransferPc[p] = pc[p] /\ TransferSendNext[p] = send_next[p] /\ TransferRecvNext[p] = recv_next[p]
  BY DEF TransferPc, TransferSendNext, TransferRecvNext
<1>2. \A t, label : Transfer!At(p, t, label) <=> At(p, t, label)
  BY <1>1 DEF Transfer!At, At
<1>3. \A flags, payload :
                Transfer!BuildPacket(p, flags, payload) = BuildPacket(p, flags, payload)
  BY <1>1 DEF Transfer!BuildPacket, BuildPacket
<1>4. \A t : Transfer!MutatesPending(p, t) <=> MutatesPending(p, t)
  BY <1>2, SameWindow DEF Transfer!MutatesPending, MutatesPending
<1>5. \A t : Transfer!IterationRaces(p, t) <=> IterationRaces(p, t)
  BY <1>4, SameNames DEF Transfer!IterationRaces, IterationRaces
<1> QED BY <1>1, <1>2, <1>3, <1>4, <1>5

-----------------------------------------------------------------------------
(* Steps of one side, seen through the refinement mapping *)

\* Which side is opening does not change.
SameOpening == \A p \in Peer : Opening(p)' <=> Opening(p)

LEMMA GoToMaps ==
    ASSUME OpeningPcOK, NEW p \in Peer, ~Opening(p), NEW t \in Thread, NEW label,
           label \notin OpeningLabel, GoTo(p, t, label)
    PROVE  SameOpening /\ Transfer!GoTo(p, t, label)
<1>1. SameOpening
  BY DEF SameOpening, OpeningPcOK, GoTo, Opening, Thread
<1>2. \A q \in Peer : pc'[q] = IF q = p THEN [pc[p] EXCEPT ![t] = label] ELSE pc[q]
  BY DEF OpeningPcOK, GoTo
<1>3. TransferPc[p] = pc[p]
  BY DEF TransferPc
<1>4. TransferPc' = [TransferPc EXCEPT ![p] = [pc[p] EXCEPT ![t] = label]]
  BY <1>1, <1>2 DEF TransferPc, SameOpening
<1> QED BY <1>1, <1>3, <1>4 DEF Transfer!GoTo

LEMMA SamePcMaps ==
    ASSUME UNCHANGED pc
    PROVE  SameOpening /\ UNCHANGED TransferPc
BY DEF SameOpening, Opening, TransferPc

LEMMA UnchangedMaps ==
    ASSUME SameOpening
    PROVE  /\ UNCHANGED send_next => UNCHANGED TransferSendNext
           /\ UNCHANGED recv_next => UNCHANGED TransferRecvNext
           /\ UNCHANGED network => UNCHANGED TransferNetwork
<1>1. UNCHANGED send_next => UNCHANGED TransferSendNext
  BY DEF SameOpening, TransferSendNext
<1>2. UNCHANGED recv_next => UNCHANGED TransferRecvNext
  BY DEF SameOpening, TransferRecvNext
<1>3. UNCHANGED network => UNCHANGED TransferNetwork
  BY DEF SameOpening, TransferNetwork, IsOfTransfer
<1> QED BY <1>1, <1>2, <1>3

LEMMA NumbersMap ==
    ASSUME SameOpening, DataTypeOK, NEW p \in Peer, ~Opening(p), NEW n
    PROVE  /\ send_next' = [send_next EXCEPT ![p] = n] =>
                TransferSendNext' = [TransferSendNext EXCEPT ![p] = n]
           /\ recv_next' = [recv_next EXCEPT ![p] = n] =>
                TransferRecvNext' = [TransferRecvNext EXCEPT ![p] = n]
<1>1. ASSUME send_next' = [send_next EXCEPT ![p] = n]
      PROVE  TransferSendNext' = [TransferSendNext EXCEPT ![p] = n]
  BY <1>1 DEF SameOpening, TransferSendNext, DataTypeOK
<1>2. ASSUME recv_next' = [recv_next EXCEPT ![p] = n]
      PROVE  TransferRecvNext' = [TransferRecvNext EXCEPT ![p] = n]
  BY <1>2 DEF SameOpening, TransferRecvNext, DataTypeOK
<1> QED BY <1>1, <1>2

\* Data, and an ACK to a side that is established, are sent there too.
LEMMA TransmitMaps ==
    ASSUME SameOpening, DataTypeOK, NEW p \in Peer, NEW pk, Transmit(p, pk),
           "SYN" \notin pk.flags, "ACK" \in pk.flags => ~Opening(Other(p))
    PROVE  Transfer!Transmit(p, pk)
<1>1. IsOfTransfer(Other(p), pk)
  BY DEF IsOfTransfer
<1>2. \A q \in Peer : network'[q] = IF q = Other(p) THEN network[q] \cup {pk} ELSE network[q]
  BY OtherPeer DEF Transmit, DataTypeOK
<1>3. \A q \in Peer : \A x : IsOfTransfer(q, x)' <=> IsOfTransfer(q, x)
  BY DEF SameOpening, IsOfTransfer
<1>4. \A q \in Peer : TransferNetwork'[q] = {x \in network'[q] : IsOfTransfer(q, x)}
  BY <1>3 DEF TransferNetwork
<1>5. \A q \in Peer : TransferNetwork[q] = {x \in network[q] : IsOfTransfer(q, x)}
  BY DEF TransferNetwork
<1>6. \A q \in Peer : TransferNetwork'[q] =
         IF q = Other(p) THEN TransferNetwork[q] \cup {pk} ELSE TransferNetwork[q]
  <2>1. ASSUME NEW q \in Peer, q = Other(p)
        PROVE  TransferNetwork'[q] = TransferNetwork[q] \cup {pk}
    BY <1>1, <1>2, <1>4, <1>5, <2>1
  <2>2. ASSUME NEW q \in Peer, q # Other(p)
        PROVE  TransferNetwork'[q] = TransferNetwork[q]
    BY <1>2, <1>4, <1>5, <2>2
  <2> QED BY <2>1, <2>2
<1>7. TransferNetwork' = [TransferNetwork EXCEPT ![Other(p)] = TransferNetwork[Other(p)] \cup {pk}]
  BY <1>6 DEF TransferNetwork
<1> QED BY <1>7, SameNames DEF Transfer!Transmit

\* What is taken from the network is taken there, or was not of the transfer.
LEMMA TakeMaps ==
    ASSUME SameOpening, DataTypeOK, NEW p \in Peer, NEW pk,
           network' = [network EXCEPT ![p] = @ \ {pk}]
    PROVE  TransferNetwork' = [TransferNetwork EXCEPT ![p] = @ \ {pk}]
<1>1. \A q \in Peer : network'[q] = IF q = p THEN network[q] \ {pk} ELSE network[q]
  BY DEF DataTypeOK
<1>2. \A q \in Peer : \A x : IsOfTransfer(q, x)' <=> IsOfTransfer(q, x)
  BY DEF SameOpening, IsOfTransfer
<1>3. \A q \in Peer : TransferNetwork'[q] = {x \in network'[q] : IsOfTransfer(q, x)}
  BY <1>2 DEF TransferNetwork
<1>4. \A q \in Peer : TransferNetwork'[q] =
         IF q = p THEN TransferNetwork[q] \ {pk} ELSE TransferNetwork[q]
  BY <1>1, <1>3 DEF TransferNetwork
<1> QED BY <1>4 DEF TransferNetwork

-----------------------------------------------------------------------------
(* The statements of the transfer, seen through the refinement mapping *)

\* The variables of a transfer that has no step.
LEMMA SameVars ==
    ASSUME SameOpening
    PROVE  /\ UNCHANGED sequenceVars => UNCHANGED Transfer!sequenceVars
           /\ UNCHANGED windowVars => UNCHANGED Transfer!windowVars
           /\ UNCHANGED receiveVars => UNCHANGED Transfer!receiveVars
           /\ UNCHANGED historyVars => UNCHANGED Transfer!historyVars
BY UnchangedMaps
DEF sequenceVars, Transfer!sequenceVars, windowVars, Transfer!windowVars,
    receiveVars, Transfer!receiveVars, historyVars, Transfer!historyVars

\* A statement of _flush_window of an established side is that statement there.
LEMMA FlushWindowMaps ==
    ASSUME DataTypeOK, OpeningPcOK, NEW p \in Peer, ~Opening(p), WindowIsData(p),
           NEW t \in Thread, FlushWindow(p, t)
    PROVE  Transfer!FlushWindow(p, t)
<1>1. "peek" \notin OpeningLabel /\ "admit" \notin OpeningLabel /\ "pop" \notin OpeningLabel
      /\ "insert" \notin OpeningLabel /\ "transmit" \notin OpeningLabel
      /\ "timer" \notin OpeningLabel /\ "start" \notin OpeningLabel
      /\ Flushed(t) \notin OpeningLabel /\ Failed(t) \notin OpeningLabel
  BY DEF OpeningLabel, Flushed, Failed
<1>2. \A label : label \notin OpeningLabel /\ GoTo(p, t, label) =>
         SameOpening /\ Transfer!GoTo(p, t, label)
  BY GoToMaps
<1>3. SameOpening
  BY <1>1, <1>2 DEF FlushWindow, Peek, Admit, PopHead, InsertPending, TransmitHead,
                    CheckFirstPending, StartTimer
<1>a. /\ UNCHANGED sequenceVars => UNCHANGED Transfer!sequenceVars
      /\ UNCHANGED windowVars => UNCHANGED Transfer!windowVars
      /\ UNCHANGED receiveVars => UNCHANGED Transfer!receiveVars
      /\ UNCHANGED historyVars => UNCHANGED Transfer!historyVars
      /\ UNCHANGED network => UNCHANGED TransferNetwork
  BY <1>3, SameVars, UnchangedMaps
<1>b. \A label : Transfer!At(p, t, label) <=> At(p, t, label)
  BY SameState
<1> USE <1>1, <1>2, <1>a, <1>b
<1>4. ASSUME Peek(p, t) PROVE Transfer!Peek(p, t)
  <2>1. \A other : Transfer!At(p, other, "pop") <=> At(p, other, "pop")
    BY SameState
  <2> QED BY <1>4, <2>1, SameNames DEF Peek, Transfer!Peek
<1>5. ASSUME Admit(p, t) PROVE Transfer!Admit(p, t)
  <2>1. Transfer!CanSend(WindowSize[p], pending[p], Transfer!SequenceSpace(packet[p][t]))
        <=> CanSend(WindowSize[p], pending[p], SequenceSpace(packet[p][t]))
    BY SameWindow, SameSpace
  <2>2. Transfer!IterationRaces(p, t) <=> IterationRaces(p, t)
    BY SameState
  <2>3. Transfer!NoPacket = NoPacket /\ Transfer!Flushed(t) = Flushed(t)
        /\ Transfer!Failed(t) = Failed(t)
    BY SameNames
  <2> QED BY <1>5, <2>1, <2>2, <2>3 DEF Admit, Transfer!Admit
<1>6. ASSUME PopHead(p, t) PROVE Transfer!PopHead(p, t)
  <2>1. Transfer!Failed(t) = Failed(t)
    BY SameNames
  <2> QED BY <1>6, <2>1 DEF PopHead, Transfer!PopHead
<1>7. ASSUME InsertPending(p, t) PROVE Transfer!InsertPending(p, t)
  BY <1>7, SameWindow DEF InsertPending, Transfer!InsertPending
<1>8. ASSUME TransmitHead(p, t) PROVE Transfer!TransmitHead(p, t)
  <2>1. At(p, t, "transmit")
    BY <1>8 DEF TransmitHead
  <2>2. packet[p][t].flags = {"DATA"}
    BY <2>1 DEF WindowIsData, At
  <2>3. Transmit(p, packet[p][t]) => Transfer!Transmit(p, packet[p][t])
    BY <1>3, <2>2, TransmitMaps
  <2>4. Transfer!Encodable(packet[p][t]) <=> Encodable(packet[p][t])
    BY SameEncodable
  <2>5. Transfer!NoPacket = NoPacket /\ Transfer!Failed(t) = Failed(t)
    BY SameNames
  <2> QED BY <1>8, <2>3, <2>4, <2>5 DEF TransmitHead, Transfer!TransmitHead
<1>9. ASSUME CheckFirstPending(p, t) PROVE Transfer!CheckFirstPending(p, t)
  <2>1. Transfer!Cardinality(pending[p]) = Cardinality(pending[p])
    BY DEF Transfer!Cardinality, Cardinality, Transfer!IsFiniteSet, IsFiniteSet
  <2>2. Transfer!IterationRaces(p, t) <=> IterationRaces(p, t)
    BY SameState
  <2>3. Transfer!Failed(t) = Failed(t)
    BY SameNames
  <2> QED BY <1>9, <2>1, <2>2, <2>3 DEF CheckFirstPending, Transfer!CheckFirstPending
<1>10. ASSUME StartTimer(p, t) PROVE Transfer!StartTimer(p, t)
  BY <1>10, SameTimer DEF StartTimer, Transfer!StartTimer
<1> QED
  BY <1>4, <1>5, <1>6, <1>7, <1>8, <1>9, <1>10 DEF FlushWindow, Transfer!FlushWindow

\* A statement of the receive loop of an established side is that statement there, if
\* no SYN can arrive and it answers nobody who is still opening.
LEMMA ReceiveMaps ==
    ASSUME DataTypeOK, OpeningPcOK, NEW p \in Peer, ~Opening(p), WindowIsData(p),
           \A pk \in network[p] : "SYN" \notin pk.flags,
           At(p, "receiver", "reply") => ~Opening(Other(p)),
           ReceiveLoop(p)
    PROVE  Transfer!ReceiveLoop(p)
<1>1. \A label \in {"check", "ack", "data", "dead", "peek", "log", "wait", "drain", "reply"} :
         label \notin OpeningLabel
  BY DEF OpeningLabel
<1>2. \A label : label \notin OpeningLabel /\ GoTo(p, "receiver", label) =>
         SameOpening /\ Transfer!GoTo(p, "receiver", label)
  BY GoToMaps DEF Thread
<1>3. SameOpening =>
      /\ UNCHANGED sequenceVars => UNCHANGED Transfer!sequenceVars
      /\ UNCHANGED windowVars => UNCHANGED Transfer!windowVars
      /\ UNCHANGED receiveVars => UNCHANGED Transfer!receiveVars
      /\ UNCHANGED historyVars => UNCHANGED Transfer!historyVars
      /\ UNCHANGED network => UNCHANGED TransferNetwork
      /\ UNCHANGED send_next => UNCHANGED TransferSendNext
      /\ UNCHANGED recv_next => UNCHANGED TransferRecvNext
  BY SameVars, UnchangedMaps
<1>4. \A label : Transfer!At(p, "receiver", label) <=> At(p, "receiver", label)
  BY SameState
<1>5. Transfer!IterationRaces(p, "receiver") <=> IterationRaces(p, "receiver")
  BY SameState
<1>6. ASSUME NEW pk, SameOpening, Accept(p, pk) PROVE Transfer!Accept(p, pk)
  <2>1. recv_next' = [recv_next EXCEPT ![p] = recv_next[p] + SequenceSpace(pk)]
    BY <1>6 DEF Accept
  <2>2. TransferRecvNext' = [TransferRecvNext EXCEPT ![p] = recv_next[p] + SequenceSpace(pk)]
    BY <1>6, <2>1, NumbersMap
  <2>3. TransferRecvNext[p] = recv_next[p] /\ Transfer!SequenceSpace(pk) = SequenceSpace(pk)
    BY SameState, SameSpace
  <2> QED BY <1>6, <2>2, <2>3 DEF Accept, Transfer!Accept
<1>7. Dispatch(p) => SameOpening /\ Transfer!Dispatch(p)
  BY <1>1, <1>2 DEF Dispatch, Transfer!Dispatch
<1>8. TransferRecvNext[p] = recv_next[p]
  BY SameState
<1>9. Transfer!NoPacket = NoPacket
  BY SameNames
<1> USE <1>1, <1>2, <1>3, <1>4, <1>9
<1>10. ASSUME WaitForPacket(p) PROVE Transfer!WaitForPacket(p)
  <2>1. SameOpening /\ Transfer!GoTo(p, "receiver", "check")
    BY <1>10 DEF WaitForPacket
  <2>2. PICK pk \in network[p], keep \in {FALSE, CanDuplicate} :
           /\ current' = [current EXCEPT ![p] = pk]
           /\ network' = IF keep THEN network ELSE [network EXCEPT ![p] = @ \ {pk}]
    BY <1>10 DEF WaitForPacket
  <2>3. pk \in TransferNetwork[p]
    BY <2>2 DEF TransferNetwork, IsOfTransfer
  <2>4. TransferNetwork' =
          IF keep THEN TransferNetwork ELSE [TransferNetwork EXCEPT ![p] = @ \ {pk}]
    BY <2>1, <2>2, TakeMaps
  <2> QED BY <1>10, <2>1, <2>2, <2>3, <2>4 DEF WaitForPacket, Transfer!WaitForPacket
<1>11. ASSUME CheckRetransmission(p) PROVE Transfer!CheckRetransmission(p)
  <2>1. SameOpening
    BY <1>11, <1>7 DEF CheckRetransmission
  <2>2. \A e \in pending[p] : Transmit(p, e.packet) => Transfer!Transmit(p, e.packet)
    BY <2>1, TransmitMaps DEF WindowIsData
  <2>3. \A r : Transfer!Restart(r) = Restart(r) /\ (Transfer!Exhausted(r) <=> Exhausted(r))
    BY SameTimer
  <2>4. \A e : Transfer!IsOldest(pending[p], e) <=> IsOldest(pending[p], e)
    BY SameWindow
  <2> QED
    BY <1>11, <1>5, <1>7, <2>1, <2>2, <2>3, <2>4, SameEncodable
    DEF CheckRetransmission, Transfer!CheckRetransmission
<1>12. ASSUME ProcessAck(p) PROVE Transfer!ProcessAck(p)
  <2>1. \A n, k : Transfer!Acknowledged(n, k) = Acknowledged(n, k)
    BY SameNames
  <2>2. \A S, n : Transfer!Unacknowledged(S, n) = Unacknowledged(S, n)
    BY SameWindow
  <2>3. SameOpening
    BY <1>12 DEF ProcessAck
  <2> QED BY <1>12, <1>5, <2>1, <2>2, <2>3 DEF ProcessAck, Transfer!ProcessAck
<1>13. ASSUME FlushWindow(p, "receiver") PROVE Transfer!FlushWindow(p, "receiver")
  BY <1>13, FlushWindowMaps DEF Thread
<1>14. ASSUME StopTimer(p) PROVE Transfer!StopTimer(p)
  BY <1>14, SameTimer DEF StopTimer, Transfer!StopTimer
<1>18. ASSUME LogWindow(p) PROVE Transfer!LogWindow(p)
  BY <1>18, <1>5, <1>7 DEF LogWindow, Transfer!LogWindow
<1>15. ASSUME ProcessData(p) PROVE Transfer!ProcessData(p)
  <2>1. SameOpening
    BY <1>15 DEF ProcessData
  <2>2. Accept(p, current[p]) => Transfer!Accept(p, current[p])
    BY <2>1, <1>6
  <2>3. Transfer!ReceiveStatus(TransferRecvNext[p], current[p].seq)
        = ReceiveStatus(recv_next[p], current[p].seq)
    BY <1>8, SameNames
  <2>4. Store(p, current[p]) => Transfer!Store(p, current[p])
    BY DEF Store, Transfer!Store
  <2> QED BY <1>15, <2>1, <2>2, <2>3, <2>4 DEF ProcessData, Transfer!ProcessData
<1>16. ASSUME FlushOutOfOrder(p) PROVE Transfer!FlushOutOfOrder(p)
  <2>1. SameOpening /\ (UNCHANGED pc => UNCHANGED TransferPc)
    BY <1>16, SamePcMaps DEF FlushOutOfOrder
  <2>2. \A pk : Accept(p, pk) => Transfer!Accept(p, pk)
    BY <2>1, <1>6
  <2> QED BY <1>16, <1>8, <2>1, <2>2 DEF FlushOutOfOrder, Transfer!FlushOutOfOrder
<1>17. ASSUME Reply(p) PROVE Transfer!Reply(p)
  <2> DEFINE ack == BuildPacket(p, {"ACK"}, NoPayload)
  <2>1. SameOpening /\ ~Opening(Other(p))
    BY <1>17 DEF Reply
  <2>2. Transmit(p, ack) => Transfer!Transmit(p, ack)
    <3>1. "SYN" \notin ack.flags
      BY DEF BuildPacket
    <3> HIDE DEF ack
    <3> QED BY <2>1, <3>1, TransmitMaps
  <2>3. Transfer!BuildPacket(p, {"ACK"}, NoPayload) = ack
    BY SameState
  <2>4. Transfer!Encodable(ack) <=> Encodable(ack)
    BY SameEncodable
  <2> QED BY <1>17, <2>1, <2>2, <2>3, <2>4 DEF Reply, Transfer!Reply
<1> QED
  BY <1>10, <1>11, <1>12, <1>13, <1>14, <1>15, <1>16, <1>17, <1>18
  DEF ReceiveLoop, Transfer!ReceiveLoop

\* What the application of an established side calls is that call there.
LEMMA AppMaps ==
    ASSUME DataTypeOK, OpeningPcOK, NEW p \in Peer, ~Opening(p), WindowIsData(p),
           BuildChunk(p) \/ Recv(p) \/ WaitForAcks(p) \/ App(p)
    PROVE  Transfer!BuildChunk(p) \/ Transfer!Recv(p) \/ Transfer!WaitForAcks(p)
           \/ Transfer!App(p)
<1>1. \A label \in {"building", "peek", "waiting", "confirmed", "gave_up"} :
         label \notin OpeningLabel
  BY DEF OpeningLabel
<1>2. \A label : label \notin OpeningLabel /\ GoTo(p, "app", label) =>
         SameOpening /\ Transfer!GoTo(p, "app", label)
  BY GoToMaps DEF Thread
<1>3. SameOpening =>
      /\ UNCHANGED sequenceVars => UNCHANGED Transfer!sequenceVars
      /\ UNCHANGED windowVars => UNCHANGED Transfer!windowVars
      /\ UNCHANGED receiveVars => UNCHANGED Transfer!receiveVars
      /\ UNCHANGED historyVars => UNCHANGED Transfer!historyVars
      /\ UNCHANGED network => UNCHANGED TransferNetwork
      /\ UNCHANGED send_next => UNCHANGED TransferSendNext
      /\ UNCHANGED recv_next => UNCHANGED TransferRecvNext
  BY SameVars, UnchangedMaps
<1>4. \A label : Transfer!At(p, "app", label) <=> At(p, "app", label)
  BY SameState
<1> USE <1>1, <1>2, <1>3, <1>4
<1>5. ASSUME BuildChunk(p) PROVE Transfer!BuildChunk(p)
  <2>1. SameOpening
    BY <1>5 DEF BuildChunk
  <2>2. \A chunk : Transfer!BuildPacket(p, {"DATA"}, chunk) = BuildPacket(p, {"DATA"}, chunk)
    BY SameState
  <2>3. \A n : send_next' = [send_next EXCEPT ![p] = n] =>
           TransferSendNext' = [TransferSendNext EXCEPT ![p] = n]
    BY <2>1, NumbersMap
  <2>4. TransferSendNext[p] = send_next[p]
    BY SameState
  <2> QED BY <1>5, <2>1, <2>2, <2>3, <2>4, SameSpace DEF BuildChunk, Transfer!BuildChunk
<1>6. ASSUME Recv(p) PROVE Transfer!Recv(p)
  BY <1>6, SamePcMaps DEF Recv, Transfer!Recv
<1>7. ASSUME WaitForAcks(p) PROVE Transfer!WaitForAcks(p)
  BY <1>7 DEF WaitForAcks, Transfer!WaitForAcks
<1>8. ASSUME StartFlush(p) PROVE Transfer!StartFlush(p)
  BY <1>8 DEF StartFlush, Transfer!StartFlush
<1>9. ASSUME WaitForAcksReturns(p) PROVE Transfer!WaitForAcksReturns(p)
  BY <1>9, SameWindow DEF WaitForAcksReturns, Transfer!WaitForAcksReturns
<1>10. ASSUME FlushWindow(p, "app") PROVE Transfer!FlushWindow(p, "app")
  BY <1>10, FlushWindowMaps DEF Thread
<1> QED BY <1>5, <1>6, <1>7, <1>8, <1>9, <1>10 DEF App, Transfer!App

\* Time passes there too, also for a side that is still opening.
LEMMA TimerMaps ==
    ASSUME NEW p \in Peer, TimerExpires(p)
    PROVE  Transfer!TimerExpires(p)
<1>1. SameOpening /\ UNCHANGED TransferPc
  BY SamePcMaps DEF TimerExpires
<1> QED
  BY <1>1, SameVars, UnchangedMaps, SameTimer DEF TimerExpires, Transfer!TimerExpires

\* A segment of the transfer is lost there; that of another is nothing.
LEMMA DropMaps ==
    ASSUME DataTypeOK, NEW p \in Peer, NEW pk \in network[p],
           network' = [network EXCEPT ![p] = @ \ {pk}],
           UNCHANGED <<sequenceVars, windowVars, retransmission, receiveVars, pc, packet,
                       current, historyVars>>
    PROVE  Transfer!Lose(p) \/ UNCHANGED Transfer!vars
<1>1. SameOpening /\ UNCHANGED TransferPc
  BY SamePcMaps
<1>2. UNCHANGED Transfer!sequenceVars /\ UNCHANGED Transfer!windowVars
      /\ UNCHANGED Transfer!receiveVars /\ UNCHANGED Transfer!historyVars
  BY <1>1, SameVars
<1>3. TransferNetwork' = [TransferNetwork EXCEPT ![p] = @ \ {pk}]
  BY <1>1, TakeMaps
<1>4. CASE pk \in TransferNetwork[p]
  BY <1>1, <1>2, <1>3, <1>4 DEF Transfer!Lose
<1>5. CASE pk \notin TransferNetwork[p]
  <2>1. TransferNetwork = [q \in Peer |-> TransferNetwork[q]]
    BY DEF TransferNetwork
  <2>2. TransferNetwork[p] \ {pk} = TransferNetwork[p]
    BY <1>5
  <2>3. TransferNetwork' = TransferNetwork
    BY <1>3, <2>1, <2>2
  <2> QED BY <1>1, <1>2, <2>3 DEF Transfer!vars
<1> QED BY <1>4, <1>5

-----------------------------------------------------------------------------
(* What a step of the transfer changes *)

\* A step of one side: of its application or of its receiver.
TransferStep(p) == BuildChunk(p) \/ Recv(p) \/ WaitForAcks(p) \/ App(p) \/ ReceiveLoop(p)

\* GoTo moves one thread and no other.
LEMMA ThreadMoves ==
    ASSUME OpeningPcOK, NEW p \in Peer, NEW t \in Thread, NEW label, GoTo(p, t, label)
    PROVE  /\ pc'[p][t] = label
           /\ \A q \in Peer, u \in Thread : q # p \/ u # t => pc'[q][u] = pc[q][u]
           /\ \A q \in Peer : q # p => pc'[q] = pc[q]
BY DEF OpeningPcOK, GoTo

\* Where a step takes a thread.
LEMMA StepMoves ==
    ASSUME NEW p \in Peer, TransferStep(p)
    PROVE  \/ UNCHANGED pc
           \/ \E label \in AppLabel : GoTo(p, "app", label)
           \/ \E label \in ReceiverLabel : GoTo(p, "receiver", label)
<1> USE DEF AppLabel, ReceiverLabel, FlushLabel
<1>1. ASSUME NEW t \in Thread, FlushWindow(p, t)
      PROVE  \/ \E label \in AppLabel : GoTo(p, "app", label)
             \/ \E label \in ReceiverLabel : GoTo(p, "receiver", label)
  <2>1. t = "app" \/ t = "receiver"
    BY DEF Thread
  <2>2. \E label \in FlushLabel \cup {Flushed(t), Failed(t)} : GoTo(p, t, label)
    BY <1>1
    DEF FlushWindow, Peek, Admit, PopHead, InsertPending, TransmitHead, CheckFirstPending,
        StartTimer
  <2> QED BY <2>1, <2>2 DEF Flushed, Failed
<1>2. ASSUME BuildChunk(p) \/ Recv(p) \/ WaitForAcks(p) \/ StartFlush(p) \/ WaitForAcksReturns(p)
      PROVE  UNCHANGED pc \/ \E label \in AppLabel : GoTo(p, "app", label)
  BY <1>2 DEF BuildChunk, Recv, WaitForAcks, StartFlush, WaitForAcksReturns
<1>3. ASSUME \/ WaitForPacket(p) \/ CheckRetransmission(p) \/ ProcessAck(p) \/ StopTimer(p)
             \/ LogWindow(p) \/ ProcessData(p) \/ FlushOutOfOrder(p) \/ Reply(p)
      PROVE  UNCHANGED pc \/ \E label \in ReceiverLabel : GoTo(p, "receiver", label)
  BY <1>3
  DEF WaitForPacket, CheckRetransmission, Dispatch, ProcessAck, StopTimer, LogWindow,
      ProcessData, FlushOutOfOrder, Reply
<1> QED BY <1>1, <1>2, <1>3 DEF TransferStep, App, ReceiveLoop, Thread

\* A side that runs goes on running, and the other is where it was.
LEMMA RunsStays ==
    ASSUME OpeningPcOK, NEW p \in Peer, Runs(p), TransferStep(p)
    PROVE  Runs(p)' /\ \A q \in Peer : q # p => pc'[q] = pc[q]
<1>1. "app" \in Thread /\ "receiver" \in Thread /\ "app" # "receiver"
  BY DEF Thread
<1>2. CASE UNCHANGED pc
  BY <1>2 DEF Runs
<1>3. ASSUME NEW label \in AppLabel, GoTo(p, "app", label)
      PROVE  Runs(p)' /\ \A q \in Peer : q # p => pc'[q] = pc[q]
  <2>1. pc'[p]["app"] = label /\ pc'[p]["receiver"] = pc[p]["receiver"]
        /\ \A q \in Peer : q # p => pc'[q] = pc[q]
    BY <1>1, <1>3, ThreadMoves
  <2> QED BY <2>1 DEF Runs
<1>4. ASSUME NEW label \in ReceiverLabel, GoTo(p, "receiver", label)
      PROVE  Runs(p)' /\ \A q \in Peer : q # p => pc'[q] = pc[q]
  <2>1. pc'[p]["receiver"] = label /\ pc'[p]["app"] = pc[p]["app"]
        /\ \A q \in Peer : q # p => pc'[q] = pc[q]
    BY <1>1, <1>4, ThreadMoves
  <2> QED BY <2>1 DEF Runs
<1> QED BY <1>2, <1>3, <1>4, StepMoves

\* A side that is opening has no step of the transfer, and a side that runs is not opening.
LEMMA OpeningWaits ==
    ASSUME NEW p \in Peer
    PROVE  /\ \A label \in OpeningLabel : HasReached(p, label) => Opening(p) /\ ~TransferStep(p)
           /\ Runs(p) => ~Opening(p)
<1>1. ASSUME NEW label \in OpeningLabel, HasReached(p, label)
      PROVE  Opening(p) /\ ~TransferStep(p)
  <2>1. pc[p]["app"] = label /\ pc[p]["receiver"] = "unstarted"
    BY <1>1 DEF HasReached, At
  <2>2. \A t \in Thread : pc[p][t] \in OpeningLabel \cup {"unstarted"}
    BY <2>1 DEF Thread
  <2>3. \A t \in Thread : ~FlushWindow(p, t)
    BY <2>2
    DEF FlushWindow, Peek, Admit, PopHead, InsertPending, TransmitHead, CheckFirstPending,
        StartTimer, At, OpeningLabel
  <2>4. /\ ~BuildChunk(p) /\ ~Recv(p) /\ ~WaitForAcks(p) /\ ~StartFlush(p)
        /\ ~WaitForAcksReturns(p)
    BY <2>1 DEF BuildChunk, Recv, WaitForAcks, StartFlush, WaitForAcksReturns, At, OpeningLabel
  <2>5. /\ ~WaitForPacket(p) /\ ~CheckRetransmission(p) /\ ~ProcessAck(p) /\ ~StopTimer(p)
        /\ ~LogWindow(p)
        /\ ~ProcessData(p) /\ ~FlushOutOfOrder(p) /\ ~Reply(p)
    BY <2>1
    DEF WaitForPacket, CheckRetransmission, ProcessAck, StopTimer, LogWindow, ProcessData,
        FlushOutOfOrder, Reply, At
  <2> QED BY <2>1, <2>3, <2>4, <2>5 DEF Opening, TransferStep, App, ReceiveLoop, Thread
<1>2. Runs(p) => ~Opening(p)
  BY DEF Runs, Opening, AppLabel, FlushLabel, OpeningLabel
<1> QED BY <1>1, <1>2

\* What a step puts on its way is data, or the receiver's answer.
LEMMA StepSends ==
    ASSUME DataTypeOK, NEW p \in Peer, WindowIsData(p), TransferStep(p),
           NEW q \in Peer, NEW pk \in network'[q]
    PROVE  \/ pk \in network[q]
           \/ q = Other(p) /\ pk.flags = {"DATA"}
           \/ q = Other(p) /\ pk.flags = {"ACK"} /\ At(p, "receiver", "reply")
<1>1. network \in [Peer -> SUBSET TTPPacket]
  BY DEF DataTypeOK
<1>2. ASSUME NEW new, Transmit(p, new)
      PROVE  pk \in network[q] \/ (q = Other(p) /\ pk = new)
  BY <1>1, <1>2, OtherPeer DEF Transmit
<1>3. ASSUME NEW t \in Thread, TransmitHead(p, t)
      PROVE  pk \in network[q] \/ (q = Other(p) /\ pk.flags = {"DATA"})
  <2>1. packet[p][t].flags = {"DATA"}
    BY <1>3 DEF TransmitHead, WindowIsData, At
  <2> QED BY <1>2, <1>3, <2>1 DEF TransmitHead
<1>4. ASSUME CheckRetransmission(p)
      PROVE  pk \in network[q] \/ (q = Other(p) /\ pk.flags = {"DATA"})
  <2>1. network' = network \/ \E e \in pending[p] : Transmit(p, e.packet)
    BY <1>4 DEF CheckRetransmission
  <2> QED BY <1>2, <2>1 DEF WindowIsData
<1>5. ASSUME Reply(p)
      PROVE  \/ pk \in network[q]
             \/ q = Other(p) /\ pk.flags = {"ACK"} /\ At(p, "receiver", "reply")
  <2>1. network' = network \/ Transmit(p, BuildPacket(p, {"ACK"}, NoPayload))
    BY <1>5 DEF Reply
  <2>2. BuildPacket(p, {"ACK"}, NoPayload).flags = {"ACK"} /\ At(p, "receiver", "reply")
    BY <1>5 DEF BuildPacket, Reply
  <2> QED BY <1>2, <2>1, <2>2
<1>6. ASSUME WaitForPacket(p)
      PROVE  pk \in network[q]
  BY <1>1, <1>6 DEF WaitForPacket
<1>7. \/ \E t \in Thread : TransmitHead(p, t)
      \/ CheckRetransmission(p) \/ Reply(p) \/ WaitForPacket(p)
      \/ UNCHANGED network
  BY DEF TransferStep, App, ReceiveLoop, FlushWindow, Thread, BuildChunk, Recv, WaitForAcks,
         StartFlush, WaitForAcksReturns, Peek, Admit, PopHead, InsertPending,
         CheckFirstPending, StartTimer, ProcessAck, StopTimer, LogWindow, ProcessData,
         FlushOutOfOrder
<1> QED BY <1>3, <1>4, <1>5, <1>6, <1>7

\* A receiver with nothing to read waits, whatever its application does.
LEMMA ReceiverWaits ==
    ASSUME OpeningPcOK, NEW p \in Peer, At(p, "receiver", "wait"), network[p] = {},
           TransferStep(p)
    PROVE  At(p, "receiver", "wait")'
<1>1. "app" \in Thread /\ "receiver" \in Thread /\ "app" # "receiver"
  BY DEF Thread
<1>2. ~FlushWindow(p, "receiver")
  BY DEF FlushWindow, Peek, Admit, PopHead, InsertPending, TransmitHead, CheckFirstPending,
         StartTimer, At
<1>3. ~ReceiveLoop(p)
  BY <1>2
  DEF ReceiveLoop, WaitForPacket, CheckRetransmission, ProcessAck, StopTimer, LogWindow,
      ProcessData, FlushOutOfOrder, Reply, At
<1>4. UNCHANGED pc \/ \E label : GoTo(p, "app", label)
  BY <1>3
  DEF TransferStep, App, BuildChunk, Recv, WaitForAcks, StartFlush, WaitForAcksReturns,
      FlushWindow, Peek, Admit, PopHead, InsertPending, TransmitHead, CheckFirstPending, StartTimer
<1>5. pc'[p]["receiver"] = pc[p]["receiver"]
  BY <1>1, <1>4, ThreadMoves
<1> QED BY <1>5 DEF At

\* A step leaves the numbers of the other side alone.
LEMMA StepNumbers ==
    ASSUME DataTypeOK, NEW p \in Peer, TransferStep(p), NEW q \in Peer, q # p
    PROVE  send_next'[q] = send_next[q] /\ recv_next'[q] = recv_next[q]
<1>1. send_next' = send_next \/ \E n : send_next' = [send_next EXCEPT ![p] = n]
  BY DEF TransferStep, App, ReceiveLoop, FlushWindow, Thread, BuildChunk, Recv, WaitForAcks,
         StartFlush, WaitForAcksReturns, Peek, Admit, PopHead, InsertPending, TransmitHead,
         CheckFirstPending, StartTimer, WaitForPacket, CheckRetransmission, ProcessAck,
         StopTimer, LogWindow, ProcessData, FlushOutOfOrder, Reply, sequenceVars
<1>2. recv_next' = recv_next \/ \E n : recv_next' = [recv_next EXCEPT ![p] = n]
  BY DEF TransferStep, App, ReceiveLoop, FlushWindow, Thread, BuildChunk, Recv, WaitForAcks,
         StartFlush, WaitForAcksReturns, Peek, Admit, PopHead, InsertPending, TransmitHead,
         CheckFirstPending, StartTimer, WaitForPacket, CheckRetransmission, ProcessAck,
         StopTimer, LogWindow, ProcessData, FlushOutOfOrder, Reply, Accept, sequenceVars
<1> QED BY <1>1, <1>2 DEF DataTypeOK

\* What p keeps and holds stays data while its threads take nothing new.
LEMMA WindowKept ==
    ASSUME NEW p \in Peer, WindowIsData(p),
           queue'[p] = queue[p], pending'[p] \subseteq pending[p],
           \A t \in Thread : pc'[p][t] \in {"insert", "transmit"} =>
              pc[p][t] \in {"insert", "transmit"} /\ packet'[p][t] = packet[p][t]
    PROVE  WindowIsData(p)'
BY DEF WindowIsData

\* _flush_window takes data from the queue to pending.
LEMMA FlushKeepsData ==
    ASSUME DataTypeOK, OpeningPcOK, NEW p \in Peer, WindowIsData(p), NEW t \in Thread,
           FlushWindow(p, t)
    PROVE  WindowIsData(p)'
<1>1. \A label : GoTo(p, t, label) =>
         pc'[p][t] = label /\ \A u \in Thread : u # t => pc'[p][u] = pc[p][u]
  BY ThreadMoves
<1>2. packet \in [Peer -> [Thread -> TTPPacket]]
  BY DEF DataTypeOK
<1>3. queue[p] \in Seq(TTPPacket)
  BY DEF DataTypeOK
<1>4. CASE Peek(p, t) \/ Admit(p, t) \/ TransmitHead(p, t)
  <2>1. pc'[p][t] \notin {"insert", "transmit"}
        /\ \A u \in Thread : u # t => pc'[p][u] = pc[p][u]
    BY <1>1, <1>4 DEF Peek, Admit, TransmitHead, Flushed, Failed
  <2>2. \A u \in Thread : u # t => packet'[p][u] = packet[p][u]
    BY <1>2, <1>4 DEF Peek, Admit, TransmitHead
  <2>3. queue' = queue /\ pending' = pending
    BY <1>4 DEF Peek, Admit, TransmitHead, windowVars
  <2> QED BY <2>1, <2>2, <2>3, WindowKept
<1>5. CASE PopHead(p, t)
  <2>1. CASE queue[p] = << >>
    <3>1. pc'[p][t] \notin {"insert", "transmit"}
          /\ \A u \in Thread : u # t => pc'[p][u] = pc[p][u]
      BY <1>1, <1>5, <2>1 DEF PopHead, Failed
    <3>2. queue' = queue /\ pending' = pending /\ packet' = packet
      BY <1>5, <2>1 DEF PopHead
    <3> QED BY <3>1, <3>2, WindowKept
  <2>2. CASE queue[p] # << >>
    <3>1. /\ packet'[p][t] = Head(queue[p])
          /\ \A u \in Thread : u # t => packet'[p][u] = packet[p][u]
      BY <1>2, <1>5, <2>2 DEF PopHead
    <3>2. queue'[p] = Tail(queue[p])
      BY <1>5, <2>2 DEF PopHead, DataTypeOK
    <3>3. pending' = pending /\ \A u \in Thread : u # t => pc'[p][u] = pc[p][u]
      BY <1>1, <1>5, <2>2 DEF PopHead
    <3>4. Head(queue[p]) = queue[p][1] /\ 1 \in 1..Len(queue[p])
          /\ \A k \in 1..Len(Tail(queue[p])) :
               Tail(queue[p])[k] = queue[p][k + 1] /\ k + 1 \in 1..Len(queue[p])
      BY <1>3, <2>2
    <3>5. packet'[p][t].flags = {"DATA"}
      BY <3>1, <3>4 DEF WindowIsData
    <3>6. \A k \in 1..Len(queue'[p]) : queue'[p][k].flags = {"DATA"}
      BY <3>2, <3>4 DEF WindowIsData
    <3>7. \A u \in Thread : pc'[p][u] \in {"insert", "transmit"} => packet'[p][u].flags = {"DATA"}
      BY <3>1, <3>3, <3>5 DEF WindowIsData
    <3>8. \A e \in pending'[p] : e.packet.flags = {"DATA"}
      BY <3>3 DEF WindowIsData
    <3> QED BY <3>6, <3>7, <3>8 DEF WindowIsData
  <2> QED BY <2>1, <2>2
<1>6. CASE InsertPending(p, t)
  <2>1. packet[p][t].flags = {"DATA"}
    BY <1>6 DEF InsertPending, WindowIsData, At
  <2>2. \A e \in pending'[p] : e \in pending[p] \/ e.packet = packet[p][t]
    BY <1>6 DEF InsertPending, MarkPending, DataTypeOK
  <2>3. \A e \in pending'[p] : e.packet.flags = {"DATA"}
    BY <2>1, <2>2 DEF WindowIsData
  <2>4. queue' = queue /\ packet' = packet
        /\ \A u \in Thread : u # t => pc'[p][u] = pc[p][u]
    BY <1>1, <1>6 DEF InsertPending
  <2>5. \A u \in Thread : pc'[p][u] \in {"insert", "transmit"} => packet'[p][u].flags = {"DATA"}
    BY <2>1, <2>4 DEF WindowIsData
  <2> QED BY <2>3, <2>4, <2>5 DEF WindowIsData
<1>7. CASE CheckFirstPending(p, t) \/ StartTimer(p, t)
  <2>1. pc'[p][t] \notin {"insert", "transmit"}
        /\ \A u \in Thread : u # t => pc'[p][u] = pc[p][u]
    BY <1>1, <1>7 DEF CheckFirstPending, StartTimer, Failed
  <2>2. queue' = queue /\ pending' = pending /\ packet' = packet
    BY <1>7 DEF CheckFirstPending, StartTimer, windowVars
  <2> QED BY <2>1, <2>2, WindowKept
<1> QED BY <1>4, <1>5, <1>6, <1>7 DEF FlushWindow

\* The other statements of a side leave data in its window.
LEMMA StepKeepsData ==
    ASSUME DataTypeOK, OpeningPcOK, NEW p \in Peer, WindowIsData(p), TransferStep(p)
    PROVE  WindowIsData(p)'
<1>1. ASSUME BuildChunk(p) PROVE WindowIsData(p)'
  <2>1. PICK pk \in TTPPacket : /\ pk.flags = {"DATA"}
                               /\ queue' = [queue EXCEPT ![p] = Append(@, pk)]
    BY <1>1, BuildChunkEffect
  <2>2. queue[p] \in Seq(TTPPacket) /\ queue'[p] = Append(queue[p], pk)
    BY <2>1 DEF DataTypeOK
  <2>3. \A k \in 1..Len(queue'[p]) :
           queue'[p][k] = pk \/ (k \in 1..Len(queue[p]) /\ queue'[p][k] = queue[p][k])
    BY <2>2
  <2>4. \A k \in 1..Len(queue'[p]) : queue'[p][k].flags = {"DATA"}
    BY <2>1, <2>3 DEF WindowIsData
  <2>5. pending' = pending /\ packet' = packet
    BY <1>1 DEF BuildChunk
  <2>6. \A t \in Thread : pc'[p][t] \in {"insert", "transmit"} => pc'[p][t] = pc[p][t]
    <3>1. "app" \in Thread /\ GoTo(p, "app", "building")
      BY <1>1 DEF BuildChunk, Thread
    <3> QED BY <3>1, ThreadMoves
  <2>7. \A t \in Thread : pc'[p][t] \in {"insert", "transmit"} => packet'[p][t].flags = {"DATA"}
    BY <2>5, <2>6 DEF WindowIsData
  <2> QED BY <2>4, <2>5, <2>7 DEF WindowIsData
<1>2. ASSUME \/ Recv(p) \/ WaitForAcks(p) \/ StartFlush(p) \/ WaitForAcksReturns(p)
             \/ WaitForPacket(p) \/ CheckRetransmission(p) \/ ProcessAck(p) \/ StopTimer(p)
             \/ LogWindow(p) \/ ProcessData(p) \/ FlushOutOfOrder(p) \/ Reply(p)
      PROVE  WindowIsData(p)'
  <2>1. \/ UNCHANGED pc
        \/ \E t \in Thread : \E label : label \notin {"insert", "transmit"} /\ GoTo(p, t, label)
    BY <1>2
    DEF Recv, WaitForAcks, StartFlush, WaitForAcksReturns, WaitForPacket, CheckRetransmission,
        Dispatch, ProcessAck, StopTimer, LogWindow, ProcessData, FlushOutOfOrder, Reply, Thread
  <2>2. \A t \in Thread : pc'[p][t] \in {"insert", "transmit"} => pc'[p][t] = pc[p][t]
    BY <2>1, ThreadMoves
  <2>3. queue' = queue /\ packet' = packet
    BY <1>2
    DEF Recv, WaitForAcks, StartFlush, WaitForAcksReturns, WaitForPacket, CheckRetransmission,
        ProcessAck, StopTimer, LogWindow, ProcessData, FlushOutOfOrder, Reply, windowVars
  <2>4. pending' = pending \/ pending' = [pending EXCEPT ![p] = Unacknowledged(@, current[p].ack)]
    BY <1>2
    DEF Recv, WaitForAcks, StartFlush, WaitForAcksReturns, WaitForPacket, CheckRetransmission,
        ProcessAck, StopTimer, LogWindow, ProcessData, FlushOutOfOrder, Reply, windowVars
  <2>5. pending'[p] \subseteq pending[p]
    BY <2>4 DEF Unacknowledged, DataTypeOK
  <2> QED BY <2>2, <2>3, <2>5, WindowKept
<1> QED BY <1>1, <1>2, FlushKeepsData DEF TransferStep, App, ReceiveLoop, Thread

\* A step leaves the window of the other side alone.
LEMMA StepOfOther ==
    ASSUME DataTypeOK, OpeningPcOK, NEW p \in Peer, NEW q \in Peer, q # p, WindowIsData(q),
           TransferStep(p)
    PROVE  WindowIsData(q)'
<1>1. queue' = queue \/ \E x : queue' = [queue EXCEPT ![p] = x]
  BY DEF TransferStep, App, ReceiveLoop, FlushWindow, Thread, BuildChunk, Recv, WaitForAcks,
         StartFlush, WaitForAcksReturns, Peek, Admit, PopHead, InsertPending, TransmitHead,
         CheckFirstPending, StartTimer, WaitForPacket, CheckRetransmission, ProcessAck,
         StopTimer, LogWindow, ProcessData, FlushOutOfOrder, Reply, windowVars
<1>2. pending' = pending \/ \E x : pending' = [pending EXCEPT ![p] = x]
  BY DEF TransferStep, App, ReceiveLoop, FlushWindow, Thread, BuildChunk, Recv, WaitForAcks,
         StartFlush, WaitForAcksReturns, Peek, Admit, PopHead, InsertPending, TransmitHead,
         CheckFirstPending, StartTimer, WaitForPacket, CheckRetransmission, ProcessAck,
         StopTimer, LogWindow, ProcessData, FlushOutOfOrder, Reply, windowVars
<1>3. packet' = packet \/ \E t, x : packet' = [packet EXCEPT ![p][t] = x]
  BY DEF TransferStep, App, ReceiveLoop, FlushWindow, Thread, BuildChunk, Recv, WaitForAcks,
         StartFlush, WaitForAcksReturns, Peek, Admit, PopHead, InsertPending, TransmitHead,
         CheckFirstPending, StartTimer, WaitForPacket, CheckRetransmission, ProcessAck,
         StopTimer, LogWindow, ProcessData, FlushOutOfOrder, Reply
<1>4. pc'[q] = pc[q]
  <2>1. "app" \in Thread /\ "receiver" \in Thread
    BY DEF Thread
  <2> QED BY <2>1, StepMoves, ThreadMoves
<1>5. queue'[q] = queue[q] /\ pending'[q] = pending[q] /\ packet'[q] = packet[q]
  BY <1>1, <1>2, <1>3 DEF DataTypeOK
<1> QED BY <1>4, <1>5, WindowKept

-----------------------------------------------------------------------------
(* The handshake *)

\* SYN and SYN-ACK take one number each.
LEMMA SynSpace ==
    /\ SequenceSpace(Syn) = 1 /\ End(Syn) = ISN[Client] + 1
    /\ SequenceSpace(SynAck) = 1 /\ End(SynAck) = ISN[Server] + 1
<1>1. Cardinality({"SYN"}) = 1
  BY FS_Singleton
<1>2. Syn.flags \cap {"SYN", "FIN"} = {"SYN"} /\ SynAck.flags \cap {"SYN", "FIN"} = {"SYN"}
  BY DEF Syn, SynAck
<1>3. PayloadLength(Syn) = 0 /\ PayloadLength(SynAck) = 0
  BY DEF Syn, SynAck, PayloadLength
<1>4. SequenceSpace(Syn) = 1 /\ SequenceSpace(SynAck) = 1
  BY <1>1, <1>2, <1>3 DEF SequenceSpace
<1>5. Syn.seq = ISN[Client] /\ SynAck.seq = ISN[Server]
  BY DEF Syn, SynAck
<1> QED BY <1>4, <1>5 DEF End

\* The two sides, and their two threads, are all there are.
LEMMA TwoPeers ==
    /\ Client \in Peer /\ Server \in Peer /\ Client # Server
    /\ Other(Client) = Server /\ Other(Server) = Client
    /\ \A p \in Peer : p = Client \/ p = Server
    /\ "app" \in Thread /\ "receiver" \in Thread /\ "app" # "receiver"
BY TransferAssumption DEF Peer, Other, Thread

\* A label of the handshake tells how far both sides are.
LEMMA PhaseOfLabel ==
    ASSUME OpeningPhase
    PROVE  /\ At(Client, "app", "connect") => NothingSent
           /\ At(Server, "app", "accept") => NothingSent \/ SynSent
           /\ At(Client, "app", "syn_ack") => SynSent \/ SynAnswered
           /\ At(Server, "app", "last_ack") => SynAnswered \/ ClientEstablished
BY DEF OpeningPhase, NothingSent, SynSent, SynAnswered, ClientEstablished, BothEstablished,
       HasAnswered, HasReached, Runs, At, AppLabel, FlushLabel

\* A step of the handshake after which every side has the same part in the transfer as
\* before is no step there.
LEMMA HandshakeStutters ==
    ASSUME OpeningUnchanged,
           \A p \in Peer : /\ TransferSendNext'[p] = TransferSendNext[p]
                          /\ TransferRecvNext'[p] = TransferRecvNext[p]
                          /\ TransferNetwork'[p] = TransferNetwork[p]
                          /\ TransferPc'[p] = TransferPc[p]
    PROVE  UNCHANGED Transfer!vars
<1>1. TransferSendNext' = TransferSendNext
  BY DEF TransferSendNext
<1>2. TransferRecvNext' = TransferRecvNext
  BY DEF TransferRecvNext
<1>3. TransferNetwork' = TransferNetwork
  BY DEF TransferNetwork
<1>4. TransferPc' = TransferPc
  BY DEF TransferPc
<1> QED
  BY <1>1, <1>2, <1>3, <1>4
  DEF OpeningUnchanged, windowVars, receiveVars, historyVars, Transfer!vars,
      Transfer!sequenceVars, Transfer!windowVars, Transfer!receiveVars, Transfer!historyVars

\* Sending the SYN.
LEMMA ConnectStep ==
    ASSUME OpeningInv, Connect
    PROVE  SynSent' /\ UNCHANGED Transfer!vars
<1>1. NothingSent
  BY PhaseOfLabel DEF OpeningInv, Connect
<1>2. DataTypeOK /\ OpeningPcOK
  BY DEF OpeningInv
<1>3. BuildPacket(Client, {"SYN"}, NoPayload) = Syn
  BY <1>1 DEF NothingSent, BuildPacket, Syn
<1>4. send_next' = [send_next EXCEPT ![Client] = send_next[Client] + 1]
      /\ Transmit(Client, Syn) /\ GoTo(Client, "app", "syn_ack") /\ recv_next' = recv_next
  BY <1>3, SynSpace DEF Connect
<1>5. send_next'[Client] = ISN[Client] + 1 /\ send_next'[Server] = ISN[Server]
  BY <1>1, <1>2, <1>4, TwoPeers DEF NothingSent, DataTypeOK
<1>6. network'[Server] = {Syn} /\ network'[Client] = {}
  BY <1>1, <1>2, <1>4, TwoPeers DEF NothingSent, DataTypeOK, Transmit
<1>7. pc'[Client]["app"] = "syn_ack" /\ pc'[Client]["receiver"] = "unstarted"
      /\ pc'[Server]["app"] = "accept" /\ pc'[Server]["receiver"] = "unstarted"
  BY <1>1, <1>2, <1>4, TwoPeers, ThreadMoves DEF NothingSent, HasReached, At
<1>8. SynSent'
  BY <1>5, <1>6, <1>7 DEF SynSent, HasReached, HasNumberedSyn, At
<1>9. \A p \in Peer : Opening(p) /\ Opening(p)'
  BY <1>1, <1>7, TwoPeers DEF NothingSent, HasReached, At, Opening, OpeningLabel
<1>10. "SYN" \in Syn.flags
  BY DEF Syn
<1>11. UNCHANGED Transfer!vars
  <2>1. OpeningUnchanged
    BY DEF Connect
  <2>2. \A p \in Peer : TransferNetwork[p] = {} /\ TransferNetwork'[p] = {}
    BY <1>1, <1>6, <1>9, <1>10, TwoPeers DEF NothingSent, TransferNetwork, IsOfTransfer
  <2>3. \A p \in Peer : TransferSendNext'[p] = TransferSendNext[p]
                        /\ TransferRecvNext'[p] = TransferRecvNext[p]
                        /\ TransferPc'[p] = TransferPc[p]
    BY <1>9 DEF TransferSendNext, TransferRecvNext, TransferPc
  <2> QED BY <2>1, <2>2, <2>3, HandshakeStutters
<1> QED BY <1>8, <1>11

\* Answering the SYN.
LEMMA TakeSynStep ==
    ASSUME OpeningInv, TakeSyn
    PROVE  SynAnswered' /\ UNCHANGED Transfer!vars
<1>1. DataTypeOK /\ OpeningPcOK
  BY DEF OpeningInv
<1>2. PICK pk \in network[Server] :
         /\ recv_next' = [recv_next EXCEPT ![Server] = End(pk)]
         /\ LET syn_ack == [BuildPacket(Server, {"SYN", "ACK"}, NoPayload) EXCEPT !.ack = End(pk)]
            IN  /\ send_next' = [send_next EXCEPT ![Server] = @ + SequenceSpace(syn_ack)]
                /\ network' = [network EXCEPT ![Server] = @ \ {pk}, ![Client] = @ \cup {syn_ack}]
  BY DEF TakeSyn
<1>3. SynSent /\ pk = Syn
  BY <1>2, PhaseOfLabel DEF OpeningInv, TakeSyn, NothingSent, SynSent
<1>4. [BuildPacket(Server, {"SYN", "ACK"}, NoPayload) EXCEPT !.ack = End(pk)] = SynAck
  BY <1>3, SynSpace DEF BuildPacket, SynAck, SynSent
<1>5. send_next'[Server] = ISN[Server] + 1 /\ send_next'[Client] = ISN[Client] + 1
  BY <1>1, <1>2, <1>3, <1>4, SynSpace, TwoPeers DEF SynSent, HasNumberedSyn, DataTypeOK
<1>6. recv_next'[Server] = ISN[Client] + 1
  BY <1>1, <1>2, <1>3, SynSpace, TwoPeers DEF DataTypeOK
<1>7. network'[Server] = {} /\ network'[Client] = {SynAck}
  BY <1>1, <1>2, <1>3, <1>4, TwoPeers DEF SynSent, DataTypeOK
<1>8. pc'[Client]["app"] = "syn_ack" /\ pc'[Client]["receiver"] = "unstarted"
      /\ pc'[Server]["app"] = "last_ack" /\ pc'[Server]["receiver"] = "unstarted"
  <2>1. GoTo(Server, "app", "last_ack")
    BY DEF TakeSyn
  <2> QED BY <1>1, <1>3, <2>1, TwoPeers, ThreadMoves DEF SynSent, HasReached, At
<1>9. SynAnswered'
  BY <1>5, <1>6, <1>7, <1>8 DEF SynAnswered, HasAnswered, HasReached, HasNumberedSyn, At
<1>10. \A p \in Peer : Opening(p) /\ Opening(p)'
  BY <1>3, <1>8, TwoPeers DEF SynSent, HasReached, At, Opening, OpeningLabel
<1>11. "SYN" \in Syn.flags /\ "SYN" \in SynAck.flags
  BY DEF Syn, SynAck
<1>12. UNCHANGED Transfer!vars
  <2>1. OpeningUnchanged
    BY DEF TakeSyn
  <2>2. \A p \in Peer : TransferNetwork[p] = {} /\ TransferNetwork'[p] = {}
    BY <1>3, <1>7, <1>10, <1>11, TwoPeers DEF SynSent, TransferNetwork, IsOfTransfer
  <2>3. \A p \in Peer : TransferSendNext'[p] = TransferSendNext[p]
                        /\ TransferRecvNext'[p] = TransferRecvNext[p]
                        /\ TransferPc'[p] = TransferPc[p]
    BY <1>10 DEF TransferSendNext, TransferRecvNext, TransferPc
  <2> QED BY <2>1, <2>2, <2>3, HandshakeStutters
<1> QED BY <1>9, <1>12

\* A side that is established has both threads running, and the other is where it was.
LEMMA EstablishedRuns ==
    ASSUME OpeningPcOK, NEW p \in Peer, Established(p)
    PROVE  /\ pc'[p] = [t \in Thread |-> IF t = "app" THEN "idle" ELSE "wait"]
           /\ \A q \in Peer : q # p => pc'[q] = pc[q]
           /\ Runs(p)' /\ At(p, "receiver", "wait")'
<1>1. /\ pc'[p] = [t \in Thread |-> IF t = "app" THEN "idle" ELSE "wait"]
      /\ \A q \in Peer : q # p => pc'[q] = pc[q]
  BY DEF OpeningPcOK, Established
<1>2. pc'[p]["app"] = "idle" /\ pc'[p]["receiver"] = "wait"
  BY <1>1, TwoPeers
<1> QED BY <1>1, <1>2 DEF Runs, At, AppLabel, ReceiverLabel

\* Answering the SYN-ACK, which acknowledges the SYN: connect() returns.
LEMMA TakeSynAckStep ==
    ASSUME OpeningInv, TakeSynAck
    PROVE  ClientEstablished' /\ UNCHANGED Transfer!vars
<1>1. DataTypeOK /\ OpeningPcOK
  BY DEF OpeningInv
<1>2. PICK pk \in network[Client] :
         LET ack == [BuildPacket(Client, {"ACK"}, NoPayload) EXCEPT !.ack = End(pk)]
         IN  IF pk.ack = send_next[Client]
             THEN /\ recv_next' = [recv_next EXCEPT ![Client] = End(pk)]
                  /\ network' = [network EXCEPT ![Client] = @ \ {pk}, ![Server] = @ \cup {ack}]
                  /\ Established(Client)
             ELSE /\ network' = [network EXCEPT ![Client] = @ \ {pk}]
                  /\ GoTo(Client, "app", "failed")
                  /\ UNCHANGED recv_next
  BY DEF TakeSynAck
<1>3. SynAnswered /\ pk = SynAck
  BY <1>2, PhaseOfLabel DEF OpeningInv, TakeSynAck, SynSent, SynAnswered
<1>4. pk.ack = send_next[Client]
  BY <1>3 DEF SynAnswered, HasNumberedSyn, SynAck
<1>5. [BuildPacket(Client, {"ACK"}, NoPayload) EXCEPT !.ack = End(pk)] = LastAck
  BY <1>3, SynSpace DEF BuildPacket, LastAck, SynAnswered, HasNumberedSyn
<1>6. send_next' = send_next /\ recv_next'[Client] = ISN[Server] + 1
      /\ recv_next'[Server] = recv_next[Server]
  BY <1>1, <1>2, <1>3, <1>4, SynSpace, TwoPeers DEF TakeSynAck, DataTypeOK
<1>7. network'[Server] = {LastAck} /\ network'[Client] = {}
  <2>1. network' =
          [network EXCEPT ![Client] = network[Client] \ {pk}, ![Server] = network[Server] \cup {LastAck}]
    BY <1>2, <1>4, <1>5
  <2>2. network[Client] \ {pk} = {} /\ network[Server] = {}
    BY <1>3 DEF SynAnswered
  <2>3. network \in [Peer -> SUBSET TTPPacket]
    BY <1>1 DEF DataTypeOK
  <2> QED BY <2>1, <2>2, <2>3, TwoPeers
<1>8. /\ pc'[Client] = [t \in Thread |-> IF t = "app" THEN "idle" ELSE "wait"]
      /\ pc'[Server] = pc[Server]
      /\ Runs(Client)' /\ At(Client, "receiver", "wait")'
  BY <1>1, <1>2, <1>4, TwoPeers, EstablishedRuns
<1>9. HasAnswered'
  BY <1>3, <1>6, <1>8 DEF SynAnswered, HasAnswered, HasReached, HasNumberedSyn, At
<1>10. ClientEstablished'
  BY <1>7, <1>8, <1>9 DEF ClientEstablished
<1>11. Opening(Client) /\ ~Opening(Client)' /\ Opening(Server) /\ Opening(Server)'
  <2>1. Opening(Client) /\ Opening(Server)
    BY <1>3 DEF SynAnswered, HasAnswered, HasReached, At, Opening, OpeningLabel
  <2>2. pc'[Client]["app"] = "idle"
    BY <1>8, TwoPeers
  <2> QED BY <1>8, <2>1, <2>2 DEF Opening, OpeningLabel
<1>12. "SYN" \in SynAck.flags /\ "ACK" \in LastAck.flags
  BY DEF SynAck, LastAck
<1>13. UNCHANGED Transfer!vars
  <2>1. OpeningUnchanged
    BY DEF TakeSynAck
  <2>2. /\ TransferNetwork[Client] = {} /\ TransferNetwork'[Client] = {}
        /\ TransferNetwork[Server] = {} /\ TransferNetwork'[Server] = {}
    BY <1>3, <1>7, <1>11, <1>12, TwoPeers DEF SynAnswered, TransferNetwork, IsOfTransfer
  <2>3. /\ TransferSendNext'[Client] = TransferSendNext[Client]
        /\ TransferRecvNext'[Client] = TransferRecvNext[Client]
        /\ TransferPc'[Client] = TransferPc[Client]
    BY <1>3, <1>6, <1>8, <1>11, TwoPeers
    DEF TransferSendNext, TransferRecvNext, TransferPc, SynAnswered, HasNumberedSyn
  <2>4. /\ TransferSendNext'[Server] = TransferSendNext[Server]
        /\ TransferRecvNext'[Server] = TransferRecvNext[Server]
        /\ TransferPc'[Server] = TransferPc[Server]
    BY <1>11, TwoPeers DEF TransferSendNext, TransferRecvNext, TransferPc
  <2> QED BY <2>1, <2>2, <2>3, <2>4, TwoPeers, HandshakeStutters
<1> QED BY <1>10, <1>13

\* Taking the last ACK, which acknowledges the SYN-ACK: accept() returns.
LEMMA TakeLastAckStep ==
    ASSUME OpeningInv, TakeLastAck
    PROVE  BothEstablished' /\ UNCHANGED Transfer!vars
<1>1. DataTypeOK /\ OpeningPcOK
  BY DEF OpeningInv
<1>2. PICK pk \in network[Server] :
         /\ "ACK" \in pk.flags
         /\ network' = [network EXCEPT ![Server] = @ \ {pk}]
         /\ IF pk.ack = send_next[Server] THEN Established(Server)
                                          ELSE GoTo(Server, "app", "failed")
  BY DEF TakeLastAck
<1>3. ClientEstablished /\ pk = LastAck
  <2>1. ClientEstablished
    BY <1>2, PhaseOfLabel DEF OpeningInv, TakeLastAck, SynAnswered
  <2> QED BY <1>2, <2>1 DEF ClientEstablished
<1>4. Established(Server)
  BY <1>2, <1>3 DEF ClientEstablished, HasAnswered, HasNumberedSyn, LastAck
<1>5. send_next' = send_next /\ recv_next' = recv_next
  BY DEF TakeLastAck
<1>6. network'[Server] = network[Server] \ {LastAck} /\ network'[Client] = network[Client]
  BY <1>1, <1>2, <1>3, TwoPeers DEF DataTypeOK
<1>7. /\ pc'[Server] = [t \in Thread |-> IF t = "app" THEN "idle" ELSE "wait"]
      /\ pc'[Client] = pc[Client]
      /\ Runs(Server)'
  BY <1>1, <1>4, TwoPeers, EstablishedRuns
<1>8. Runs(Client) /\ Runs(Client)'
  BY <1>3, <1>7 DEF ClientEstablished, Runs
<1>9. \A x \in network'[Server] : x.flags = {"DATA"} /\ x \in network[Server]
  BY <1>3, <1>6 DEF ClientEstablished
<1>10. network[Client] = {} /\ network'[Client] = {}
  BY <1>3, <1>6 DEF ClientEstablished
<1>11. BothEstablished'
  BY <1>7, <1>8, <1>9, <1>10, TwoPeers DEF BothEstablished
<1>12. ~Opening(Client) /\ ~Opening(Client)' /\ Opening(Server) /\ ~Opening(Server)'
  <2>1. Opening(Server)
    BY <1>3 DEF ClientEstablished, HasAnswered, HasReached, At, Opening, OpeningLabel
  <2> QED
    BY <1>7, <1>8, <2>1 DEF Runs, Opening, OpeningLabel, AppLabel, FlushLabel
<1>13. UNCHANGED Transfer!vars
  <2>1. OpeningUnchanged
    BY DEF TakeLastAck
  <2>2. TransferNetwork[Client] = {} /\ TransferNetwork'[Client] = {}
    BY <1>10, TwoPeers DEF TransferNetwork
  <2>3. TransferNetwork[Server] = {x \in network[Server] : x.flags = {"DATA"}}
    <3>1. \A x \in network[Server] : IsOfTransfer(Server, x) <=> x.flags = {"DATA"}
      BY <1>3, <1>12 DEF ClientEstablished, IsOfTransfer, LastAck
    <3> QED BY <3>1, TwoPeers DEF TransferNetwork
  <2>4. TransferNetwork'[Server] = network'[Server]
    BY <1>9, <1>12, TwoPeers DEF TransferNetwork, IsOfTransfer
  <2>5. network'[Server] = {x \in network[Server] : x.flags = {"DATA"}}
    BY <1>6, <1>9 DEF LastAck
  <2>6. /\ TransferSendNext'[Server] = TransferSendNext[Server]
        /\ TransferRecvNext'[Server] = TransferRecvNext[Server]
        /\ TransferPc'[Server] = TransferPc[Server]
    BY <1>3, <1>5, <1>7, <1>12, TwoPeers
    DEF TransferSendNext, TransferRecvNext, TransferPc, ClientEstablished, HasAnswered,
        HasNumberedSyn
  <2>7. /\ TransferSendNext'[Client] = TransferSendNext[Client]
        /\ TransferRecvNext'[Client] = TransferRecvNext[Client]
        /\ TransferPc'[Client] = TransferPc[Client]
    BY <1>5, <1>7, <1>12, TwoPeers DEF TransferSendNext, TransferRecvNext, TransferPc
  <2> QED BY <2>1, <2>2, <2>3, <2>4, <2>5, <2>6, <2>7, TwoPeers, HandshakeStutters
<1> QED BY <1>11, <1>13

\* What overtakes the last ACK is dropped, as if it were lost.
LEMMA DropOvertakingStep ==
    ASSUME OpeningInv, DropOvertaking
    PROVE  /\ OpeningPhase'
           /\ Transfer!Lose(Server) \/ UNCHANGED Transfer!vars
<1>1. DataTypeOK /\ OpeningPcOK
  BY DEF OpeningInv
<1>2. PICK pk \in network[Server] : network' = [network EXCEPT ![Server] = @ \ {pk}]
  BY DEF DropOvertaking
<1>3. UNCHANGED <<sequenceVars, windowVars, retransmission, receiveVars, pc, packet, current,
                 historyVars>>
  BY DEF DropOvertaking, OpeningUnchanged, sequenceVars
<1>4. Transfer!Lose(Server) \/ UNCHANGED Transfer!vars
  BY <1>1, <1>2, <1>3, TwoPeers, DropMaps
<1>5. ClientEstablished
  BY <1>2, PhaseOfLabel DEF OpeningInv, DropOvertaking, SynAnswered
<1>6. network'[Client] = network[Client] /\ network'[Server] \subseteq network[Server]
  BY <1>1, <1>2, TwoPeers DEF DataTypeOK
<1>7. pc' = pc /\ send_next' = send_next /\ recv_next' = recv_next
  BY <1>3 DEF sequenceVars
<1>8. ClientEstablished'
  BY <1>5, <1>6, <1>7
  DEF ClientEstablished, Runs, HasAnswered, HasReached, HasNumberedSyn, At
<1> QED BY <1>4, <1>8 DEF OpeningPhase

-----------------------------------------------------------------------------
(* The transfer, in every phase *)

\* Time and losses change no phase.
LEMMA EnvironmentStep ==
    ASSUME OpeningInv, NEW p \in Peer, TimerExpires(p) \/ Lose(p)
    PROVE  /\ OpeningPhase'
           /\ Transfer!TimerExpires(p) \/ Transfer!Lose(p) \/ UNCHANGED Transfer!vars
<1>1. DataTypeOK /\ OpeningPcOK
  BY DEF OpeningInv
<1>2. pc' = pc /\ send_next' = send_next /\ recv_next' = recv_next
  BY DEF TimerExpires, Lose, sequenceVars
<1>3. \A q \in Peer : network'[q] \subseteq network[q]
  BY <1>1 DEF TimerExpires, Lose, DataTypeOK
<1>4. NothingSent => NothingSent'
  BY <1>2, <1>3, TwoPeers DEF NothingSent, HasReached, At
<1>5. SynSent => SynSent'
  BY <1>2, <1>3, TwoPeers DEF SynSent, HasReached, HasNumberedSyn, At, Syn
<1>6. SynAnswered => SynAnswered'
  BY <1>2, <1>3, TwoPeers DEF SynAnswered, HasAnswered, HasReached, HasNumberedSyn, At, SynAck
<1>7. ClientEstablished => ClientEstablished'
  BY <1>2, <1>3, TwoPeers
  DEF ClientEstablished, HasAnswered, HasReached, HasNumberedSyn, Runs, At, LastAck
<1>8. BothEstablished => BothEstablished'
  BY <1>2, <1>3 DEF BothEstablished, Runs
<1>9. OpeningPhase'
  BY <1>4, <1>5, <1>6, <1>7, <1>8 DEF OpeningInv, OpeningPhase
<1>10. CASE TimerExpires(p)
  BY <1>9, <1>10, TimerMaps
<1>11. CASE Lose(p)
  <2>1. PICK pk \in network[p] : network' = [network EXCEPT ![p] = @ \ {pk}]
    BY <1>11 DEF Lose
  <2>2. UNCHANGED <<sequenceVars, windowVars, retransmission, receiveVars, pc, packet,
                   current, historyVars>>
    BY <1>11 DEF Lose
  <2> QED BY <1>1, <1>9, <2>1, <2>2, DropMaps
<1> QED BY <1>10, <1>11

\* Only a side that is established has steps, in the last two phases.
LEMMA WhoTransfers ==
    ASSUME OpeningInv, NEW p \in Peer, TransferStep(p)
    PROVE  (ClientEstablished /\ p = Client) \/ BothEstablished
<1>1. ~HasReached(p, "connect") /\ ~HasReached(p, "accept")
      /\ ~HasReached(p, "syn_ack") /\ ~HasReached(p, "last_ack")
  BY OpeningWaits DEF OpeningLabel
<1> QED
  BY <1>1, TwoPeers
  DEF OpeningInv, OpeningPhase, NothingSent, SynSent, SynAnswered, ClientEstablished, HasAnswered

\* A step of a side leaves both phases in which there is one.
LEMMA TransferKeepsPhase ==
    ASSUME OpeningInv, NEW p \in Peer, TransferStep(p)
    PROVE  OpeningPhase'
<1>1. DataTypeOK /\ OpeningPcOK /\ WindowIsData(p)
  BY DEF OpeningInv
<1>2. CASE ClientEstablished /\ p = Client
  <2>1. Runs(Client)' /\ pc'[Server] = pc[Server]
    BY <1>1, <1>2, TwoPeers, RunsStays DEF ClientEstablished
  <2>2. At(Client, "receiver", "wait")'
    BY <1>1, <1>2, TwoPeers, ReceiverWaits DEF ClientEstablished
  <2>3. send_next'[Server] = send_next[Server] /\ recv_next'[Server] = recv_next[Server]
    BY <1>1, <1>2, TwoPeers, StepNumbers
  <2>4. HasAnswered'
    BY <1>2, <2>1, <2>3 DEF ClientEstablished, HasAnswered, HasReached, HasNumberedSyn, At
  <2>5. ~At(Client, "receiver", "reply") /\ network[Client] = {}
        /\ \A x \in network[Server] : x = LastAck \/ x.flags = {"DATA"}
    BY <1>2 DEF ClientEstablished, At
  <2>6. \A x \in network'[Server] : x \in network[Server] \/ x.flags = {"DATA"}
    BY <1>1, <1>2, <2>5, TwoPeers, StepSends
  <2>7. \A x \in network'[Client] : FALSE
    BY <1>1, <1>2, <2>5, TwoPeers, StepSends
  <2>8. \A x \in network'[Server] : x = LastAck \/ x.flags = {"DATA"}
    BY <2>5, <2>6
  <2>9. ClientEstablished'
    BY <2>1, <2>2, <2>4, <2>7, <2>8 DEF ClientEstablished, LastAck
  <2> QED BY <2>9 DEF OpeningPhase
<1>3. CASE BothEstablished
  <2>1. Runs(p)' /\ \A q \in Peer : q # p => pc'[q] = pc[q]
    BY <1>1, <1>3, TwoPeers, RunsStays DEF BothEstablished
  <2>2. \A q \in Peer : Runs(q)'
    BY <1>3, <2>1, TwoPeers DEF BothEstablished, Runs
  <2>3. ASSUME NEW q \in Peer, NEW x \in network'[q]
        PROVE  "SYN" \notin x.flags
    BY <1>1, <1>3, <2>3, StepSends DEF BothEstablished
  <2>4. BothEstablished'
    BY <2>2, <2>3, TwoPeers DEF BothEstablished
  <2> QED BY <2>4 DEF OpeningPhase
<1> QED BY <1>2, <1>3, WhoTransfers

\* A step of a side is one of the transfer.
LEMMA TransferMaps ==
    ASSUME OpeningInv, NEW p \in Peer, TransferStep(p)
    PROVE  Transfer!Next
<1>1. DataTypeOK /\ OpeningPcOK /\ WindowIsData(p)
  BY DEF OpeningInv
<1>2. Runs(p) /\ ~Opening(p)
  BY WhoTransfers, TwoPeers, OpeningWaits DEF ClientEstablished, BothEstablished
<1>3. \A pk \in network[p] : "SYN" \notin pk.flags
  BY WhoTransfers DEF ClientEstablished, BothEstablished
<1>4. At(p, "receiver", "reply") => ~Opening(Other(p))
  <2>1. CASE ClientEstablished /\ p = Client
    BY <2>1 DEF ClientEstablished, At
  <2>2. CASE BothEstablished
    BY <2>2, TwoPeers, OpeningWaits DEF BothEstablished
  <2> QED BY <2>1, <2>2, WhoTransfers
<1>5. CASE ReceiveLoop(p)
  BY <1>1, <1>2, <1>3, <1>4, <1>5, ReceiveMaps, SameNames DEF Transfer!Next
<1>6. CASE BuildChunk(p) \/ Recv(p) \/ WaitForAcks(p) \/ App(p)
  BY <1>1, <1>2, <1>6, AppMaps, SameNames DEF Transfer!Next
<1> QED BY <1>5, <1>6 DEF TransferStep

-----------------------------------------------------------------------------
(* The theorems *)

\* The steps of an opening connection.
LEMMA OpeningSteps ==
    ASSUME OpeningNext
    PROVE  \/ Connect \/ TakeSyn \/ TakeSynAck \/ TakeLastAck \/ DropOvertaking
           \/ \E p \in Peer : TransferStep(p) \/ TimerExpires(p) \/ Lose(p)
BY DEF OpeningNext, Handshake, Transferring, TransferStep

\* The handshake keeps the types, and leaves the windows alone.
LEMMA HandshakeTypes ==
    ASSUME OpeningInv, Connect \/ TakeSyn \/ TakeSynAck \/ TakeLastAck \/ DropOvertaking
    PROVE  DataTypeOK' /\ \A p \in Peer : WindowIsData(p)'
<1>1. DataTypeOK /\ OpeningPcOK /\ OpeningPhase /\ OpeningUnchanged
  BY DEF OpeningInv, Connect, TakeSyn, TakeSynAck, TakeLastAck, DropOvertaking
<1>2. \A p \in Peer : \A flags \in SUBSET TTPFlags :
         BuildPacket(p, flags, NoPayload) \in TTPPacket
  BY <1>1 DEF BuildPacket, TTPPacket, DataTypeOK
<1>3. \A pk \in TTPPacket : End(pk) \in Nat /\ SequenceSpace(pk) \in Nat
  BY SequenceSpaceType DEF End, TTPPacket
<1>4. \A pk \in TTPPacket : \A n \in Nat : [pk EXCEPT !.ack = n] \in TTPPacket
  BY DEF TTPPacket
<1>5. {"SYN"} \in SUBSET TTPFlags /\ {"ACK"} \in SUBSET TTPFlags /\ {"SYN", "ACK"} \in SUBSET TTPFlags
  BY DEF TTPFlags
<1>6. network \in [Peer -> SUBSET TTPPacket] /\ send_next \in [Peer -> Nat]
      /\ recv_next \in [Peer -> Nat]
  BY <1>1 DEF DataTypeOK
<1>7. network' \in [Peer -> SUBSET TTPPacket] /\ send_next' \in [Peer -> Nat]
      /\ recv_next' \in [Peer -> Nat]
  <2>1. CASE Connect
    BY <1>2, <1>3, <1>5, <1>6, <2>1, TwoPeers DEF Connect, Transmit
  <2>2. CASE TakeSyn
    BY <1>2, <1>3, <1>4, <1>5, <1>6, <2>2, TwoPeers DEF TakeSyn
  <2>3. CASE TakeSynAck
    BY <1>2, <1>3, <1>4, <1>5, <1>6, <2>3, TwoPeers DEF TakeSynAck
  <2>4. CASE TakeLastAck \/ DropOvertaking
    BY <1>6, <2>4, TwoPeers DEF TakeLastAck, DropOvertaking
  <2> QED BY <2>1, <2>2, <2>3, <2>4
<1>8. DataTypeOK'
  BY <1>1, <1>7 DEF DataTypeOK, OpeningUnchanged, windowVars, receiveVars, historyVars
<1>9. ASSUME NEW p \in Peer
      PROVE  WindowIsData(p)'
  <2>1. /\ queue' = queue /\ pending' = pending /\ packet' = packet
    BY <1>1 DEF OpeningUnchanged, windowVars
  <2>2. \A t \in Thread : pc'[p][t] \in {"insert", "transmit"} => pc'[p][t] = pc[p][t]
    <3>1. \/ pc' = pc
          \/ \E q \in Peer : Established(q)
          \/ \E q \in Peer, label \in OpeningLabel : GoTo(q, "app", label)
      BY TwoPeers
      DEF Connect, TakeSyn, TakeSynAck, TakeLastAck, DropOvertaking, OpeningLabel
    <3>2. ASSUME NEW q \in Peer, Established(q), NEW t \in Thread,
                 pc'[p][t] \in {"insert", "transmit"}
          PROVE  pc'[p][t] = pc[p][t]
      BY <1>1, <3>2, EstablishedRuns
    <3>3. ASSUME NEW q \in Peer, NEW label \in OpeningLabel, GoTo(q, "app", label),
                 NEW t \in Thread, pc'[p][t] \in {"insert", "transmit"}
          PROVE  pc'[p][t] = pc[p][t]
      BY <1>1, <3>3, TwoPeers, ThreadMoves DEF OpeningLabel
    <3> QED BY <3>1, <3>2, <3>3
  <2> QED BY <2>1, <2>2, WindowKept DEF OpeningInv
<1> QED BY <1>8, <1>9

\* Every thread stays at a statement.
LEMMA OpeningPcStep ==
    ASSUME OpeningPcOK, OpeningNext
    PROVE  OpeningPcOK'
<1>1. \/ pc' = pc
      \/ \E q \in Peer : Established(q)
      \/ \E q \in Peer, t \in Thread, label \in OpeningLabel \cup AppLabel \cup ReceiverLabel :
           GoTo(q, t, label)
  <2>1. Connect \/ TakeSyn \/ TakeSynAck \/ TakeLastAck \/ DropOvertaking =>
          \/ pc' = pc
          \/ \E q \in Peer : Established(q)
          \/ \E q \in Peer, label \in OpeningLabel : GoTo(q, "app", label)
    BY TwoPeers DEF Connect, TakeSyn, TakeSynAck, TakeLastAck, DropOvertaking, OpeningLabel
  <2>2. \A p \in Peer : TimerExpires(p) \/ Lose(p) => pc' = pc
    BY DEF TimerExpires, Lose
  <2> QED BY <2>1, <2>2, TwoPeers, StepMoves, OpeningSteps
<1>2. {"idle", "wait"} \subseteq AppLabel \cup ReceiverLabel
  BY DEF AppLabel, ReceiverLabel
<1>3. ASSUME NEW q \in Peer, Established(q)
      PROVE  OpeningPcOK'
  BY <1>2, <1>3 DEF Established, OpeningPcOK
<1>4. ASSUME NEW q \in Peer, NEW t \in Thread,
             NEW label \in OpeningLabel \cup AppLabel \cup ReceiverLabel, GoTo(q, t, label)
      PROVE  OpeningPcOK'
  BY <1>4 DEF GoTo, OpeningPcOK
<1>5. CASE pc' = pc
  BY <1>5 DEF OpeningPcOK
<1> QED BY <1>1, <1>3, <1>4, <1>5

\* Before connect(), nothing is sent and everything has its type.
LEMMA OpeningInvInit == ASSUME OpeningInit PROVE OpeningInv
<1>1. DataTypeOK
  BY NoPacketType, TransferAssumption
  DEF OpeningInit, DataTypeOK, Fresh, RetransmissionManager, TimerState
<1>2. OpeningPcOK
  BY DEF OpeningInit, OpeningPcOK, OpeningLabel
<1>3. ASSUME NEW p \in Peer
      PROVE  WindowIsData(p)
  <2>1. queue[p] = << >> /\ pending[p] = {}
        /\ \A t \in Thread : pc[p][t] \in {"unstarted", "connect", "accept"}
    BY DEF OpeningInit
  <2>2. Len(queue[p]) = 0 /\ 1..0 = {}
    BY <2>1
  <2> QED BY <2>1, <2>2 DEF WindowIsData
<1>4. NothingSent
  BY TwoPeers DEF OpeningInit, NothingSent, HasReached, At
<1> QED BY <1>1, <1>2, <1>3, <1>4 DEF OpeningInv, OpeningPhase

\* Every step preserves the invariant.
LEMMA OpeningInvStep == ASSUME OpeningInv, OpeningNext PROVE OpeningInv'
<1>1. OpeningPcOK'
  BY OpeningPcStep DEF OpeningInv
<1>2. CASE Connect \/ TakeSyn \/ TakeSynAck \/ TakeLastAck \/ DropOvertaking
  <2>1. OpeningPhase'
    BY <1>2, ConnectStep, TakeSynStep, TakeSynAckStep, TakeLastAckStep, DropOvertakingStep
    DEF OpeningPhase
  <2> QED BY <1>1, <1>2, <2>1, HandshakeTypes DEF OpeningInv
<1>3. ASSUME NEW p \in Peer, TransferStep(p)
      PROVE  OpeningInv'
  <2>1. DataTypeOK /\ OpeningPcOK /\ \A q \in Peer : WindowIsData(q)
    BY DEF OpeningInv
  <2>2. DataTypeOK'
    BY <1>3, <2>1, FlushWindowData, ReceiveData, AppData
    DEF TransferStep, App, ReceiveLoop, Thread
  <2>3. \A q \in Peer : WindowIsData(q)'
    BY <1>3, <2>1, StepKeepsData, StepOfOther
  <2> QED BY <1>1, <1>3, <2>2, <2>3, TransferKeepsPhase DEF OpeningInv
<1>4. ASSUME NEW p \in Peer, TimerExpires(p) \/ Lose(p)
      PROVE  OpeningInv'
  <2>1. DataTypeOK'
    BY <1>4, AppData DEF OpeningInv
  <2>2. queue' = queue /\ pending' = pending /\ packet' = packet /\ pc' = pc
    BY <1>4 DEF TimerExpires, Lose, windowVars
  <2>3. \A q \in Peer : WindowIsData(q)'
    BY <2>2 DEF OpeningInv, WindowIsData
  <2> QED BY <1>1, <1>4, <2>1, <2>3, EnvironmentStep DEF OpeningInv
<1> QED BY <1>2, <1>3, <1>4, OpeningSteps

\* Every step is a step of the transfer, or none.
LEMMA OpeningStepMaps ==
    ASSUME OpeningInv, OpeningNext
    PROVE  Transfer!Next \/ UNCHANGED Transfer!vars
<1>1. CASE Connect \/ TakeSyn \/ TakeSynAck \/ TakeLastAck
  BY <1>1, ConnectStep, TakeSynStep, TakeSynAckStep, TakeLastAckStep
<1>2. CASE DropOvertaking
  BY <1>2, DropOvertakingStep, TwoPeers, SameNames DEF Transfer!Next
<1>3. ASSUME NEW p \in Peer, TransferStep(p)
      PROVE  Transfer!Next
  BY <1>3, TransferMaps
<1>4. ASSUME NEW p \in Peer, TimerExpires(p) \/ Lose(p)
      PROVE  Transfer!Next \/ UNCHANGED Transfer!vars
  BY <1>4, EnvironmentStep, SameNames DEF Transfer!Next
<1> QED BY <1>1, <1>2, <1>3, <1>4, OpeningSteps

\* A connection starts as a transfer between established peers.
LEMMA OpeningInitMaps == ASSUME OpeningInit PROVE Transfer!Init
<1>1. \A p \in Peer : Opening(p) /\ network[p] = {}
  BY TwoPeers DEF OpeningInit, Opening, OpeningLabel
<1>2. TransferSendNext = [p \in Peer |-> ISN[p] + 1]
  BY <1>1 DEF TransferSendNext
<1>3. TransferRecvNext = [p \in Peer |-> ISN[Other(p)] + 1]
  BY <1>1 DEF TransferRecvNext
<1>4. TransferNetwork = [p \in Peer |-> {}]
  BY <1>1 DEF TransferNetwork
<1>5. TransferPc = [p \in Peer |-> [t \in Thread |-> IF t = "app" THEN "idle" ELSE "wait"]]
  BY <1>1 DEF TransferPc
<1>6. Transfer!Fresh = Fresh
  BY DEF Transfer!Fresh, Fresh
<1> QED
  BY <1>2, <1>3, <1>4, <1>5, <1>6, SameNames DEF OpeningInit, Transfer!Init

\* How far the two sides of an opening have come together, and what can be in flight.
THEOREM OpeningInvariance == OpeningSpec => []OpeningInv
<1>1. OpeningInit => OpeningInv
  BY OpeningInvInit
<1>2. OpeningInv /\ [OpeningNext]_openingVars => OpeningInv'
  <2> SUFFICES ASSUME OpeningInv, [OpeningNext]_openingVars
               PROVE  OpeningInv'
    OBVIOUS
  <2>1. CASE OpeningNext
    BY <2>1, OpeningInvStep
  <2>2. CASE UNCHANGED openingVars
    BY <2>2
    DEF OpeningInv, DataTypeOK, OpeningPcOK, WindowIsData, OpeningPhase, NothingSent, SynSent,
        SynAnswered, ClientEstablished, BothEstablished, HasAnswered, HasReached, HasNumberedSyn,
        Runs, At, Syn, SynAck, LastAck, openingVars, vars, sequenceVars, windowVars,
        receiveVars, historyVars
  <2> QED BY <2>1, <2>2
<1> QED BY <1>1, <1>2, PTL DEF OpeningSpec

\* From the first SYN on, the connection is a data transfer between established peers:
\* what is proved of every TTPTransfer holds of it.
THEOREM OpeningRefinement == OpeningSpec => ImplementsTransfer
<1>1. OpeningInit => Transfer!Init
  BY OpeningInitMaps
<1>2. OpeningInv /\ [OpeningNext]_openingVars => [Transfer!Next]_(Transfer!vars)
  <2> SUFFICES ASSUME OpeningInv, [OpeningNext]_openingVars
               PROVE  Transfer!Next \/ UNCHANGED Transfer!vars
    OBVIOUS
  <2>1. CASE OpeningNext
    BY <2>1, OpeningStepMaps
  <2>2. CASE UNCHANGED openingVars
    <3>1. SameOpening /\ UNCHANGED TransferPc
      BY <2>2, SamePcMaps DEF openingVars, vars
    <3> QED BY <2>2, <3>1, SameVars, UnchangedMaps DEF openingVars, vars, Transfer!vars
  <2> QED BY <2>1, <2>2
<1> QED BY <1>1, <1>2, OpeningInvariance, PTL DEF OpeningSpec, ImplementsTransfer, Transfer!Spec

-----------------------------------------------------------------------------
(* What is proved of the transfer, from the first SYN on *)

LEMMA TransferAssumptions ==
    Transfer!ChunkAssumption /\ Transfer!MaxRetriesAssumption /\ Transfer!TransferAssumption
<1>1. Transfer!MAX_PACKET_SIZE = MAX_PACKET_SIZE
  BY DEF Transfer!MAX_PACKET_SIZE, MAX_PACKET_SIZE
<1>2. ChunkSize \in [Chunk -> 1..Transfer!MAX_PACKET_SIZE]
  BY ChunkAssumption, <1>1
<1>3. NoPayload \notin Chunk /\ SeqLimit \in Nat
  BY ChunkAssumption
<1>4. Transfer!ChunkAssumption
  BY <1>2, <1>3 DEF Transfer!ChunkAssumption
<1>5. Transfer!MaxRetriesAssumption
  BY MaxRetriesAssumption DEF Transfer!MaxRetriesAssumption
<1>6. Transfer!TransferAssumption
  BY TransferAssumption DEF Transfer!TransferAssumption, Transfer!Peer, Peer
<1> QED
  BY <1>4, <1>5, <1>6

\* What a side delivers is a prefix of what the other gave to send(), also while DATA
\* overtakes the last ACK of the handshake and is dropped.
THEOREM DeliveryFromTheFirstSyn == OpeningSpec => []InOrderDelivery
<1>1. Transfer!Spec => []Transfer!InOrderDelivery
  BY TransferAssumptions, Transfer!DeliveryIsInOrder
<1>2. Transfer!InOrderDelivery => InOrderDelivery
  BY DEF Transfer!InOrderDelivery, InOrderDelivery, Transfer!Peer, Peer, Transfer!Other, Other,
         Transfer!Delivered, Delivered
<1> QED
  BY <1>1, <1>2, OpeningRefinement, PTL DEF ImplementsTransfer

LEMMA SameDirections ==
    /\ \A p : Transfer!PayloadsOf(sent[p]) = PayloadsOf(sent[p])
    /\ \A p : Transfer!PayloadsOf(sent[p])' = PayloadsOf(sent[p])'
    /\ \A p : Transfer!Delivered(p) = Delivered(p)
    /\ \A p : Transfer!Delivered(p)' = Delivered(p)'
BY DEF Transfer!PayloadsOf, PayloadsOf, Transfer!Delivered, Delivered

\* Each direction of a connection being opened implements the reliable stream: no
\* step of the handshake, and no DATA that it drops, shows in it.
THEOREM StreamsFromTheFirstSyn == OpeningSpec => StreamToServer /\ StreamToClient
<1>1. Transfer!Spec => Transfer!StreamToServer
  BY TransferAssumptions, Transfer!ClientToServerRefinement
<1>2. Transfer!Spec => Transfer!StreamToClient
  BY TransferAssumptions, Transfer!ServerToClientRefinement
<1>3. Transfer!ToServer!Init => ToServer!Init
  BY SameDirections DEF Transfer!ToServer!Init, ToServer!Init
<1>4. [Transfer!ToServer!Next]_<<Transfer!PayloadsOf(sent[Client]), Transfer!Delivered(Server)>>
      => [ToServer!Next]_<<PayloadsOf(sent[Client]), Delivered(Server)>>
  BY SameDirections
  DEF Transfer!ToServer!Next, ToServer!Next, Transfer!ToServer!Send, ToServer!Send,
      Transfer!ToServer!Deliver, ToServer!Deliver
<1>5. Transfer!ToClient!Init => ToClient!Init
  BY SameDirections DEF Transfer!ToClient!Init, ToClient!Init
<1>6. [Transfer!ToClient!Next]_<<Transfer!PayloadsOf(sent[Server]), Transfer!Delivered(Client)>>
      => [ToClient!Next]_<<PayloadsOf(sent[Server]), Delivered(Client)>>
  BY SameDirections
  DEF Transfer!ToClient!Next, ToClient!Next, Transfer!ToClient!Send, ToClient!Send,
      Transfer!ToClient!Deliver, ToClient!Deliver
<1>7. Transfer!Spec => StreamToServer
  BY <1>1, <1>3, <1>4, PTL
  DEF Transfer!StreamToServer, StreamToServer, Transfer!ToServer!Spec, ToServer!Spec
<1>8. Transfer!Spec => StreamToClient
  BY <1>2, <1>5, <1>6, PTL
  DEF Transfer!StreamToClient, StreamToClient, Transfer!ToClient!Spec, ToClient!Spec
<1> QED
  BY <1>7, <1>8, OpeningRefinement, PTL DEF ImplementsTransfer

\* A segment the other side has not accepted can still be transmitted: what the wait
\* for the last ACK has dropped is in the client's window.
THEOREM NothingIsForgottenInOpening == OpeningSpec => []UnreceivedIsKept
<1>1. Transfer!Spec => []Transfer!IInv
  BY TransferAssumptions, Transfer!Invariance
<1>2. Transfer!Spec => []Transfer!UnreceivedIsKept
  BY TransferAssumptions, Transfer!NothingIsForgotten
<1>3. OpeningInv /\ Transfer!IInv /\ Transfer!UnreceivedIsKept => UnreceivedIsKept
  <2> SUFFICES ASSUME OpeningInv, Transfer!IInv, Transfer!UnreceivedIsKept,
                      NEW p \in Peer, NEW i \in 1..Len(sent[p])
               PROVE  \/ End(sent[p][i]) <= recv_next[Other(p)]
                      \/ \E k \in 1..Len(queue[p]) : queue[p][k] = sent[p][i]
                      \/ sent[p][i] \in PacketsOf(pending[p]) \cup Held(p)
    BY DEF UnreceivedIsKept
  <2>1. Other(p) \in Peer /\ Other(Other(p)) = p
    BY TransferAssumption DEF Peer, Other
  <2>2. \/ End(sent[p][i]) <= TransferRecvNext[Other(p)]
        \/ \E k \in 1..Len(queue[p]) : queue[p][k] = sent[p][i]
        \/ sent[p][i] \in Transfer!PacketsOf(pending[p]) \cup Transfer!Held(p)
    BY SameEnd DEF Transfer!UnreceivedIsKept, Transfer!Peer, Peer, Transfer!Other, Other
  <2>3. Transfer!PacketsOf(pending[p]) = PacketsOf(pending[p])
    BY DEF Transfer!PacketsOf, PacketsOf
  <2>4. Transfer!Held(p) \subseteq Held(p)
    BY DEF Transfer!Held, Held, Transfer!At, At, Transfer!Thread, Thread, TransferPc
  <2>5. CASE Opening(Other(p))
    <3>1. TransferRecvNext[Other(p)] = ISN[p] + 1
      BY <2>1, <2>5 DEF TransferRecvNext
    <3>2. Transfer!SentIsChained(p)
      BY DEF Transfer!IInv, Transfer!Peer, Peer
    <3>3. /\ Transfer!SeqOf(p, 1) = ISN[p] + 1
          /\ Transfer!SeqOf(p, i + 1) = End(sent[p][i])
      BY <3>2, SameEnd DEF Transfer!SentIsChained
    <3>4. Len(sent[p]) \in Nat
      OBVIOUS
    <3>5. Transfer!SeqOf(p, 1) < Transfer!SeqOf(p, i + 1)
      BY <3>2 DEF Transfer!SentIsChained
    <3>6. ISN[p] + 1 \in Int /\ End(sent[p][i]) \in Int
      <4>1. sent[p][i] \in TTPPacket /\ ISN[p] \in Nat
        BY TransferAssumption DEF OpeningInv, DataTypeOK
      <4>2. SequenceSpace(sent[p][i]) \in Nat /\ sent[p][i].seq \in Nat
        BY <4>1, SequenceSpaceType DEF TTPPacket
      <4> QED
        BY <4>1, <4>2 DEF End
    <3>7. ~(End(sent[p][i]) <= ISN[p] + 1)
      BY <3>3, <3>5, <3>6
    <3> QED
      BY <2>2, <2>3, <2>4, <3>1, <3>7
  <2>6. CASE ~Opening(Other(p))
    <3>1. TransferRecvNext[Other(p)] = recv_next[Other(p)]
      BY <2>1, <2>6 DEF TransferRecvNext
    <3> QED
      BY <2>2, <2>3, <2>4, <3>1
  <2> QED
    BY <2>5, <2>6
<1> QED
  BY <1>1, <1>2, <1>3, OpeningInvariance, OpeningRefinement, PTL DEF ImplementsTransfer

\* Once both sides are established, no side has an ACK for what the other has not
\* accepted, nor accepts what was not sent.
THEOREM AcknowledgementsAfterOpening ==
    OpeningSpec => []((\A p \in Peer : ~Opening(p)) => AcknowledgedIsReceived)
<1>1. Transfer!Spec => []Transfer!AcknowledgedIsReceived
  BY TransferAssumptions, Transfer!AcknowledgementsAreTrue
<1>2. ASSUME Transfer!AcknowledgedIsReceived, \A p \in Peer : ~Opening(p)
      PROVE  AcknowledgedIsReceived
  <2>1. \A p \in Peer : Other(p) \in Peer
    BY DEF Peer, Other
  <2>2. \A p \in Peer : TransferRecvNext[p] = recv_next[p] /\ TransferSendNext[p] = send_next[p]
    BY <1>2 DEF TransferRecvNext, TransferSendNext
  <2> QED
    BY <1>2, <2>1, <2>2
    DEF Transfer!AcknowledgedIsReceived, AcknowledgedIsReceived, Transfer!Peer, Peer,
        Transfer!Other, Other
<1> QED
  BY <1>1, <1>2, OpeningRefinement, PTL DEF ImplementsTransfer

\* The errors of the send window do not grow while a connection is opened: also then
\* wait_for_acks() misses one segment at most ...
THEOREM ConfirmationMissesOneInOpening == OpeningSpec => []ConfirmedButOne
<1>1. Transfer!Spec => []Transfer!ConfirmedButOne
  BY TransferAssumptions, Transfer!ConfirmationMissesOne
<1>2. \A S : Transfer!Cardinality(S) = Cardinality(S)
  BY DEF Transfer!Cardinality, Cardinality, Transfer!IsFiniteSet, IsFiniteSet
<1>3. \A p \in Peer : At(p, "app", "confirmed") => Transfer!At(p, "app", "confirmed")
  BY DEF At, Transfer!At, TransferPc, Opening, OpeningLabel
<1>4. Transfer!ConfirmedButOne => ConfirmedButOne
  BY <1>2, <1>3, SameEnd DEF Transfer!ConfirmedButOne, ConfirmedButOne, Transfer!Peer, Peer
<1> QED
  BY <1>1, <1>4, OpeningRefinement, PTL DEF ImplementsTransfer

\* ... and the two flushes together exceed the window by one segment at most.
THEOREM ExcessIsOneSegmentInOpening ==
    ASSUME Chunk # {}
    PROVE  OpeningSpec => []ExcessIsBounded
<1>1. Transfer!Spec => []Transfer!ExcessIsBounded
  BY TransferAssumptions, Transfer!ExcessIsOneSegment
<1>2. \A S : Transfer!Max(S) = Max(S)
  BY DEF Transfer!Max, Max
<1>3. Transfer!ExcessIsBounded => ExcessIsBounded
  BY <1>2, SameBytes DEF Transfer!ExcessIsBounded, ExcessIsBounded, Transfer!Peer, Peer
<1> QED
  BY <1>1, <1>3, OpeningRefinement, PTL DEF ImplementsTransfer
=============================================================================
