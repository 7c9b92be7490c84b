---------------------------- MODULE TTPTransfer ----------------------------
(***************************************************************************)
(* Two TTPConnections (ttp/connection.py) that have completed their        *)
(* handshake and exchange data.  Each peer runs two threads on the same    *)
(* objects: the application, which calls send(), recv() and wait_for_acks, *)
(* and the receiver started by _start_receiver().  One action is one       *)
(* statement of a thread that the other thread, or the network, can        *)
(* observe.  window_lock is taken by send() alone, so that with one        *)
(* application thread it excludes nobody: both threads run _flush_window   *)
(* at the same time.                                                       *)
(*                                                                         *)
(* The network loses, duplicates and reorders segments, and never invents  *)
(* or alters one.  Identical segments in flight are one element of a set.  *)
(***************************************************************************)
EXTENDS TTPWindow, TTPSequence, TTPRetransmission, Sequences

CONSTANTS
    Client, Server,
    ISN,            \* initial sequence number of each peer
    WindowSize,     \* window_size of each peer
    MaxChunks,      \* bound: segments each application sends
    CanLose,        \* may the network lose segments?
    CanDuplicate    \* may it deliver one more than once?

Peer == {Client, Server}

Other(p) == IF p = Client THEN Server ELSE Client

ASSUME TransferAssumption ==
    /\ Client # Server
    /\ ISN \in [Peer -> Nat]
    /\ WindowSize \in [Peer -> Nat]
    /\ MaxChunks \in [Peer -> Nat]
    /\ CanLose \in BOOLEAN
    /\ CanDuplicate \in BOOLEAN

VARIABLES
    send_unacked, send_next, recv_next,  \* SequenceSpace
    queue, pending, inserted,            \* SendWindow; insertions into pending so far
    retransmission,                      \* RetransmissionManager
    out_of_order,                        \* FUTURE segments kept, by sequence number
    buffer,                              \* ReceiveBuffer
    network,                             \* segments in flight towards the peer
    pc,                                  \* where each thread of each peer is
    packet,                              \* local variable `packet` of _flush_window, per thread
    current,                             \* the segment the receiver is processing
    sent, received                       \* history: segments built, payloads recv() returned

sequenceVars == <<send_unacked, send_next, recv_next>>
windowVars == <<queue, pending, inserted>>
receiveVars == <<out_of_order, buffer>>
historyVars == <<sent, received>>
vars == <<sequenceVars, windowVars, retransmission, receiveVars, network,
          pc, packet, current, historyVars>>

Thread == {"app", "receiver"}

FlushLabel == {"peek", "admit", "pop", "insert", "transmit", "timer", "start"}

AppLabel == FlushLabel \cup {"idle", "building", "waiting", "confirmed", "gave_up", "raised"}

ReceiverLabel ==
    FlushLabel \cup {"wait", "check", "ack", "stop", "log", "data", "drain", "reply", "dead"}

\* MUTANT: both threads go on to stop the timer after a flush.
FlushedStopsTimer(t) == "stop"

\* Where a thread that leaves _flush_window goes, and where an exception
\* leaves it: send() raises it to its caller, _receive_loop prints it and ends.
Flushed(t) == IF t = "app" THEN "idle" ELSE "stop"
Failed(t) == IF t = "app" THEN "raised" ELSE "dead"

At(p, t, label) == pc[p][t] = label

GoTo(p, t, label) == pc' = [pc EXCEPT ![p][t] = label]

\* The next step of the thread changes the keys of pending.
MutatesPending(p, t) ==
    \/ At(p, t, "insert")
    \/ At(p, t, "ack") /\ Unacknowledged(pending[p], current[p].ack) # pending[p]

\* Iterating pending raises RuntimeError when the other thread inserts or
\* deletes meanwhile: that is the step it is about to take, and which may as
\* well come before or after the iteration.
IterationRaces(p, t) ==
    /\ pending[p] # {}
    /\ \E other \in Thread \ {t} : MutatesPending(p, other)

-----------------------------------------------------------------------------
(* Building and sending segments *)

\* MUTANT: acknowledges its own numbers.
BuildPacketAcksItself(p, flags, payload) ==
    [flags |-> flags, seq |-> send_next[p], ack |-> send_next[p], payload |-> payload]

BuildPacket(p, flags, payload) ==
    [flags |-> flags, seq |-> send_next[p], ack |-> recv_next[p], payload |-> payload]

\* The effect on the network of handing an encodable segment to the socket.
Transmit(p, pk) == network' = [network EXCEPT ![Other(p)] = @ \cup {pk}]

Init ==
    /\ send_unacked = ISN
    /\ send_next = [p \in Peer |-> ISN[p] + 1]
    /\ recv_next = [p \in Peer |-> ISN[Other(p)] + 1]
    /\ queue = [p \in Peer |-> << >>]
    /\ pending = [p \in Peer |-> {}]
    /\ inserted = [p \in Peer |-> 0]
    /\ retransmission = [p \in Peer |-> Fresh]
    /\ out_of_order = [p \in Peer |-> {}]
    /\ buffer = [p \in Peer |-> << >>]
    /\ network = [p \in Peer |-> {}]
    /\ pc = [p \in Peer |-> [t \in Thread |-> IF t = "app" THEN "idle" ELSE "wait"]]
    /\ packet = [p \in Peer |-> [t \in Thread |-> NoPacket]]
    /\ current = [p \in Peer |-> NoPacket]
    /\ sent = [p \in Peer |-> << >>]
    /\ received = [p \in Peer |-> << >>]

-----------------------------------------------------------------------------
(* The application thread *)

\* One turn of the loop of send(): build the segment, then enqueue it.  Reading and
\* advancing SND.NXT is one step: no other thread of p takes numbers here.  The receiver
\* does when it answers a FIN, and TTPTeardown takes the two apart.
BuildChunk(p) ==
    /\ At(p, "app", "idle") \/ At(p, "app", "building")
    /\ Len(sent[p]) < MaxChunks[p]
    /\ \E chunk \in Chunk :
         LET pk == BuildPacket(p, {"DATA"}, chunk)
         IN  /\ queue' = [queue EXCEPT ![p] = Append(@, pk)]
             /\ sent' = [sent EXCEPT ![p] = Append(@, pk)]
             /\ send_next' = [send_next EXCEPT ![p] = @ + SequenceSpace(pk)]
    /\ GoTo(p, "app", "building")
    /\ UNCHANGED <<send_unacked, recv_next, pending, inserted, retransmission, receiveVars,
                   network, packet, current, received>>

\* No data is left to slice: send() takes window_lock and flushes.
StartFlush(p) ==
    /\ At(p, "app", "building")
    /\ GoTo(p, "app", "peek")
    /\ UNCHANGED <<sequenceVars, windowVars, retransmission, receiveVars, network,
                   packet, current, historyVars>>

\* recv() finds the receive buffer non-empty.
Recv(p) ==
    /\ At(p, "app", "idle")
    /\ buffer[p] # << >>
    /\ buffer' = [buffer EXCEPT ![p] = Tail(@)]
    /\ received' = [received EXCEPT ![p] = Append(@, Head(buffer[p]))]
    /\ UNCHANGED <<sequenceVars, windowVars, retransmission, out_of_order, network,
                   pc, packet, current, sent>>

WaitForAcks(p) ==
    /\ At(p, "app", "idle")
    /\ sent[p] # << >>
    /\ GoTo(p, "app", "waiting")
    /\ UNCHANGED <<sequenceVars, windowVars, retransmission, receiveVars, network,
                   packet, current, historyVars>>

\* wait_for_acks() returns: True when the window is empty, False when the
\* retries are exhausted or its own timeout elapses, which it may at any time.
WaitForAcksReturns(p) ==
    /\ At(p, "app", "waiting")
    /\ GoTo(p, "app", IF Empty(queue[p], pending[p]) THEN "confirmed" ELSE "gave_up")
    /\ UNCHANGED <<sequenceVars, windowVars, retransmission, receiveVars, network,
                   packet, current, historyVars>>

-----------------------------------------------------------------------------
(* _flush_window, run by both threads *)

\* packet = self.window.next_packet(): looks at the head of the queue.  When the
\* other thread removes the last packet between the test and queue[0], IndexError.
Peek(p, t) ==
    /\ At(p, t, "peek")
    /\ \/ /\ queue[p] = << >>
          /\ GoTo(p, t, Flushed(t))
          /\ UNCHANGED packet
       \/ /\ queue[p] # << >>
          /\ packet' = [packet EXCEPT ![p][t] = Head(queue[p])]
          /\ GoTo(p, t, "admit")
       \/ /\ Len(queue[p]) = 1
          /\ \E other \in Thread \ {t} : At(p, other, "pop")
          /\ GoTo(p, t, Failed(t))
          /\ UNCHANGED packet
    /\ UNCHANGED <<sequenceVars, windowVars, retransmission, receiveVars, network,
                   current, historyVars>>

\* if not self.window.can_send(packet.sequence_space): break
Admit(p, t) ==
    /\ At(p, t, "admit")
    /\ \/ /\ CanSend(WindowSize[p], pending[p], SequenceSpace(packet[p][t]))
          /\ GoTo(p, t, "pop")
       \/ /\ ~CanSend(WindowSize[p], pending[p], SequenceSpace(packet[p][t]))
          /\ GoTo(p, t, Flushed(t))
       \/ /\ IterationRaces(p, t)
          /\ GoTo(p, t, Failed(t))
    /\ packet' = [packet EXCEPT ![p][t] = NoPacket]
    /\ UNCHANGED <<sequenceVars, windowVars, retransmission, receiveVars, network,
                   current, historyVars>>

\* MUTANT: the head stays in the queue.
PopHeadLeavesIt(p, t) ==
    /\ At(p, t, "pop")
    /\ queue[p] # << >>
    /\ packet' = [packet EXCEPT ![p][t] = Head(queue[p])]
    /\ GoTo(p, t, "insert")
    /\ UNCHANGED <<sequenceVars, windowVars, retransmission, receiveVars, network,
                   current, historyVars>>

\* mark_sent(), first half: packet = self.queue.popleft().  On an empty queue
\* it returns None, which _transmit_packet cannot send (AttributeError).
PopHead(p, t) ==
    /\ At(p, t, "pop")
    /\ \/ /\ queue[p] # << >>
          /\ packet' = [packet EXCEPT ![p][t] = Head(queue[p])]
          /\ queue' = [queue EXCEPT ![p] = Tail(@)]
          /\ GoTo(p, t, "insert")
       \/ /\ queue[p] = << >>
          /\ GoTo(p, t, Failed(t))
          /\ UNCHANGED <<packet, queue>>
    /\ UNCHANGED <<sequenceVars, pending, inserted, retransmission, receiveVars, network,
                   current, historyVars>>

\* mark_sent(), second half: self.pending[packet.sequence_number] = packet
InsertPending(p, t) ==
    /\ At(p, t, "insert")
    /\ pending' = [pending EXCEPT ![p] = MarkPending(@, packet[p][t], inserted[p])]
    /\ inserted' = [inserted EXCEPT ![p] = @ + 1]
    /\ GoTo(p, t, "transmit")
    /\ UNCHANGED <<sequenceVars, queue, retransmission, receiveVars, network,
                   packet, current, historyVars>>

TransmitHead(p, t) ==
    /\ At(p, t, "transmit")
    /\ \/ /\ Encodable(packet[p][t])
          /\ Transmit(p, packet[p][t])
          /\ GoTo(p, t, "timer")
       \/ /\ ~Encodable(packet[p][t])
          /\ GoTo(p, t, Failed(t))
          /\ UNCHANGED network
    /\ packet' = [packet EXCEPT ![p][t] = NoPacket]
    /\ UNCHANGED <<sequenceVars, windowVars, retransmission, receiveVars,
                   current, historyVars>>

\* MUTANT: off by one, pending is thought to be counted before the insertion.
CheckFirstPendingBefore(p, t) ==
    /\ At(p, t, "timer")
    /\ \/ GoTo(p, t, IF Cardinality(pending[p]) = 0 THEN "start" ELSE "peek")
       \/ IterationRaces(p, t) /\ GoTo(p, t, Failed(t))
    /\ UNCHANGED <<sequenceVars, windowVars, retransmission, receiveVars, network,
                   packet, current, historyVars>>

\* The window is logged, and its text iterates pending for the bytes in flight;
\* then, if len(self.window.pending) == 1
CheckFirstPending(p, t) ==
    /\ At(p, t, "timer")
    /\ \/ GoTo(p, t, IF Cardinality(pending[p]) = 1 THEN "start" ELSE "peek")
       \/ IterationRaces(p, t) /\ GoTo(p, t, Failed(t))
    /\ UNCHANGED <<sequenceVars, windowVars, retransmission, receiveVars, network,
                   packet, current, historyVars>>

StartTimer(p, t) ==
    /\ At(p, t, "start")
    /\ retransmission' = [retransmission EXCEPT ![p] = Start(@)]
    /\ GoTo(p, t, "peek")
    /\ UNCHANGED <<sequenceVars, windowVars, receiveVars, network,
                   packet, current, historyVars>>

FlushWindow(p, t) ==
    \/ Peek(p, t)
    \/ Admit(p, t)
    \/ PopHead(p, t)
    \/ InsertPending(p, t)
    \/ TransmitHead(p, t)
    \/ CheckFirstPending(p, t)
    \/ StartTimer(p, t)

-----------------------------------------------------------------------------
(* The receiver thread *)

\* _wait_for_packet() returns a segment.  A socket timeout loops inside it.
WaitForPacket(p) ==
    /\ At(p, "receiver", "wait")
    /\ \E pk \in network[p], keep \in {FALSE, CanDuplicate} :
         /\ current' = [current EXCEPT ![p] = pk]
         /\ network' = IF keep THEN network ELSE [network EXCEPT ![p] = @ \ {pk}]
    /\ GoTo(p, "receiver", "check")
    /\ UNCHANGED <<sequenceVars, windowVars, retransmission, receiveVars,
                   packet, historyVars>>

\* _process_packet() looks at the ACK flag first.
Dispatch(p) ==
    GoTo(p, "receiver", IF "ACK" \in current[p].flags THEN "ack" ELSE "data")

\* MUTANT: the check is left to the socket timeout, which ends no wait.
CheckRetransmissionNever(p) ==
    /\ At(p, "receiver", "check")
    /\ Dispatch(p)
    /\ UNCHANGED <<network, retransmission>>
    /\ UNCHANGED <<sequenceVars, windowVars, receiveVars, packet, current, historyVars>>

\* The retransmission check, reached only after a segment has arrived.
CheckRetransmission(p) ==
    /\ At(p, "receiver", "check")
    /\ LET due == /\ retransmission[p].timer = "expired"
                  /\ pending[p] # {}
                  /\ ~Exhausted(retransmission[p])
       IN  \/ /\ ~due
              /\ Dispatch(p)
              /\ UNCHANGED <<network, retransmission>>
           \/ /\ due
              /\ \E oldest \in pending[p] :
                   /\ IsOldest(pending[p], oldest)
                   /\ Encodable(oldest.packet)
                   /\ Transmit(p, oldest.packet)
              /\ retransmission' = [retransmission EXCEPT ![p] = Restart(@)]
              /\ Dispatch(p)
           \/ /\ retransmission[p].timer = "expired"
              /\ \/ IterationRaces(p, "receiver")
                 \/ /\ due
                    /\ \E oldest \in pending[p] :
                         IsOldest(pending[p], oldest) /\ ~Encodable(oldest.packet)
              /\ GoTo(p, "receiver", "dead")
              /\ UNCHANGED <<network, retransmission>>
    /\ UNCHANGED <<sequenceVars, windowVars, receiveVars, packet, current, historyVars>>

\* MUTANT: what an ACK makes room for stays in the queue.
ProcessAckWithoutFlush(p) ==
    /\ At(p, "receiver", "ack")
    /\ send_unacked' = [send_unacked EXCEPT ![p] = Acknowledged(@, current[p].ack)]
    /\ \/ /\ pending' = [pending EXCEPT ![p] = Unacknowledged(@, current[p].ack)]
          /\ GoTo(p, "receiver", "stop")
       \/ /\ IterationRaces(p, "receiver")
          /\ GoTo(p, "receiver", "dead")
          /\ UNCHANGED pending
    /\ current' = [current EXCEPT ![p] = NoPacket]
    /\ UNCHANGED <<send_next, recv_next, queue, inserted, retransmission, receiveVars, network,
                   packet, historyVars>>

\* _process_ack() up to the flush: SND.UNA, then the entries the ACK confirms.
ProcessAck(p) ==
    /\ At(p, "receiver", "ack")
    /\ send_unacked' = [send_unacked EXCEPT ![p] = Acknowledged(@, current[p].ack)]
    /\ \/ /\ pending' = [pending EXCEPT ![p] = Unacknowledged(@, current[p].ack)]
          /\ GoTo(p, "receiver", "peek")
       \/ /\ IterationRaces(p, "receiver")
          /\ GoTo(p, "receiver", "dead")
          /\ UNCHANGED pending
    /\ current' = [current EXCEPT ![p] = NoPacket]
    /\ UNCHANGED <<send_next, recv_next, queue, inserted, retransmission, receiveVars, network,
                   packet, historyVars>>

\* After the flush, _process_ack() stops the timer.
StopTimer(p) ==
    /\ At(p, "receiver", "stop")
    /\ retransmission' = [retransmission EXCEPT ![p] = Stop(@)]
    /\ GoTo(p, "receiver", "log")
    /\ UNCHANGED <<sequenceVars, windowVars, receiveVars, network,
                   packet, current, historyVars>>

\* Its last statement logs the window, which iterates pending once more.
LogWindow(p) ==
    /\ At(p, "receiver", "log")
    /\ \/ GoTo(p, "receiver", "wait")
       \/ IterationRaces(p, "receiver") /\ GoTo(p, "receiver", "dead")
    /\ UNCHANGED <<sequenceVars, windowVars, retransmission, receiveVars, network,
                   packet, current, historyVars>>

\* sequence.receive() accepts pk and its payload is pushed.
Accept(p, pk) ==
    /\ recv_next' = [recv_next EXCEPT ![p] = @ + SequenceSpace(pk)]
    /\ buffer' = [buffer EXCEPT ![p] = Append(@, pk.payload)]

\* out_of_order[packet.sequence_number] = packet
Store(p, pk) ==
    out_of_order' = [out_of_order EXCEPT ![p] = {q \in @ : q.seq # pk.seq} \cup {pk}]

ProcessData(p) ==
    /\ At(p, "receiver", "data")
    /\ LET status == ReceiveStatus(recv_next[p], current[p].seq)
       IN  \/ /\ status = "EXPECTED"
              /\ Accept(p, current[p])
              /\ GoTo(p, "receiver", "drain")
              /\ UNCHANGED out_of_order
           \/ /\ status = "DUPLICATE"
              /\ GoTo(p, "receiver", "reply")
              /\ UNCHANGED <<recv_next, buffer, out_of_order>>
           \/ /\ status = "FUTURE"
              /\ Store(p, current[p])
              /\ GoTo(p, "receiver", "reply")
              /\ UNCHANGED <<recv_next, buffer>>
    /\ current' = [current EXCEPT ![p] = NoPacket]
    /\ UNCHANGED <<send_unacked, send_next, windowVars, retransmission, network,
                   packet, historyVars>>

\* MUTANT: drains one segment at most.
FlushOutOfOrderOnce(p) ==
    /\ At(p, "receiver", "drain")
    /\ \/ \E pk \in out_of_order[p] :
            /\ pk.seq = recv_next[p]
            /\ Accept(p, pk)
            /\ out_of_order' = [out_of_order EXCEPT ![p] = @ \ {pk}]
       \/ /\ \A pk \in out_of_order[p] : pk.seq # recv_next[p]
          /\ UNCHANGED <<recv_next, receiveVars>>
    /\ GoTo(p, "receiver", "reply")
    /\ UNCHANGED <<send_unacked, send_next, windowVars, retransmission, network,
                   packet, current, historyVars>>

\* One turn of the loop of _flush_out_of_order().
FlushOutOfOrder(p) ==
    /\ At(p, "receiver", "drain")
    /\ \/ \E pk \in out_of_order[p] :
            /\ pk.seq = recv_next[p]
            /\ Accept(p, pk)
            /\ out_of_order' = [out_of_order EXCEPT ![p] = @ \ {pk}]
            /\ UNCHANGED pc
       \/ /\ \A pk \in out_of_order[p] : pk.seq # recv_next[p]
          /\ GoTo(p, "receiver", "reply")
          /\ UNCHANGED <<recv_next, receiveVars>>
    /\ UNCHANGED <<send_unacked, send_next, windowVars, retransmission, network,
                   packet, current, historyVars>>

\* The ACK every branch of _process_data() ends with.
Reply(p) ==
    /\ At(p, "receiver", "reply")
    /\ LET ack == BuildPacket(p, {"ACK"}, NoPayload)
       IN  \/ /\ Encodable(ack)
              /\ Transmit(p, ack)
              /\ GoTo(p, "receiver", "wait")
           \/ /\ ~Encodable(ack)
              /\ GoTo(p, "receiver", "dead")
              /\ UNCHANGED network
    /\ UNCHANGED <<sequenceVars, windowVars, retransmission, receiveVars,
                   packet, current, historyVars>>

-----------------------------------------------------------------------------
(* The environment: time and the network *)

TimerExpires(p) ==
    /\ retransmission[p].timer = "running"
    /\ retransmission' = [retransmission EXCEPT ![p] = Expire(@)]
    /\ UNCHANGED <<sequenceVars, windowVars, receiveVars, network,
                   pc, packet, current, historyVars>>

Lose(p) ==
    /\ CanLose
    /\ \E pk \in network[p] : network' = [network EXCEPT ![p] = @ \ {pk}]
    /\ UNCHANGED <<sequenceVars, windowVars, retransmission, receiveVars,
                   pc, packet, current, historyVars>>

-----------------------------------------------------------------------------

App(p) == StartFlush(p) \/ WaitForAcksReturns(p) \/ FlushWindow(p, "app")

ReceiveLoop(p) ==
    \/ WaitForPacket(p)
    \/ CheckRetransmission(p)
    \/ ProcessAck(p)
    \/ FlushWindow(p, "receiver")
    \/ StopTimer(p)
    \/ LogWindow(p)
    \/ ProcessData(p)
    \/ FlushOutOfOrder(p)
    \/ Reply(p)

Next ==
    \E p \in Peer :
        \/ BuildChunk(p)
        \/ Recv(p)
        \/ WaitForAcks(p)
        \/ App(p)
        \/ ReceiveLoop(p)
        \/ TimerExpires(p)
        \/ Lose(p)

Spec == Init /\ [][Next]_vars

(***************************************************************************)
(* A thread that has a statement to execute is eventually scheduled and    *)
(* time passes.  What the application decides to call, and what the        *)
(* network loses, is not fair.                                             *)
(***************************************************************************)
Fairness ==
    \A p \in Peer :
        /\ WF_vars(App(p))
        /\ WF_vars(ReceiveLoop(p))
        /\ WF_vars(TimerExpires(p))

FairSpec == Spec /\ Fairness

-----------------------------------------------------------------------------
(* Properties *)

PayloadsOf(packets) == [i \in DOMAIN packets |-> packets[i].payload]

\* What p's application has been given, or can pop, of the other side's stream.
Delivered(p) == received[p] \o buffer[p]

\* Every variable holds a value of its type, and every thread is at a statement.
TypeOK ==
    /\ send_unacked \in [Peer -> Nat]
    /\ send_next \in [Peer -> Nat]
    /\ recv_next \in [Peer -> Nat]
    /\ queue \in [Peer -> Seq(TTPPacket)]
    /\ pending \in [Peer -> SUBSET PendingEntry]
    /\ inserted \in [Peer -> Nat]
    /\ retransmission \in [Peer -> RetransmissionManager]
    /\ out_of_order \in [Peer -> SUBSET TTPPacket]
    /\ buffer \in [Peer -> Seq(Chunk \cup {NoPayload})]
    /\ network \in [Peer -> SUBSET TTPPacket]
    /\ pc \in [Peer -> [Thread -> AppLabel \cup ReceiverLabel]]
    /\ \A p \in Peer : pc[p]["app"] \in AppLabel /\ pc[p]["receiver"] \in ReceiverLabel
    /\ packet \in [Peer -> [Thread -> TTPPacket]]
    /\ current \in [Peer -> TTPPacket]
    /\ sent \in [Peer -> Seq(TTPPacket)]
    /\ received \in [Peer -> Seq(Chunk \cup {NoPayload})]

\* What a receiver has pushed is a prefix of what its peer's application gave
\* to send(): no chunk is lost in the middle, repeated, or delivered early,
\* whatever the network does and however the threads interleave.
InOrderDelivery ==
    \A p \in Peer :
        /\ Len(Delivered(p)) <= Len(sent[Other(p)])
        /\ \A i \in 1..Len(Delivered(p)) :
             Delivered(p)[i] = sent[Other(p)][i].payload

\* SND.UNA never runs ahead of what the peer has accepted, and the peer accepts
\* nothing that was not sent: an acknowledgement is never a lie.
AcknowledgedIsReceived ==
    \A p \in Peer :
        /\ send_unacked[p] <= recv_next[Other(p)]
        /\ recv_next[Other(p)] <= send_next[p]

\* A segment in the hands of a thread of p, between popleft() and the insertion
\* into pending.
Held(p) == {packet[p][t] : t \in {u \in Thread : At(p, u, "insert")}}

\* A sent segment the peer has not accepted is still in the send window, in the
\* queue, in pending or in the hands of a thread, however the two unsynchronised
\* flushes and the acknowledgements interleave: it can still be (re)transmitted.
UnreceivedIsKept ==
    \A p \in Peer : \A i \in 1..Len(sent[p]) :
        \/ End(sent[p][i]) <= recv_next[Other(p)]
        \/ \E k \in 1..Len(queue[p]) : queue[p][k] = sent[p][i]
        \/ sent[p][i] \in PacketsOf(pending[p]) \cup Held(p)

\* Although _flush_window runs in both threads without a common lock, no segment
\* is taken out of the queue twice: the two threads never hold the same segment,
\* and what is queued is neither held nor pending.
EachSegmentTakenOnce ==
    \A p \in Peer :
        /\ At(p, "app", "insert") /\ At(p, "receiver", "insert") =>
             packet[p]["app"] # packet[p]["receiver"]
        /\ \A k \in 1..Len(queue[p]) :
             queue[p][k] \notin PacketsOf(pending[p]) \cup Held(p)
        /\ PacketsOf(pending[p]) \cap Held(p) = {}

\* Except while it is draining them, the receiver keeps only segments beyond a
\* gap: what has become deliverable is delivered before the next segment is read.
OutOfOrderIsAhead ==
    \A p \in Peer : ~At(p, "receiver", "drain") =>
        \A pk \in out_of_order[p] : pk.seq > recv_next[p]

\* Both threads may admit a segment against the same free space, and the one a
\* thread pops may not be the one it measured, so that more than the window can be
\* in flight.  The excess is one segment at most: of two admissions that overlap,
\* the earlier thread's segment was counted by the later one or was its own.
ExcessIsBounded ==
    \A p \in Peer : BytesInFlight(pending[p]) <=
        WindowSize[p] + Max({ChunkSize[chunk] : chunk \in Chunk})

\* One direction of the connection as the stream it implements.
ToServer == INSTANCE ReliableStream
                WITH sent <- PayloadsOf(sent[Client]), delivered <- Delivered(Server)
ToClient == INSTANCE ReliableStream
                WITH sent <- PayloadsOf(sent[Server]), delivered <- Delivered(Client)

\* Each direction implements the reliable stream: every step of the connection
\* sends one chunk, delivers the next one, or changes neither.
StreamToServer == ToServer!Spec
StreamToClient == ToClient!Spec

\* Although it does not see a segment between the two containers of the window,
\* wait_for_acks() returns True with at most one segment unacknowledged: the one
\* the receiver's flush holds.
ConfirmedButOne ==
    \A p \in Peer : At(p, "app", "confirmed") =>
        Cardinality({i \in 1..Len(sent[p]) : End(sent[p][i]) > send_unacked[p]}) <= 1

\* Until a first ACK stops it, the timer guards what is pending: between segments,
\* with the application out of its flush, the first segment was seen alone in
\* pending by the thread that inserted it.
TimedUntilAcknowledged ==
    \A p \in Peer :
        At(p, "receiver", "wait") /\ At(p, "app", "idle") /\ pending[p] # {}
            /\ send_unacked[p] = ISN[p] =>
                retransmission[p].timer # "stopped"

-----------------------------------------------------------------------------
(* What the comments and the documentation of the code claim, and the code *)
(* does not do.  ReceiverSurvives and DueIsServed are each violated by a   *)
(* run of their own; ConfirmedIsAcknowledged, WindowIsRespected,           *)
(* TimerRunsWhilePending and SendNeverRaises are violated in the instances *)
(* of transfer_window and claim_receiver when put in the place of theirs.  *)

\* connection.py:73 says that a lock guards the window and _flush_window; what it
\* would guard is that no more than the window is in flight.
WindowIsRespected ==
    \A p \in Peer : BytesInFlight(pending[p]) <= WindowSize[p]

\* connection.py:333: the receive loop runs for the entire lifetime of an
\* established connection.
ReceiverSurvives == \A p \in Peer : ~At(p, "receiver", "dead")

\* The docstring of wait_for_acks(): it blocks until every packet currently in the
\* send window has been acknowledged, unless it returns False.
ConfirmedIsAcknowledged ==
    \A p \in Peer : At(p, "app", "confirmed") =>
        \A i \in 1..Len(sent[p]) : End(sent[p][i]) <= send_unacked[p]

\* connection.py:159-161: when an ACK clears the timer, _flush_window() restarts it
\* if there is still pending data.  Between segments, with the application out of
\* its own flush, data is pending only under a timer.
TimerRunsWhilePending ==
    \A p \in Peer :
        At(p, "receiver", "wait") /\ At(p, "app", "idle") /\ pending[p] # {} =>
            retransmission[p].timer # "stopped"

\* connection.py:59-61: the receive loop wakes up periodically to perform
\* retransmission checks.  A retransmission that is due does not stay due forever.
RetransmissionDue(p) ==
    /\ retransmission[p].timer = "expired"
    /\ pending[p] # {}
    /\ ~Exhausted(retransmission[p])

DueIsServed == \A p \in Peer : RetransmissionDue(p) ~> ~RetransmissionDue(p)

\* constants.py:19-20: MAX_PACKET_SIZE is the largest payload the packet format
\* allows, so that send() never meets a segment it cannot encode.
SendNeverRaises == \A p \in Peer : ~At(p, "app", "raised")
=============================================================================
