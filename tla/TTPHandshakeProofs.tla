------------------------- MODULE TTPHandshakeProofs -------------------------
(***************************************************************************)
(* Theorems about TTPHandshake: for any number of attempts and of accepted *)
(* connections, what the two sides of a completed handshake agree on.      *)
(***************************************************************************)
EXTENDS TTPHandshake, TLAPS, FiniteSetTheorems

\* The segments of the handshake are segments, and a SYN takes one number.
LEMMA HandshakeSegments ==
    ASSUME NEW isn \in Nat, NEW ack \in Nat, NEW flags \in SUBSET TTPFlags,
           NEW pk, pk = [flags |-> flags, seq |-> isn, ack |-> ack, payload |-> NoPayload]
    PROVE  /\ pk \in TTPPacket
           /\ flags \cap {"SYN", "FIN"} = {"SYN"} =>
                /\ SequenceSpace(pk) = 1
                /\ End(pk) = isn + 1
<1>1. pk \in TTPPacket
  BY DEF TTPPacket
<1>2. ASSUME flags \cap {"SYN", "FIN"} = {"SYN"}
      PROVE  SequenceSpace(pk) = 1
  <2>1. PayloadLength(pk) = 0
    BY DEF PayloadLength
  <2>2. Cardinality(pk.flags \cap {"SYN", "FIN"}) = 1
    BY <1>2, FS_Singleton
  <2> QED BY <2>1, <2>2 DEF SequenceSpace
<1> QED BY <1>1, <1>2 DEF End

LEMMA SynIsSegment ==
    ASSUME NEW n \in Attempt
    PROVE  /\ Syn(n) \in TTPPacket
           /\ SequenceSpace(Syn(n)) = 1 /\ End(Syn(n)) = ExpectedAck(ClientISN[n])
           /\ ExpectedAck(ClientISN[n]) \in Nat
           /\ Syn(n).flags = {"SYN"} /\ Syn(n).seq = ClientISN[n]
<1>1. ClientISN[n] \in Nat
  BY HandshakeAssumption, ChunkAssumption
<1>2. {"SYN"} \in SUBSET TTPFlags /\ {"SYN"} \cap {"SYN", "FIN"} = {"SYN"}
  BY DEF TTPFlags
<1> QED BY <1>1, <1>2, HandshakeSegments DEF Syn, ExpectedAck

LEMMA SynAckIsSegment ==
    ASSUME NEW m \in Accept, NEW r \in Nat
    PROVE  /\ SynAck(m, r) \in TTPPacket
           /\ SequenceSpace(SynAck(m, r)) = 1
           /\ End(SynAck(m, r)) = ExpectedAck(ServerISN[m])
           /\ ExpectedAck(ServerISN[m]) \in Nat
           /\ SynAck(m, r).seq = ServerISN[m] /\ SynAck(m, r).ack = r
<1>1. ServerISN[m] \in Nat
  BY HandshakeAssumption, ChunkAssumption
<1>2. {"SYN", "ACK"} \in SUBSET TTPFlags /\ {"SYN", "ACK"} \cap {"SYN", "FIN"} = {"SYN"}
  BY DEF TTPFlags
<1> QED BY <1>1, <1>2, HandshakeSegments DEF SynAck, ExpectedAck

LEMMA AckIsSegment ==
    ASSUME NEW n \in Attempt, NEW r \in Nat
    PROVE  /\ Ack(n, r) \in TTPPacket
           /\ Ack(n, r).ack = r /\ Ack(n, r).flags = {"ACK"}
<1>1. ClientISN[n] + 1 \in Nat
  BY HandshakeAssumption, ChunkAssumption
<1>2. {"ACK"} \in SUBSET TTPFlags
  BY DEF TTPFlags
<1> QED BY <1>1, <1>2, HandshakeSegments DEF Ack

\* What is left of the network after a read is some of what was there.
LEMMA ReadShrinks ==
    ASSUME NEW side, NEW pk, NEW left \in Read(side, pk)
    PROVE  left \subseteq network[side]
BY DEF Read

\* A step that only takes segments off the network changes nothing of this.
LEMMA NetworkShrinks ==
    ASSUME HandshakeInv, NEW side \in {Client, Server}, NEW left \in SUBSET network[side],
           network' = [network EXCEPT ![side] = left],
           UNCHANGED <<cstate, crecv_next, sstate, srecv_next, first>>
    PROVE  HandshakeInv'
<1>1. network'[Client] \subseteq network[Client] /\ network'[Server] \subseteq network[Server]
  BY DEF HandshakeInv, HandshakeTypeOK
<1>2. HandshakeTypeOK'
  BY <1>1 DEF HandshakeInv, HandshakeTypeOK
<1>3. InSequence' /\ ClientAgrees' /\ ServerAgrees'
  BY DEF HandshakeInv, InSequence, ClientAgrees, ServerAgrees, Agree
<1>4. SynsAndTrueAcks'
  BY <1>1 DEF HandshakeInv, SynsAndTrueAcks, Answered, Agree
<1>5. TrueSynAcks'
  BY <1>1 DEF HandshakeInv, TrueSynAcks
<1> QED BY <1>2, <1>3, <1>4, <1>5 DEF HandshakeInv
-----------------------------------------------------------------------------
(* One lemma for each step that changes a state *)

LEMMA ConnectStep ==
    ASSUME HandshakeInv, NEW n \in Attempt, Connect(n)
    PROVE  HandshakeInv'
<1>1. /\ Syn(n) \in TTPPacket
      /\ network' = [network EXCEPT ![Server] = @ \cup {Syn(n)}]
      /\ cstate' = [cstate EXCEPT ![n] = "SYN_SENT"]
      /\ UNCHANGED <<crecv_next, sstate, srecv_next, first>>
  BY SynIsSegment DEF Connect
<1>2. HandshakeTypeOK'
  <2>1. cstate' \in [Attempt -> ClientState] /\ network' \in [{Client, Server} -> SUBSET TTPPacket]
    BY <1>1 DEF HandshakeInv, HandshakeTypeOK, ClientState
  <2>2. \A k \in Attempt : cstate'[k] = "ESTABLISHED" => cstate[k] = "ESTABLISHED"
    BY <1>1 DEF HandshakeInv, HandshakeTypeOK
  <2> QED BY <1>1, <2>1, <2>2 DEF HandshakeInv, HandshakeTypeOK
<1>3. InSequence'
  BY <1>1 DEF HandshakeInv, HandshakeTypeOK, InSequence, Connect, Attempt
<1>4. SynsAndTrueAcks'
  <2>1. \A k \in Attempt : k # n => cstate'[k] = cstate[k]
    BY <1>1 DEF HandshakeInv, HandshakeTypeOK
  <2>2. network'[Server] = network[Server] \cup {Syn(n)}
    BY <1>1 DEF HandshakeInv, HandshakeTypeOK
  <2>3. \A k \in Attempt : Answered(k)' <=> Answered(k)
    BY <1>1 DEF Answered, Agree
  <2>4. cstate[n] = "CLOSED"
    BY DEF Connect
  <2> QED BY <1>1, <2>1, <2>2, <2>3, <2>4 DEF HandshakeInv, SynsAndTrueAcks
<1>5. TrueSynAcks'
  BY <1>1, HandshakeAssumption DEF HandshakeInv, HandshakeTypeOK, TrueSynAcks
<1>6. ClientAgrees' /\ ServerAgrees'
  <2>1. cstate[n] = "CLOSED"
    BY DEF Connect
  <2>2. \A k \in Attempt : k # n => cstate'[k] = cstate[k]
    BY <1>1 DEF HandshakeInv, HandshakeTypeOK
  <2>3. cstate'[n] = "SYN_SENT"
    BY <1>1 DEF HandshakeInv, HandshakeTypeOK
  <2>4. \A k \in Attempt, m \in Accept : Agree(k, m)' <=> Agree(k, m)
    BY <1>1 DEF Agree
  <2>5. ClientAgrees'
    BY <1>1, <2>2, <2>3, <2>4 DEF HandshakeInv, ClientAgrees
  <2>6. ServerAgrees'
    BY <1>1, <2>1, <2>2, <2>4 DEF HandshakeInv, ServerAgrees
  <2> QED BY <2>5, <2>6
<1> QED BY <1>2, <1>3, <1>4, <1>5, <1>6 DEF HandshakeInv

LEMMA LeaveStep ==
    ASSUME HandshakeInv, NEW n \in Attempt, Leave(n)
    PROVE  HandshakeInv'
<1>1. /\ cstate' = [cstate EXCEPT ![n] = "GONE"]
      /\ UNCHANGED <<crecv_next, sstate, srecv_next, first, network>>
      /\ cstate[n] \in {"SYN_SENT", "ESTABLISHED"}
  BY DEF Leave
<1>2. HandshakeTypeOK'
  BY <1>1 DEF HandshakeInv, HandshakeTypeOK, ClientState
<1>3. InSequence'
  BY <1>1 DEF HandshakeInv, HandshakeTypeOK, InSequence
<1>4. SynsAndTrueAcks' /\ TrueSynAcks'
  BY <1>1 DEF HandshakeInv, HandshakeTypeOK, SynsAndTrueAcks, TrueSynAcks, Answered, Agree
<1>5. ClientAgrees' /\ ServerAgrees'
  BY <1>1 DEF HandshakeInv, HandshakeTypeOK, ClientAgrees, ServerAgrees, Agree
<1> QED BY <1>2, <1>3, <1>4, <1>5 DEF HandshakeInv

\* The SYN-ACK that is taken was built for this attempt, by a connection whose
\* numbers are the ones the client now expects.
LEMMA TakeSynAckStep ==
    ASSUME HandshakeInv, NEW n \in Attempt, TakeSynAck(n)
    PROVE  HandshakeInv'
<1>1. /\ cstate[n] = "SYN_SENT"
      /\ UNCHANGED <<sstate, srecv_next, first>>
  BY DEF TakeSynAck
<1>2. PICK pk \in network[Client] : \E left \in Read(Client, pk) :
         /\ {"SYN", "ACK"} \subseteq pk.flags
         /\ \/ /\ pk.ack # ExpectedAck(ClientISN[n])
               /\ cstate' = [cstate EXCEPT ![n] = "FAILED"]
               /\ network' = [network EXCEPT ![Client] = left]
               /\ UNCHANGED crecv_next
            \/ /\ pk.ack = ExpectedAck(ClientISN[n])
               /\ crecv_next' = [crecv_next EXCEPT ![n] = pk.seq + SequenceSpace(pk)]
               /\ \/ /\ Encodable(Ack(n, End(pk)))
                     /\ cstate' = [cstate EXCEPT ![n] = "ESTABLISHED"]
                     /\ network' = [network EXCEPT ![Client] = left,
                                                   ![Server] = @ \cup {Ack(n, End(pk))}]
                  \/ /\ ~Encodable(Ack(n, End(pk)))
                     /\ cstate' = [cstate EXCEPT ![n] = "FAILED"]
                     /\ network' = [network EXCEPT ![Client] = left]
  BY DEF TakeSynAck
<1>3. PICK m \in Accept : sstate[m] # "CLOSED" /\ pk = SynAck(m, srecv_next[m])
  BY DEF HandshakeInv, TrueSynAcks
<1>4. /\ pk.seq + SequenceSpace(pk) = ExpectedAck(ServerISN[m])
      /\ End(pk) = ExpectedAck(ServerISN[m])
      /\ ExpectedAck(ServerISN[m]) \in Nat
      /\ pk.ack = srecv_next[m]
  <2>1. srecv_next[m] \in Nat
    BY DEF HandshakeInv, HandshakeTypeOK
  <2> QED BY <1>3, <2>1, SynAckIsSegment DEF End
<1> DEFINE ack == Ack(n, ExpectedAck(ServerISN[m]))
<1>5. ack \in TTPPacket
  BY <1>4, AckIsSegment
<1>6. /\ cstate'[n] \in {"FAILED", "ESTABLISHED"}
      /\ cstate' \in [Attempt -> ClientState]
      /\ crecv_next' \in [Attempt -> Nat]
      /\ \A k \in Attempt : k # n => cstate'[k] = cstate[k] /\ crecv_next'[k] = crecv_next[k]
  BY <1>2, <1>4 DEF HandshakeInv, HandshakeTypeOK, ClientState
<1>7. /\ network'[Client] \subseteq network[Client]
      /\ network'[Server] \subseteq network[Server] \cup {ack}
      /\ network' \in [{Client, Server} -> SUBSET TTPPacket]
      /\ ack \in network'[Server] \ network[Server] => cstate'[n] = "ESTABLISHED"
  <2>1. PICK left \in Read(Client, pk) :
          \/ network' = [network EXCEPT ![Client] = left]
          \/ /\ network' = [network EXCEPT ![Client] = left, ![Server] = @ \cup {ack}]
             /\ cstate' = [cstate EXCEPT ![n] = "ESTABLISHED"]
    BY <1>2, <1>4
  <2>2. left \subseteq network[Client]
    BY ReadShrinks
  <2>3. network \in [{Client, Server} -> SUBSET TTPPacket] /\ Client # Server
    BY HandshakeAssumption DEF HandshakeInv, HandshakeTypeOK
  <2>4. cstate \in [Attempt -> ClientState]
    BY DEF HandshakeInv, HandshakeTypeOK
  <2> HIDE DEF ack
  <2>5. CASE network' = [network EXCEPT ![Client] = left]
    BY <2>2, <2>3, <2>5
  <2>6. CASE /\ network' = [network EXCEPT ![Client] = left, ![Server] = @ \cup {ack}]
             /\ cstate' = [cstate EXCEPT ![n] = "ESTABLISHED"]
    BY <1>5, <2>2, <2>3, <2>4, <2>6
  <2> QED BY <2>1, <2>5, <2>6
<1>8. cstate'[n] = "ESTABLISHED" => Agree(n, m)' /\ crecv_next'[n] = ExpectedAck(ServerISN[m])
  BY <1>1, <1>2, <1>4 DEF HandshakeInv, HandshakeTypeOK, Agree, ClientState
<1>9. HandshakeTypeOK'
  <2>1. ExpectedAck(ServerISN[m]) > 0
    BY HandshakeAssumption, ChunkAssumption DEF ExpectedAck
  <2>2. \A k \in Attempt : cstate'[k] = "ESTABLISHED" => crecv_next'[k] > 0
    BY <1>6, <1>8, <2>1 DEF HandshakeInv, HandshakeTypeOK
  <2> QED BY <1>1, <1>6, <1>7, <2>2 DEF HandshakeInv, HandshakeTypeOK
<1>10. InSequence'
  BY <1>1, <1>6 DEF HandshakeInv, InSequence
<1>11. ASSUME NEW k \in Attempt, NEW j \in Accept, k # n, Agree(k, j)
       PROVE  Agree(k, j)'
  BY <1>1, <1>6, <1>11 DEF Agree
<1>12. SynsAndTrueAcks'
  <2>1. SUFFICES ASSUME NEW q \in network'[Server]
        PROVE  \E k \in Attempt :
                 \/ q = Syn(k)
                 \/ /\ q = Ack(k, crecv_next'[k])
                    /\ cstate'[k] \notin {"CLOSED", "SYN_SENT"}
                    /\ Answered(k)'
    BY DEF SynsAndTrueAcks
  <2>2. CASE q \in network[Server]
    <3>1. PICK k \in Attempt :
             \/ q = Syn(k)
             \/ /\ q = Ack(k, crecv_next[k])
                /\ cstate[k] \notin {"CLOSED", "SYN_SENT"}
                /\ Answered(k)
      BY <2>2 DEF HandshakeInv, SynsAndTrueAcks
    <3>2. CASE q = Syn(k)
      BY <3>2
    <3>3. CASE /\ q = Ack(k, crecv_next[k])
               /\ cstate[k] \notin {"CLOSED", "SYN_SENT"}
               /\ Answered(k)
      <4>1. k # n
        BY <1>1, <3>3
      <4>2. Answered(k)'
        BY <1>1, <1>11, <3>3, <4>1 DEF Answered
      <4> QED BY <1>6, <3>3, <4>1, <4>2
    <3> QED BY <3>1, <3>2, <3>3
  <2>3. CASE q \notin network[Server]
    <3>1. q = ack /\ cstate'[n] = "ESTABLISHED"
      BY <1>7, <2>3
    <3>2. Answered(n)'
      BY <1>1, <1>3, <1>8, <3>1 DEF Answered
    <3>3. q = Ack(n, crecv_next'[n])
      BY <1>8, <3>1
    <3> QED BY <3>1, <3>2, <3>3
  <2> QED BY <2>2, <2>3
<1>13. TrueSynAcks'
  BY <1>1, <1>7 DEF HandshakeInv, TrueSynAcks
<1>14. ClientAgrees'
  <2>1. SUFFICES ASSUME NEW k \in Attempt, cstate'[k] = "ESTABLISHED"
        PROVE  \E j \in Accept : sstate'[j] # "CLOSED" /\ Agree(k, j)'
    BY DEF ClientAgrees
  <2>2. CASE k = n
    BY <1>1, <1>3, <1>8, <2>1, <2>2
  <2>3. CASE k # n
    <3>1. PICK j \in Accept : sstate[j] # "CLOSED" /\ Agree(k, j)
      BY <1>6, <2>1, <2>3 DEF HandshakeInv, ClientAgrees
    <3> QED BY <1>1, <1>11, <2>3, <3>1
  <2> QED BY <2>2, <2>3
<1>15. ServerAgrees'
  <2>1. SUFFICES ASSUME NEW j \in Accept, sstate'[j] = "ESTABLISHED"
        PROVE  \E k \in Attempt : cstate'[k] \notin {"CLOSED", "SYN_SENT"} /\ Agree(k, j)'
    BY DEF ServerAgrees
  <2>2. PICK k \in Attempt : Agree(k, j) /\ cstate[k] \notin {"CLOSED", "SYN_SENT"}
    BY <1>1, <2>1 DEF HandshakeInv, ServerAgrees
  <2>3. k # n
    BY <1>1, <2>2
  <2> QED BY <1>6, <1>11, <2>2, <2>3
<1> QED BY <1>9, <1>10, <1>12, <1>13, <1>14, <1>15 DEF HandshakeInv

\* A connection that fails at once is of no consequence to the others.
LEMMA AcceptFailsStep ==
    ASSUME HandshakeInv, NEW m \in Accept, Listening(m),
           NEW left \in SUBSET network[Server], network' = [network EXCEPT ![Server] = left],
           sstate' = [sstate EXCEPT ![m] = "FAILED"],
           UNCHANGED <<cstate, crecv_next, srecv_next, first>>
    PROVE  HandshakeInv'
<1>1. /\ sstate[m] = "CLOSED"
      /\ \A k \in Accept : k < m => sstate[k] \in {"ESTABLISHED", "FAILED"}
  BY DEF Listening
<1>2. /\ sstate' \in [Accept -> ServerState]
      /\ sstate'[m] = "FAILED"
      /\ \A k \in Accept : k # m => sstate'[k] = sstate[k]
  BY DEF HandshakeInv, HandshakeTypeOK, ServerState
<1>3. /\ network' \in [{Client, Server} -> SUBSET TTPPacket]
      /\ network'[Client] \subseteq network[Client] /\ network'[Server] \subseteq network[Server]
  BY HandshakeAssumption DEF HandshakeInv, HandshakeTypeOK
<1>4. HandshakeTypeOK'
  BY <1>2, <1>3 DEF HandshakeInv, HandshakeTypeOK
<1>5. InSequence'
  <2>1. \A k \in Accept : m < k => sstate[k] = "CLOSED"
    BY <1>1 DEF HandshakeInv, InSequence, HandshakeTypeOK, ServerState
  <2> QED BY <1>1, <1>2, <2>1 DEF HandshakeInv, InSequence, Accept
<1>6. \A k \in Attempt, j \in Accept : Agree(k, j) <=> Agree(k, j)'
  BY DEF Agree
<1>7. SynsAndTrueAcks'
  <2>1. \A k \in Attempt : Answered(k) => Answered(k)'
    BY <1>2, <1>6 DEF Answered
  <2> QED BY <1>3, <2>1 DEF HandshakeInv, SynsAndTrueAcks
<1>8. TrueSynAcks'
  BY <1>2, <1>3 DEF HandshakeInv, TrueSynAcks
<1>9. ClientAgrees' /\ ServerAgrees'
  BY <1>2, <1>6 DEF HandshakeInv, ClientAgrees, ServerAgrees
<1> QED BY <1>4, <1>5, <1>7, <1>8, <1>9 DEF HandshakeInv

\* A new connection gets its numbers: no segment in flight, and no agreement, can
\* depend on those it had.
LEMMA TakeSynStep ==
    ASSUME HandshakeInv, NEW m \in Accept, TakeSyn(m), m = first
    PROVE  HandshakeInv'
<1>1. /\ sstate[m] = "CLOSED"
      /\ \A k \in Accept : k < m => sstate[k] \in {"ESTABLISHED", "FAILED"}
      /\ UNCHANGED <<cstate, crecv_next, first>>
  BY DEF TakeSyn, Listening
<1>2. PICK pk \in network[Server] : \E left \in Read(Server, pk) :
         /\ "SYN" \in pk.flags
         /\ srecv_next' = [srecv_next EXCEPT ![m] = pk.seq + SequenceSpace(pk)]
         /\ \/ /\ Encodable(SynAck(m, End(pk)))
               /\ sstate' = [sstate EXCEPT ![m] = "SYN_RECEIVED"]
               /\ network' = [network EXCEPT ![Server] = left,
                                             ![Client] = @ \cup {SynAck(m, End(pk))}]
            \/ /\ ~Encodable(SynAck(m, End(pk)))
               /\ sstate' = [sstate EXCEPT ![m] = "FAILED"]
               /\ network' = [network EXCEPT ![Server] = left]
  BY DEF TakeSyn
<1>3. PICK n \in Attempt : pk = Syn(n)
  <2>1. PICK n \in Attempt : pk = Syn(n) \/ pk = Ack(n, crecv_next[n])
    BY DEF HandshakeInv, SynsAndTrueAcks
  <2>2. pk # Ack(n, crecv_next[n])
    BY <1>2, AckIsSegment DEF HandshakeInv, HandshakeTypeOK
  <2> QED BY <2>1, <2>2
<1>4. /\ pk.seq + SequenceSpace(pk) = ExpectedAck(ClientISN[n])
      /\ End(pk) = ExpectedAck(ClientISN[n])
      /\ ExpectedAck(ClientISN[n]) \in Nat
  BY <1>3, SynIsSegment DEF End
<1> DEFINE synack == SynAck(m, ExpectedAck(ClientISN[n]))
<1>5. synack \in TTPPacket
  BY <1>4, SynAckIsSegment
<1>6. /\ sstate'[m] \in {"SYN_RECEIVED", "FAILED"}
      /\ sstate' \in [Accept -> ServerState]
      /\ srecv_next' \in [Accept -> Nat]
      /\ srecv_next'[m] = ExpectedAck(ClientISN[n])
      /\ \A k \in Accept : k # m => sstate'[k] = sstate[k] /\ srecv_next'[k] = srecv_next[k]
  BY <1>2, <1>4 DEF HandshakeInv, HandshakeTypeOK, ServerState
<1>7. /\ network'[Server] \subseteq network[Server]
      /\ network'[Client] \subseteq network[Client] \cup {synack}
      /\ network' \in [{Client, Server} -> SUBSET TTPPacket]
  <2>1. PICK left \in Read(Server, pk) :
          \/ network' = [network EXCEPT ![Server] = left]
          \/ network' = [network EXCEPT ![Server] = left, ![Client] = @ \cup {synack}]
    BY <1>2, <1>4
  <2>2. left \subseteq network[Server]
    BY ReadShrinks
  <2>3. network \in [{Client, Server} -> SUBSET TTPPacket] /\ Client # Server
    BY HandshakeAssumption DEF HandshakeInv, HandshakeTypeOK
  <2> HIDE DEF synack
  <2> QED BY <1>5, <2>1, <2>2, <2>3
<1>8. HandshakeTypeOK'
  <2>1. ExpectedAck(ClientISN[n]) > 0
    BY HandshakeAssumption, ChunkAssumption DEF ExpectedAck
  <2>2. \A k \in Accept :
          /\ sstate'[k] \in {"SYN_RECEIVED", "ESTABLISHED"} => srecv_next'[k] > 0
          /\ sstate'[k] = "SYN_RECEIVED" => k = first
    BY <1>6, <2>1 DEF HandshakeInv, HandshakeTypeOK
  <2> QED BY <1>1, <1>6, <1>7, <2>2 DEF HandshakeInv, HandshakeTypeOK
<1>9. InSequence'
  <2>1. \A k \in Accept : m < k => sstate[k] = "CLOSED"
    BY <1>1 DEF HandshakeInv, InSequence, HandshakeTypeOK, ServerState
  <2> QED BY <1>1, <1>6, <2>1 DEF HandshakeInv, InSequence, Accept
<1>10. ASSUME NEW k \in Attempt, NEW j \in Accept, sstate[j] # "CLOSED", Agree(k, j)
       PROVE  sstate'[j] # "CLOSED" /\ Agree(k, j)'
  BY <1>1, <1>6, <1>10 DEF Agree
<1>11. SynsAndTrueAcks'
  <2>1. \A k \in Attempt : Answered(k) => Answered(k)'
    BY <1>10 DEF Answered
  <2> QED BY <1>1, <1>7, <2>1 DEF HandshakeInv, SynsAndTrueAcks
<1>12. TrueSynAcks'
  <2>1. \A k \in Accept : sstate[k] # "CLOSED" =>
          sstate'[k] # "CLOSED" /\ srecv_next'[k] = srecv_next[k]
    BY <1>1, <1>6
  <2>2. sstate'[m] # "CLOSED" /\ synack = SynAck(m, srecv_next'[m])
    BY <1>6
  <2> HIDE DEF synack
  <2> QED BY <1>7, <2>1, <2>2 DEF HandshakeInv, TrueSynAcks
<1>13. ClientAgrees'
  BY <1>1, <1>10 DEF HandshakeInv, ClientAgrees
<1>14. ServerAgrees'
  <2>1. SUFFICES ASSUME NEW j \in Accept, sstate'[j] = "ESTABLISHED"
        PROVE  \E k \in Attempt : cstate'[k] \notin {"CLOSED", "SYN_SENT"} /\ Agree(k, j)'
    BY DEF ServerAgrees
  <2>2. sstate[j] = "ESTABLISHED"
    BY <1>6, <2>1
  <2> QED BY <1>1, <1>10, <2>2 DEF HandshakeInv, ServerAgrees
<1> QED BY <1>8, <1>9, <1>11, <1>12, <1>13, <1>14 DEF HandshakeInv

\* The ACK that completes a handshake acknowledges this connection's number, which
\* no other connection has: the attempt that sent it agrees with this one.
LEMMA TakeAckStep ==
    ASSUME HandshakeInv, NEW m \in Accept, TakeAck(m)
    PROVE  HandshakeInv'
<1>1. PICK pk \in network[Server] : \E left \in Read(Server, pk) :
         /\ "ACK" \in pk.flags
         /\ network' = [network EXCEPT ![Server] = left]
         /\ sstate' = [sstate EXCEPT ![m] =
              IF pk.ack = ExpectedAck(ServerISN[m]) THEN "ESTABLISHED" ELSE "FAILED"]
  BY DEF TakeAck
<1>2. sstate[m] = "SYN_RECEIVED" /\ UNCHANGED <<cstate, crecv_next, srecv_next, first>>
  BY DEF TakeAck
<1>3. /\ sstate' \in [Accept -> ServerState]
      /\ sstate'[m] \in {"ESTABLISHED", "FAILED"}
      /\ sstate'[m] = "ESTABLISHED" => pk.ack = ExpectedAck(ServerISN[m])
      /\ \A k \in Accept : k # m => sstate'[k] = sstate[k]
  BY <1>1 DEF HandshakeInv, HandshakeTypeOK, ServerState
<1>4. /\ network' \in [{Client, Server} -> SUBSET TTPPacket]
      /\ network'[Client] \subseteq network[Client] /\ network'[Server] \subseteq network[Server]
  BY <1>1, ReadShrinks, HandshakeAssumption DEF HandshakeInv, HandshakeTypeOK
<1>5. HandshakeTypeOK'
  BY <1>2, <1>3, <1>4 DEF HandshakeInv, HandshakeTypeOK
<1>6. InSequence'
  BY <1>2, <1>3 DEF HandshakeInv, InSequence
<1>7. \A k \in Attempt, j \in Accept : Agree(k, j) <=> Agree(k, j)'
  BY <1>2 DEF Agree
<1>8. SynsAndTrueAcks'
  <2>1. \A k \in Attempt : Answered(k) => Answered(k)'
    BY <1>2, <1>3, <1>7 DEF Answered
  <2> QED BY <1>2, <1>4, <2>1 DEF HandshakeInv, SynsAndTrueAcks
<1>9. TrueSynAcks'
  BY <1>2, <1>3, <1>4 DEF HandshakeInv, TrueSynAcks
<1>10. ClientAgrees'
  BY <1>2, <1>3, <1>7 DEF HandshakeInv, ClientAgrees
<1>11. ServerAgrees'
  <2>1. SUFFICES ASSUME NEW j \in Accept, sstate'[j] = "ESTABLISHED"
        PROVE  \E k \in Attempt : cstate[k] \notin {"CLOSED", "SYN_SENT"} /\ Agree(k, j)
    BY <1>2, <1>7 DEF ServerAgrees
  <2>2. CASE j # m
    BY <1>3, <2>1, <2>2 DEF HandshakeInv, ServerAgrees
  <2>3. CASE j = m
    <3>1. PICK n \in Attempt :
             \/ pk = Syn(n)
             \/ /\ pk = Ack(n, crecv_next[n])
                /\ cstate[n] \notin {"CLOSED", "SYN_SENT"}
                /\ Answered(n)
      BY DEF HandshakeInv, SynsAndTrueAcks
    <3>2. pk # Syn(n)
      BY <1>1, SynIsSegment
    <3>3. pk.ack = crecv_next[n]
      BY <3>1, <3>2, AckIsSegment DEF HandshakeInv, HandshakeTypeOK
    <3>4. PICK i \in Accept : Agree(n, i)
      BY <3>1, <3>2 DEF Answered
    <3>5. ServerISN[i] \in Nat /\ ServerISN[m] \in Nat
      BY HandshakeAssumption, ChunkAssumption
    <3>6. ServerISN[i] = ServerISN[m]
      BY <1>3, <2>1, <2>3, <3>3, <3>4, <3>5 DEF Agree, ExpectedAck
    <3>7. i = m
      BY <3>6, HandshakeAssumption
    <3> QED BY <2>3, <3>1, <3>2, <3>4, <3>7
  <2> QED BY <2>2, <2>3
<1> QED BY <1>5, <1>6, <1>8, <1>9, <1>10, <1>11 DEF HandshakeInv

-----------------------------------------------------------------------------

\* A restart gives up the handshake that was under way.
LEMMA RestartServerStep ==
    ASSUME HandshakeInv, RestartServer
    PROVE  HandshakeInv'
<1>1. /\ sstate' = [m \in Accept |->
                      IF sstate[m] = "SYN_RECEIVED" THEN "FAILED" ELSE sstate[m]]
      /\ first' \in Nat
      /\ UNCHANGED <<cstate, crecv_next, srecv_next, network>>
  BY DEF RestartServer, Accept
<1>2. /\ sstate' \in [Accept -> ServerState]
      /\ \A m \in Accept : /\ sstate'[m] = "CLOSED" <=> sstate[m] = "CLOSED"
                           /\ sstate'[m] = "ESTABLISHED" <=> sstate[m] = "ESTABLISHED"
                           /\ sstate'[m] # "SYN_RECEIVED"
                           /\ sstate[m] = "FAILED" => sstate'[m] = "FAILED"
  BY <1>1 DEF HandshakeInv, HandshakeTypeOK, ServerState
<1>3. HandshakeTypeOK'
  BY <1>1, <1>2 DEF HandshakeInv, HandshakeTypeOK
<1>4. InSequence'
  BY <1>1, <1>2 DEF HandshakeInv, InSequence
<1>5. \A k \in Attempt, j \in Accept : Agree(k, j) <=> Agree(k, j)'
  BY <1>1 DEF Agree
<1>6. SynsAndTrueAcks' /\ TrueSynAcks'
  BY <1>1, <1>2, <1>5 DEF HandshakeInv, SynsAndTrueAcks, TrueSynAcks, Answered
<1>7. ClientAgrees' /\ ServerAgrees'
  BY <1>1, <1>2, <1>5 DEF HandshakeInv, ClientAgrees, ServerAgrees
<1> QED BY <1>3, <1>4, <1>6, <1>7 DEF HandshakeInv

LEMMA HandshakeInvInit == HandshakeInit => HandshakeInv
<1> SUFFICES ASSUME HandshakeInit PROVE HandshakeInv
  OBVIOUS
<1>1. HandshakeTypeOK
  BY DEF HandshakeInit, HandshakeTypeOK, ClientState, ServerState
<1> QED BY <1>1 DEF HandshakeInit, HandshakeInv, InSequence, SynsAndTrueAcks, TrueSynAcks,
                   ClientAgrees, ServerAgrees

LEMMA HandshakeInvStep == HandshakeInv /\ [HandshakeNext]_handshakeVars => HandshakeInv'
<1> SUFFICES ASSUME HandshakeInv, [HandshakeNext]_handshakeVars
             PROVE  HandshakeInv'
  OBVIOUS
<1>1. ASSUME NEW n \in Attempt, Connect(n) PROVE HandshakeInv'
  BY <1>1, ConnectStep
<1>2. ASSUME NEW n \in Attempt, TakeSynAck(n) PROVE HandshakeInv'
  BY <1>2, TakeSynAckStep
<1>3. ASSUME NEW n \in Attempt, ClientReceives(n) PROVE HandshakeInv'
  BY <1>3, ReadShrinks, NetworkShrinks DEF ClientReceives
<1>4. ASSUME NEW n \in Attempt, Leave(n) PROVE HandshakeInv'
  BY <1>4, LeaveStep
<1>5. ASSUME NEW m \in Accept, TakeSyn(m) PROVE HandshakeInv'
  <2>1. CASE m = first
    BY <1>5, <2>1, TakeSynStep
  <2>2. CASE m # first
    BY <1>5, <2>2, ReadShrinks, AcceptFailsStep DEF TakeSyn
  <2> QED BY <2>1, <2>2
<1>6. ASSUME NEW m \in Accept, TakeAck(m) PROVE HandshakeInv'
  BY <1>6, TakeAckStep
<1>7. ASSUME NEW m \in Accept, Discard(m) \/ ServerReceives(m) PROVE HandshakeInv'
  BY <1>7, ReadShrinks, NetworkShrinks DEF Discard, ServerReceives
<1>8. CASE LoseSegment
  BY <1>8, NetworkShrinks DEF LoseSegment
<1>9. CASE RestartServer
  BY <1>9, RestartServerStep
<1>10. CASE UNCHANGED handshakeVars
  BY <1>10 DEF handshakeVars, HandshakeInv, HandshakeTypeOK, InSequence, SynsAndTrueAcks,
              TrueSynAcks, Answered, Agree, ClientAgrees, ServerAgrees
<1> QED BY <1>1, <1>2, <1>3, <1>4, <1>5, <1>6, <1>7, <1>8, <1>9, <1>10 DEF HandshakeNext

\* HandshakeInv holds of every state of the handshake, for any numbers of attempts
\* and accepted connections.
THEOREM HandshakeInvariance == HandshakeSpec => []HandshakeInv
BY HandshakeInvInit, HandshakeInvStep, PTL DEF HandshakeSpec

\* The states, the numbers and the messages of any number of attempts and accepts stay
\* within their types, restarts of the server included.
THEOREM HandshakeTypes == HandshakeSpec => []HandshakeTypeOK
<1>1. HandshakeInv => HandshakeTypeOK
  BY DEF HandshakeInv
<1> QED BY <1>1, HandshakeInvariance, PTL

\* A connection accepted by the server and the client attempt that completed it
\* expect each other's next numbers (_server_handshake_from_syn).
THEOREM AcceptedIsAgreed == HandshakeSpec => []ServerAgrees
<1>1. HandshakeInv => ServerAgrees
  BY DEF HandshakeInv
<1> QED BY <1>1, HandshakeInvariance, PTL

\* An established client was answered for this attempt (_client_handshake).
THEOREM ConnectedIsAgreed == HandshakeSpec => []ClientAgrees
<1>1. HandshakeInv => ClientAgrees
  BY DEF HandshakeInv
<1> QED BY <1>1, HandshakeInvariance, PTL

\* Two connections of the server never belong to the same attempt, however often
\* its SYN arrives.
THEOREM AcceptedOnce == HandshakeSpec => []OneConnectionPerAttempt
<1>1. HandshakeInv => OneConnectionPerAttempt
  <2>1. SUFFICES ASSUME HandshakeInv, NEW m \in Accept, NEW k \in Accept,
                        sstate[m] = "ESTABLISHED", sstate[k] = "ESTABLISHED",
                        srecv_next[m] = srecv_next[k]
        PROVE  m = k
    BY DEF OneConnectionPerAttempt
  <2>2. PICK n \in Attempt : Agree(n, m)
    BY <2>1 DEF HandshakeInv, ServerAgrees
  <2>3. PICK i \in Attempt : Agree(i, k)
    BY <2>1 DEF HandshakeInv, ServerAgrees
  <2>4. /\ ClientISN[n] \in Nat /\ ClientISN[i] \in Nat
        /\ ServerISN[m] \in Nat /\ ServerISN[k] \in Nat
    BY HandshakeAssumption, ChunkAssumption
  <2>5. n = i
    <3>1. srecv_next[m] = ClientISN[n] + 1 /\ srecv_next[k] = ClientISN[i] + 1
      BY <2>2, <2>3 DEF Agree, ExpectedAck
    <3>2. srecv_next[m] = srecv_next[k]
      BY <2>1
    <3>3. ClientISN[n] = ClientISN[i]
      BY <2>4, <3>1, <3>2
    <3> QED BY <3>3, HandshakeAssumption
  <2>6. ServerISN[m] = ServerISN[k]
    BY <2>2, <2>3, <2>4, <2>5 DEF Agree, ExpectedAck
  <2> QED BY <2>6, HandshakeAssumption
<1> QED BY <1>1, HandshakeInvariance, PTL
=============================================================================
