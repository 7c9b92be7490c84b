------------------------- MODULE TTLSSessionProofs -------------------------
(***************************************************************************)
(* Theorems about TTLSSession: for every message, every size of message    *)
(* and of window, what the two programs agree on, and which of their calls *)
(* can raise.                                                              *)
(***************************************************************************)
EXTENDS TTLSSession, TLAPS, SequenceTheorems

-----------------------------------------------------------------------------
(* The inductive invariant: where each program is tells what it has added  *)
(* to its transcript, sent and taken; what it has sent is always the same; *)
(* and what has arrived is what was sent.                                  *)

OfferedSuite == "TTLS_AES_256_GCM"

ClientHello == [type |-> "CLIENT_HELLO", suite |-> OfferedSuite]
ServerHello == [type |-> "SERVER_HELLO", suite |-> OfferedSuite]

BothHellos == <<ClientHello, ServerHello>>

TheFinished == [type |-> "FINISHED", verify_data |-> BothHellos]

Given(p) == IF p = Client THEN toServer ELSE toClient

\* At one of these calls, this is the transcript, the suite, how many records have
\* been sent, how many taken, and the key.
Reached(p, calls, hellos, s, sent, received, key) ==
    /\ pc[p] \in calls
    /\ transcript[p] = hellos
    /\ suite[p] = s
    /\ Len(Given(p)) = sent
    /\ taken[p] = received
    /\ cipher[p] = key

ClientProgress ==
    \/ Reached(Client, {"send_client_hello"}, << >>, NoValue, 0, 0, NoValue)
    \/ Reached(Client, {"recv_server_hello"}, <<ClientHello>>, NoValue, 1, 0, NoValue)
    \/ Reached(Client, {"send_finished"}, BothHellos, OfferedSuite, 1, 1, NoValue)
    \/ Reached(Client, {"recv_finished"}, BothHellos, OfferedSuite, 2, 1, NoValue)
    \/ Reached(Client, {"send_data"}, BothHellos, OfferedSuite, 2, 2, NoValue)
    \/ Reached(Client, {"wait_for_acks", "close", "done"}, BothHellos, OfferedSuite, 3, 2, SharedKey)

ServerProgress ==
    \/ Reached(Server, {"recv_client_hello"}, << >>, NoValue, 0, 0, NoValue)
    \/ Reached(Server, {"send_server_hello"}, <<ClientHello>>, OfferedSuite, 0, 1, NoValue)
    \/ Reached(Server, {"recv_finished"}, BothHellos, OfferedSuite, 1, 1, NoValue)
    \/ Reached(Server, {"send_finished"}, BothHellos, OfferedSuite, 1, 2, NoValue)
    \/ Reached(Server, {"set_cipher"}, BothHellos, OfferedSuite, 2, 2, NoValue)
    \/ Reached(Server, {"recv_data", "failed"}, BothHellos, OfferedSuite, 2, 2, SharedKey)
    \/ /\ Reached(Server, {"close", "done"}, BothHellos, OfferedSuite, 2, 3, SharedKey)
       /\ plaintext = message

\* What is sent first, second and third.
OnlyTheseSent ==
    /\ Len(toServer) >= 1 => toServer[1] = HandshakeRecord(ClientHello)
    /\ Len(toServer) >= 2 => toServer[2] = HandshakeRecord(TheFinished)
    /\ Len(toServer) >= 3 => toServer[3] = DataRecord(SharedKey, message)
    /\ Len(toClient) >= 1 => toClient[1] = HandshakeRecord(ServerHello)
    /\ Len(toClient) >= 2 => toClient[2] = HandshakeRecord(TheFinished)

IsPrefixOf(s, t) ==
    /\ Len(s) <= Len(t)
    /\ \A i \in 1..Len(s) : s[i] = t[i]

StreamsInOrder ==
    /\ IsPrefixOf(atServer, toServer) /\ taken[Server] <= Len(atServer)
    /\ IsPrefixOf(atClient, toClient) /\ taken[Client] <= Len(atClient)

\* A state is left only for the end of the program or of the other side's.
ConnectionEnds ==
    \A p, q \in Peer : p # q =>
        /\ closing[p] => pc[p] = "done"
        /\ state[p] = "CLOSED" => pc[p] = "done"
        /\ state[p] = "FIN_WAIT" => closing[q]
        /\ pc[p] = "failed" => state[p] = "FIN_WAIT"

SessionVariables ==
    /\ pc \in [Peer -> ClientCalls \cup ServerCalls]
    /\ polling \in [Peer -> BOOLEAN]
    /\ \A p \in Peer : polling[p] => pc[p] \in Receiving
    /\ transcript \in [Peer -> Seq(Hello)]
    /\ suite \in [Peer -> CipherSuite \cup {NoValue}]
    /\ cipher \in [Peer -> {SharedKey, NoValue}]
    /\ state \in [Peer -> {"ESTABLISHED", "FIN_WAIT", "CLOSED"}]
    /\ closing \in [Peer -> BOOLEAN]
    /\ toServer \in Seq(TTLSRecord) /\ atServer \in Seq(TTLSRecord)
    /\ toClient \in Seq(TTLSRecord) /\ atClient \in Seq(TTLSRecord)
    /\ taken \in [Peer -> Nat]
    /\ message \in Message /\ plaintext \in {message, NoValue}

SessionInv ==
    /\ SessionVariables
    /\ ClientProgress
    /\ ServerProgress
    /\ OnlyTheseSent
    /\ StreamsInOrder
    /\ ConnectionEnds

-----------------------------------------------------------------------------
(* The records *)

\* The two programs are two.
LEMMA TwoPeers ==
    /\ Client # Server /\ Peer = {Client, Server} /\ Client \in Peer /\ Server \in Peer
    /\ Given(Client) = toServer /\ Given(Server) = toClient
BY SessionAssumption DEF Peer, Given

\* A transcript with one hello, then with two.
LEMMA Transcripts ==
    /\ << >> \in Seq(Hello) /\ <<ClientHello>> \in Seq(Hello) /\ BothHellos \in Seq(Hello)
    /\ Append(<< >>, ClientHello) = <<ClientHello>>
    /\ Append(<<ClientHello>>, ServerHello) = BothHellos
<1>1. ClientHello \in Hello /\ ServerHello \in Hello
  BY DEF ClientHello, ServerHello, Hello, OfferedSuite, CipherSuite
<1>2. ASSUME NEW a \in Hello, NEW b \in Hello
      PROVE  /\ << >> \in Seq(Hello) /\ <<a>> \in Seq(Hello) /\ <<a, b>> \in Seq(Hello)
             /\ Append(<< >>, a) = <<a>>
             /\ Append(<<a>>, b) = <<a, b>>
  <2>1. << >> \in Seq(Hello) /\ <<a>> \in Seq(Hello) /\ <<a, b>> \in Seq(Hello)
    OBVIOUS
  <2>2. Append(<< >>, a) = <<a>>
    BY <2>1, AppendProperties, SeqEqual
  <2>3. Append(<<a>>, b) = <<a, b>>
    <3>1. /\ Append(<<a>>, b) \in Seq(Hello)
          /\ Len(Append(<<a>>, b)) = 2
          /\ Append(<<a>>, b)[1] = a /\ Append(<<a>>, b)[2] = b
      BY <2>1, AppendProperties
    <3>2. /\ Len(<<a, b>>) = 2 /\ <<a, b>>[1] = a /\ <<a, b>>[2] = b
      OBVIOUS
    <3>3. \A i \in 1..2 : Append(<<a>>, b)[i] = <<a, b>>[i]
      BY <3>1, <3>2
    <3> QED BY <2>1, <3>1, <3>2, <3>3, SeqEqual
  <2> QED BY <2>1, <2>2, <2>3
<1> QED BY <1>1, <1>2 DEF BothHellos

\* What the handshake sends are records, and each says what it is.
LEMMA HandshakeRecords ==
    /\ \A m \in {ClientHello, ServerHello, TheFinished} :
         /\ HandshakeRecord(m) \in TTLSRecord
         /\ HandshakeRecord(m).type = "HANDSHAKE"
         /\ HandshakeRecord(m).payload = m
    /\ ClientHello.type = "CLIENT_HELLO" /\ ClientHello.suite = OfferedSuite
    /\ ServerHello.type = "SERVER_HELLO" /\ ServerHello.suite = OfferedSuite
    /\ TheFinished.type = "FINISHED" /\ TheFinished.verify_data = BothHellos
<1>1. ClientHello \in HandshakeMessage /\ ServerHello \in HandshakeMessage
  BY DEF ClientHello, ServerHello, Hello, OfferedSuite, CipherSuite, HandshakeMessage
<1>2. TheFinished \in HandshakeMessage
  BY Transcripts DEF TheFinished, Finished, HandshakeMessage
<1>3. ASSUME NEW m \in {ClientHello, ServerHello, TheFinished}
      PROVE  /\ HandshakeRecord(m) \in TTLSRecord
             /\ HandshakeRecord(m).type = "HANDSHAKE"
             /\ HandshakeRecord(m).payload = m
  <2>1. m \in HandshakeMessage
    BY <1>1, <1>2
  <2>2. MESSAGE_HEADER_SIZE + (IF m.type = "FINISHED" THEN VERIFY_DATA_SIZE ELSE HELLO_SIZE) \in Nat
    BY DEF MESSAGE_HEADER_SIZE, VERIFY_DATA_SIZE, HELLO_SIZE
  <2> QED BY <2>1, <2>2 DEF HandshakeRecord, TTLSRecord, RecordType
<1> QED BY <1>3 DEF ClientHello, ServerHello, TheFinished

\* The encrypted record is one that decrypt() accepts.
LEMMA DataRecords ==
    ASSUME NEW text \in Message
    PROVE  /\ DataRecord(SharedKey, text) \in TTLSRecord
           /\ DataRecord(SharedKey, text).type = "APPLICATION_DATA"
           /\ DataRecord(SharedKey, text).payload.key = SharedKey
           /\ DataRecord(SharedKey, text).payload.text = text
           /\ DataRecord(SharedKey, text).payload.header =
                Header(DataRecord(SharedKey, text).type, DataRecord(SharedKey, text).length)
<1>1. NONCE_SIZE + MessageSize[text] + TAG_SIZE \in Nat
  BY SessionAssumption DEF NONCE_SIZE, TAG_SIZE
<1>2. EncryptedLength(MessageSize[text]) = NONCE_SIZE + MessageSize[text] + TAG_SIZE
  BY DEF EncryptedLength
<1> DEFINE body == [key |-> SharedKey, text |-> text,
                    header |-> Header("APPLICATION_DATA", EncryptedLength(MessageSize[text]))]
<1>3. Header("APPLICATION_DATA", EncryptedLength(MessageSize[text])) \in [type : RecordType, length : Nat]
  BY <1>1, <1>2 DEF Header, RecordType
<1>4. body \in Ciphertext
  BY <1>3 DEF Ciphertext
<1>5. DataRecord(SharedKey, text) = [type |-> "APPLICATION_DATA",
         length |-> NONCE_SIZE + MessageSize[text] + TAG_SIZE, payload |-> body]
  BY DEF DataRecord
<1> HIDE DEF body
<1>6. DataRecord(SharedKey, text) \in TTLSRecord
  BY <1>1, <1>4, <1>5 DEF TTLSRecord, RecordType
<1>7. /\ DataRecord(SharedKey, text).type = "APPLICATION_DATA"
      /\ DataRecord(SharedKey, text).length = NONCE_SIZE + MessageSize[text] + TAG_SIZE
      /\ DataRecord(SharedKey, text).payload = body
  BY <1>5
<1>8. body.key = SharedKey /\ body.text = text
      /\ body.header = Header("APPLICATION_DATA", NONCE_SIZE + MessageSize[text] + TAG_SIZE)
  BY <1>2 DEF body
<1> QED BY <1>6, <1>7, <1>8

-----------------------------------------------------------------------------
(* What the invariant says of the connection and of what arrives *)

\* No program loses its connection before it is through with the handshake: the
\* client closes only with the server's Finished, the server only with the data.
LEMMA StillEstablished ==
    ASSUME SessionInv
    PROVE  /\ state[Server] # "ESTABLISHED" =>
                pc[Server] \in {"set_cipher", "recv_data", "failed", "close", "done"}
           /\ state[Client] # "ESTABLISHED" => pc[Client] \in {"wait_for_acks", "close", "done"}
           /\ pc[Client] # "failed"
<1> USE TwoPeers DEF SessionInv
<1>1. Len(toServer) \in Nat /\ Len(atServer) \in Nat /\ Len(toClient) \in Nat /\ Len(atClient) \in Nat
  BY DEF SessionVariables
<1>2. Len(toServer) >= taken[Server] /\ Len(toClient) >= taken[Client]
  BY <1>1 DEF StreamsInOrder, IsPrefixOf, SessionVariables
<1>3. pc[Client] # "failed"
  BY DEF ClientProgress, Reached
<1>4. pc[Client] = "done" => Len(toClient) >= 2
  BY <1>2 DEF ClientProgress, Reached
<1>5. pc[Server] \in {"set_cipher", "recv_data", "failed", "close", "done"} \/ Len(toClient) = 0 \/ Len(toClient) = 1
  BY DEF ServerProgress, Reached
<1>6. pc[Server] = "done" => Len(toServer) >= 3
  BY <1>2 DEF ServerProgress, Reached
<1>7. pc[Client] \in {"wait_for_acks", "close", "done"} \/ Len(toServer) = 0 \/ Len(toServer) = 1 \/ Len(toServer) = 2
  BY DEF ClientProgress, Reached
<1>8. /\ state[Server] # "ESTABLISHED" => pc[Server] = "done" \/ pc[Client] = "done"
      /\ state[Client] # "ESTABLISHED" => pc[Client] = "done" \/ pc[Server] = "done"
  BY DEF ConnectionEnds, SessionVariables
<1> DEFINE c == Len(toClient)
           s == Len(toServer)
<1>9. c \in Nat /\ s \in Nat /\ (pc[Client] = "done" => c >= 2) /\ (pc[Server] = "done" => s >= 3)
  BY <1>1, <1>4, <1>6
<1>10. /\ pc[Server] \in {"set_cipher", "recv_data", "failed", "close", "done"} \/ c = 0 \/ c = 1
       /\ pc[Client] \in {"wait_for_acks", "close", "done"} \/ s = 0 \/ s = 1 \/ s = 2
  BY <1>5, <1>7
<1> HIDE DEF c, s
<1> QED BY <1>3, <1>8, <1>9, <1>10

\* What recv() returns is what the other side sent in that place.
LEMMA ReceivedIsSent ==
    ASSUME SessionInv, NEW p \in Peer, taken[p] < Len(Accepted(p))
    PROVE  /\ p = Server /\ taken[p] = 0 => Received(p) = HandshakeRecord(ClientHello)
           /\ p = Server /\ taken[p] = 1 => Received(p) = HandshakeRecord(TheFinished)
           /\ p = Server /\ taken[p] = 2 => Received(p) = DataRecord(SharedKey, message)
           /\ p = Client /\ taken[p] = 0 => Received(p) = HandshakeRecord(ServerHello)
           /\ p = Client /\ taken[p] = 1 => Received(p) = HandshakeRecord(TheFinished)
<1> USE TwoPeers DEF SessionInv
<1>1. taken[p] \in Nat
  BY DEF SessionVariables
<1>2. Len(toServer) \in Nat /\ Len(atServer) \in Nat /\ Len(toClient) \in Nat /\ Len(atClient) \in Nat
  BY DEF SessionVariables
<1>3. CASE p = Server
  <2>1. taken[p] + 1 \in 1..Len(atServer)
    BY <1>1, <1>2, <1>3 DEF Accepted
  <2>2. Received(p) = toServer[taken[p] + 1] /\ taken[p] + 1 <= Len(toServer)
    BY <2>1, <1>2, <1>3 DEF Received, Accepted, StreamsInOrder, IsPrefixOf
  <2> QED BY <2>2, <1>2, <1>3 DEF OnlyTheseSent
<1>4. CASE p = Client
  <2>1. taken[p] + 1 \in 1..Len(atClient)
    BY <1>1, <1>2, <1>4 DEF Accepted
  <2>2. Received(p) = toClient[taken[p] + 1] /\ taken[p] + 1 <= Len(toClient)
    BY <2>1, <1>2, <1>4 DEF Received, Accepted, StreamsInOrder, IsPrefixOf
  <2> QED BY <2>2, <1>2, <1>4 DEF OnlyTheseSent
<1> QED BY <1>3, <1>4

-----------------------------------------------------------------------------
(* What the parts of a step do to the invariant *)

\* A step of one program leaves the other where it was.
LEMMA Undisturbed ==
    ASSUME NEW p \in Peer,
           pc'[p] = pc[p], transcript'[p] = transcript[p], suite'[p] = suite[p],
           cipher'[p] = cipher[p], taken'[p] = taken[p], Given(p)' = Given(p)
    PROVE  /\ p = Client /\ ClientProgress => ClientProgress'
           /\ p = Server /\ ServerProgress /\ UNCHANGED <<message, plaintext>> => ServerProgress'
<1>1. ASSUME NEW calls, NEW hellos, NEW s, NEW sent, NEW received, NEW key,
             Reached(p, calls, hellos, s, sent, received, key)
      PROVE  /\ pc'[p] \in calls /\ transcript'[p] = hellos /\ suite'[p] = s
             /\ Len(Given(p)') = sent /\ taken'[p] = received /\ cipher'[p] = key
  BY <1>1 DEF Reached
<1>2. CASE p = Client
  BY <1>1, <1>2, TwoPeers DEF ClientProgress, Reached
<1>3. CASE p = Server
  BY <1>1, <1>3, TwoPeers DEF ServerProgress, Reached
<1> QED BY <1>2, <1>3, TwoPeers

\* A step of program p that neither fails nor ends, nor touches the connection.
LEMMA ConnectionKept ==
    ASSUME SessionInv, NEW p \in Peer, NEW next, next # "failed",
           pc[p] \notin {"done", "failed"},
           pc' = [pc EXCEPT ![p] = next], UNCHANGED <<state, closing>>
    PROVE  ConnectionEnds'
BY DEF SessionInv, SessionVariables, ConnectionEnds

\* send() of a connection that is ESTABLISHED adds the record at the end.
LEMMA SendStep ==
    ASSUME SessionInv, NEW p \in Peer, NEW record \in TTLSRecord, NEW next,
           state[p] = "ESTABLISHED", SendRecord(p, record, next), UNCHANGED taken
    PROVE  /\ pc' = [pc EXCEPT ![p] = next]
           /\ Len(Given(p)') = Len(Given(p)) + 1
           /\ Given(p)'[Len(Given(p)) + 1] = record
           /\ \A i \in 1..Len(Given(p)) : Given(p)'[i] = Given(p)[i]
           /\ \A q \in Peer : q # p => Given(q)' = Given(q)
           /\ UNCHANGED <<atServer, atClient>>
           /\ toServer' \in Seq(TTLSRecord) /\ toClient' \in Seq(TTLSRecord)
           /\ StreamsInOrder'
<1> USE TwoPeers DEF SessionInv
<1>1. toServer \in Seq(TTLSRecord) /\ toClient \in Seq(TTLSRecord)
      /\ atServer \in Seq(TTLSRecord) /\ atClient \in Seq(TTLSRecord)
  BY DEF SessionVariables
<1>2. pc' = [pc EXCEPT ![p] = next]
  BY DEF SendRecord, Goto
<1>3. CASE p = Client
  <2>1. toServer' = Append(toServer, record) /\ UNCHANGED <<atServer, toClient, atClient>>
    BY <1>3 DEF SendRecord, ToServer!Send
  <2>2. /\ toServer' \in Seq(TTLSRecord)
        /\ Len(toServer') = Len(toServer) + 1
        /\ \A i \in 1..Len(toServer) : toServer'[i] = toServer[i]
        /\ toServer'[Len(toServer) + 1] = record
    BY <1>1, <2>1, AppendProperties
  <2>3. Len(toServer) \in Nat /\ Len(atServer) \in Nat
    BY <1>1
  <2>4. StreamsInOrder'
    BY <2>1, <2>2, <2>3 DEF StreamsInOrder, IsPrefixOf
  <2>5. Given(p)' = toServer' /\ Given(p) = toServer
    BY <1>3 DEF Given
  <2>6. \A q \in Peer : q # p => Given(q)' = Given(q)
    BY <1>3, <2>1 DEF Given
  <2> QED BY <1>1, <1>2, <2>1, <2>2, <2>4, <2>5, <2>6
<1>4. CASE p = Server
  <2>1. toClient' = Append(toClient, record) /\ UNCHANGED <<atServer, toServer, atClient>>
    BY <1>4 DEF SendRecord, ToClient!Send
  <2>2. /\ toClient' \in Seq(TTLSRecord)
        /\ Len(toClient') = Len(toClient) + 1
        /\ \A i \in 1..Len(toClient) : toClient'[i] = toClient[i]
        /\ toClient'[Len(toClient) + 1] = record
    BY <1>1, <2>1, AppendProperties
  <2>3. Len(toClient) \in Nat /\ Len(atClient) \in Nat
    BY <1>1
  <2>4. StreamsInOrder'
    BY <2>1, <2>2, <2>3 DEF StreamsInOrder, IsPrefixOf
  <2>5. Given(p)' = toClient' /\ Given(p) = toClient
    BY <1>4 DEF Given
  <2>6. \A q \in Peer : q # p => Given(q)' = Given(q)
    BY <1>4, <2>1 DEF Given
  <2> QED BY <1>1, <1>2, <2>1, <2>2, <2>4, <2>5, <2>6
<1> QED BY <1>3, <1>4

\* recv() returns the next record of those that have arrived.
LEMMA TakeStep ==
    ASSUME SessionInv, NEW p \in Peer, TakeRecord(p), UNCHANGED streamVars
    PROVE  /\ taken[p] < Len(Accepted(p))
           /\ taken' \in [Peer -> Nat] /\ taken'[p] = taken[p] + 1
           /\ \A q \in Peer : q # p => taken'[q] = taken[q]
           /\ polling' \in [Peer -> BOOLEAN] /\ polling'[p] = FALSE
           /\ \A q \in Peer : q # p => polling'[q] = polling[q]
           /\ \A q \in Peer : Given(q)' = Given(q)
           /\ StreamsInOrder'
<1> USE TwoPeers DEF SessionInv
<1>1. taken \in [Peer -> Nat] /\ polling \in [Peer -> BOOLEAN]
  BY DEF SessionVariables
<1>2. /\ taken' = [taken EXCEPT ![p] = @ + 1] /\ polling' = [polling EXCEPT ![p] = FALSE]
      /\ taken[p] < Len(Accepted(p)) /\ UNCHANGED <<toServer, atServer, toClient, atClient>>
  BY DEF TakeRecord, streamVars
<1>3. /\ taken' \in [Peer -> Nat] /\ taken'[p] = taken[p] + 1
      /\ \A q \in Peer : q # p => taken'[q] = taken[q]
      /\ polling' \in [Peer -> BOOLEAN] /\ polling'[p] = FALSE
      /\ \A q \in Peer : q # p => polling'[q] = polling[q]
  <2>1. taken' = [taken EXCEPT ![p] = taken[p] + 1] /\ polling' = [polling EXCEPT ![p] = FALSE]
    BY <1>2
  <2>2. /\ taken' \in [Peer -> Nat] /\ taken'[p] = taken[p] + 1
        /\ \A q \in Peer : q # p => taken'[q] = taken[q]
    BY <1>1, <2>1
  <2>3. /\ polling' \in [Peer -> BOOLEAN] /\ polling'[p] = FALSE
        /\ \A q \in Peer : q # p => polling'[q] = polling[q]
    BY <1>1, <2>1
  <2> QED BY <2>2, <2>3
<1>4. \A q \in Peer : Given(q)' = Given(q)
  BY <1>2 DEF Given
<1>5. Len(atServer) \in Nat /\ Len(atClient) \in Nat /\ taken[Server] \in Nat /\ taken[Client] \in Nat
  BY DEF SessionVariables
<1>6. /\ p = Server => taken[Server] < Len(atServer)
      /\ p = Client => taken[Client] < Len(atClient)
  BY <1>2 DEF Accepted
<1>7. taken'[Server] <= Len(atServer) /\ taken'[Client] <= Len(atClient)
  BY <1>3, <1>5, <1>6 DEF StreamsInOrder
<1>8. StreamsInOrder'
  BY <1>2, <1>7 DEF StreamsInOrder, IsPrefixOf
<1> QED BY <1>2, <1>3, <1>4, <1>8

-----------------------------------------------------------------------------
(* The steps of the client *)

LEMMA SendClientHelloStep ==
    ASSUME SessionInv, SendClientHello
    PROVE  SessionInv'
<1> USE TwoPeers
<1>1. /\ pc[Client] = "send_client_hello" /\ transcript[Client] = << >> /\ suite[Client] = NoValue
      /\ Len(toServer) = 0 /\ taken[Client] = 0 /\ cipher[Client] = NoValue
  BY DEF SessionInv, ClientProgress, Reached, SendClientHello
<1>2. state[Client] = "ESTABLISHED"
  BY <1>1, StillEstablished
<1>3. /\ transcript' = [transcript EXCEPT ![Client] = <<ClientHello>>]
      /\ SendRecord(Client, HandshakeRecord(ClientHello), "recv_server_hello")
      /\ UNCHANGED <<polling, suite, cipher, message, plaintext, state, closing, taken>>
  <2>1. /\ transcript' = [transcript EXCEPT ![Client] = Append(transcript[Client], ClientHello)]
        /\ SendRecord(Client, HandshakeRecord(ClientHello), "recv_server_hello")
        /\ UNCHANGED <<polling, suite, cipher, message, plaintext, state, closing, taken>>
    BY DEF SendClientHello, SendHello, ClientHello, OfferedSuite
  <2> QED BY <1>1, <2>1, Transcripts
<1>4. HandshakeRecord(ClientHello) \in TTLSRecord
  BY HandshakeRecords
<1>5. /\ pc' = [pc EXCEPT ![Client] = "recv_server_hello"]
      /\ Len(toServer') = 1 /\ toServer'[1] = HandshakeRecord(ClientHello)
      /\ UNCHANGED <<toClient, atServer, atClient>>
      /\ toServer' \in Seq(TTLSRecord) /\ StreamsInOrder'
  <2>1. Given(Client)' = toServer' /\ Given(Server)' = toClient'
    BY DEF Given
  <2> QED BY <1>1, <1>2, <1>3, <1>4, <2>1, SendStep
<1>6. SessionVariables'
  BY <1>3, <1>5, Transcripts DEF SessionInv, SessionVariables, ClientCalls, Receiving
<1>7. ClientProgress'
  <2>1. Given(Client)' = toServer'
    BY DEF Given
  <2>2. Reached(Client, {"recv_server_hello"}, <<ClientHello>>, NoValue, 1, 0, NoValue)'
    BY <1>1, <1>3, <1>5, <2>1 DEF Reached, SessionInv, SessionVariables
  <2> QED BY <2>2 DEF ClientProgress
<1>8. ServerProgress'
  <2>1. Given(Server)' = Given(Server)
    BY <1>5 DEF Given
  <2> QED BY <1>3, <1>5, <2>1, Undisturbed DEF SessionInv, SessionVariables
<1>9. OnlyTheseSent'
  BY <1>5, <1>3 DEF SessionInv, OnlyTheseSent
<1>10. ConnectionEnds'
  BY <1>1, <1>3, <1>5, ConnectionKept
<1> QED BY <1>5, <1>6, <1>7, <1>8, <1>9, <1>10 DEF SessionInv

LEMMA RecvServerHelloStep ==
    ASSUME SessionInv, RecvServerHello
    PROVE  SessionInv'
<1> USE TwoPeers
<1>1. /\ pc[Client] = "recv_server_hello" /\ transcript[Client] = <<ClientHello>>
      /\ Len(toServer) = 1 /\ taken[Client] = 0 /\ cipher[Client] = NoValue
  BY DEF SessionInv, ClientProgress, Reached, RecvServerHello
<1>2. TakeRecord(Client) /\ UNCHANGED <<cipher, message, plaintext, streamVars, state, closing>>
  BY DEF RecvServerHello, RecvHello
<1>3. Received(Client) = HandshakeRecord(ServerHello)
  BY <1>1, <1>2, ReceivedIsSent, TakeStep
<1>4. /\ pc' = [pc EXCEPT ![Client] = "send_finished"]
      /\ transcript' = [transcript EXCEPT ![Client] = BothHellos]
      /\ suite' = [suite EXCEPT ![Client] = OfferedSuite]
  <2>1. Received(Client).type = "HANDSHAKE" /\ Received(Client).payload = ServerHello
    BY <1>3, HandshakeRecords
  <2>2. /\ pc' = [pc EXCEPT ![Client] = "send_finished"]
        /\ transcript' = [transcript EXCEPT ![Client] = Append(transcript[Client], ServerHello)]
        /\ suite' = [suite EXCEPT ![Client] = OfferedSuite]
    BY <2>1, HandshakeRecords DEF RecvServerHello, RecvHello, Goto
  <2> QED BY <1>1, <2>2, Transcripts
<1>5. /\ taken' \in [Peer -> Nat] /\ taken'[Client] = 1 /\ taken'[Server] = taken[Server]
      /\ polling' \in [Peer -> BOOLEAN] /\ polling'[Client] = FALSE
      /\ polling'[Server] = polling[Server]
      /\ Given(Client)' = toServer /\ Given(Server)' = Given(Server)
      /\ StreamsInOrder'
  BY <1>1, <1>2, TakeStep
<1>6. SessionVariables'
  <2>1. OfferedSuite \in CipherSuite
    BY DEF OfferedSuite, CipherSuite
  <2> QED BY <1>2, <1>4, <1>5, <2>1, Transcripts
           DEF SessionInv, SessionVariables, ClientCalls, Receiving, streamVars
<1>7. ClientProgress'
  <2>1. Reached(Client, {"send_finished"}, BothHellos, OfferedSuite, 1, 1, NoValue)'
    BY <1>1, <1>2, <1>4, <1>5 DEF Reached, SessionInv, SessionVariables
  <2> QED BY <2>1 DEF ClientProgress
<1>8. ServerProgress'
  BY <1>2, <1>4, <1>5, Undisturbed DEF SessionInv, SessionVariables
<1>9. OnlyTheseSent'
  BY <1>2 DEF SessionInv, OnlyTheseSent, streamVars
<1>10. ConnectionEnds'
  BY <1>1, <1>2, <1>4, ConnectionKept
<1> QED BY <1>5, <1>6, <1>7, <1>8, <1>9, <1>10 DEF SessionInv

LEMMA ClientSendsFinishedStep ==
    ASSUME SessionInv, ClientSendsFinished
    PROVE  SessionInv'
<1> USE TwoPeers
<1>1. /\ pc[Client] = "send_finished" /\ transcript[Client] = BothHellos
      /\ suite[Client] = OfferedSuite
      /\ Len(toServer) = 1 /\ taken[Client] = 1 /\ cipher[Client] = NoValue
  BY DEF SessionInv, ClientProgress, Reached, ClientSendsFinished, SendFinished
<1>2. state[Client] = "ESTABLISHED"
  BY <1>1, StillEstablished
<1>3. /\ SendRecord(Client, HandshakeRecord(TheFinished), "recv_finished")
      /\ UNCHANGED <<polling, transcript, suite, cipher, message, plaintext, state, closing, taken>>
  BY <1>1 DEF ClientSendsFinished, SendFinished, TheFinished, Digest
<1>4. HandshakeRecord(TheFinished) \in TTLSRecord
  BY HandshakeRecords
<1>5. /\ pc' = [pc EXCEPT ![Client] = "recv_finished"]
      /\ Len(toServer') = 2 /\ toServer'[2] = HandshakeRecord(TheFinished)
      /\ toServer'[1] = toServer[1]
      /\ UNCHANGED <<toClient, atServer, atClient>>
      /\ toServer' \in Seq(TTLSRecord) /\ StreamsInOrder'
  <2>1. Given(Client)' = toServer' /\ Given(Server)' = toClient'
    BY DEF Given
  <2>2. /\ Len(toServer') = Len(toServer) + 1 /\ toServer'[Len(toServer) + 1] = HandshakeRecord(TheFinished)
        /\ \A i \in 1..Len(toServer) : toServer'[i] = toServer[i]
        /\ pc' = [pc EXCEPT ![Client] = "recv_finished"] /\ UNCHANGED <<toClient, atServer, atClient>>
        /\ toServer' \in Seq(TTLSRecord) /\ StreamsInOrder'
    BY <1>2, <1>3, <1>4, <2>1, SendStep
  <2> QED BY <1>1, <2>2
<1>6. SessionVariables'
  BY <1>3, <1>5 DEF SessionInv, SessionVariables, ClientCalls, Receiving
<1>7. ClientProgress'
  <2>1. Given(Client)' = toServer'
    BY DEF Given
  <2>2. Reached(Client, {"recv_finished"}, BothHellos, OfferedSuite, 2, 1, NoValue)'
    BY <1>1, <1>3, <1>5, <2>1 DEF Reached, SessionInv, SessionVariables
  <2> QED BY <2>2 DEF ClientProgress
<1>8. ServerProgress'
  <2>1. Given(Server)' = Given(Server)
    BY <1>5 DEF Given
  <2> QED BY <1>3, <1>5, <2>1, Undisturbed DEF SessionInv, SessionVariables
<1>9. OnlyTheseSent'
  BY <1>1, <1>5, <1>3 DEF SessionInv, OnlyTheseSent
<1>10. ConnectionEnds'
  BY <1>1, <1>3, <1>5, ConnectionKept
<1> QED BY <1>5, <1>6, <1>7, <1>8, <1>9, <1>10 DEF SessionInv

LEMMA ClientRecvFinishedStep ==
    ASSUME SessionInv, ClientRecvFinished
    PROVE  SessionInv'
<1> USE TwoPeers
<1>1. /\ pc[Client] = "recv_finished" /\ transcript[Client] = BothHellos
      /\ suite[Client] = OfferedSuite
      /\ Len(toServer) = 2 /\ taken[Client] = 1 /\ cipher[Client] = NoValue
  BY DEF SessionInv, ClientProgress, Reached, ClientRecvFinished, RecvFinished
<1>2. /\ TakeRecord(Client)
      /\ UNCHANGED <<transcript, suite, cipher, message, plaintext, streamVars, state, closing>>
  BY DEF ClientRecvFinished, RecvFinished
<1>3. Received(Client) = HandshakeRecord(TheFinished)
  BY <1>1, <1>2, ReceivedIsSent, TakeStep
<1>4. pc' = [pc EXCEPT ![Client] = "send_data"]
  <2>1. Received(Client).type = "HANDSHAKE" /\ Received(Client).payload = TheFinished
    BY <1>3, HandshakeRecords
  <2>2. Digest(Client) = BothHellos
    BY <1>1 DEF Digest
  <2> QED BY <2>1, <2>2, HandshakeRecords DEF ClientRecvFinished, RecvFinished, Goto
<1>5. /\ taken' \in [Peer -> Nat] /\ taken'[Client] = 2 /\ taken'[Server] = taken[Server]
      /\ polling' \in [Peer -> BOOLEAN] /\ polling'[Client] = FALSE
      /\ polling'[Server] = polling[Server]
      /\ Given(Client)' = toServer /\ Given(Server)' = Given(Server)
      /\ StreamsInOrder'
  BY <1>1, <1>2, TakeStep
<1>6. SessionVariables'
  BY <1>2, <1>4, <1>5 DEF SessionInv, SessionVariables, ClientCalls, Receiving, streamVars
<1>7. ClientProgress'
  <2>1. Reached(Client, {"send_data"}, BothHellos, OfferedSuite, 2, 2, NoValue)'
    BY <1>1, <1>2, <1>4, <1>5 DEF Reached, SessionInv, SessionVariables
  <2> QED BY <2>1 DEF ClientProgress
<1>8. ServerProgress'
  BY <1>2, <1>4, <1>5, Undisturbed DEF SessionInv, SessionVariables
<1>9. OnlyTheseSent'
  BY <1>2 DEF SessionInv, OnlyTheseSent, streamVars
<1>10. ConnectionEnds'
  BY <1>1, <1>2, <1>4, ConnectionKept
<1> QED BY <1>5, <1>6, <1>7, <1>8, <1>9, <1>10 DEF SessionInv

LEMMA SendApplicationDataStep ==
    ASSUME SessionInv, SendApplicationData
    PROVE  SessionInv'
<1> USE TwoPeers
<1>1. /\ pc[Client] = "send_data" /\ transcript[Client] = BothHellos
      /\ suite[Client] = OfferedSuite
      /\ Len(toServer) = 2 /\ taken[Client] = 2
  BY DEF SessionInv, ClientProgress, Reached, SendApplicationData
<1>2. state[Client] = "ESTABLISHED"
  BY <1>1, StillEstablished
<1>3. /\ SendRecord(Client, DataRecord(SharedKey, message), "wait_for_acks")
      /\ cipher' = [cipher EXCEPT ![Client] = SharedKey]
      /\ UNCHANGED <<polling, transcript, suite, message, plaintext, state, closing, taken>>
  BY DEF SendApplicationData
<1>4. DataRecord(SharedKey, message) \in TTLSRecord
  BY DataRecords DEF SessionInv, SessionVariables
<1>5. /\ pc' = [pc EXCEPT ![Client] = "wait_for_acks"]
      /\ Len(toServer') = 3 /\ toServer'[3] = DataRecord(SharedKey, message)
      /\ toServer'[1] = toServer[1] /\ toServer'[2] = toServer[2]
      /\ UNCHANGED <<toClient, atServer, atClient>>
      /\ toServer' \in Seq(TTLSRecord) /\ StreamsInOrder'
  <2>1. Given(Client)' = toServer' /\ Given(Server)' = toClient'
    BY DEF Given
  <2>2. /\ Len(toServer') = Len(toServer) + 1 /\ toServer'[Len(toServer) + 1] = DataRecord(SharedKey, message)
        /\ \A i \in 1..Len(toServer) : toServer'[i] = toServer[i]
        /\ pc' = [pc EXCEPT ![Client] = "wait_for_acks"] /\ UNCHANGED <<toClient, atServer, atClient>>
        /\ toServer' \in Seq(TTLSRecord) /\ StreamsInOrder'
    BY <1>2, <1>3, <1>4, <2>1, SendStep
  <2> QED BY <1>1, <2>2
<1>6. SessionVariables'
  <2>1. cipher' \in [Peer -> {SharedKey, NoValue}]
    BY <1>3 DEF SessionInv, SessionVariables
  <2>2. UNCHANGED <<polling, transcript, suite, message, plaintext, state, closing, taken>>
    BY <1>3
  <2>3. pc' \in [Peer -> ClientCalls \cup ServerCalls]
    BY <1>5 DEF SessionInv, SessionVariables, ClientCalls
  <2>4. \A p \in Peer : polling'[p] => pc'[p] \in Receiving
    BY <1>1, <1>3, <1>5 DEF SessionInv, SessionVariables, Receiving
  <2> QED BY <1>5, <2>1, <2>2, <2>3, <2>4 DEF SessionInv, SessionVariables
<1>7. ClientProgress'
  <2>1. Given(Client)' = toServer'
    BY DEF Given
  <2>2. Reached(Client, {"wait_for_acks", "close", "done"}, BothHellos, OfferedSuite, 3, 2,
                SharedKey)'
    BY <1>1, <1>3, <1>5, <2>1 DEF Reached, SessionInv, SessionVariables
  <2> QED BY <2>2 DEF ClientProgress
<1>8. ServerProgress'
  <2>1. Given(Server)' = Given(Server)
    BY <1>5 DEF Given
  <2> QED BY <1>3, <1>5, <2>1, Undisturbed DEF SessionInv, SessionVariables
<1>9. OnlyTheseSent'
  BY <1>1, <1>5, <1>3 DEF SessionInv, OnlyTheseSent
<1>10. ConnectionEnds'
  BY <1>1, <1>3, <1>5, ConnectionKept
<1> QED BY <1>5, <1>6, <1>7, <1>8, <1>9, <1>10 DEF SessionInv

LEMMA WaitForAcksStep ==
    ASSUME SessionInv, WaitForAcks
    PROVE  SessionInv'
<1> USE TwoPeers
<1>1. /\ pc[Client] = "wait_for_acks" /\ pc' = [pc EXCEPT ![Client] = "close"]
      /\ UNCHANGED <<polling, transcript, suite, cipher, message, plaintext, toServer, atServer,
                     toClient, atClient, state, closing, taken>>
  BY DEF WaitForAcks, Goto, streamVars
<1>2. \A p \in Peer : Given(p)' = Given(p)
  BY <1>1 DEF Given
<1>3. SessionVariables'
  BY <1>1 DEF SessionInv, SessionVariables, ClientCalls, Receiving
<1>4. ClientProgress'
  <2>1. Reached(Client, {"wait_for_acks", "close", "done"}, BothHellos, OfferedSuite, 3, 2,
                SharedKey)
    BY <1>1 DEF SessionInv, ClientProgress, Reached
  <2>2. Reached(Client, {"wait_for_acks", "close", "done"}, BothHellos, OfferedSuite, 3, 2,
                SharedKey)'
    BY <1>1, <1>2, <2>1 DEF Reached, SessionInv, SessionVariables
  <2> QED BY <2>2 DEF ClientProgress
<1>5. ServerProgress'
  BY <1>1, <1>2, Undisturbed DEF SessionInv, SessionVariables
<1>6. OnlyTheseSent' /\ StreamsInOrder'
  BY <1>1 DEF SessionInv, OnlyTheseSent, StreamsInOrder, IsPrefixOf
<1>7. ConnectionEnds'
  BY <1>1, ConnectionKept
<1> QED BY <1>3, <1>4, <1>5, <1>6, <1>7 DEF SessionInv

-----------------------------------------------------------------------------
(* The steps of the server *)

LEMMA RecvClientHelloStep ==
    ASSUME SessionInv, RecvClientHello
    PROVE  SessionInv'
<1> USE TwoPeers
<1>1. /\ pc[Server] = "recv_client_hello" /\ transcript[Server] = << >>
      /\ Len(toClient) = 0 /\ taken[Server] = 0 /\ cipher[Server] = NoValue
  BY DEF SessionInv, ServerProgress, Reached, RecvClientHello
<1>2. TakeRecord(Server) /\ UNCHANGED <<cipher, message, plaintext, streamVars, state, closing>>
  BY DEF RecvClientHello, RecvHello
<1>3. Received(Server) = HandshakeRecord(ClientHello)
  BY <1>1, <1>2, ReceivedIsSent, TakeStep
<1>4. /\ pc' = [pc EXCEPT ![Server] = "send_server_hello"]
      /\ transcript' = [transcript EXCEPT ![Server] = <<ClientHello>>]
      /\ suite' = [suite EXCEPT ![Server] = OfferedSuite]
  <2>1. Received(Server).type = "HANDSHAKE" /\ Received(Server).payload = ClientHello
    BY <1>3, HandshakeRecords
  <2>2. /\ pc' = [pc EXCEPT ![Server] = "send_server_hello"]
        /\ transcript' = [transcript EXCEPT ![Server] = Append(transcript[Server], ClientHello)]
        /\ suite' = [suite EXCEPT ![Server] = OfferedSuite]
    BY <2>1, HandshakeRecords DEF RecvClientHello, RecvHello, Goto
  <2> QED BY <1>1, <2>2, Transcripts
<1>5. /\ taken' \in [Peer -> Nat] /\ taken'[Server] = 1 /\ taken'[Client] = taken[Client]
      /\ polling' \in [Peer -> BOOLEAN] /\ polling'[Server] = FALSE
      /\ polling'[Client] = polling[Client]
      /\ Given(Server)' = toClient /\ Given(Client)' = Given(Client)
      /\ StreamsInOrder'
  BY <1>1, <1>2, TakeStep
<1>6. SessionVariables'
  <2>1. OfferedSuite \in CipherSuite
    BY DEF OfferedSuite, CipherSuite
  <2> QED BY <1>2, <1>4, <1>5, <2>1, Transcripts
           DEF SessionInv, SessionVariables, ServerCalls, Receiving, streamVars
<1>7. ServerProgress'
  <2>1. Reached(Server, {"send_server_hello"}, <<ClientHello>>, OfferedSuite, 0, 1, NoValue)'
    BY <1>1, <1>2, <1>4, <1>5 DEF Reached, SessionInv, SessionVariables
  <2> QED BY <2>1 DEF ServerProgress
<1>8. ClientProgress'
  BY <1>2, <1>4, <1>5, Undisturbed DEF SessionInv, SessionVariables
<1>9. OnlyTheseSent'
  BY <1>2 DEF SessionInv, OnlyTheseSent, streamVars
<1>10. ConnectionEnds'
  BY <1>1, <1>2, <1>4, ConnectionKept
<1> QED BY <1>5, <1>6, <1>7, <1>8, <1>9, <1>10 DEF SessionInv

LEMMA SendServerHelloStep ==
    ASSUME SessionInv, SendServerHello
    PROVE  SessionInv'
<1> USE TwoPeers
<1>1. /\ pc[Server] = "send_server_hello" /\ transcript[Server] = <<ClientHello>>
      /\ suite[Server] = OfferedSuite
      /\ Len(toClient) = 0 /\ taken[Server] = 1 /\ cipher[Server] = NoValue
  BY DEF SessionInv, ServerProgress, Reached, SendServerHello
<1>2. state[Server] = "ESTABLISHED"
  BY <1>1, StillEstablished
<1>3. /\ transcript' = [transcript EXCEPT ![Server] = BothHellos]
      /\ SendRecord(Server, HandshakeRecord(ServerHello), "recv_finished")
      /\ UNCHANGED <<polling, suite, cipher, message, plaintext, state, closing, taken>>
  <2>1. suite[Server] \in SUPPORTED_CIPHER_SUITES
    BY <1>1 DEF OfferedSuite, SUPPORTED_CIPHER_SUITES
  <2>2. SendHello(Server, "SERVER_HELLO", OfferedSuite, "recv_finished")
    BY <1>1, <2>1 DEF SendServerHello
  <2>3. /\ transcript' = [transcript EXCEPT ![Server] = Append(transcript[Server], ServerHello)]
        /\ SendRecord(Server, HandshakeRecord(ServerHello), "recv_finished")
    BY <2>2 DEF SendHello, ServerHello
  <2>4. UNCHANGED <<polling, suite, cipher, message, plaintext, state, closing, taken>>
    BY DEF SendServerHello
  <2> QED BY <1>1, <2>3, <2>4, Transcripts
<1>4. HandshakeRecord(ServerHello) \in TTLSRecord
  BY HandshakeRecords
<1>5. /\ pc' = [pc EXCEPT ![Server] = "recv_finished"]
      /\ Len(toClient') = 1 /\ toClient'[1] = HandshakeRecord(ServerHello)
      /\ UNCHANGED <<toServer, atServer, atClient>>
      /\ toClient' \in Seq(TTLSRecord) /\ StreamsInOrder'
  <2>1. Given(Server)' = toClient' /\ Given(Client)' = toServer'
    BY DEF Given
  <2> QED BY <1>1, <1>2, <1>3, <1>4, <2>1, SendStep
<1>6. SessionVariables'
  BY <1>1, <1>3, <1>5, Transcripts DEF SessionInv, SessionVariables, ServerCalls, Receiving
<1>7. ServerProgress'
  <2>1. Given(Server)' = toClient'
    BY DEF Given
  <2>2. Reached(Server, {"recv_finished"}, BothHellos, OfferedSuite, 1, 1, NoValue)'
    BY <1>1, <1>3, <1>5, <2>1 DEF Reached, SessionInv, SessionVariables
  <2> QED BY <2>2 DEF ServerProgress
<1>8. ClientProgress'
  <2>1. Given(Client)' = Given(Client)
    BY <1>5 DEF Given
  <2> QED BY <1>3, <1>5, <2>1, Undisturbed DEF SessionInv, SessionVariables
<1>9. OnlyTheseSent'
  BY <1>5, <1>3 DEF SessionInv, OnlyTheseSent
<1>10. ConnectionEnds'
  BY <1>1, <1>3, <1>5, ConnectionKept
<1> QED BY <1>5, <1>6, <1>7, <1>8, <1>9, <1>10 DEF SessionInv

LEMMA ServerRecvFinishedStep ==
    ASSUME SessionInv, ServerRecvFinished
    PROVE  SessionInv'
<1> USE TwoPeers
<1>1. /\ pc[Server] = "recv_finished" /\ transcript[Server] = BothHellos
      /\ suite[Server] = OfferedSuite
      /\ Len(toClient) = 1 /\ taken[Server] = 1 /\ cipher[Server] = NoValue
  BY DEF SessionInv, ServerProgress, Reached, ServerRecvFinished, RecvFinished
<1>2. /\ TakeRecord(Server)
      /\ UNCHANGED <<transcript, suite, cipher, message, plaintext, streamVars, state, closing>>
  BY DEF ServerRecvFinished, RecvFinished
<1>3. Received(Server) = HandshakeRecord(TheFinished)
  BY <1>1, <1>2, ReceivedIsSent, TakeStep
<1>4. pc' = [pc EXCEPT ![Server] = "send_finished"]
  <2>1. Received(Server).type = "HANDSHAKE" /\ Received(Server).payload = TheFinished
    BY <1>3, HandshakeRecords
  <2>2. Digest(Server) = BothHellos
    BY <1>1 DEF Digest
  <2> QED BY <2>1, <2>2, HandshakeRecords DEF ServerRecvFinished, RecvFinished, Goto
<1>5. /\ taken' \in [Peer -> Nat] /\ taken'[Server] = 2 /\ taken'[Client] = taken[Client]
      /\ polling' \in [Peer -> BOOLEAN] /\ polling'[Server] = FALSE
      /\ polling'[Client] = polling[Client]
      /\ Given(Server)' = toClient /\ Given(Client)' = Given(Client)
      /\ StreamsInOrder'
  BY <1>1, <1>2, TakeStep
<1>6. SessionVariables'
  BY <1>2, <1>4, <1>5 DEF SessionInv, SessionVariables, ServerCalls, Receiving, streamVars
<1>7. ServerProgress'
  <2>1. Reached(Server, {"send_finished"}, BothHellos, OfferedSuite, 1, 2, NoValue)'
    BY <1>1, <1>2, <1>4, <1>5 DEF Reached, SessionInv, SessionVariables
  <2> QED BY <2>1 DEF ServerProgress
<1>8. ClientProgress'
  BY <1>2, <1>4, <1>5, Undisturbed DEF SessionInv, SessionVariables
<1>9. OnlyTheseSent'
  BY <1>2 DEF SessionInv, OnlyTheseSent, streamVars
<1>10. ConnectionEnds'
  BY <1>1, <1>2, <1>4, ConnectionKept
<1> QED BY <1>5, <1>6, <1>7, <1>8, <1>9, <1>10 DEF SessionInv

LEMMA ServerSendsFinishedStep ==
    ASSUME SessionInv, ServerSendsFinished
    PROVE  SessionInv'
<1> USE TwoPeers
<1>1. /\ pc[Server] = "send_finished" /\ transcript[Server] = BothHellos
      /\ suite[Server] = OfferedSuite
      /\ Len(toClient) = 1 /\ taken[Server] = 2 /\ cipher[Server] = NoValue
  BY DEF SessionInv, ServerProgress, Reached, ServerSendsFinished, SendFinished
<1>2. state[Server] = "ESTABLISHED"
  BY <1>1, StillEstablished
<1>3. /\ SendRecord(Server, HandshakeRecord(TheFinished), "set_cipher")
      /\ UNCHANGED <<polling, transcript, suite, cipher, message, plaintext, state, closing, taken>>
  BY <1>1 DEF ServerSendsFinished, SendFinished, TheFinished, Digest
<1>4. HandshakeRecord(TheFinished) \in TTLSRecord
  BY HandshakeRecords
<1>5. /\ pc' = [pc EXCEPT ![Server] = "set_cipher"]
      /\ Len(toClient') = 2 /\ toClient'[2] = HandshakeRecord(TheFinished)
      /\ toClient'[1] = toClient[1]
      /\ UNCHANGED <<toServer, atServer, atClient>>
      /\ toClient' \in Seq(TTLSRecord) /\ StreamsInOrder'
  <2>1. Given(Server)' = toClient' /\ Given(Client)' = toServer'
    BY DEF Given
  <2>2. /\ Len(toClient') = Len(toClient) + 1
        /\ toClient'[Len(toClient) + 1] = HandshakeRecord(TheFinished)
        /\ \A i \in 1..Len(toClient) : toClient'[i] = toClient[i]
        /\ pc' = [pc EXCEPT ![Server] = "set_cipher"] /\ UNCHANGED <<toServer, atServer, atClient>>
        /\ toClient' \in Seq(TTLSRecord) /\ StreamsInOrder'
    BY <1>2, <1>3, <1>4, <2>1, SendStep
  <2> QED BY <1>1, <2>2
<1>6. SessionVariables'
  BY <1>1, <1>3, <1>5 DEF SessionInv, SessionVariables, ServerCalls, Receiving
<1>7. ServerProgress'
  <2>1. Given(Server)' = toClient'
    BY DEF Given
  <2>2. Reached(Server, {"set_cipher"}, BothHellos, OfferedSuite, 2, 2, NoValue)'
    BY <1>1, <1>3, <1>5, <2>1 DEF Reached, SessionInv, SessionVariables
  <2> QED BY <2>2 DEF ServerProgress
<1>8. ClientProgress'
  <2>1. Given(Client)' = Given(Client)
    BY <1>5 DEF Given
  <2> QED BY <1>3, <1>5, <2>1, Undisturbed DEF SessionInv, SessionVariables
<1>9. OnlyTheseSent'
  BY <1>1, <1>5, <1>3 DEF SessionInv, OnlyTheseSent
<1>10. ConnectionEnds'
  BY <1>1, <1>3, <1>5, ConnectionKept
<1> QED BY <1>5, <1>6, <1>7, <1>8, <1>9, <1>10 DEF SessionInv

LEMMA SetCipherStep ==
    ASSUME SessionInv, SetCipher
    PROVE  SessionInv'
<1> USE TwoPeers
<1>1. /\ pc[Server] = "set_cipher" /\ pc' = [pc EXCEPT ![Server] = "recv_data"]
      /\ cipher' = [cipher EXCEPT ![Server] = SharedKey]
      /\ UNCHANGED <<polling, transcript, suite, message, plaintext, toServer, atServer,
                     toClient, atClient, state, closing, taken>>
  BY DEF SetCipher, Goto, streamVars
<1>2. \A p \in Peer : Given(p)' = Given(p)
  BY <1>1 DEF Given
<1>3. SessionVariables'
  BY <1>1 DEF SessionInv, SessionVariables, ServerCalls, Receiving
<1>4. ServerProgress'
  <2>1. Reached(Server, {"set_cipher"}, BothHellos, OfferedSuite, 2, 2, NoValue)
    BY <1>1 DEF SessionInv, ServerProgress, Reached
  <2>2. Reached(Server, {"recv_data", "failed"}, BothHellos, OfferedSuite, 2, 2, SharedKey)'
    BY <1>1, <1>2, <2>1 DEF Reached, SessionInv, SessionVariables
  <2> QED BY <2>2 DEF ServerProgress
<1>5. ClientProgress'
  BY <1>1, <1>2, Undisturbed DEF SessionInv, SessionVariables
<1>6. OnlyTheseSent' /\ StreamsInOrder'
  BY <1>1 DEF SessionInv, OnlyTheseSent, StreamsInOrder, IsPrefixOf
<1>7. ConnectionEnds'
  BY <1>1, ConnectionKept
<1> QED BY <1>3, <1>4, <1>5, <1>6, <1>7 DEF SessionInv

LEMMA RecvApplicationDataStep ==
    ASSUME SessionInv, RecvApplicationData
    PROVE  SessionInv'
<1> USE TwoPeers
<1>1. /\ pc[Server] = "recv_data" /\ transcript[Server] = BothHellos
      /\ suite[Server] = OfferedSuite
      /\ Len(toClient) = 2 /\ taken[Server] = 2 /\ cipher[Server] = SharedKey
  BY DEF SessionInv, ServerProgress, Reached, RecvApplicationData
<1>2. /\ TakeRecord(Server)
      /\ UNCHANGED <<transcript, suite, cipher, message, streamVars, state, closing>>
  BY DEF RecvApplicationData
<1>3. Received(Server) = DataRecord(SharedKey, message) /\ message \in Message
  BY <1>1, <1>2, ReceivedIsSent, TakeStep DEF SessionInv, SessionVariables
<1>4. pc' = [pc EXCEPT ![Server] = "close"] /\ plaintext' = message
  <2>1. /\ Received(Server).type = "APPLICATION_DATA"
        /\ Received(Server).payload.key = cipher[Server]
        /\ Received(Server).payload.header = Header(Received(Server).type, Received(Server).length)
        /\ Received(Server).payload.text = message
    BY <1>1, <1>3, DataRecords
  <2> QED BY <2>1 DEF RecvApplicationData, Goto
<1>5. /\ taken' \in [Peer -> Nat] /\ taken'[Server] = 3 /\ taken'[Client] = taken[Client]
      /\ polling' \in [Peer -> BOOLEAN] /\ polling'[Server] = FALSE
      /\ polling'[Client] = polling[Client]
      /\ Given(Server)' = toClient /\ Given(Client)' = Given(Client)
      /\ StreamsInOrder'
  BY <1>1, <1>2, TakeStep
<1>6. SessionVariables'
  BY <1>2, <1>3, <1>4, <1>5 DEF SessionInv, SessionVariables, ServerCalls, Receiving, streamVars
<1>7. ServerProgress'
  <2>1. Reached(Server, {"close", "done"}, BothHellos, OfferedSuite, 2, 3, SharedKey)'
    BY <1>1, <1>2, <1>4, <1>5 DEF Reached, SessionInv, SessionVariables
  <2> QED BY <1>2, <1>4, <2>1 DEF ServerProgress
<1>8. ClientProgress'
  BY <1>2, <1>4, <1>5, Undisturbed DEF SessionInv, SessionVariables
<1>9. OnlyTheseSent'
  BY <1>2 DEF SessionInv, OnlyTheseSent, streamVars
<1>10. ConnectionEnds'
  BY <1>1, <1>2, <1>4, ConnectionKept
<1> QED BY <1>5, <1>6, <1>7, <1>8, <1>9, <1>10 DEF SessionInv

-----------------------------------------------------------------------------
(* The steps that both programs have, and those of the connection *)

\* recv() refuses only the server, once the client has closed.
LEMMA CallRecvStep ==
    ASSUME SessionInv, NEW p \in Peer, CallRecv(p)
    PROVE  SessionInv'
<1> USE TwoPeers
<1>1. /\ pc[p] \in Receiving
      /\ UNCHANGED <<transcript, suite, cipher, message, plaintext, toServer, atServer, toClient,
                     atClient, state, closing, taken>>
  BY DEF CallRecv, streamVars
<1>2. \A q \in Peer : Given(q)' = Given(q)
  BY <1>1 DEF Given
<1>3. OnlyTheseSent' /\ StreamsInOrder'
  BY <1>1 DEF SessionInv, OnlyTheseSent, StreamsInOrder, IsPrefixOf
<1>4. CASE state[p] = "ESTABLISHED"
  <2>1. polling' = [polling EXCEPT ![p] = TRUE] /\ UNCHANGED pc
    BY <1>4 DEF CallRecv
  <2>2. polling' \in [Peer -> BOOLEAN]
    BY <2>1 DEF SessionInv, SessionVariables
  <2>3. \A q \in Peer : polling'[q] => pc'[q] \in Receiving
    BY <1>1, <2>1 DEF SessionInv, SessionVariables
  <2>4. SessionVariables'
    BY <1>1, <2>1, <2>2, <2>3 DEF SessionInv, SessionVariables
  <2>5. ClientProgress' /\ ServerProgress'
    BY <1>1, <1>2, <2>1, Undisturbed DEF SessionInv
  <2>6. ConnectionEnds'
    BY <1>1, <2>1 DEF SessionInv, ConnectionEnds
  <2> QED BY <1>3, <2>4, <2>5, <2>6 DEF SessionInv
<1>5. CASE state[p] # "ESTABLISHED"
  <2>1. pc' = [pc EXCEPT ![p] = "failed"] /\ UNCHANGED polling /\ ~polling[p]
    BY <1>5 DEF CallRecv, Goto
  <2>2. p = Server /\ pc[Server] = "recv_data"
    BY <1>1, <1>5, StillEstablished DEF Receiving
  <2>3. state[Server] = "FIN_WAIT"
    BY <1>5, <2>2 DEF SessionInv, SessionVariables, ConnectionEnds
  <2>4. \A q \in Peer : polling'[q] => pc'[q] \in Receiving
    BY <2>1 DEF SessionInv, SessionVariables
  <2>5. pc' \in [Peer -> ClientCalls \cup ServerCalls]
    BY <2>1 DEF SessionInv, SessionVariables, ClientCalls
  <2>6. SessionVariables'
    BY <1>1, <2>1, <2>4, <2>5 DEF SessionInv, SessionVariables
  <2>7. ClientProgress'
    BY <1>1, <1>2, <2>1, <2>2, Undisturbed DEF SessionInv, SessionVariables
  <2>8. ServerProgress'
    <3>1. Reached(Server, {"recv_data", "failed"}, BothHellos, OfferedSuite, 2, 2, SharedKey)
      BY <2>2 DEF SessionInv, ServerProgress, Reached
    <3>2. Reached(Server, {"recv_data", "failed"}, BothHellos, OfferedSuite, 2, 2, SharedKey)'
      BY <1>1, <1>2, <2>1, <2>2, <3>1 DEF Reached, SessionInv, SessionVariables
    <3> QED BY <3>2 DEF ServerProgress
  <2>9. ConnectionEnds'
    BY <1>1, <2>1, <2>2, <2>3 DEF SessionInv, SessionVariables, ConnectionEnds
  <2> QED BY <1>3, <2>6, <2>7, <2>8, <2>9 DEF SessionInv
<1> QED BY <1>4, <1>5

LEMMA CloseStep ==
    ASSUME SessionInv, NEW p \in Peer, Close(p)
    PROVE  SessionInv'
<1> USE TwoPeers
<1>1. /\ pc[p] = "close" /\ pc' = [pc EXCEPT ![p] = "done"]
      /\ state' = [state EXCEPT ![p] = "CLOSED"]
      /\ UNCHANGED <<polling, transcript, suite, cipher, message, plaintext, toServer, atServer,
                     toClient, atClient, taken>>
  BY DEF Close, Goto, streamVars
<1>2. closing' = [closing EXCEPT ![p] = (state[p] = "ESTABLISHED")]
  BY DEF Close
<1>3. closing' \in [Peer -> BOOLEAN] /\ \A q \in Peer : q # p => closing'[q] = closing[q]
  BY <1>2 DEF SessionInv, SessionVariables
<1>4. \A q \in Peer : Given(q)' = Given(q)
  BY <1>1 DEF Given
<1>5. OnlyTheseSent' /\ StreamsInOrder'
  BY <1>1 DEF SessionInv, OnlyTheseSent, StreamsInOrder, IsPrefixOf
<1>6. SessionVariables'
  <2>1. pc' \in [Peer -> ClientCalls \cup ServerCalls]
    BY <1>1 DEF SessionInv, SessionVariables, ClientCalls
  <2>2. \A q \in Peer : polling'[q] => pc'[q] \in Receiving
    BY <1>1 DEF SessionInv, SessionVariables, Receiving
  <2> QED BY <1>1, <1>3, <2>1, <2>2 DEF SessionInv, SessionVariables
<1>7. ClientProgress'
  <2>1. CASE p = Client
    <3>1. Reached(Client, {"wait_for_acks", "close", "done"}, BothHellos, OfferedSuite, 3, 2,
                  SharedKey)
      BY <1>1, <2>1 DEF SessionInv, ClientProgress, Reached
    <3>2. Reached(Client, {"wait_for_acks", "close", "done"}, BothHellos, OfferedSuite, 3, 2,
                  SharedKey)'
      BY <1>1, <1>4, <2>1, <3>1 DEF Reached, SessionInv, SessionVariables
    <3> QED BY <3>2 DEF ClientProgress
  <2>2. CASE p = Server
    BY <1>1, <1>4, <2>2, Undisturbed DEF SessionInv, SessionVariables
  <2> QED BY <2>1, <2>2
<1>8. ServerProgress'
  <2>1. CASE p = Server
    <3>1. /\ Reached(Server, {"close", "done"}, BothHellos, OfferedSuite, 2, 3, SharedKey)
          /\ plaintext = message
      BY <1>1, <2>1 DEF SessionInv, ServerProgress, Reached
    <3>2. Reached(Server, {"close", "done"}, BothHellos, OfferedSuite, 2, 3, SharedKey)'
      BY <1>1, <1>4, <2>1, <3>1 DEF Reached, SessionInv, SessionVariables
    <3> QED BY <1>1, <3>1, <3>2 DEF ServerProgress
  <2>2. CASE p = Client
    BY <1>1, <1>4, <2>2, Undisturbed DEF SessionInv, SessionVariables
  <2> QED BY <2>1, <2>2
<1>9. ConnectionEnds'
  <2>1. /\ \A q \in Peer : q # p => pc'[q] = pc[q] /\ state'[q] = state[q]
        /\ pc'[p] = "done" /\ state'[p] = "CLOSED"
    BY <1>1 DEF SessionInv, SessionVariables
  <2>2. \A q, r \in Peer : q # r =>
          /\ closing'[q] => pc'[q] = "done"
          /\ state'[q] = "CLOSED" => pc'[q] = "done"
          /\ pc'[q] = "failed" => state'[q] = "FIN_WAIT"
    BY <1>3, <2>1 DEF SessionInv, ConnectionEnds
  <2>3. ~closing[p]
    BY <1>1 DEF SessionInv, ConnectionEnds, Peer
  <2>4. \A q, r \in Peer : q # r /\ state'[q] = "FIN_WAIT" => closing'[r]
    BY <1>3, <2>1, <2>3 DEF SessionInv, ConnectionEnds
  <2> QED BY <2>2, <2>4 DEF ConnectionEnds
<1> QED BY <1>5, <1>6, <1>7, <1>8, <1>9 DEF SessionInv

\* The next record arrives: it is the one that was sent in its place.
LEMMA DeliverStep ==
    ASSUME SessionInv, DeliverToServer \/ DeliverToClient
    PROVE  SessionInv'
<1> USE TwoPeers
<1>1. /\ UNCHANGED <<pc, polling, transcript, suite, cipher, message, plaintext, toServer,
                     toClient, state, closing, taken>>
  BY DEF DeliverToServer, DeliverToClient, programVars, ToServer!Deliver, ToClient!Deliver
<1>2. \A q \in Peer : Given(q)' = Given(q)
  BY <1>1 DEF Given
<1>3. ClientProgress' /\ ServerProgress'
  BY <1>1, <1>2, Undisturbed DEF SessionInv
<1>4. OnlyTheseSent' /\ ConnectionEnds'
  BY <1>1 DEF SessionInv, OnlyTheseSent, ConnectionEnds
<1>5. ASSUME NEW s \in Seq(TTLSRecord), NEW t \in Seq(TTLSRecord), NEW u,
             IsPrefixOf(t, s), Len(t) < Len(s), u = Append(t, s[Len(t) + 1])
      PROVE  /\ u \in Seq(TTLSRecord) /\ IsPrefixOf(u, s)
             /\ \A n \in Nat : n <= Len(t) => n <= Len(u)
  <2>1. s[Len(t) + 1] \in TTLSRecord
    BY <1>5
  <2>2. /\ u \in Seq(TTLSRecord) /\ Len(u) = Len(t) + 1
        /\ \A i \in 1..Len(t) : u[i] = t[i]
        /\ u[Len(t) + 1] = s[Len(t) + 1]
    BY <1>5, <2>1, AppendProperties
  <2> QED BY <1>5, <2>2 DEF IsPrefixOf
<1>6. CASE DeliverToServer
  <2>1. /\ atServer' = Append(atServer, toServer[Len(atServer) + 1])
        /\ Len(atServer) < Len(toServer) /\ UNCHANGED atClient
    BY <1>6 DEF DeliverToServer, ToServer!Deliver
  <2>2. /\ atServer' \in Seq(TTLSRecord) /\ IsPrefixOf(atServer', toServer)
        /\ taken[Server] <= Len(atServer')
    <3>1. /\ toServer \in Seq(TTLSRecord) /\ atServer \in Seq(TTLSRecord) /\ IsPrefixOf(atServer, toServer)
          /\ taken[Server] \in Nat /\ taken[Server] <= Len(atServer)
      BY DEF SessionInv, SessionVariables, StreamsInOrder
    <3> QED BY <1>5, <2>1, <3>1
  <2>3. StreamsInOrder'
    BY <1>1, <2>1, <2>2 DEF SessionInv, StreamsInOrder, IsPrefixOf
  <2>4. SessionVariables'
    BY <1>1, <2>1, <2>2 DEF SessionInv, SessionVariables
  <2> QED BY <1>3, <1>4, <2>3, <2>4 DEF SessionInv
<1>7. CASE DeliverToClient
  <2>1. /\ atClient' = Append(atClient, toClient[Len(atClient) + 1])
        /\ Len(atClient) < Len(toClient) /\ UNCHANGED atServer
    BY <1>7 DEF DeliverToClient, ToClient!Deliver
  <2>2. /\ atClient' \in Seq(TTLSRecord) /\ IsPrefixOf(atClient', toClient)
        /\ taken[Client] <= Len(atClient')
    <3>1. /\ toClient \in Seq(TTLSRecord) /\ atClient \in Seq(TTLSRecord) /\ IsPrefixOf(atClient, toClient)
          /\ taken[Client] \in Nat /\ taken[Client] <= Len(atClient)
      BY DEF SessionInv, SessionVariables, StreamsInOrder
    <3> QED BY <1>5, <2>1, <3>1
  <2>3. StreamsInOrder'
    BY <1>1, <2>1, <2>2 DEF SessionInv, StreamsInOrder, IsPrefixOf
  <2>4. SessionVariables'
    BY <1>1, <2>1, <2>2 DEF SessionInv, SessionVariables
  <2> QED BY <1>3, <1>4, <2>3, <2>4 DEF SessionInv
<1> QED BY <1>6, <1>7

LEMMA FinArrivesStep ==
    ASSUME SessionInv, NEW p \in Peer, FinArrives(p)
    PROVE  SessionInv'
<1> USE TwoPeers
<1>1. /\ state[p] = "ESTABLISHED" /\ state' = [state EXCEPT ![p] = "FIN_WAIT"]
      /\ \E q \in Peer \ {p} : closing[q]
      /\ UNCHANGED <<pc, polling, transcript, suite, cipher, message, plaintext, toServer, atServer,
                     toClient, atClient, closing, taken>>
  BY DEF FinArrives, programVars, streamVars
<1>2. \A q \in Peer : Given(q)' = Given(q)
  BY <1>1 DEF Given
<1>3. SessionVariables'
  BY <1>1 DEF SessionInv, SessionVariables
<1>4. ClientProgress' /\ ServerProgress'
  BY <1>1, <1>2, Undisturbed DEF SessionInv
<1>5. OnlyTheseSent' /\ StreamsInOrder'
  BY <1>1 DEF SessionInv, OnlyTheseSent, StreamsInOrder, IsPrefixOf
<1>6. ConnectionEnds'
  <2>1. /\ \A q \in Peer : q # p => state'[q] = state[q]
        /\ state'[p] = "FIN_WAIT"
    BY <1>1 DEF SessionInv, SessionVariables
  <2>2. \A q \in Peer : q # p => closing[q]
    BY <1>1
  <2> QED BY <1>1, <2>1, <2>2 DEF SessionInv, ConnectionEnds
<1> QED BY <1>3, <1>4, <1>5, <1>6 DEF SessionInv

\* A receive loop that dies, as a stuttering step, changes nothing the invariant
\* looks at: it says only what has arrived, not what will.
LEMMA StutteringStep ==
    ASSUME SessionInv,
           UNCHANGED <<pc, polling, transcript, suite, cipher, message, plaintext, toServer,
                       atServer, toClient, atClient, state, closing, taken>>
    PROVE  SessionInv'
<1>1. \A p \in Peer : Given(p)' = Given(p)
  BY DEF Given
<1>2. ClientProgress' /\ ServerProgress'
  BY <1>1, TwoPeers, Undisturbed DEF SessionInv
<1>3. SessionVariables'
  BY DEF SessionInv, SessionVariables
<1>4. OnlyTheseSent' /\ StreamsInOrder' /\ ConnectionEnds'
  BY DEF SessionInv, OnlyTheseSent, StreamsInOrder, IsPrefixOf, ConnectionEnds
<1> QED BY <1>2, <1>3, <1>4 DEF SessionInv

-----------------------------------------------------------------------------
(* The invariant, and what follows from it *)

LEMMA SessionInitial == SessionInit => SessionInv
<1> SUFFICES ASSUME SessionInit PROVE SessionInv
  OBVIOUS
<1> USE TwoPeers DEF SessionInit
<1>1. /\ toServer = << >> /\ atServer = << >> /\ toClient = << >> /\ atClient = << >>
  BY DEF ToServer!Init, ToClient!Init
<1>2. /\ pc[Client] = "send_client_hello" /\ pc[Server] = "recv_client_hello"
      /\ \A p \in Peer : /\ polling[p] = FALSE /\ transcript[p] = << >> /\ suite[p] = NoValue
                         /\ cipher[p] = NoValue /\ state[p] = "ESTABLISHED"
                         /\ closing[p] = FALSE /\ taken[p] = 0
  OBVIOUS
<1>3. SessionVariables
  <2>1. pc \in [Peer -> ClientCalls \cup ServerCalls]
    BY DEF ClientCalls, ServerCalls
  <2>2. /\ polling \in [Peer -> BOOLEAN] /\ closing \in [Peer -> BOOLEAN]
        /\ state \in [Peer -> {"ESTABLISHED", "FIN_WAIT", "CLOSED"}]
    OBVIOUS
  <2>3. /\ transcript \in [Peer -> Seq(Hello)] /\ taken \in [Peer -> Nat]
        /\ suite \in [Peer -> CipherSuite \cup {NoValue}]
        /\ cipher \in [Peer -> {SharedKey, NoValue}]
    BY Transcripts
  <2> QED BY <1>1, <1>2, <2>1, <2>2, <2>3 DEF SessionVariables
<1>4. ClientProgress /\ ServerProgress
  BY <1>1, <1>2 DEF ClientProgress, ServerProgress, Reached
<1>5. OnlyTheseSent /\ StreamsInOrder /\ ConnectionEnds
  BY <1>1, <1>2 DEF OnlyTheseSent, StreamsInOrder, IsPrefixOf, ConnectionEnds
<1> QED BY <1>3, <1>4, <1>5 DEF SessionInv

\* Whatever the sizes of the messages and of the window, and wherever the records
\* and the FINs have got to: the place of each program in transport/ttp.py
\* determines its transcript, its suite, its key and the records it has sent and
\* taken, and these are the same in every run.
THEOREM SessionInvariance == SessionSpec => []SessionInv
<1>1. SessionInv /\ [SessionNext]_sessionVars => SessionInv'
  <2> SUFFICES ASSUME SessionInv, [SessionNext]_sessionVars PROVE SessionInv'
    OBVIOUS
  <2>1. CASE ClientStep
    BY <2>1, TwoPeers, SendClientHelloStep, RecvServerHelloStep, ClientSendsFinishedStep,
       ClientRecvFinishedStep, SendApplicationDataStep, WaitForAcksStep, CallRecvStep, CloseStep
       DEF ClientStep
  <2>2. CASE ServerStep
    BY <2>2, TwoPeers, RecvClientHelloStep, SendServerHelloStep, ServerRecvFinishedStep,
       ServerSendsFinishedStep, SetCipherStep, RecvApplicationDataStep, CallRecvStep, CloseStep
       DEF ServerStep
  <2>3. CASE DeliverToServer \/ DeliverToClient
    BY <2>3, DeliverStep
  <2>4. CASE \E p \in Peer : FinArrives(p)
    BY <2>4, FinArrivesStep
  <2>5. CASE \E p \in Peer : ReceiverDies(p)
    <3>1. UNCHANGED <<pc, polling, transcript, suite, cipher, message, plaintext, toServer, atServer,
                      toClient, atClient, state, closing, taken>>
      BY <2>5 DEF ReceiverDies, programVars, streamVars
    <3> QED BY <3>1, StutteringStep
  <2>6. CASE UNCHANGED sessionVars
    <3>1. UNCHANGED <<pc, polling, transcript, suite, cipher, message, plaintext, toServer, atServer,
                      toClient, atClient, state, closing, taken>>
      BY <2>6 DEF sessionVars, programVars, streamVars
    <3> QED BY <3>1, StutteringStep
  <2> QED BY <2>1, <2>2, <2>3, <2>4, <2>5, <2>6 DEF SessionNext
<1> QED BY <1>1, SessionInitial, PTL DEF SessionSpec

\* Every variable of the session has its type, whatever the sizes, and recv() has
\* returned no more records than have arrived.
THEOREM SessionTypes == SessionSpec => []SessionTypeOK
<1> DEFINE AliveOK == alive \in [Peer -> BOOLEAN]
<1>1. SessionInv /\ AliveOK => SessionTypeOK
  <2> SUFFICES ASSUME SessionInv, AliveOK PROVE SessionTypeOK
    OBVIOUS
  <2> USE TwoPeers DEF SessionInv
  <2>1. pc[Client] \in ClientCalls
    BY DEF ClientProgress, Reached, ClientCalls
  <2>2. pc[Server] \in ServerCalls
    BY DEF ServerProgress, Reached, ServerCalls
  <2>3. \A p \in Peer : taken[p] \in 0..Len(Accepted(p))
    <3>1. taken[Server] \in Nat /\ taken[Client] \in Nat /\ Len(atServer) \in Nat /\ Len(atClient) \in Nat
      BY DEF SessionVariables
    <3>2. taken[Server] \in 0..Len(atServer) /\ taken[Client] \in 0..Len(atClient)
      BY <3>1 DEF StreamsInOrder
    <3> QED BY <3>2 DEF Accepted
  <2> QED BY <2>1, <2>2, <2>3 DEF SessionVariables, SessionTypeOK
<1>2. SessionInit => AliveOK
  BY DEF SessionInit
<1>3. AliveOK /\ [SessionNext]_sessionVars => AliveOK'
  BY DEF SessionNext, ClientStep, ServerStep, DeliverToServer, DeliverToClient, FinArrives,
         ReceiverDies, sessionVars
<1> HIDE DEF AliveOK
<1> QED BY <1>1, <1>2, <1>3, SessionInvariance, PTL DEF SessionSpec

\* Where the invariant puts one program when the other is through.
LEMMA Through ==
    ASSUME SessionInv
    PROVE  /\ ClientDone => ServerDone \/ pc[Server] = "failed"
           /\ ServerVerified => transcript[Server] = BothHellos /\ suite[Server] = OfferedSuite
           /\ pc[Server] = "failed" => transcript[Server] = BothHellos /\ suite[Server] = OfferedSuite
           /\ ClientDone => transcript[Client] = BothHellos /\ suite[Client] = OfferedSuite
           /\ ServerVerified => transcript[Client] = BothHellos /\ suite[Client] = OfferedSuite
<1> USE TwoPeers DEF SessionInv
<1> DEFINE c == Len(toClient)
           s == Len(toServer)
<1>1. c \in Nat /\ s \in Nat /\ taken[Client] \in Nat /\ taken[Server] \in Nat
  BY DEF SessionVariables
<1>2. taken[Client] <= c /\ taken[Server] <= s
  BY DEF SessionVariables, StreamsInOrder, IsPrefixOf
<1>3. ClientDone => taken[Client] = 2 /\ transcript[Client] = BothHellos /\ suite[Client] = OfferedSuite
  BY DEF ClientProgress, Reached, ClientDone
<1>4. ServerVerified => /\ taken[Server] = 2 \/ taken[Server] = 3
                        /\ transcript[Server] = BothHellos /\ suite[Server] = OfferedSuite
  BY DEF ServerProgress, Reached, ServerVerified
<1>5. pc[Server] = "failed" => transcript[Server] = BothHellos /\ suite[Server] = OfferedSuite
  BY DEF ServerProgress, Reached
<1>6. ServerDone \/ pc[Server] = "failed" \/ c = 0 \/ c = 1
  BY DEF ServerProgress, Reached, ServerDone
<1>7. (transcript[Client] = BothHellos /\ suite[Client] = OfferedSuite) \/ s = 0 \/ s = 1
  BY DEF ClientProgress, Reached
<1> HIDE DEF c, s
<1> QED BY <1>1, <1>2, <1>3, <1>4, <1>5, <1>6, <1>7

\* Whoever has checked the other's Finished agrees with it on the hellos and the
\* suite, and the client, when it is through, leaves no server in the handshake.
THEOREM AgreementOfSessions == SessionSpec => []SessionsAgree
<1>1. SessionInv => SessionsAgree
  <2> SUFFICES ASSUME SessionInv PROVE SessionsAgree
    OBVIOUS
  <2>1. ServerVerified => Agreed
    BY Through DEF Agreed
  <2>2. ClientDone /\ pc[Server] # "failed" => ServerVerified
    BY Through DEF ServerDone, ServerVerified
  <2>3. ClientDone => Agreed /\ (ServerDone \/ pc[Server] = "failed")
    BY <2>1, <2>2, Through DEF Agreed
  <2> QED BY <2>1, <2>3 DEF SessionsAgree
<1> QED BY <1>1, SessionInvariance, PTL

\* No FIN is processed by a server that is still in the handshake: what the client
\* waits for the server's Finished for.
THEOREM NoFinInTheHandshake == SessionSpec => []FinAfterHandshake
<1>1. SessionInv => FinAfterHandshake
  BY StillEstablished DEF FinAfterHandshake, ServerDone
<1> QED BY <1>1, SessionInvariance, PTL

\* No type, Finished, header or key is ever wrong: the only call that raises is the
\* server's recv() of the data, on a connection that the client's FIN has ended.
THEOREM RecvAloneRefuses == SessionSpec => []OnlyRecvRefuses
<1>1. SessionInv => OnlyRecvRefuses
  <2> SUFFICES ASSUME SessionInv PROVE OnlyRecvRefuses
    OBVIOUS
  <2>1. pc[Server] = "failed" => cipher[Server] = SharedKey
    BY DEF SessionInv, ServerProgress, Reached
  <2>2. pc[Server] = "failed" => state[Server] = "FIN_WAIT"
    BY TwoPeers DEF SessionInv, ConnectionEnds
  <2> QED BY <2>1, <2>2, StillEstablished DEF OnlyRecvRefuses
<1> QED BY <1>1, SessionInvariance, PTL

\* A server that is through with recv_application_data() has the client's message:
\* the part of ProgramsEnd that is not about time.
THEOREM TheMessageArrives ==
    SessionSpec => [](pc[Server] \in {"close", "done"} => plaintext = message)
<1>1. SessionInv => (pc[Server] \in {"close", "done"} => plaintext = message)
  BY DEF SessionInv, ServerProgress, Reached
<1> QED BY <1>1, SessionInvariance, PTL
=============================================================================
