---------------------------- MODULE TTLSSession ----------------------------
(***************************************************************************)
(* The TTLS handshake and the exchange of one message (ttls/, with the two *)
(* programs of transport/ttp.py) over an established TTP connection.       *)
(*                                                                         *)
(* The connection is what the other modules say of it: each direction is a *)
(* ReliableStream, which TTPTransfer implements; the peer's FIN is         *)
(* processed at any time after its close(), data before it delivered or    *)
(* not (TTPTeardown); a chunk larger than the window is never sent.  A     *)
(* record that fits into the window is one chunk, and one recv().  The     *)
(* receive loop of either side may die at any time (TTPTransfer); that the *)
(* same races can make a send() raise is left to TTPTransfer.              *)
(***************************************************************************)
EXTENDS Integers, Sequences

CONSTANTS
    Client, Server,
    Message,        \* what --message may be
    MessageSize,    \* encoded sizes in bytes
    WindowSize,     \* window_size of both connections: 4096 in transport/ttp.py
    NoValue         \* Python's None

ASSUME SessionAssumption ==
    /\ Client # Server
    /\ MessageSize \in [Message -> Nat] /\ WindowSize \in Nat
    /\ NoValue \notin Message

Peer == {Client, Server}

VARIABLES
    pc,             \* the next call of each program
    polling,        \* inside recv(), past the check of the state
    transcript,     \* hellos in the order each side has added them
    suite,          \* cipher suite each side has settled on
    cipher,         \* key of session.cipher, or NoValue
    state,          \* state of each side's TTPConnection
    closing,        \* close() has been called while ESTABLISHED: the FIN is sent
    toServer, atServer,   \* records given to the client's send(), accepted by the server
    toClient, atClient,
    alive,          \* the receive loop of each side runs
    taken,          \* number of records recv() has returned to each side
    message,        \* what the client is to send
    plaintext       \* what recv_application_data() has returned to the server

programVars == <<pc, polling, transcript, suite, cipher, message, plaintext>>
streamVars == <<toServer, atServer, toClient, atClient>>
sessionVars == <<programVars, streamVars, state, closing, alive, taken>>

RecordType == {"APPLICATION_DATA", "HANDSHAKE"}
CipherSuite == {"TTLS_NULL", "TTLS_AES_256_GCM", "TTLS_KYBER_AES_256_GCM"}
SUPPORTED_CIPHER_SUITES == {"TTLS_AES_256_GCM", "TTLS_KYBER_AES_256_GCM"}

\* Both programs derive the key from the same literal.
SharedKey == "TTLS TEST SECRET"

Hello == [type : {"CLIENT_HELLO", "SERVER_HELLO"}, suite : CipherSuite]

Finished == [type : {"FINISHED"}, verify_data : Seq(Hello)]

HandshakeMessage == Hello \cup Finished

\* The part of a record the cipher authenticates.
Header(type, length) == [type |-> type, length |-> length]

\* AES-GCM: it decrypts with the key and the header it was encrypted with, only.
Ciphertext == [key : {SharedKey}, header : [type : RecordType, length : Nat], text : Message]

TTLSRecord == [type : RecordType, length : Nat, payload : HandshakeMessage \cup Ciphertext]

RECORD_HEADER_SIZE == 6       \* struct "!BBI"
MESSAGE_HEADER_SIZE == 5      \* struct "!BI"
HELLO_SIZE == 3               \* struct "!BH"
VERIFY_DATA_SIZE == 32
NONCE_SIZE == 12
TAG_SIZE == 16

\* MUTANT: the authenticated header carries the length of the plaintext.
EncryptedLengthOfPlaintext(size) == size

EncryptedLength(size) == NONCE_SIZE + size + TAG_SIZE

HandshakeRecord(m) ==
    [type |-> "HANDSHAKE", payload |-> m,
     length |-> MESSAGE_HEADER_SIZE +
                (IF m.type = "FINISHED" THEN VERIFY_DATA_SIZE ELSE HELLO_SIZE)]

\* encrypt() returns the nonce, the ciphertext, as long as the text, and the tag.
DataRecord(key, text) ==
    [type |-> "APPLICATION_DATA",
     length |-> NONCE_SIZE + MessageSize[text] + TAG_SIZE,
     payload |-> [key |-> key, text |-> text,
                  header |-> Header("APPLICATION_DATA", EncryptedLength(MessageSize[text]))]]

\* MUTANT: a segment may not fill the window.
FitsWindowStrictly(record) == RECORD_HEADER_SIZE + record.length < WindowSize

\* SendWindow.can_send() with nothing in flight: the segments before it are
\* acknowledged sooner or later.
FitsWindow(record) == RECORD_HEADER_SIZE + record.length <= WindowSize

ToServer == INSTANCE ReliableStream
            WITH Chunk <- TTLSRecord, sent <- toServer, delivered <- atServer
ToClient == INSTANCE ReliableStream
            WITH Chunk <- TTLSRecord, sent <- toClient, delivered <- atClient

SessionInit ==
    /\ pc = [p \in Peer |-> IF p = Client THEN "send_client_hello" ELSE "recv_client_hello"]
    /\ polling = [p \in Peer |-> FALSE]
    /\ transcript = [p \in Peer |-> << >>]
    /\ suite = [p \in Peer |-> NoValue]
    /\ cipher = [p \in Peer |-> NoValue]
    /\ state = [p \in Peer |-> "ESTABLISHED"]
    /\ closing = [p \in Peer |-> FALSE]
    /\ alive = [p \in Peer |-> TRUE]
    /\ ToServer!Init /\ ToClient!Init
    /\ taken = [p \in Peer |-> 0]
    /\ message \in Message
    /\ plaintext = NoValue

-----------------------------------------------------------------------------
(* TTPConnection.send() and recv() as the session calls them *)

\* Program p goes on to `next`.
Goto(p, next) == pc' = [pc EXCEPT ![p] = next]

\* send_record(): hands the record to the connection, which raises, and ends the
\* program, once its state is no longer ESTABLISHED.
SendRecord(p, record, next) ==
    IF state[p] = "ESTABLISHED"
    THEN /\ Goto(p, next)
         /\ IF p = Client THEN ToServer!Send(record) /\ UNCHANGED <<toClient, atClient>>
                          ELSE ToClient!Send(record) /\ UNCHANGED <<toServer, atServer>>
    ELSE Goto(p, "failed") /\ UNCHANGED streamVars

Accepted(p) == IF p = Client THEN atClient ELSE atServer

Receiving == {"recv_client_hello", "recv_server_hello", "recv_finished", "recv_data"}

\* recv() checks the state once, then polls the receive buffer.
CallRecv(p) ==
    /\ pc[p] \in Receiving /\ ~polling[p]
    /\ IF state[p] = "ESTABLISHED"
       THEN polling' = [polling EXCEPT ![p] = TRUE] /\ UNCHANGED pc
       ELSE Goto(p, "failed") /\ UNCHANGED polling
    /\ UNCHANGED <<transcript, suite, cipher, message, plaintext, streamVars, state, closing,
                   taken>>

\* The record recv_record() returns to p.
Received(p) == Accepted(p)[taken[p] + 1]

\* MUTANT: the wait is not over when a record has been taken.
TakeRecordStillPolling(p) ==
    /\ polling[p]
    /\ taken[p] < Len(Accepted(p))
    /\ taken' = [taken EXCEPT ![p] = @ + 1]
    /\ UNCHANGED polling

TakeRecord(p) ==
    /\ polling[p]
    /\ taken[p] < Len(Accepted(p))
    /\ taken' = [taken EXCEPT ![p] = @ + 1]
    /\ polling' = [polling EXCEPT ![p] = FALSE]

-----------------------------------------------------------------------------
(* TTLSSession *)

\* SHA-256 is taken to be injective: the digest is the transcript itself.
Digest(p) == transcript[p]

\* send_client_hello(), send_server_hello().
SendHello(p, type, s, next) ==
    LET m == [type |-> type, suite |-> s]
    IN  /\ transcript' = [transcript EXCEPT ![p] = Append(@, m)]
        /\ SendRecord(p, HandshakeRecord(m), next)

\* recv_client_hello(), recv_server_hello(): whatever message arrives is added
\* before its type is looked at.
RecvHello(p, type, next) ==
    LET record == Received(p)
        m == record.payload
    IN  /\ TakeRecord(p)
        /\ IF record.type # "HANDSHAKE"
           THEN Goto(p, "failed") /\ UNCHANGED <<transcript, suite>>
           ELSE /\ transcript' = [transcript EXCEPT ![p] = Append(@, m)]
                /\ IF m.type = type
                   THEN Goto(p, next) /\ suite' = [suite EXCEPT ![p] = m.suite]
                   ELSE Goto(p, "failed") /\ UNCHANGED suite

\* send_finished(): the message does not enter the transcript.
SendFinished(p, next) ==
    /\ pc[p] = "send_finished"
    /\ SendRecord(p, HandshakeRecord([type |-> "FINISHED", verify_data |-> Digest(p)]), next)
    /\ UNCHANGED <<polling, transcript, suite, cipher, message, plaintext, state, closing, taken>>

\* recv_finished().
RecvFinished(p, next) ==
    LET record == Received(p)
        m == record.payload
        valid == record.type = "HANDSHAKE" /\ m.type = "FINISHED" /\ m.verify_data = Digest(p)
    IN  /\ pc[p] = "recv_finished"
        /\ TakeRecord(p)
        /\ Goto(p, IF valid THEN next ELSE "failed")
        /\ UNCHANGED <<transcript, suite, cipher, message, plaintext, streamVars, state, closing>>

\* connection.close(), which returns (TTPTeardown): the FIN is sent unless the
\* peer's has been processed already.
Close(p) ==
    /\ pc[p] = "close"
    /\ closing' = [closing EXCEPT ![p] = state[p] = "ESTABLISHED"]
    /\ state' = [state EXCEPT ![p] = "CLOSED"]
    /\ Goto(p, "done")
    /\ UNCHANGED <<polling, transcript, suite, cipher, message, plaintext, streamVars, taken>>

-----------------------------------------------------------------------------
(* The client of transport/ttp.py *)

SendClientHello ==
    /\ pc[Client] = "send_client_hello"
    /\ SendHello(Client, "CLIENT_HELLO", "TTLS_AES_256_GCM", "recv_server_hello")
    /\ UNCHANGED <<polling, suite, cipher, message, plaintext, state, closing, taken>>

RecvServerHello ==
    /\ pc[Client] = "recv_server_hello"
    /\ RecvHello(Client, "SERVER_HELLO", "send_finished")
    /\ UNCHANGED <<cipher, message, plaintext, streamVars, state, closing>>

\* MUTANT: the client does not wait for the Finished of the server.
ClientSendsFinishedOnly == SendFinished(Client, "send_data")

ClientSendsFinished == SendFinished(Client, "recv_finished")

ClientRecvFinished == RecvFinished(Client, "send_data")

\* The cipher is set, and the message sent.
SendApplicationData ==
    /\ pc[Client] = "send_data"
    /\ cipher' = [cipher EXCEPT ![Client] = SharedKey]
    /\ SendRecord(Client, DataRecord(SharedKey, message), "wait_for_acks")
    /\ UNCHANGED <<polling, transcript, suite, message, plaintext, state, closing, taken>>

\* wait_for_acks() returns, with True or after its timeout: the program prints
\* which, and closes.
WaitForAcks ==
    /\ pc[Client] = "wait_for_acks"
    /\ Goto(Client, "close")
    /\ UNCHANGED <<polling, transcript, suite, cipher, message, plaintext, streamVars, state,
                   closing, taken>>

ClientStep ==
    /\ \/ SendClientHello \/ RecvServerHello \/ ClientSendsFinished \/ ClientRecvFinished
       \/ SendApplicationData \/ WaitForAcks \/ CallRecv(Client) \/ Close(Client)
    /\ UNCHANGED alive

-----------------------------------------------------------------------------
(* The server of transport/ttp.py *)

RecvClientHello ==
    /\ pc[Server] = "recv_client_hello"
    /\ RecvHello(Server, "CLIENT_HELLO", "send_server_hello")
    /\ UNCHANGED <<cipher, message, plaintext, streamVars, state, closing>>

\* MUTANT: the server announces the suite it prefers and goes on with the one offered.
SendServerHelloPreferred ==
    /\ pc[Server] = "send_server_hello"
    /\ SendHello(Server, "SERVER_HELLO", "TTLS_KYBER_AES_256_GCM", "recv_finished")
    /\ UNCHANGED <<polling, suite, cipher, message, plaintext, state, closing, taken>>

\* select_cipher_suite() raises for a suite the server does not support.
SendServerHello ==
    /\ pc[Server] = "send_server_hello"
    /\ IF suite[Server] \in SUPPORTED_CIPHER_SUITES
       THEN SendHello(Server, "SERVER_HELLO", suite[Server], "recv_finished")
       ELSE Goto(Server, "failed") /\ UNCHANGED <<transcript, streamVars>>
    /\ UNCHANGED <<polling, suite, cipher, message, plaintext, state, closing, taken>>

ServerRecvFinished == RecvFinished(Server, "send_finished")

ServerSendsFinished == SendFinished(Server, "set_cipher")

\* The cipher is set before anything else is received.
SetCipher ==
    /\ pc[Server] = "set_cipher"
    /\ cipher' = [cipher EXCEPT ![Server] = SharedKey]
    /\ Goto(Server, "recv_data")
    /\ UNCHANGED <<polling, transcript, suite, message, plaintext, streamVars, state, closing,
                   taken>>

\* recv_application_data(): decrypt() raises unless key and header are those of
\* encrypt().
RecvApplicationData ==
    LET record == Received(Server)
        valid == /\ record.type = "APPLICATION_DATA"
                 /\ record.payload.key = cipher[Server]
                 /\ record.payload.header = Header(record.type, record.length)
    IN  /\ pc[Server] = "recv_data"
        /\ TakeRecord(Server)
        /\ IF valid THEN plaintext' = record.payload.text /\ Goto(Server, "close")
                    ELSE Goto(Server, "failed") /\ UNCHANGED plaintext
        /\ UNCHANGED <<transcript, suite, cipher, message, streamVars, state, closing>>

ServerStep ==
    /\ \/ RecvClientHello \/ SendServerHello \/ ServerRecvFinished \/ ServerSendsFinished
       \/ SetCipher \/ RecvApplicationData \/ CallRecv(Server) \/ Close(Server)
    /\ UNCHANGED alive

-----------------------------------------------------------------------------
(* The connection *)

\* The next record arrives in order, unless it, or one before it, does not fit
\* into the window.  A connection that is CLOSED has cleared its receive buffer.
DeliverToServer ==
    /\ ToServer!Deliver
    /\ state[Server] # "CLOSED" /\ alive[Server]
    /\ FitsWindow(toServer[Len(atServer) + 1])
    /\ UNCHANGED <<programVars, toClient, atClient, state, closing, alive, taken>>

DeliverToClient ==
    /\ ToClient!Deliver
    /\ state[Client] # "CLOSED" /\ alive[Client]
    /\ FitsWindow(toClient[Len(atClient) + 1])
    /\ UNCHANGED <<programVars, toServer, atServer, state, closing, alive, taken>>

\* The FIN of the other side is processed, whatever is still missing before it.
FinArrives(p) ==
    /\ state[p] = "ESTABLISHED" /\ alive[p]
    /\ \E q \in Peer \ {p} : closing[q]
    /\ state' = [state EXCEPT ![p] = "FIN_WAIT"]
    /\ UNCHANGED <<programVars, streamVars, closing, alive, taken>>

\* An exception ends _receive_loop(): the race of claim_receiver, a number that does
\* not fit, or a segment altered on the way (IntactIsDelivered of TTPRawSocket).  The
\* state of the connection stays as it is, and recv() does not notice.
ReceiverDies(p) ==
    /\ alive[p]
    /\ alive' = [alive EXCEPT ![p] = FALSE]
    /\ UNCHANGED <<programVars, streamVars, state, closing, taken>>

SessionNext ==
    \/ ClientStep \/ ServerStep
    \/ DeliverToServer \/ DeliverToClient
    \/ \E p \in Peer : FinArrives(p) \/ ReceiverDies(p)

SessionSpec == SessionInit /\ [][SessionNext]_sessionVars

ReceiversLive == \A p \in Peer : alive[p]

\* Both programs run.  What is given to send() arrives if it fits, on a network that
\* loses nothing and acknowledges within the timeouts, and only as long as both receive
\* loops run: one delivers, the other makes room in the window and retransmits
\* (DeliveredUnlessDropped of TTPOpening).
FairSessionSpec ==
    /\ SessionSpec
    /\ WF_sessionVars(ClientStep) /\ WF_sessionVars(ServerStep)
    /\ WF_sessionVars(ReceiversLive /\ DeliverToServer)
    /\ WF_sessionVars(ReceiversLive /\ DeliverToClient)

-----------------------------------------------------------------------------
(* Properties *)

ClientCalls == {"send_client_hello", "recv_server_hello", "send_finished", "recv_finished",
                "send_data", "wait_for_acks", "close", "done", "failed"}
ServerCalls == {"recv_client_hello", "send_server_hello", "recv_finished", "send_finished",
                "set_cipher", "recv_data", "close", "done", "failed"}

\* Every variable has its type, and no program polls a buffer it has not asked for.
SessionTypeOK ==
    /\ pc[Client] \in ClientCalls /\ pc[Server] \in ServerCalls
    /\ polling \in [Peer -> BOOLEAN]
    /\ \A p \in Peer : polling[p] => pc[p] \in Receiving
    /\ transcript \in [Peer -> Seq(Hello)]
    /\ suite \in [Peer -> CipherSuite \cup {NoValue}]
    /\ cipher \in [Peer -> {SharedKey, NoValue}]
    /\ state \in [Peer -> {"ESTABLISHED", "FIN_WAIT", "CLOSED"}]
    /\ closing \in [Peer -> BOOLEAN] /\ alive \in [Peer -> BOOLEAN]
    /\ \A s \in {toServer, atServer, toClient, atClient} : s \in Seq(TTLSRecord)
    /\ \A p \in Peer : taken[p] \in 0..Len(Accepted(p))
    /\ message \in Message /\ plaintext \in Message \cup {NoValue}

ClientDone == pc[Client] \in {"send_data", "wait_for_acks", "close", "done"}
ServerVerified == pc[Server] \in {"send_finished", "set_cipher", "recv_data", "close", "done"}
ServerDone == pc[Server] \in {"set_cipher", "recv_data", "close", "done"}

Agreed ==
    /\ transcript[Client] = transcript[Server]
    /\ suite[Client] = suite[Server]

\* Whoever has checked the other's Finished has the same two hellos and the same
\* cipher suite; and the client is through the handshake only once the server has
\* checked the client's Finished, or has been stopped by the end of the connection.
SessionsAgree ==
    /\ ServerVerified => Agreed
    /\ ClientDone => Agreed /\ (ServerDone \/ pc[Server] = "failed")

\* "Without waiting for this Finished, the client may send FIN while the server is
\* still concluding the handshake" (transport/ttp.py, in Portuguese): it waits, and
\* no FIN finds the server in the handshake.
FinAfterHandshake ==
    state[Server] # "ESTABLISHED" => ServerDone \/ pc[Server] = "failed"

\* Nothing in the session itself makes a program raise (a type, a Finished, a
\* header or a key that does not match): only recv() refusing to read a connection
\* the peer has closed, and of the client's calls not even that one.
OnlyRecvRefuses ==
    /\ pc[Client] # "failed"
    /\ pc[Server] = "failed" => state[Server] = "FIN_WAIT" /\ cipher[Server] = SharedKey

\* The largest message whose record leaves: the window less 6 bytes of header, 12 of
\* nonce and 16 of tag.  A larger one stays in the send queue for ever.
Fits == MessageSize[message] <= WindowSize - 34

\* The program waits in recv() for what a receive loop that has died will not bring.
Stuck(p) == polling[p] /\ ~ReceiversLive

\* Each program ends, unless it ends up in recv() when a receive loop has died: nothing
\* in the session waits for anything else.  The server's, if the message fits, ends with
\* the message or refused by recv(), and never with another text.
ProgramsEnd ==
    /\ <>[](pc[Client] = "done" \/ Stuck(Client))
    /\ Fits => <>[](\/ pc[Server] = "done" /\ plaintext = message
                   \/ pc[Server] = "failed"
                   \/ Stuck(Server))
=============================================================================
