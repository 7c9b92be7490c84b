---------------------------- MODULE TTPHandshake ----------------------------
(***************************************************************************)
(* The three-way handshake between clients, one process after the other,   *)
(* and a TTPServer (ttp/server.py), which calls accept() again and again   *)
(* on one raw socket and may be restarted.  Each connect() and each        *)
(* accept() makes a TTPConnection of its own, with a new initial sequence  *)
(* number; all of them use the same two ports, so that segments of an      *)
(* earlier attempt reach a later one.  The receiver thread of an accepted  *)
(* connection reads the socket its listener goes on reading: a segment     *)
(* goes to one of the two.                                                 *)
(*                                                                         *)
(* The first statement of a handshake is a log line, and only the first    *)
(* connection of a process obtains the shared logger (ttp/log_config.py):  *)
(* in any other log() raises AttributeError.                               *)
(*                                                                         *)
(* Only the handshake is here: its outcome, the numbers each side ends up  *)
(* with, is the initial state of TTPTransfer.                              *)
(***************************************************************************)
EXTENDS TTPPacket

CONSTANTS
    Client, Server,
    Attempts,      \* bound: calls of connect(), one after the other
    Accepts,       \* bound: calls of accept()
    ClientISN,     \* initial sequence number of each attempt
    ServerISN,     \* and of each accepted connection
    CanLose, CanDuplicate

Attempt == 1..Attempts
Accept == 1..Accepts

\* The numbers are drawn from 2^32 at random, "so that stale segments from a
\* previous connection are unlikely to be mistaken for new ones": here they differ.
ASSUME HandshakeAssumption ==
    /\ Client # Server
    /\ Attempts \in Nat /\ Accepts \in Nat
    /\ ClientISN \in [Attempt -> 0..SeqLimit - 1] /\ ServerISN \in [Accept -> 0..SeqLimit - 1]
    /\ \A n, k \in Attempt : ClientISN[n] = ClientISN[k] => n = k
    /\ \A m, k \in Accept : ServerISN[m] = ServerISN[k] => m = k
    /\ CanLose \in BOOLEAN /\ CanDuplicate \in BOOLEAN

VARIABLES
    cstate, crecv_next,   \* state and RCV.NXT of each attempt's connection
    sstate, srecv_next,   \* and of each accepted connection
    first,                \* the first accept() of the running server process
    network               \* segments in flight towards each side

handshakeVars == <<cstate, crecv_next, sstate, srecv_next, first, network>>

\* FAILED: connect() or accept() has raised, or its process has ended meanwhile.
\* GONE: the client process has ended.
ClientState == {"CLOSED", "SYN_SENT", "ESTABLISHED", "FAILED", "GONE"}
ServerState == {"CLOSED", "SYN_RECEIVED", "ESTABLISHED", "FAILED"}

Syn(n) == [flags |-> {"SYN"}, seq |-> ClientISN[n], ack |-> 0, payload |-> NoPayload]

SynAck(m, recv_next) ==
    [flags |-> {"SYN", "ACK"}, seq |-> ServerISN[m], ack |-> recv_next, payload |-> NoPayload]

\* Built after the SYN has taken ClientISN[n].
Ack(n, recv_next) ==
    [flags |-> {"ACK"}, seq |-> ClientISN[n] + 1, ack |-> recv_next, payload |-> NoPayload]

\* send_next of a connection whose SYN, or SYN-ACK, has been built.
ExpectedAck(isn) == isn + 1

HandshakeInit ==
    /\ cstate = [n \in Attempt |-> "CLOSED"]
    /\ crecv_next = [n \in Attempt |-> 0]
    /\ sstate = [m \in Accept |-> "CLOSED"]
    /\ srecv_next = [m \in Accept |-> 0]
    /\ first = 1
    /\ network = [side \in {Client, Server} |-> {}]

\* The network once `side` has read pk from its socket.
Read(side, pk) ==
    IF CanDuplicate THEN {network[side], network[side] \ {pk}} ELSE {network[side] \ {pk}}

-----------------------------------------------------------------------------
(* The client *)

\* connect() of a new process sends the SYN.  That the previous process is over is
\* assumed of the environment, not enforced by the code: all use one local port.
Connect(n) ==
    /\ cstate[n] = "CLOSED"
    /\ \A k \in Attempt : k < n => cstate[k] \in {"FAILED", "GONE"}
    /\ network' = [network EXCEPT ![Server] = @ \cup {Syn(n)}]
    /\ cstate' = [cstate EXCEPT ![n] = "SYN_SENT"]
    /\ UNCHANGED <<crecv_next, sstate, srecv_next, first>>

\* MUTANT: the number the SYN-ACK acknowledges is not compared.
TakeSynAckUnchecked(n) ==
    /\ cstate[n] = "SYN_SENT"
    /\ \E pk \in network[Client] : \E left \in Read(Client, pk) :
         /\ {"SYN", "ACK"} \subseteq pk.flags
         /\ crecv_next' = [crecv_next EXCEPT ![n] = pk.seq + SequenceSpace(pk)]
         /\ network' = [network EXCEPT ![Client] = left, ![Server] = @ \cup {Ack(n, End(pk))}]
    /\ cstate' = [cstate EXCEPT ![n] = "ESTABLISHED"]
    /\ UNCHANGED <<sstate, srecv_next, first>>

\* A SYN-ACK arrives, the only segment a server sends to a client that waits for
\* one.  It is answered with the ACK, or connect() raises: when it acknowledges
\* another number, or when the ACK cannot be encoded.
TakeSynAck(n) ==
    /\ cstate[n] = "SYN_SENT"
    /\ \E pk \in network[Client] : \E left \in Read(Client, pk) :
         /\ {"SYN", "ACK"} \subseteq pk.flags
         /\ \/ /\ pk.ack # ExpectedAck(ClientISN[n])
               /\ cstate' = [cstate EXCEPT ![n] = "FAILED"]
               /\ network' = [network EXCEPT ![Client] = left]
               /\ UNCHANGED crecv_next
            \/ /\ pk.ack = ExpectedAck(ClientISN[n])
               /\ crecv_next' = [crecv_next EXCEPT ![n] = pk.seq + SequenceSpace(pk)]
               /\ \/ /\ Encodable(Ack(n, End(pk)))
                     /\ cstate' = [cstate EXCEPT ![n] = "ESTABLISHED"]
                     /\ network' = [network EXCEPT ![Client] = left,
                                                   ![Server] = @ \cup {Ack(n, End(pk))}]
                  \/ /\ ~Encodable(Ack(n, End(pk)))
                     /\ cstate' = [cstate EXCEPT ![n] = "FAILED"]
                     /\ network' = [network EXCEPT ![Client] = left]
    /\ UNCHANGED <<sstate, srecv_next, first>>

\* The receiver of an established client reads what is left of the handshake: a
\* SYN-ACK is an ACK to it, and changes neither state nor numbers here.
ClientReceives(n) ==
    /\ cstate[n] = "ESTABLISHED"
    /\ \E pk \in network[Client] : \E left \in Read(Client, pk) :
         network' = [network EXCEPT ![Client] = left]
    /\ UNCHANGED <<cstate, crecv_next, sstate, srecv_next, first>>

\* The client process is interrupted, or ends.
Leave(n) ==
    /\ cstate[n] \in {"SYN_SENT", "ESTABLISHED"}
    /\ cstate' = [cstate EXCEPT ![n] = "GONE"]
    /\ UNCHANGED <<crecv_next, sstate, srecv_next, first, network>>

-----------------------------------------------------------------------------
(* The server *)

\* The m-th accept() is waiting for a SYN.
Listening(m) ==
    /\ sstate[m] = "CLOSED"
    /\ \A k \in Accept : k < m => sstate[k] \in {"ESTABLISHED", "FAILED"}

\* MUTANT: the SYN is answered, and its number not kept.
TakeSynForgetsNumber(m) ==
    /\ Listening(m)
    /\ \E pk \in network[Server] : \E left \in Read(Server, pk) :
         /\ "SYN" \in pk.flags
         /\ Encodable(SynAck(m, End(pk)))
         /\ network' = [network EXCEPT ![Server] = left,
                                       ![Client] = @ \cup {SynAck(m, End(pk))}]
    /\ sstate' = [sstate EXCEPT ![m] = "SYN_RECEIVED"]
    /\ UNCHANGED <<cstate, crecv_next, srecv_next, first>>

\* _wait_for_syn() returns a SYN.  The first connection of the process answers it,
\* unless the SYN-ACK cannot be encoded; in any other the handshake raises before
\* it has done anything.
TakeSyn(m) ==
    /\ Listening(m)
    /\ \E pk \in network[Server] : \E left \in Read(Server, pk) :
         /\ "SYN" \in pk.flags
         /\ \/ /\ m = first
               /\ Encodable(SynAck(m, End(pk)))
               /\ srecv_next' = [srecv_next EXCEPT ![m] = pk.seq + SequenceSpace(pk)]
               /\ sstate' = [sstate EXCEPT ![m] = "SYN_RECEIVED"]
               /\ network' = [network EXCEPT ![Server] = left,
                                             ![Client] = @ \cup {SynAck(m, End(pk))}]
            \/ /\ m = first
               /\ ~Encodable(SynAck(m, End(pk)))
               /\ srecv_next' = [srecv_next EXCEPT ![m] = pk.seq + SequenceSpace(pk)]
               /\ sstate' = [sstate EXCEPT ![m] = "FAILED"]
               /\ network' = [network EXCEPT ![Server] = left]
            \/ /\ m # first
               /\ sstate' = [sstate EXCEPT ![m] = "FAILED"]
               /\ network' = [network EXCEPT ![Server] = left]
               /\ UNCHANGED srecv_next
    /\ UNCHANGED <<cstate, crecv_next, first>>

\* MUTANT: any ACK completes the handshake.
TakeAckUnchecked(m) ==
    /\ sstate[m] = "SYN_RECEIVED"
    /\ \E pk \in network[Server] : \E left \in Read(Server, pk) :
         /\ "ACK" \in pk.flags
         /\ network' = [network EXCEPT ![Server] = left]
    /\ sstate' = [sstate EXCEPT ![m] = "ESTABLISHED"]
    /\ UNCHANGED <<cstate, crecv_next, srecv_next, first>>

\* The first ACK to arrive completes the handshake, or makes accept() raise.
TakeAck(m) ==
    /\ sstate[m] = "SYN_RECEIVED"
    /\ \E pk \in network[Server] : \E left \in Read(Server, pk) :
         /\ "ACK" \in pk.flags
         /\ network' = [network EXCEPT ![Server] = left]
         /\ sstate' = [sstate EXCEPT ![m] =
              IF pk.ack = ExpectedAck(ServerISN[m]) THEN "ESTABLISHED" ELSE "FAILED"]
    /\ UNCHANGED <<cstate, crecv_next, srecv_next, first>>

\* A segment without the flag that is being waited for is dropped.
Discard(m) ==
    /\ \E pk \in network[Server] : \E left \in Read(Server, pk) :
         /\ \/ Listening(m) /\ "SYN" \notin pk.flags
            \/ sstate[m] = "SYN_RECEIVED" /\ "ACK" \notin pk.flags
         /\ network' = [network EXCEPT ![Server] = left]
    /\ UNCHANGED <<cstate, crecv_next, sstate, srecv_next, first>>

\* The receiver of an accepted connection reads a segment from the listener's
\* socket: it ignores a SYN, which no accept() will see.
ServerReceives(m) ==
    /\ sstate[m] = "ESTABLISHED"
    /\ m >= first
    /\ \E pk \in network[Server] : \E left \in Read(Server, pk) :
         network' = [network EXCEPT ![Server] = left]
    /\ UNCHANGED <<cstate, crecv_next, sstate, srecv_next, first>>

\* The server process ends, with its connections, and is started again.
RestartServer ==
    /\ \E m \in Accept :
         /\ m >= first
         /\ sstate[m] # "CLOSED"
         /\ \A k \in Accept : k > m => sstate[k] = "CLOSED"
         /\ first' = m + 1
    /\ sstate' = [m \in Accept |-> IF sstate[m] = "SYN_RECEIVED" THEN "FAILED" ELSE sstate[m]]
    /\ UNCHANGED <<cstate, crecv_next, srecv_next, network>>

-----------------------------------------------------------------------------

LoseSegment ==
    /\ CanLose
    /\ \E side \in {Client, Server} : \E pk \in network[side] :
         network' = [network EXCEPT ![side] = @ \ {pk}]
    /\ UNCHANGED <<cstate, crecv_next, sstate, srecv_next, first>>

HandshakeNext ==
    \/ \E n \in Attempt : Connect(n) \/ TakeSynAck(n) \/ ClientReceives(n) \/ Leave(n)
    \/ \E m \in Accept : TakeSyn(m) \/ TakeAck(m) \/ Discard(m) \/ ServerReceives(m)
    \/ RestartServer
    \/ LoseSegment

HandshakeSpec == HandshakeInit /\ [][HandshakeNext]_handshakeVars

-----------------------------------------------------------------------------
(* Properties *)

\* Every variable has its type; a side that has answered knows the number it expects
\* next; and a half-open connection of the server is the first of the process that
\* is running, over restarts and calls of accept() that raise.
HandshakeTypeOK ==
    /\ cstate \in [Attempt -> ClientState]
    /\ crecv_next \in [Attempt -> Nat]
    /\ sstate \in [Accept -> ServerState]
    /\ srecv_next \in [Accept -> Nat]
    /\ first \in Nat
    /\ network \in [{Client, Server} -> SUBSET TTPPacket]
    /\ \A n \in Attempt : cstate[n] = "ESTABLISHED" => crecv_next[n] > 0
    /\ \A m \in Accept :
         /\ sstate[m] \in {"SYN_RECEIVED", "ESTABLISHED"} => srecv_next[m] > 0
         /\ sstate[m] = "SYN_RECEIVED" => m = first

\* Attempt n and accepted connection m expect each other's next numbers: what
\* TTPTransfer starts from.
Agree(n, m) ==
    /\ srecv_next[m] = ExpectedAck(ClientISN[n])
    /\ crecv_next[n] = ExpectedAck(ServerISN[m])

\* A connection the server has accepted was completed by the attempt it believes
\* to be talking to, in spite of stale, repeated and lost segments of other ones.
ServerAgrees ==
    \A m \in Accept : sstate[m] = "ESTABLISHED" =>
        \E n \in Attempt : cstate[n] \notin {"CLOSED", "SYN_SENT"} /\ Agree(n, m)

\* An established client has been answered by a connection of the server that was
\* made for this very attempt, although the server may have given it up since.
ClientAgrees ==
    \A n \in Attempt : cstate[n] = "ESTABLISHED" =>
        \E m \in Accept : sstate[m] # "CLOSED" /\ Agree(n, m)

\* A SYN that arrives twice, or late, does not give one attempt two connections.
OneConnectionPerAttempt ==
    \A m, k \in Accept :
        sstate[m] = "ESTABLISHED" /\ sstate[k] = "ESTABLISHED" /\ srecv_next[m] = srecv_next[k]
            => m = k

\* constants.py:62-65: every TTPConnection of a process shares one logger; server.py:7
\* and 8: TTPServer makes a connection for every incoming SYN.  A SYN that accept()
\* takes is answered, unless the answer cannot be encoded.  The code does not do it.
EverySynIsAnswered ==
    [][\A m \in Accept : sstate[m] = "CLOSED" /\ sstate'[m] # "CLOSED" =>
          LET syn_ack == SynAck(m, srecv_next'[m])
          IN  syn_ack \in network'[Client] \/ ~Encodable(syn_ack)]_handshakeVars

-----------------------------------------------------------------------------
(* The inductive invariant *)

\* Calls are made one after the other.
InSequence ==
    /\ \A n, k \in Attempt : k < n /\ cstate[n] # "CLOSED" => cstate[k] \in {"FAILED", "GONE"}
    /\ \A m, k \in Accept : k < m /\ sstate[m] # "CLOSED" => sstate[k] \in {"ESTABLISHED", "FAILED"}

\* A connection made by the server is in agreement with attempt n.
Answered(n) == \E m \in Accept : sstate[m] # "CLOSED" /\ Agree(n, m)

\* What is on its way to the server is a SYN, or the ACK of an attempt that is in
\* agreement with some connection and will not change its numbers again.
SynsAndTrueAcks ==
    \A pk \in network[Server] : \E n \in Attempt :
        \/ pk = Syn(n)
        \/ /\ pk = Ack(n, crecv_next[n])
           /\ cstate[n] \notin {"CLOSED", "SYN_SENT"}
           /\ Answered(n)

\* What is on its way to the client was built by a connection of the server whose
\* numbers have not changed since.
TrueSynAcks ==
    \A pk \in network[Client] : \E m \in Accept :
        sstate[m] # "CLOSED" /\ pk = SynAck(m, srecv_next[m])

\* The agreement of the two sides, with what makes it inductive: the segments in
\* flight, of whatever attempt, carry the numbers their builder still has.
HandshakeInv ==
    /\ HandshakeTypeOK
    /\ InSequence
    /\ SynsAndTrueAcks
    /\ TrueSynAcks
    /\ ClientAgrees
    /\ ServerAgrees
=============================================================================
