# TTP and TTLS: a verification development

The repository is a teaching implementation of a reliable transport in Python:
TTP, a small TCP over raw IPv4 sockets (`src/ttp/`), TTLS, a small record and
handshake layer over it (`src/ttls/`), and two demonstration programs
(`src/transport/ttp.py`).  This directory holds TLA+ models of its protocol
logic, the TLC runs that check them, and TLAPS proofs of every invariant and every
refinement that the runs check.

    cd tla
    tlc -workers 2 -config transfer_lossy.cfg MCTTPTransfer
    tlapm TTPTransferProofs.tla

## The system

| Component | State | Operations | Interacts with |
|---|---|---|---|
| Segment (`ttp/packet.py`, limits in `constants.py`, `ipv4.py`) | none | size in sequence space, encoding | everything |
| `SequenceSpace` (`ttp/sequence.py`) | `send_unacked`, `send_next`, `recv_next` | `receive`, `advance_send`, `acknowledge` | shared by both threads of a connection, no lock |
| `SendWindow` (`ttp/window.py`) | `queue`, `pending` | `enqueue`, `next_packet`, `can_send`, `mark_sent`, `acknowledge`, `oldest`, `empty` | shared by both threads; `window_lock` is taken by `send()` only |
| `RetransmissionManager`, `TTPTimer` | timer, retries | `start`, `restart`, `stop`, `expired`, `exhausted` | polled by the receive loop and by `wait_for_acks()`; one more instance for the FIN |
| `ReceiveBuffer` (`ttp/receive.py`) | a deque under a lock | `push`, `pop`, `clear` | from the receive thread to the application |
| `TTPConnection` (`ttp/connection.py`) | the above, `state`, `out_of_order`, three events, a socket it may not own | `connect`, `accept`, `send`, `recv`, `wait_for_acks`, `close`; the receive thread | application thread and receive thread of each side, through shared objects; the two sides through raw sockets |
| `TTPServer` (`ttp/server.py`) | one raw socket, `running` | `start`, `accept`, `close` | lends its socket to every connection it accepts |
| `TTLSSession` (`ttls/`) | transcript, cipher | hellos, Finished, application data | one record is one `send()` and one `recv()` of the connection |
| Programs (`transport/ttp.py`) | none | `client`, `server` | drive a session, then `close()` |
| `TTPSocket` (`ttp/socket.py`, `checksums.py`, `ipv4.py`) | two sockets | `send_packet`, `receive_packet` | a raw socket delivers every TTP datagram of the host; the connection looks at the ports afterwards |
| Logger (`ttp/log_config.py`) | the shared logger of the process, one reference per connection | `log` | called by every handshake, before anything else |
| Sniffer (`wireshark/`) | fingerprints of what was shown | `callback`, `capture_ttp` | sees every datagram of the loopback interface, mostly twice |

The TCP and UDP demonstrations, the command line and the certificate generator
have no protocol state.

What is hard to test here: two threads of one connection that share the window,
the sequence numbers and the state without a common lock; a network that loses,
repeats and reorders; timers that are only polled; segments of an earlier
connection on the same ports; a listener and its connections reading one
socket; one corrupted segment that all of them read; data that overtakes the end
of the handshake; teardown started by both sides; and limits (window, header
fields, retries).  `PROJECT.json` lists each of them at its line.

What makes each part correct: the connection is, in each direction, a reliable
stream, its acknowledgements are true, and its window forgets nothing; after
the handshake both sides expect each other's numbers; `close()` returns, FINs
do not answer each other for ever, and threads end; the two sides of a session
end up with one transcript and one suite; a segment arrives as it was built or
is refused; and the sniffer hides no intact segment it has not shown, unless an
altered one took its place.

## Modules

`TTPPacket`, `TTPSequence`, `TTPWindow` and `TTPRetransmission` are the data
types: constant-level operators, one per method, and no variables.  A payload is
a value with a size, a flags field is a set, `pending` is a set of entries with
the position at which they were inserted (the order of the OrderedDict).
Numbers are unbounded integers, as in Python: what does not fit into a header
field (`SeqLimit`, 2^32 in the code) makes `struct.pack` raise, `Encodable`.

`ReliableStream` is what one direction promises: chunks come out in the order
they went in, none twice, none invented.

`TTPTransfer` is an established connection.  Each peer has two threads,
`pc[p]["app"]` and `pc[p]["receiver"]`, and an action is one statement that the
other thread or the network can observe.  `_flush_window` is the chain `peek`,
`admit`, `pop`, `insert`, `transmit`, `timer`, `start`, run by both threads at
once: `send()` takes `window_lock`, the receiver does not, so that the lock
excludes nobody and is not a variable.  A Python operation that can raise
because the other thread is in the middle of its own (a dictionary that changes
during iteration, an index into a queue emptied meanwhile) is a
nondeterministic choice between its normal outcome and the exception; an
exception ends the receive loop (`dead`) or leaves `send()` (`raised`).  A log line
that prints the window is such an operation, after a transmission and at the end of
`_process_ack()` (`LogWindow`).
`network[p]` is the set of segments on their way to p, kept after delivery when
the network may duplicate.

`TTPTeardown` EXTENDS it: the same actions, plus `close()`, `_process_fin()`,
the loop's look at `connected`, `recv()`'s look at the state, sockets that close
under a thread that uses them, and the listener that closes a lent one.  Here both
threads number segments, so that `_build_packet()` reads SND.NXT in one step
(`BuildSegment`) and advances it in another (`AdvanceSend`), for data, for the FIN of
`close()` and for those of the receiver alike: either thread can take the same
number in between; the `+=` itself is one step.  In `TTPTransfer` the receiver takes no
number, and building is one step.

`TTPHandshake` is the opening: `Attempts` calls of `connect()`, one after the
other (an attempt fails, or its process ends), against `Accepts` calls of
`TTPServer.accept()` over one socket.  That they do not overlap is an assumption about the
environment: two client processes started at once would use the same hard-coded port.
Receivers of accepted connections take
segments from that socket too, and the server process may be restarted between
calls: only its `first` connection obtains the shared logger, and the handshake of
any other raises at its first log line.  Initial numbers of different connections are
assumed to differ; the code draws them from 2^32 values.  The agreement it ends
in is the initial state of `TTPTransfer`.

`TTPOpening` composes the two for one connection: `connect()` against
`TTPConnection.accept()`, each side starting the transfer as soon as its own part
of the handshake is over.  It EXTENDS `TTPTransfer` and shows that this implements
it: the DATA that the wait for the last ACK reads and drops (`DropOvertaking`) is
data a lossy network might have lost.  So the theorems about `TTPTransfer` hold
from the first SYN on; it instantiates the module that has them, to cite them.
Nothing is duplicated there, the constraint under which the refinement holds.

`TTPWire`, constant-level, has the bytes: `Pack` and `Unpack`, the Internet
checksum with its pseudo-header, the IPv4 datagram, `BuildRawPacket` and
`ParseRawPacket`.  `TTPRawSocket` sends such datagrams over a network that may
alter one bit of a segment (the kernel checks the IPv4 header) to every reader of
the host, each with its ports; a refused segment raises in its receive loop.
`TTPSniffer` EXTENDS it with `capture_ttp()`: the fingerprint, Scapy's
dissection by the class `TTP`, the TTLS record.

`TTLSSession` is the two programs over two instances of `ReliableStream`, which
`TTPTransfer` implements.  It keeps, of the connection below, that `recv()` is
refused once the peer's FIN has been processed, that this can happen before the
data has been read, that a record larger than the window is never sent, and that
the receive loop of either side may die (`ReceiverDies`), at any time and without its
`recv()` noticing.  That the same races can make `send()` raise is left to `TTPTransfer`:
`OnlyRecvRefuses` is about what the session itself can raise.  No
record is ever split: `MAX_PACKET_SIZE` is far above the window of 4096.
SHA-256 is taken to be injective and AES-GCM to decrypt only with the key and
header used to encrypt.

`MC...` modules give the constants their values; `...Invariant` and `...Proofs`
are described below.

## Runs

| Run | Instance | Shows |
|---|---|---|
| `transfer_lossy` | client sends 2 segments of 1 or 2 bytes, window 3, 1 retry, loss, duplication | `InOrderDelivery`, `AcknowledgedIsReceived`, `UnreceivedIsKept`, `EachSegmentTakenOnce`; `ConfirmedButOne` and `TimedUntilAcknowledged`: how far the wrong answer of `wait_for_acks()` and the missing timer go |
| `transfer_window` | 3 segments, window 3, numbers end at 4 | `ExcessIsBounded`, `OutOfOrderIsAhead`, `StreamToServer`: streams stay honest when threads die of a number that cannot be encoded; the inductive invariant |
| `opening` | client sends 2 segments of 1 or 2 bytes, window 2, 1 retry, different initial numbers, no loss | `ImplementsTransfer`, `BothOpen`, `DeliveredUnlessDropped`, `HeardIsServed`, `DropIsRepaired` |
| `teardown_data` | client sends at most 1 segment of 1 or 2 bytes and closes at any point, loss, 1 retry; numbers end at 3, so that the FIN and its answer, the FIN alone, or neither fits | types, `AcknowledgedIsReceived`, `CloseReturns` |
| `teardown_fin` | both may close, no data, loss, no retry | `FinsAreBounded`, `FinConfirmedWithoutData`, `OwnerReceiverEnds` |
| `handshake` | 3 attempts, 3 accepts, restarts, loss, duplication, one number that overflows | `ServerAgrees`, `ClientAgrees`, `OneConnectionPerAttempt`, the inductive invariant |
| `wire` | 2 datagrams of 5 segments (an odd-length record that fills the datagram, plain data, ACKs whose numbers are one bit apart), one bit altered (any of five bits of any byte), 2 readers, each datagram captured once or twice | `IntactIsDelivered`, `AcceptedWasBuilt`, `HeaderIsTrue`; `HiddenIsRepeated`, `NothingShownTwice`, `ShownIsTrue` |
| `session` | messages of 0, 13, 4062 and 4063 bytes, window 4096, receive loops that may die | `SessionsAgree`, `FinAfterHandshake`, `OnlyRecvRefuses`, `ProgramsEnd` |
| `claim_receiver`, `claim_retransmission`, `claim_recv`, `claim_logger` | small instances of the above | violated: see the next section |

Why the bounds are enough to be interesting.  Two sizes and a window of three
make an admitted segment differ in size from the one measured, and put two
different segments in flight at once, so that their order shows; two segments
give gaps, an ACK for one of two and both threads with a segment in hand; three
are needed for chains to drain and for the window to be exceeded.  The number limits are
chosen so that each place that encodes a segment fails somewhere.  In `opening` two segments of which one may fill the window make the second wait in the
queue for the ACK of the first: dropping the flush of `_process_ack()` is found there.
In the teardown, `teardown_fin` has the races of two `close()` and two
`_process_fin()`, without a retransmission, and `teardown_data` one FIN that is lost,
retransmitted, confirmed by an old ACK or never, or cannot be encoded; both at once are
millions of states, which only the theorems cover (`FinsStayBounded`,
`ConfirmationMeansFin`, `AcknowledgementsStayTrue`, for any number of retries).  Three attempts let a stale segment
cross a whole connection.  The sizes of `session` are the real ones.
`MaxLength`, 65535 in the code, is 51 in `wire`, so that a segment of seven bytes
just fits and one of eight does not; everything else of a datagram is real, and
two of them are enough for a repetition, for an altered copy before the good one,
and for a reader that is stopped in front of the second.

Deadlock checking is off everywhere: an application that calls nothing more, a
dead receiver, or a finished program are states in which the system stops.

Fairness.  In `TTPTransfer` and `TTPTeardown` a thread with a statement to
execute is eventually scheduled, and a running timer expires (weak fairness per
thread and of the timer); what an application decides to call, and the loss of
segments, is not fair.  Python schedules threads preemptively, and loops that
poll with `sleep` or a socket timeout give way.  In `TTLSSession` both programs
run, and what fits is delivered as long as both receive loops run: an assumption about
a network that loses nothing and is fast enough for the timeouts, of which
`DeliveredUnlessDropped` checks one direction and two segments.  When a receive loop has
died nothing is promised: `ProgramsEnd` says that a program then ends or waits in
`recv()`, and `DeliveredUnlessDropped` has the same exception, since a receiver that dies
between an ACK and the flush leaves the queue full for ever.  The FIN may arrive at any
time, or never.  In `TTPOpening` a side also reads what arrives during
its handshake; whether `connect()` is called at all is not fair.  `BothOpen` holds
only because that network loses nothing: no segment of a handshake is repeated.

## Where the code does not do what it says

Each has a run that TLC refutes, and an entry in `PROJECT.json`.

- The receive loop does not survive for the lifetime of the connection: `send()`
  inserting into `pending` while it iterates ends it (`claim_receiver`).
- The socket timeout does not wake the loop for retransmissions, since
  `_wait_for_packet()` swallows it: a due retransmission waits for an arrival
  (`claim_retransmission`).
- `recv()` refuses data that has been accepted, once the FIN has been processed
  (`claim_recv`); in `TTLSSession` this is the only way a program fails.
- A server process accepts one connection only: `accept()` reads the SYN of the
  second and raises, since `_setup_logger()` stores the shared logger in the first
  connection alone (`claim_logger`).

Also seen, and stated without a run of their own; TLC refutes each on an instance
of the runs above:

- `ConfirmedIsAcknowledged` (`TTPTransfer`, `connection.py:494-495`):
  `wait_for_acks()` can return True for a segment between `queue` and `pending`,
  not yet transmitted.  `ConfirmedButOne` says that it is one segment.
- `TimerRunsWhilePending` (`connection.py:159`): the timer is stopped after the
  flush that may have started it.  `TimedUntilAcknowledged` says when it runs.
- `WindowIsRespected`: two flushes can exceed the window; `ExcessIsBounded` says by
  how much.
- `SendNeverRaises`: a number beyond its field, or a chunk of `MAX_PACKET_SIZE`,
  which does not fit into a datagram with its headers.
- `FinAckConfirmsFin` (`TTPTeardown`, `connection.py:586-588`): any ACK in FIN_WAIT
  counts as the confirmation of the FIN; `FinConfirmedWithoutData` is what is left.
- `UnrelatedIsDiscarded` (`TTPRawSocket`, `connection.py:118-119`): a segment for
  another port is discarded only after its checksum; if it is corrupted, it ends every
  receive loop and every `accept()` of the host first.
- `AlteredIsRefused` (`checksums.py:7-9`): the receiver sums the segment it has
  packed again, with the payload it has found.  If an altered `payload_length` cuts
  off bytes whose sum makes up for it, as `FF FB` does for two bytes, the
  shortened segment is accepted; `AcceptedWasBuilt` says that only this can happen.

Further: a segment
larger than the window blocks the queue for ever although `send()` has
returned; sequence numbers do not wrap; the FIN-ACK takes a number that its
receiver, which treats it as an ACK, never counts, so that the FIN that follows
it arrives as a FUTURE segment; the sniffer shows a corrupted segment like any
other and then hides the good copy, or, when the bit makes its fingerprint that of
another segment, hides the corrupted one (so `HiddenIsRepeated` speaks of intact
datagrams only); and it never prints the type of a TTLS
handshake message, since `capture.py:265-270` compares the whole payload with one
byte.

## Proofs

All theorems hold for every number, size, window, limit and network behaviour
that the assumptions of the modules allow.  Apart from typing, these say: a chunk has
between 1 and `MAX_PACKET_SIZE` bytes (`send()` slices so) and, for `ExcessIsOneSegment`,
there is a chunk at all; initial numbers of different handshakes differ; a segment that is
sent has the `header_length` that no code changes and addresses of four bytes, and no two
different segments of a host agree in ports, numbers, flags and length.

*Data transfer.*  `TypeOK` is inductive by itself (`TTPTransferProofs`).  The
safety properties are not: for instance, in-order delivery says nothing of what
is in flight.  `IInv` (`TTPTransferInvariant`) adds what makes them inductive:

- `SentIsChained`: the numbers a side gave out follow one another;
- `WindowIsGenuine`: the queue is the tail of what was sent, and what is pending
  or in a thread's hands was taken from its front;
- `ArrivalsAreGenuine`: what can reach a side is a segment the other built, or an
  ACK for no more than it has accepted;
- `DeliveredIsPrefix`: RCV.NXT is the number of the first chunk not delivered,
  the link between numbers and payloads;
- `KeptIsAhead`, `HeldIsDistinct`, and the bound on SND.UNA.

`TTPTransferProofs` has, in this order, the types, the lemmas on chains, sequences and
delivery, the induction, one lemma per action, and the theorems: `Invariance`, the five safety properties (`DeliveryIsInOrder`,
`AcknowledgementsAreTrue`, `NothingIsForgotten`, `NothingIsTakenTwice`,
`NothingDeliverableIsKept`), and that each direction implements
`ReliableStream`: a step of the connection is a `Send`, a `Deliver`, or a
stutter (`ClientToServerRefinement`, `ServerToClientRefinement`).  The
assumptions are `ChunkAssumption`, `TransferAssumption` and the one on retries.

*Send window* (`TTPTransferWindowProofs`), on top of `IInv`.  That
`wait_for_acks()` errs by one segment at most needs that whatever no ACK covers is still
in the window (`UnackedIsKept`), and that, once both containers were found empty, the
window has only the one segment that the receiver's flush held at that moment
(`ConfirmedHoldsOne`).  `FirstDataIsTimed` needs that every ACK covers the SYN
(`AcksAreAhead`), so that the receiver, which flushes and stops the timer after an
ACK, has done neither before the first (`BeforeFirstAck`).  `WindowInv` is these four.
`ExcessIsOneSegment` is about sums over finite sets and about what each thread
measured before it popped: `WindowIsBounded` says, for every pair of labels at which the
two flushes can be, what each may still add.  While one thread is about to pop what it
measured, the other measures the next segment, or the same one, or one for which there
is room; any weaker case distinction is not preserved.  TLC
has checked `WindowInv` and `WindowIsBounded` on the two `transfer` instances as well.

*Handshake.*  Agreement of the established is not inductive, since it is an ACK
or SYN-ACK in flight that establishes it later.  `HandshakeInv` says that every
segment in flight carries numbers that its builder still has, and that an ACK
was built by an attempt in agreement with some connection of the server;
calls come in sequence (`InSequence`).  With distinct initial numbers this gives
`AcceptedIsAgreed`, `ConnectedIsAgreed`, `AcceptedOnce` and, of the types,
`HandshakeTypes`.

*Session* (`TTLSSessionProofs`).  A property of the end of the handshake says nothing of
records still on their way.  `SessionInv` determines, from the place of each program,
its transcript, suite, key and what it has sent and taken (`ClientProgress`,
`ServerProgress`), that nothing else was sent and streams are prefixes, and when a FIN
can have been processed (`ConnectionEnds`).  It holds whichever receive loops have died:
it says what has arrived, not what will.  With it `AgreementOfSessions`,
`NoFinInTheHandshake`, `RecvAloneRefuses`, the types, and `TheMessageArrives`, the safety
part of `ProgramsEnd`.

*Bytes* (`TTPWireProofs`).  The checksum is a recursive function of the data.  The
induction theorems of the library take an operator as parameter and cannot be used, so
`SetInduction` is proved from the least element of a set of naturals, and everything
about sums follows from it: the folded sum is the plain sum of the words modulo 65535
(`FoldingIsAdding`), so that one different byte, whose word differs by less than 65535,
changes it (`OneByteIsDetected`; a word 0 and a word
0xFFFF differ in two bytes).  `UnpackPack` and `PackUnpack` are the inverse of each other
on segments whose lengths are true, `CarriedIsFound` says what is found in a datagram.
Together: `IntactIsAccepted`, and `OneByteIsRefused` for a byte altered anywhere but
in the lengths.  An altered checksum field can be accepted only with the segment that
was sent.

*Readers and sniffer* (`TTPSnifferProofs`).  `SnifferInv` says which datagrams were read,
refused and passed on, and that the sniffer has kept the fingerprint of all it captured
and shown one datagram for each.  With the theorems on bytes this gives all seven
invariants of `wire`: `IntactSegmentsArrive`, `AlteredSegmentsAreFound`,
`HeadersAreTrue`, `ShownOnce`, `OnlyRepetitionsAreHidden`,
`WhatIsShownIsTrue` and the types.

*Teardown* (`TTPTeardownInvariant`, `TTPTeardownProofs`).  The invariant of the transfer
does not carry over: FINs take numbers in both threads, and two segments can get the
same one, so that numbers no longer determine payloads.  `TeardownInv` keeps what
survives: of every segment in flight, queued, pending, kept or in a thread's hands, what
it says of the one that built it stays true (`IsTrue`): it ends below SND.NXT, its `ack`
is at most RCV.NXT, and it has the ACK flag only if there was data or a FIN to
acknowledge.  Of a segment that has its number while SND.NXT has not moved yet
(`SegmentIsBuilt`), only the number itself is at most SND.NXT.  From this SND.UNA <= RCV.NXT of the peer <= SND.NXT, that is
`AcknowledgementsStayTrue`, and, where there is no data, `ConfirmationMeansFin`.  The steps of the transfer and those of the end are one lemma
each; the former reuse the lemmas of `TTPTransferProofs`.

`FinsStayBounded` is a theorem on networks that do not duplicate (`~CanDuplicate`), as is
the instance of the run.  `FinInv` bounds a potential: the numbers already given to
FINs, and those to come: of a FIN in flight, one being processed, an answer not yet
built, a `close()` not yet begun, the retransmissions it has left.  No step makes the sum grow.  Without the
hypothesis it is false: each copy of a FIN is answered with a newly numbered one.

*Opening* (`TTPOpeningInvariant`, `TTPOpeningProofs`).  `OpeningInv` is a disjunction of
five stages (`NothingSent`, `SynSent`, `SynAnswered`, `ClientEstablished`,
`BothEstablished`), each with the place of both sides, their numbers and what can be in
flight.  In particular the call that raises (`failed`) is never reached with numbers
that can be encoded, and the server's wait for the last ACK meets only that ACK or
DATA.  With it `OpeningRefinement`, one lemma per action: in terms of the
transfer, a side that is opening is one whose numbers are already agreed and whose threads
wait, segments of the handshake are invisible, so that its steps are stutters, and
`DropOvertaking` is `Lose`.  The theorems about the transfer, instantiated with this
mapping, then give `DeliveryFromTheFirstSyn`, `StreamsFromTheFirstSyn`,
`NothingIsForgottenInOpening` (what was dropped is still in the client's window),
`ConfirmationMissesOneInOpening`, `ExcessIsOneSegmentInOpening` and, once both sides are
established, `AcknowledgementsAfterOpening`.  The hypotheses are those of the
transfer and `OpeningAssumption`: no duplication, and initial numbers that fit.

Only model-checked is liveness: `BothOpen`, `DeliveredUnlessDropped`, `HeardIsServed`,
`DropIsRepaired`, `CloseReturns`, `OwnerReceiverEnds` and `ProgramsEnd` (whose safety
part is `TheMessageArrives`).  Fairness and ENABLED are out of reach of the proof system.
Every invariant of a run is a theorem.  Two hypotheses are not in its statement
everywhere: `ExcessIsOneSegment` needs a chunk, `FinsStayBounded` a network that does not
duplicate.  No module declares a RECURSIVE operator; where the induction theorems of
the library would be needed, over the bytes of a segment, `SetInduction` takes their place.

## Not modelled

Below the connection, segments are values with no ports, and the network of
`TTPTransfer` does not corrupt them: the effect of a corrupted one, a receiver that
has ended, is a state its threads reach in other ways.  The sniffer's TCP and UDP
printers and the layout of what it prints: they do the same with Scapy's own
fields.  TTLS alerts and heartbeats have no code.  TCP and UDP demonstrations,
command line, certificates: calls of libraries, no protocol state.

## Plan

Done, in this order: the data types; the data transfer with its invariant,
refinement and proofs; the teardown on top of it; the handshake with its proofs;
the session on top of the abstract stream; the opening, which joins handshake and
transfer; the bytes of a segment, the readers of a host and the sniffer; then proofs about the
send window, the session, the bytes, the sniffer, the teardown and the refinement of the opening.

Left: `ReliableStream` with an end (FIN) as the abstraction of `TTPTeardown`, and
`TTLSSession` over it, instead of a FIN that may arrive at any time; and several
connections in `TTPOpening`, so that the agreement of `TTPHandshake` is what it starts from.
