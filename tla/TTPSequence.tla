---------------------------- MODULE TTPSequence ----------------------------
(***************************************************************************)
(* The bookkeeping of ttp/sequence.py as operators on the numbers a        *)
(* connection keeps (SND.UNA, SND.NXT, RCV.NXT).  The numbers are Python   *)
(* integers: they grow without wrapping at 2^32, which only the encoding   *)
(* of a segment notices (TTPPacket!Encodable).                             *)
(***************************************************************************)
EXTENDS Integers

\* MUTANT: what was received before is accepted again.
ReceiveStatusAcceptsDuplicates(recv_next, seq) ==
    IF seq <= recv_next THEN "EXPECTED" ELSE "FUTURE"

\* MUTANT: a segment beyond a gap is accepted at once.
ReceiveStatusIgnoresGaps(recv_next, seq) ==
    IF seq >= recv_next THEN "EXPECTED" ELSE "DUPLICATE"

\* How an incoming sequence number compares with the next one expected.
ReceiveStatus(recv_next, seq) ==
    IF seq = recv_next THEN "EXPECTED"
    ELSE IF seq < recv_next THEN "DUPLICATE" ELSE "FUTURE"

\* MUTANT: off by one.
AcknowledgedPlusOne(send_unacked, ack_number) ==
    IF ack_number > send_unacked THEN ack_number + 1 ELSE send_unacked

\* SND.UNA only moves forward.
Acknowledged(send_unacked, ack_number) ==
    IF ack_number > send_unacked THEN ack_number ELSE send_unacked
=============================================================================
