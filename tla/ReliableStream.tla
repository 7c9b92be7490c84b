--------------------------- MODULE ReliableStream ---------------------------
(***************************************************************************)
(* What one direction of a TTP connection promises its users: the chunks   *)
(* given to send() come out of the other side's receive buffer in the same *)
(* order, none twice, none invented.  It promises nothing about time.      *)
(***************************************************************************)
EXTENDS Integers, Sequences

CONSTANT Chunk

VARIABLES sent, delivered

Init == sent = << >> /\ delivered = << >>

Send(chunk) ==
    /\ sent' = Append(sent, chunk)
    /\ UNCHANGED delivered

Deliver ==
    /\ Len(delivered) < Len(sent)
    /\ delivered' = Append(delivered, sent[Len(delivered) + 1])
    /\ UNCHANGED sent

Next == Deliver \/ \E chunk \in Chunk : Send(chunk)

Spec == Init /\ [][Next]_<<sent, delivered>>
=============================================================================
