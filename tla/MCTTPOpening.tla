---------------------------- MODULE MCTTPOpening ----------------------------
(***************************************************************************)
(* Small instances of TTPOpening for TLC.                                  *)
(***************************************************************************)
EXTENDS TTPOpening, TLC

CONSTANTS short, long

TwoSizes == (short :> 1) @@ (long :> 2)

PerPeer(client, server) == (Client :> client) @@ (Server :> server)

\* The two sides start at different numbers, the client at one that is also a
\* number of the server's stream.
DifferentISN == PerPeer(1, 0)

\* Both segments of the client may overtake its last ACK, or the first alone.
ClientSends2 == PerPeer(2, 0)

\* Two short segments fit at once; beside a long one the other has to wait.
Window2 == PerPeer(2, 2)
=============================================================================
