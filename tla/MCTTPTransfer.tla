---------------------------- MODULE MCTTPTransfer ----------------------------
(***************************************************************************)
(* Small instances of TTPTransfer for TLC.                                 *)
(***************************************************************************)
EXTENDS TTPTransferInvariant, TLC

CONSTANTS short, long

\* Two payloads of different sizes, so that sequence numbers move unevenly and a
\* segment admitted in place of another may not fit.
OneSize == short :> 1

TwoSizes == (short :> 1) @@ (long :> 2)

ZeroISN == [p \in Peer |-> 0]

PerPeer(client, server) == (Client :> client) @@ (Server :> server)

\* Only the client sends.
ClientSends1 == PerPeer(1, 0)
ClientSends2 == PerPeer(2, 0)
ClientSends3 == PerPeer(3, 0)

\* Both send.
BothSend1 == PerPeer(1, 1)

Window2 == PerPeer(2, 2)

Window3 == PerPeer(3, 3)
=============================================================================
