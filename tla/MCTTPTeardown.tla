---------------------------- MODULE MCTTPTeardown ----------------------------
(***************************************************************************)
(* Small instances of TTPTeardown for TLC.                                 *)
(***************************************************************************)
EXTENDS TTPTeardown, TLC

CONSTANTS short, long

OneSize == short :> 1

\* With SeqLimit = 3, the FIN and its answer fit into a header when no chunk is sent,
\* the FIN alone after the short one, and neither after the long one.
TwoSizes == (short :> 1) @@ (long :> 2)

ZeroISN == [p \in Peer |-> 0]

PerPeer(client, server) == (Client :> client) @@ (Server :> server)

NobodySends == PerPeer(0, 0)

ClientSends1 == PerPeer(1, 0)

Window2 == PerPeer(2, 2)

OnlyClient == {Client}

\* TTPServer lends its socket to the connections it accepts.
ClientOwns == PerPeer(TRUE, FALSE)
=============================================================================
