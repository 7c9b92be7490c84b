---------------------------- MODULE MCTTPSniffer ----------------------------
(* TTPSniffer for TLC: a client (port 9) and its server (port 8) on one host, *)
(* whose receive loops read the same raw datagrams.                           *)
EXTENDS TTPSniffer

DATA == 16
ACK == 2

MCReader == {"client", "server"}
MCLocalPort == [r \in MCReader |-> IF r = "server" THEN 8 ELSE 9]
MCRemotePort == [r \in MCReader |-> IF r = "server" THEN 9 ELSE 8]
MCAddressOf == [p \in {8, 9} |-> <<127, 0, 0, 1>>]

\* A handshake record, whose segment has an odd length and fills MaxLength; a payload
\* without TTLS; two segments whose acknowledgments are one bit apart and one from the server;
\* and a chunk that is one byte too long.
MCOutgoing ==
    {NewPacket(9, 8, <<65535, 65534>>, <<0, 7>>, DATA, 65535, RecordPack(2, <<1>>)),
     NewPacket(9, 8, <<0, 5>>, <<0, 7>>, DATA, 65535, <<71, 69, 84, 32, 255, 251>>),
     NewPacket(9, 8, <<0, 5>>, <<0, 7>>, ACK, 65535, << >>),
     NewPacket(9, 8, <<0, 5>>, <<0, 5>>, ACK, 65535, << >>),
     NewPacket(8, 9, <<0, 7>>, <<0, 5>>, ACK, 65535, << >>),
     NewPacket(9, 8, <<0, 5>>, <<0, 7>>, DATA, 65535, <<1, 1, 0, 0, 0, 9, 0, 0>>)}
=============================================================================
