--------------------------- MODULE MCTTPHandshake ---------------------------
(***************************************************************************)
(* Small instances of TTPHandshake for TLC.                                *)
(***************************************************************************)
EXTENDS TTPHandshake

\* The last attempt and the last accept() start at the largest number.
ClientNumbers == [n \in Attempt |-> 3 * (n - 1)]

ServerNumbers == [m \in Accept |-> 3 * (m - 1)]

NoChunks == [chunk \in {} |-> 1]
=============================================================================
