--------------------------- MODULE MCTTLSSession ---------------------------
(***************************************************************************)
(* A small instance of TTLSSession for TLC, with the sizes of the code.    *)
(***************************************************************************)
EXTENDS TTLSSession, TLC

CONSTANTS empty, greeting, largest, excessive

\* --message "", the default one, the largest that fits into 4096 bytes, and one more.
Sizes == (empty :> 0) @@ (greeting :> 13) @@ (largest :> 4062) @@ (excessive :> 4063)
=============================================================================
