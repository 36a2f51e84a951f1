--------------------------- MODULE MCServerHandle ---------------------------
(* Small instances of ServerHandle for TLC. *)
EXTENDS ServerHandle, TLC

\* Callers and server identities are interchangeable (safety runs only).
Symmetry == Permutations(Callers) \cup Permutations(Servers)
=============================================================================
