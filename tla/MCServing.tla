----------------------------- MODULE MCServing -----------------------------
(* Small instances of Serving for TLC. *)
EXTENDS Serving, TLC

\* Callers, server identities and requests are interchangeable (safety only).
Symmetry == Permutations(Callers) \cup Permutations(Servers) \cup Permutations(Requests)
=============================================================================
