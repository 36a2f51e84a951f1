---------------------------- MODULE MCCertFiles ----------------------------
(* Two authorities, each with a leaf of its own, for TLC. *)
EXTENDS CertFiles

CONSTANTS a1, a2, l1, l2

TwoIssuers == [l \in {l1, l2} |-> IF l = l1 THEN a1 ELSE a2]
=============================================================================
