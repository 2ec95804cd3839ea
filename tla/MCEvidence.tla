----------------------------- MODULE MCEvidence -----------------------------
(* EvidenceChain with work orders that are alike.                          *)
EXTENDS EvidenceChain, TLC

OrderSymmetry == Permutations(Orders)

=============================================================================
