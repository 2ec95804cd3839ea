------------------------------- MODULE MCFlip -------------------------------
(* Small instances of FlipHistory for TLC. *)
EXTENDS FlipHistory

\* Everything may fail except the file's survival.
FaultsButLoss == FaultKinds \ {"loss"}

=============================================================================
