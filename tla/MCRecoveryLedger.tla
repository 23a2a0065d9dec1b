-------------------------- MODULE MCRecoveryLedger --------------------------
(* Small instances of RecoveryLedger for TLC. *)
EXTENDS RecoveryLedger, TLC

Symmetry == Permutations(Op) \union Permutations(Source)
=============================================================================
