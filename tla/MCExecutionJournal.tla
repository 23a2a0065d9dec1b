------------------------- MODULE MCExecutionJournal -------------------------
(* Small instances of ExecutionJournal for TLC. *)
EXTENDS ExecutionJournal, TLC

Symmetry == Permutations(Op) \union Permutations(Call) \union Permutations(Drain)
=============================================================================
