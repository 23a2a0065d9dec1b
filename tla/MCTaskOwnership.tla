-------------------------- MODULE MCTaskOwnership --------------------------
(* The instances of TaskOwnership that TLC checks. *)
EXTENDS TaskOwnership

LocalFaults == [r \in BOOLEAN |-> IF r THEN 0 ELSE 1]
NoFaults == [r \in BOOLEAN |-> 0]
=============================================================================
