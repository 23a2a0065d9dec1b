-------------------------- MODULE MCTaskLifecycle --------------------------
(* The instances of TaskLifecycle that TLC checks. *)
EXTENDS TaskLifecycle
=============================================================================
