---------------------------- MODULE MCStreamSession ----------------------------
(* The instances of StreamSession that TLC checks. *)
EXTENDS StreamSession

===============================================================================
