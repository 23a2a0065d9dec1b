--------------------------- MODULE MCDesktopUpdate ---------------------------
(* The instance of DesktopUpdate that TLC checks by itself. *)
EXTENDS DesktopUpdate

===============================================================================
