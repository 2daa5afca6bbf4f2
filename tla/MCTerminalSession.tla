------------------------- MODULE MCTerminalSession -------------------------
(* The instances of TerminalSession that TLC checks. *)
EXTENDS TerminalSession
=============================================================================
