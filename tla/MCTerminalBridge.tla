-------------------------- MODULE MCTerminalBridge --------------------------
(* A small instance of TerminalBridge for TLC. *)
EXTENDS TerminalBridge
=============================================================================
