-------------------------- MODULE MCTerminalOutput --------------------------
(* TerminalOutput for TLC: clients are model values. *)
EXTENDS TerminalOutput, TLC

CONSTANTS c1, c2

MCClients == {c1, c2}
MCAttentive == {c1}
=============================================================================
