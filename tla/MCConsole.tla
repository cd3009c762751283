----------------------------- MODULE MCConsole ------------------------------
(* Console for TLC: readers are model values, one for each message that may  *)
(* come from somewhere else than a reader, and one more.                     *)
EXTENDS Console, TLC

CONSTANTS a, b, c

MCReaders == {a, b, c}
=============================================================================
