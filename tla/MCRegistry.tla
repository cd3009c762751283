----------------------------- MODULE MCRegistry -----------------------------
(* Registry for TLC: terminals are model values. *)
EXTENDS Registry, TLC

CONSTANTS t1, t2, t3

MCTerminals == {t1, t2, t3}
=============================================================================
