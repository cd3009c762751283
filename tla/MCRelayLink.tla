---------------------------- MODULE MCRelayLink -----------------------------
(* RelayLink for TLC: streams and requests are model values. *)
EXTENDS RelayLink, TLC

CONSTANTS s1, s2, r1

MCStreams == {s1, s2}
MCRequests == {r1}
=============================================================================
