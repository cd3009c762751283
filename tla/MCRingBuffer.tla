---------------------------- MODULE MCRingBuffer ----------------------------
(* RingBuffer for TLC; it has no constants but numbers. *)
EXTENDS RingBuffer
=============================================================================
