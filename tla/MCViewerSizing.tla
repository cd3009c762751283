--------------------------- MODULE MCViewerSizing ---------------------------
(* ViewerSizing for TLC.  A terminal is made without a size, its PTY with the *)
(* default.  Of the two sizes screens have, each is the smaller one in one     *)
(* dimension, so that the smallest is neither; the third is none.  A word      *)
(* holds 0..7: 8 stands for 65536.                                             *)
EXTENDS ViewerSizing, TLC

CONSTANTS w, s, k, p

Dim(c, r) == [cols |-> c, rows |-> r]

MCDefault == Dim(2, 2)
MCStarts == {Dim(0, -1)}
MCSizes == {Dim(2, 3), Dim(8, 2), Dim(-1, 2)}
=============================================================================
