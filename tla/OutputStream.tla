---------------------------- MODULE OutputStream ----------------------------
(***************************************************************************)
(* What a terminal promises to the screens that watch it, with no word of  *)
(* channels, goroutines or locks.  The shell's output is a log that only   *)
(* grows.  A screen joins at the end of the log, or a window before it,    *)
(* and is then given stretches of the log, each one later than all it has  *)
(* seen; a stretch may be skipped but never repeated, reordered or made    *)
(* up.  A screen that has not left is told that its stream is over only    *)
(* when the shell has exited, and sees nothing after that.                 *)
(***************************************************************************)
EXTENDS Integers

CONSTANTS Clients, Window

VARIABLES
    log,      \* how many chunks the shell has written
    exited,   \* the exit of the shell is on record
    phase,    \* of a screen: "away", "watching", "ended" or "left"
    start,    \* where in the log the screen joined
    seen      \* the chunks it was given

vars == <<log, exited, phase, start, seen>>

Init ==
    /\ log = 0
    /\ exited = FALSE
    /\ phase = [c \in Clients |-> "away"]
    /\ start = [c \in Clients |-> 0]
    /\ seen = [c \in Clients |-> {}]

Write == log' = log + 1 /\ UNCHANGED <<exited, phase, start, seen>>

Exit == exited' = TRUE /\ UNCHANGED <<log, phase, start, seen>>

Join(c) ==
    /\ phase[c] = "away"
    /\ phase' = [phase EXCEPT ![c] = "watching"]
    /\ \E s \in {log, IF log > Window THEN log - Window ELSE 0} :
          start' = [start EXCEPT ![c] = s]
    /\ UNCHANGED <<log, exited, seen>>

Show(c) ==
    /\ phase[c] = "watching"
    /\ \E lo, hi \in (start[c] + 1) .. log :
          /\ lo <= hi
          /\ \A n \in seen[c] : n < lo
          /\ seen' = [seen EXCEPT ![c] = @ \union lo..hi]
    /\ UNCHANGED <<log, exited, phase, start>>

End(c) ==
    /\ phase[c] = "watching" /\ exited
    /\ phase' = [phase EXCEPT ![c] = "ended"]
    /\ UNCHANGED <<log, exited, start, seen>>

Leave(c) ==
    /\ phase[c] \in {"watching", "ended"}
    /\ phase' = [phase EXCEPT ![c] = "left"]
    /\ UNCHANGED <<log, exited, start, seen>>

Next == \/ Write \/ Exit
        \/ \E c \in Clients : Join(c) \/ Show(c) \/ End(c) \/ Leave(c)

Spec == Init /\ [][Next]_vars
=============================================================================
