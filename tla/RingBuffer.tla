----------------------------- MODULE RingBuffer -----------------------------
(***************************************************************************)
(* The scroll buffer (internal/terminal/ring.go): a byte array, a position *)
(* and a flag that keep the latest bytes written.  The nth byte ever       *)
(* written is the number n, so that the contents say which bytes were kept *)
(* and in which order.                                                     *)
(***************************************************************************)
EXTENDS Integers, Sequences

CONSTANTS
    Requested,   \* the size asked of newRingBuffer
    MaxWrite,    \* bound: length of the longest write
    MaxTotal     \* bound: bytes written in all

ASSUME RequestedAssumption == Requested \in Int
ASSUME BoundsAssumption == MaxWrite \in Nat /\ MaxTotal \in Nat

\* newRingBuffer
Size == IF Requested <= 0 THEN 1 ELSE Requested

VARIABLES
    buf,     \* r.buf; 0 where nothing was written yet
    pos,     \* r.pos
    full,    \* r.full
    total    \* history: bytes written so far

vars == <<buf, pos, full, total>>

Index == 0 .. Size - 1

TypeOK ==
    /\ buf \in [Index -> Nat]
    /\ pos \in Index
    /\ full \in BOOLEAN
    /\ total \in Nat

Init ==
    /\ buf = [i \in Index |-> 0]
    /\ pos = 0
    /\ full = FALSE
    /\ total = 0

\* A write at least as long as the buffer leaves its last Size bytes in it.
WriteAll(n) ==
    /\ n >= Size
    /\ buf' = [i \in Index |-> total + n - Size + i + 1]
    /\ pos' = 0
    /\ full' = TRUE

Fits(n) == pos + n <= Size

\* Variant: reaching the end of the buffer exactly does not count as a lap.
LapOnlyPastEnd(n) == full /\ n \in Nat

Lap(n) == full \/ pos + n = Size

\* It fits before the end of the buffer, and may reach the end exactly.
WriteInPlace(n) ==
    /\ n < Size /\ Fits(n)
    /\ buf' = [i \in Index |-> IF pos <= i /\ i < pos + n
                               THEN total + (i - pos) + 1 ELSE buf[i]]
    /\ pos' = IF pos + n = Size THEN 0 ELSE pos + n
    /\ full' = Lap(n)

\* It goes on at the start of the buffer.
WriteAround(n) ==
    /\ n < Size /\ pos + n > Size
    /\ buf' = [i \in Index |->
                  CASE i >= pos -> total + (i - pos) + 1
                    [] i < pos + n - Size -> total + (Size - pos) + i + 1
                    [] pos + n - Size <= i /\ i < pos -> buf[i]]
    /\ pos' = pos + n - Size
    /\ full' = TRUE

\* An empty write returns at once and is no step.
Write(n) ==
    /\ n > 0
    /\ total + n <= MaxTotal
    /\ WriteAll(n) \/ WriteInPlace(n) \/ WriteAround(n)
    /\ total' = total + n

Next == \E n \in 1..MaxWrite : Write(n)

Spec == Init /\ [][Next]_vars

\* bytes: from the oldest byte to the latest.
Bytes ==
    IF ~full
    THEN [j \in 1..pos |-> buf[j - 1]]
    ELSE [j \in 1..Size |-> IF j <= Size - pos THEN buf[pos + j - 1]
                            ELSE buf[j - 1 - (Size - pos)]]

-----------------------------------------------------------------------------
(* Properties. *)

Kept == IF total < Size THEN total ELSE Size

\* Whatever the lengths of the writes, the buffer holds the latest bytes, all
\* that fit, in the order they were written (ring.go write, bytes).
HoldsLatest == Bytes = [j \in 1..Kept |-> total - Kept + j]
=============================================================================
