------------------------------ MODULE Console -------------------------------
(***************************************************************************)
(* The console screen (internal/tui/tui.go) and what it does with the      *)
(* output of its shell.  Bubble Tea runs Update and View in one goroutine  *)
(* and every command in a goroutine of its own: a reader takes one chunk   *)
(* from the subscription, writes it to the emulator and comes back as a    *)
(* message; a waiter comes back when something else has to be redrawn.     *)
(* An emulator write that asks the terminal something blocks, holding the  *)
(* emulator's mutex, until pumpReplies has read the answer.                *)
(***************************************************************************)
EXTENDS Integers, Sequences, FiniteSets

CONSTANTS
    Readers,      \* goroutines of readOutput that can be alive at once
    Queries,      \* chunks that make the emulator answer
    Relay,        \* main has a relay link, which reports its status
    MaxChunks,    \* bound: chunks of output
    MaxStatus     \* bound: changes of the relay status while the console runs

ASSUME ReadersAssumption == IsFiniteSet(Readers)
ASSUME QueriesAssumption == Queries \subseteq Nat
ASSUME RelayAssumption == Relay \in BOOLEAN
ASSUME BoundsAssumption == MaxChunks \in Nat /\ MaxStatus \in Nat

None == 0

VARIABLES
    produced,   \* chunks put on m.out so far
    out,        \* m.out
    closed,     \* m.out is closed: the shell has exited
    reader,     \* of a reader: "free", "ready", "lock" (has a chunk,
                \*   waits for the mutex), "write", "query" or "post"
    chunk,      \* the chunk it holds, or None
    screen,     \* the chunks written to the emulator
    dirty,      \* m.dirty holds a token
    waiters,    \* goroutines of waitDirty
    dirtyMsgs,  \* dirtyMsg in Bubble Tea's queue
    exitMsgs,   \* exitedMsg in it
    loop,       \* Bubble Tea: "wait", "view" or "end"
    changes,    \* how often the relay status changed
    tokens      \* history: tokens put in m.dirty so far

vars == <<produced, out, closed, reader, chunk, screen, dirty, waiters,
          dirtyMsgs, exitMsgs, loop, changes, tokens>>

TypeOK ==
    /\ produced \in 0..MaxChunks
    /\ out \in Seq(1..MaxChunks)
    /\ closed \in BOOLEAN
    /\ reader \in [Readers -> {"free", "ready", "lock", "write", "query",
                              "post"}]
    /\ chunk \in [Readers -> 0..MaxChunks]
    /\ screen \in Seq(1..MaxChunks)
    /\ dirty \in BOOLEAN
    /\ waiters \in Nat /\ dirtyMsgs \in Nat /\ exitMsgs \in Nat
    /\ loop \in {"wait", "view", "end"}
    /\ changes \in 0..MaxStatus /\ tokens \in Nat

\* The emulator's mutex is held by at most one reader.
Holders == {r \in Readers : reader[r] \in {"write", "query", "post"}}

\* main hands the model the link's status before the program starts; Init of
\* the model starts one reader and one waiter.
Init ==
    /\ produced = 0 /\ out = <<>> /\ closed = FALSE
    /\ \E r \in Readers :
          reader = [x \in Readers |-> IF x = r THEN "ready" ELSE "free"]
    /\ chunk = [r \in Readers |-> None]
    /\ screen = <<>>
    /\ dirty = Relay
    /\ waiters = 1 /\ dirtyMsgs = 0 /\ exitMsgs = 0
    /\ loop = "wait"
    /\ changes = 0 /\ tokens = (IF Relay THEN 1 ELSE 0)

-----------------------------------------------------------------------------
(* The terminal and the relay link. *)

Output ==
    /\ ~closed /\ produced < MaxChunks
    /\ produced' = produced + 1
    /\ out' = Append(out, produced + 1)
    /\ UNCHANGED <<closed, reader, chunk, screen, dirty, waiters,
                   dirtyMsgs, exitMsgs, loop, changes, tokens>>

ShellExits ==
    /\ ~closed
    /\ closed' = TRUE
    /\ UNCHANGED <<produced, out, reader, chunk, screen, dirty, waiters,
                   dirtyMsgs, exitMsgs, loop, changes, tokens>>

\* SetStatus and markDirty: a token that is already there stands for this one.
SetStatus ==
    /\ Relay /\ changes < MaxStatus
    /\ changes' = changes + 1
    /\ dirty' = TRUE
    /\ tokens' = IF dirty THEN tokens ELSE tokens + 1
    /\ UNCHANGED <<produced, out, closed, reader, chunk, screen, waiters,
                   dirtyMsgs, exitMsgs, loop>>

-----------------------------------------------------------------------------
(* readOutput. *)

\* Variant: a reader that is behind skips to the latest chunk.
TakeLatest(r) ==
    /\ reader[r] = "ready" /\ out # <<>>
    /\ chunk' = [chunk EXCEPT ![r] = out[Len(out)]]
    /\ out' = <<>>
    /\ reader' = [reader EXCEPT ![r] = "lock"]
    /\ UNCHANGED <<produced, closed, screen, dirty, waiters, dirtyMsgs,
                   exitMsgs, loop, changes, tokens>>

Take(r) ==
    /\ reader[r] = "ready" /\ out # <<>>
    /\ chunk' = [chunk EXCEPT ![r] = Head(out)]
    /\ out' = Tail(out)
    /\ reader' = [reader EXCEPT ![r] = "lock"]
    /\ UNCHANGED <<produced, closed, screen, dirty, waiters, dirtyMsgs,
                   exitMsgs, loop, changes, tokens>>

\* Variant: the reader ends without saying that the shell has exited.
SeeNothing(r) ==
    /\ reader[r] = "ready" /\ out = <<>> /\ closed
    /\ reader' = [reader EXCEPT ![r] = "free"]
    /\ UNCHANGED <<produced, out, closed, chunk, screen, dirty, waiters,
                   dirtyMsgs, exitMsgs, loop, changes, tokens>>

SeeClosed(r) ==
    /\ reader[r] = "ready" /\ out = <<>> /\ closed
    /\ reader' = [reader EXCEPT ![r] = "free"]
    /\ exitMsgs' = exitMsgs + 1
    /\ UNCHANGED <<produced, out, closed, chunk, screen, dirty, waiters,
                   dirtyMsgs, loop, changes, tokens>>

\* emu.Write takes the mutex ...
Lock(r) ==
    /\ reader[r] = "lock" /\ Holders = {}
    /\ reader' = [reader EXCEPT ![r] = "write"]
    /\ UNCHANGED <<produced, out, closed, chunk, screen, dirty, waiters,
                   dirtyMsgs, exitMsgs, loop, changes, tokens>>

\* ... and interprets the chunk, which may leave an answer to be read ...
Interpret(r) ==
    /\ reader[r] = "write"
    /\ screen' = Append(screen, chunk[r])
    /\ reader' = [reader EXCEPT ![r] = IF chunk[r] \in Queries THEN "query"
                                       ELSE "post"]
    /\ UNCHANGED <<produced, out, closed, chunk, dirty, waiters, dirtyMsgs,
                   exitMsgs, loop, changes, tokens>>

\* Variant: nobody reads the answers of the emulator.
AnswersStay(r) == r \notin Readers /\ UNCHANGED vars

\* ... which pumpReplies reads and throws away.
PumpReplies(r) ==
    /\ reader[r] = "query"
    /\ reader' = [reader EXCEPT ![r] = "post"]
    /\ UNCHANGED <<produced, out, closed, chunk, screen, dirty, waiters,
                   dirtyMsgs, exitMsgs, loop, changes, tokens>>

\* The mutex is released and the reader comes back as a dirtyMsg.
Post(r) ==
    /\ reader[r] = "post"
    /\ reader' = [reader EXCEPT ![r] = "free"]
    /\ chunk' = [chunk EXCEPT ![r] = None]
    /\ dirtyMsgs' = dirtyMsgs + 1
    /\ UNCHANGED <<produced, out, closed, screen, dirty, waiters, exitMsgs,
                   loop, changes, tokens>>

\* Variant: the token is taken whether or not somebody waits for it.
WakeAnybody ==
    /\ dirty
    /\ dirty' = FALSE
    /\ waiters' = waiters - 1
    /\ dirtyMsgs' = dirtyMsgs + 1
    /\ UNCHANGED <<produced, out, closed, reader, chunk, screen, exitMsgs, loop,
                   changes, tokens>>

\* waitDirty: the token wakes one waiter.
Wake ==
    /\ dirty /\ waiters > 0
    /\ dirty' = FALSE
    /\ waiters' = waiters - 1
    /\ dirtyMsgs' = dirtyMsgs + 1
    /\ UNCHANGED <<produced, out, closed, reader, chunk, screen, exitMsgs, loop,
                   changes, tokens>>

-----------------------------------------------------------------------------
(* Bubble Tea's loop. *)

\* Variant: a dirtyMsg arms the waiter alone.
RearmWaiter ==
    /\ loop = "wait" /\ dirtyMsgs > 0
    /\ dirtyMsgs' = dirtyMsgs - 1
    /\ waiters' = waiters + 1
    /\ loop' = "view"
    /\ UNCHANGED <<produced, out, closed, reader, chunk, screen, dirty, exitMsgs,
                   changes, tokens>>

\* Update(dirtyMsg) arms a reader and a waiter, whichever of them came back.
Rearm ==
    /\ loop = "wait" /\ dirtyMsgs > 0
    /\ dirtyMsgs' = dirtyMsgs - 1
    /\ \E r \in Readers :
          /\ reader[r] = "free"
          /\ reader' = [reader EXCEPT ![r] = "ready"]
    /\ waiters' = waiters + 1
    /\ loop' = "view"
    /\ UNCHANGED <<produced, out, closed, chunk, screen, dirty, exitMsgs,
                   changes, tokens>>

\* View renders the emulator, under its mutex.
View ==
    /\ loop = "view" /\ Holders = {}
    /\ loop' = "wait"
    /\ UNCHANGED <<produced, out, closed, reader, chunk, screen, dirty, waiters,
                   dirtyMsgs, exitMsgs, changes, tokens>>

\* Update of any other message: a key, a paste, the window's size, a tick.
OtherMsg ==
    /\ loop = "wait"
    /\ loop' = "view"
    /\ UNCHANGED <<produced, out, closed, reader, chunk, screen, dirty, waiters,
                   dirtyMsgs, exitMsgs, changes, tokens>>

\* Update(exitedMsg): the shell is gone, and the program with it.
Leave ==
    /\ loop = "wait" /\ exitMsgs > 0
    /\ exitMsgs' = exitMsgs - 1
    /\ loop' = "end"
    /\ UNCHANGED <<produced, out, closed, reader, chunk, screen, dirty, waiters,
                   dirtyMsgs, changes, tokens>>

\* The quit key, or a signal that cancels the program's context.
QuitKey ==
    /\ loop = "wait"
    /\ loop' = "end"
    /\ UNCHANGED <<produced, out, closed, reader, chunk, screen, dirty, waiters,
                   dirtyMsgs, exitMsgs, changes, tokens>>

-----------------------------------------------------------------------------
ReaderStep(r) == Take(r) \/ SeeClosed(r) \/ Lock(r) \/ Interpret(r)
                   \/ PumpReplies(r) \/ Post(r)

Loop == Rearm \/ View \/ Leave

Next == \/ Output \/ ShellExits \/ SetStatus
        \/ \E r \in Readers : ReaderStep(r)
        \/ Wake \/ Loop \/ OtherMsg \/ QuitKey

Spec == Init /\ [][Next]_vars

(* Goroutines run; neither a mutex of Go's nor Bubble Tea's queue, a channel,  *)
(* passes over one that waits for it.  Output, the exit, the relay, keys and   *)
(* the window are up to others.                                                *)
Fairness ==
    /\ \A r \in Readers : WF_vars(ReaderStep(r)) /\ SF_vars(Lock(r))
    /\ WF_vars(Wake)
    /\ SF_vars(Rearm) /\ SF_vars(View) /\ SF_vars(Leave)

FairSpec == Spec /\ Fairness

-----------------------------------------------------------------------------
(* Properties. *)

\* While the console runs, readers are neither lost nor multiplied: those running
\* or on their way back as a message are as many as the first one and one for
\* each token that was put in m.dirty, but the token still in it.  A dirtyMsg
\* re-arms a waiter as well, which a reader did not use up, so every chunk drawn
\* leaves one more goroutine waiting for a token (tui.go:220-222).
GoroutinesAccounted ==
    /\ loop # "end" =>
          Cardinality({r \in Readers : reader[r] # "free"}) + dirtyMsgs + exitMsgs
             = 1 + tokens - (IF dirty THEN 1 ELSE 0)
    /\ waiters + dirtyMsgs + Cardinality({r \in Readers : reader[r] \in {"query", "post"}})
          = 1 + Len(screen)

\* The emulator is given the shell's output in the order it was written: every
\* chunk comes after those before it (README.md:450).
ScreenInOrder ==
    \A i, j \in 1..Len(screen) : i < j => screen[i] < screen[j]

\* No chunk is drawn twice and none is lost between the subscription and the
\* screen, whoever reads it (tui.go:160-169).
NothingMissing ==
    LET drawn == {screen[i] : i \in 1..Len(screen)}
        held == {chunk[r] : r \in {x \in Readers : reader[x] \in {"lock", "write"}}}
        waiting == {out[i] : i \in 1..Len(out)}
    IN  /\ drawn \union held \union waiting = 1..produced
        /\ Len(screen) = Cardinality(drawn)

\* While the console runs, output reaches the screen, whatever it asks of the
\* emulator (tui.go:109-115).
OutputIsDrawn ==
    \A n \in 1..MaxChunks :
        (produced >= n) ~> (loop = "end" \/ \E i \in 1..Len(screen) : screen[i] = n)

\* When the shell exits the console ends (tui.go:224-227).
ExitEndsConsole == closed ~> (loop = "end")
=============================================================================
