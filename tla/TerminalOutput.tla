--------------------------- MODULE TerminalOutput ---------------------------
(***************************************************************************)
(* How the output of one shell reaches the screens that watch it           *)
(* (internal/terminal/terminal.go): the pump goroutine reads the PTY and   *)
(* fans every chunk out to the subscribers' channels, the reap goroutine   *)
(* waits for the shell to exit and closes those channels, and screens come *)
(* (Subscribe), read their channel at their own pace, and go (cancel).     *)
(*                                                                         *)
(* A chunk, what one Read of the PTY returns, is its number: chunk n is    *)
(* the nth one read.  A message on a channel is the interval of chunks it  *)
(* carries: one chunk when broadcast sent it, the scrollback when          *)
(* Subscribe replayed it.  Each action is one critical section of t.mu or  *)
(* one channel or PTY operation outside of it, so goroutines interleave    *)
(* here wherever they do in the program.                                   *)
(***************************************************************************)
EXTENDS Integers, Sequences, FiniteSets

CONSTANTS
    Clients,      \* subscriptions; each one is a call of Subscribe
    Buffer,       \* subscriberBuffer, the capacity of a subscriber's channel
    Scrollback,   \* how many of the latest chunks the scroll buffer keeps
    MaxOutput,    \* bound: how many chunks the shell writes
    Attentive     \* clients that never stop reading (only fairness uses it)

ASSUME BufferAssumption == Buffer \in Nat \ {0}
ASSUME ScrollbackAssumption == Scrollback \in Nat \ {0}
ASSUME MaxOutputAssumption == MaxOutput \in Nat
ASSUME AttentiveAssumption == Attentive \subseteq Clients

VARIABLES
    panic,        \* what killed the process: "none" while it runs
    (* the shell and its PTY, outside this program *)
    shell,        \* "running" or "dead"
    tty,          \* "open" while some process holds the slave, then "hungup"
    emitted,      \* chunks written to the slave so far
    (* Terminal.Close *)
    closing,      \* "no", "kill" (master closed, child not killed yet), "done"
    (* the pump goroutine *)
    pump,         \* "read", "broadcast", "send" or "end"
    written,      \* chunks written to t.scroll; the last one is being sent
    targets,      \* channels of the snapshot that broadcast has yet to serve
    (* the reap goroutine *)
    reap,         \* "wait", "status", "close", "done" or "end"
    waitFailed,   \* p.Wait returned an error
    status,       \* t.status
    exitCode,     \* t.exitCode: "nil" or "code"
    (* subscriptions *)
    subs,         \* t.subs
    chan,         \* the channel of a client: "none", "open" or "closed"
    sent,         \* every message pushed on the channel, oldest first
    rcvd,         \* how many of them the client has taken
    eof,          \* the client read the closed channel to its end
    left,         \* the client called cancel
    (* history variables, which no guard reads *)
    base,         \* the client was promised every chunk after this one ...
    dropped       \* ... except those thrown away because its channel was full

ptyVars    == <<shell, tty, emitted, closing>>
pumpVars   == <<pump, written, targets>>
reapVars   == <<reap, waitFailed, status, exitCode>>
clientVars == <<rcvd, eof, left, base>>
vars == <<panic, ptyVars, pumpVars, reapVars, subs, chan, sent, clientVars,
          dropped>>

Interval == [lo : 1..MaxOutput, hi : 1..MaxOutput]

TypeOK ==
    /\ panic \in {"none", "sendOnClosed", "closeOfClosed"}
    /\ shell \in {"running", "dead"}
    /\ tty \in {"open", "hungup"}
    /\ emitted \in 0..MaxOutput
    /\ closing \in {"no", "kill", "done"}
    /\ pump \in {"read", "broadcast", "send", "end"}
    /\ written \in 0..MaxOutput
    /\ targets \in SUBSET Clients
    /\ reap \in {"wait", "status", "close", "done", "end"}
    /\ waitFailed \in BOOLEAN
    /\ status \in {"running", "exited"}
    /\ exitCode \in {"nil", "code"}
    /\ subs \in SUBSET Clients
    /\ chan \in [Clients -> {"none", "open", "closed"}]
    /\ sent \in [Clients -> Seq(Interval)]
    /\ rcvd \in [Clients -> Nat]
    /\ \A c \in Clients : /\ rcvd[c] <= Len(sent[c])
                          /\ Len(sent[c]) - rcvd[c] <= Buffer
    /\ eof \in [Clients -> BOOLEAN]
    /\ left \in [Clients -> BOOLEAN]
    /\ base \in [Clients -> 0..MaxOutput]
    /\ dropped \in [Clients -> SUBSET (1..MaxOutput)]

Init ==
    /\ panic = "none"
    /\ shell = "running" /\ tty = "open" /\ emitted = 0 /\ closing = "no"
    /\ pump = "read" /\ written = 0 /\ targets = {}
    /\ reap = "wait" /\ waitFailed = FALSE
    /\ status = "running" /\ exitCode = "nil"
    /\ subs = {}
    /\ chan = [c \in Clients |-> "none"]
    /\ sent = [c \in Clients |-> <<>>]
    /\ rcvd = [c \in Clients |-> 0]
    /\ eof = [c \in Clients |-> FALSE]
    /\ left = [c \in Clients |-> FALSE]
    /\ base = [c \in Clients |-> 0]
    /\ dropped = [c \in Clients |-> {}]

-----------------------------------------------------------------------------
(* The shell and the PTY. *)

\* Some process on the slave writes: the shell, or a job that outlives it.
Emit ==
    /\ panic = "none" /\ tty = "open" /\ emitted < MaxOutput
    /\ emitted' = emitted + 1
    /\ UNCHANGED <<panic, shell, tty, closing, pumpVars, reapVars, subs, chan,
                   sent, clientVars, dropped>>

\* The shell exits by itself.
ShellExit ==
    /\ panic = "none" /\ shell = "running"
    /\ shell' = "dead"
    /\ UNCHANGED <<panic, tty, emitted, closing, pumpVars, reapVars, subs,
                   chan, sent, clientVars, dropped>>

\* The last process that held the slave is gone, at the earliest the shell.
HangUp ==
    /\ panic = "none" /\ shell = "dead" /\ tty = "open"
    /\ tty' = "hungup"
    /\ UNCHANGED <<panic, shell, emitted, closing, pumpVars, reapVars, subs,
                   chan, sent, clientVars, dropped>>

\* Terminal.Close, once: the master is closed first ...
CloseMaster ==
    /\ panic = "none" /\ closing = "no"
    /\ closing' = "kill"
    /\ UNCHANGED <<panic, shell, tty, emitted, pumpVars, reapVars, subs, chan,
                   sent, clientVars, dropped>>

\* ... and then the child is killed.
Kill ==
    /\ panic = "none" /\ closing = "kill"
    /\ closing' = "done"
    /\ shell' = "dead"
    /\ UNCHANGED <<panic, tty, emitted, pumpVars, reapVars, subs, chan, sent,
                   clientVars, dropped>>

-----------------------------------------------------------------------------
(* The pump goroutine. *)

\* Read returns the next chunk.  A read already under way when the master is
\* closed may still return one.
Read ==
    /\ panic = "none" /\ pump = "read" /\ emitted > written
    /\ pump' = "broadcast"
    /\ UNCHANGED <<panic, ptyVars, written, targets, reapVars, subs, chan,
                   sent, clientVars, dropped>>

\* Read fails: EIO or EOF once nothing is left, or the master was closed.
ReadError ==
    /\ panic = "none" /\ pump = "read"
    /\ closing # "no" \/ (tty = "hungup" /\ emitted = written)
    /\ pump' = "end"
    /\ UNCHANGED <<panic, ptyVars, written, targets, reapVars, subs, chan,
                   sent, clientVars, dropped>>

\* The critical section of broadcast: scroll.write and the snapshot of subs.
Broadcast ==
    /\ panic = "none" /\ pump = "broadcast"
    /\ written' = written + 1
    /\ targets' = subs
    /\ pump' = "send"
    /\ UNCHANGED <<panic, ptyVars, reapVars, subs, chan, sent, clientVars,
                   dropped>>

\* Variant: the room test off by one.
HasRoomOrIsFull(c) == Len(sent[c]) - rcvd[c] <= Buffer

HasRoom(c) == Len(sent[c]) - rcvd[c] < Buffer

\* Variant: an ordinary send, which waits for a slow subscriber.
BlockOn(c) == c \notin Clients /\ UNCHANGED <<panic, sent, dropped>>

\* The default branch of the send: this subscriber is behind, skip the chunk.
Skip(c) ==
    /\ chan[c] = "open" /\ ~HasRoom(c)
    /\ dropped' = [dropped EXCEPT ![c] = @ \union {written}]
    /\ UNCHANGED <<panic, sent>>

\* broadcast, unlocked: the non-blocking send to one channel of the snapshot.
SendTo(c) ==
    /\ panic = "none" /\ pump = "send" /\ c \in targets
    /\ targets' = targets \ {c}
    /\ \/ /\ chan[c] = "closed"
          /\ panic' = "sendOnClosed"
          /\ UNCHANGED <<sent, dropped>>
       \/ /\ chan[c] = "open" /\ HasRoom(c)
          /\ sent' = [sent EXCEPT ![c] =
                         Append(@, [lo |-> written, hi |-> written])]
          /\ UNCHANGED <<panic, dropped>>
       \/ Skip(c)
    /\ UNCHANGED <<ptyVars, pump, written, reapVars, subs, chan, clientVars>>

SendDone ==
    /\ panic = "none" /\ pump = "send" /\ targets = {}
    /\ pump' = "read"
    /\ UNCHANGED <<panic, ptyVars, written, targets, reapVars, subs, chan,
                   sent, clientVars, dropped>>

-----------------------------------------------------------------------------
(* The reap goroutine. *)

\* Variant: reap lets the pump finish before it looks at the shell.
WaitForPump ==
    /\ panic = "none" /\ reap = "wait" /\ shell = "dead" /\ pump = "end"
    /\ reap' = "status"
    /\ waitFailed' \in BOOLEAN
    /\ UNCHANGED <<panic, ptyVars, pumpVars, status, exitCode, subs, chan,
                   sent, clientVars, dropped>>

\* Variant: the streams are closed before the status is recorded.
WaitThenClose ==
    /\ panic = "none" /\ reap = "wait" /\ shell = "dead"
    /\ reap' = "close"
    /\ waitFailed' \in BOOLEAN
    /\ UNCHANGED <<panic, ptyVars, pumpVars, status, exitCode, subs, chan,
                   sent, clientVars, dropped>>

Wait ==
    /\ panic = "none" /\ reap = "wait" /\ shell = "dead"
    /\ reap' = "status"
    /\ waitFailed' \in BOOLEAN
    /\ UNCHANGED <<panic, ptyVars, pumpVars, status, exitCode, subs, chan,
                   sent, clientVars, dropped>>

SetStatus ==
    /\ panic = "none" /\ reap = "status"
    /\ status' = "exited"
    /\ exitCode' = IF waitFailed THEN exitCode ELSE "code"
    /\ reap' = "close"
    /\ UNCHANGED <<panic, ptyVars, pumpVars, waitFailed, subs, chan, sent,
                   clientVars, dropped>>

\* Closing a set of channels panics when one of them is closed already.
CloseChannels(S) ==
    IF \E c \in S : chan[c] = "closed"
    THEN /\ panic' = "closeOfClosed"
         /\ UNCHANGED chan
    ELSE /\ chan' = [c \in Clients |-> IF c \in S THEN "closed" ELSE chan[c]]
         /\ UNCHANGED panic

CloseSubs ==
    /\ panic = "none" /\ reap = "close"
    /\ subs' = {}
    /\ CloseChannels(subs)
    /\ reap' = "done"
    /\ UNCHANGED <<ptyVars, pumpVars, waitFailed, status, exitCode, sent,
                   clientVars, dropped>>

CloseDone ==
    /\ panic = "none" /\ reap = "done"
    /\ reap' = "end"
    /\ UNCHANGED <<panic, ptyVars, pumpVars, waitFailed, status, exitCode,
                   subs, chan, sent, clientVars, dropped>>

-----------------------------------------------------------------------------
(* Subscriptions. *)

\* The chunks the scroll buffer holds run from the one after Oldest to written.
Oldest == IF written > Scrollback THEN written - Scrollback ELSE 0

\* Variant: scroll.write before broadcast takes the lock, so that a replay may
\* hold a chunk that is still to be sent.
ReplayEarly ==
    [lo |-> Oldest + 1, hi |-> written + (IF pump = "broadcast" THEN 1 ELSE 0)]

\* Variant: scroll.write after the sends, so that a replay may miss a chunk.
ReplayLate ==
    [lo |-> Oldest + 1, hi |-> written - (IF pump = "send" THEN 1 ELSE 0)]

\* The message that replays the scroll buffer.
Replay == [lo |-> Oldest + 1, hi |-> written]

\* The registry keeps an exited terminal for a while, so this may come late.
Subscribe(c, replay) ==
    /\ panic = "none" /\ chan[c] = "none"
    /\ chan' = [chan EXCEPT ![c] = "open"]
    /\ subs' = subs \union {c}
    /\ sent' = [sent EXCEPT ![c] =
                   IF replay /\ written > 0
                   THEN <<Replay>>
                   ELSE <<>>]
    /\ base' = [base EXCEPT ![c] = IF replay THEN Oldest ELSE written]
    /\ UNCHANGED <<panic, ptyVars, pumpVars, reapVars, rcvd, eof, left,
                   dropped>>

\* The stream handler or the console takes the next message.
Receive(c) ==
    /\ panic = "none" /\ chan[c] # "none" /\ ~left[c]
    /\ rcvd[c] < Len(sent[c])
    /\ rcvd' = [rcvd EXCEPT ![c] = @ + 1]
    /\ UNCHANGED <<panic, ptyVars, pumpVars, reapVars, subs, chan, sent, eof,
                   left, base, dropped>>

\* It finds the channel drained and closed.
ReceiveClosed(c) ==
    /\ panic = "none" /\ chan[c] = "closed" /\ ~left[c] /\ ~eof[c]
    /\ rcvd[c] = Len(sent[c])
    /\ eof' = [eof EXCEPT ![c] = TRUE]
    /\ UNCHANGED <<panic, ptyVars, pumpVars, reapVars, subs, chan, sent, rcvd,
                   left, base, dropped>>

\* Variant: cancel closes the channel without looking it up in t.subs.
Cancellable(c) == {c}

\* cancel closes the channel only if closeSubs has not done so.
StillSubscribed(c) == {c} \intersect subs

\* The screen goes away: cancel, which does its work once.
Cancel(c) ==
    /\ panic = "none" /\ chan[c] # "none" /\ ~left[c]
    /\ left' = [left EXCEPT ![c] = TRUE]
    /\ subs' = subs \ {c}
    /\ CloseChannels(StillSubscribed(c))
    /\ UNCHANGED <<ptyVars, pumpVars, reapVars, sent, rcvd, eof, base, dropped>>

-----------------------------------------------------------------------------
Environment == Emit \/ ShellExit \/ HangUp \/ CloseMaster \/ Kill

Pump == \/ Read \/ ReadError \/ Broadcast \/ SendDone
        \/ \E c \in Clients : SendTo(c)

Reap == Wait \/ SetStatus \/ CloseSubs \/ CloseDone

Client(c) == \/ \E replay \in BOOLEAN : Subscribe(c, replay)
             \/ Receive(c) \/ ReceiveClosed(c) \/ Cancel(c)

Next == \/ Environment
        \/ Pump
        \/ Reap
        \/ \E c \in Clients : Client(c)

Spec == Init /\ [][Next]_vars

(* The Go scheduler runs every goroutine that can take a step, and Close      *)
(* reaches the kill.  Nothing makes a client read its channel, leave, or the  *)
(* shell write: only the clients in Attentive are assumed to keep reading.    *)
Fairness ==
    /\ WF_vars(Pump)
    /\ WF_vars(Reap)
    /\ WF_vars(Kill)
    /\ \A c \in Attentive : WF_vars(Receive(c) \/ ReceiveClosed(c))

FairSpec == Spec /\ Fairness

-----------------------------------------------------------------------------
(* Properties. *)

Carried(c) == UNION {sent[c][i].lo .. sent[c][i].hi : i \in 1..Len(sent[c])}

Pending(c) == IF pump = "send" /\ c \in targets THEN {written} ELSE {}

\* No screen is given a chunk twice or out of order, wherever its replay falls
\* among the broadcasts (terminal.go broadcast, Subscribe).
InOrder ==
    \A c \in Clients : \A i, j \in 1..Len(sent[c]) :
        i < j => sent[c][i].hi < sent[c][j].lo

\* A screen that is watching has been sent, is being sent, or lost to its own
\* full channel every chunk since what its replay began with; the replay and
\* the broadcasts leave no gap between them (terminal.go broadcast, Subscribe).
NothingLost ==
    \A c \in subs : /\ Carried(c) \union Pending(c) \union dropped[c]
                         = (base[c] + 1) .. written
                    /\ Carried(c) \intersect dropped[c] = {}

\* cancel and closeSubs never both close a channel, which would kill the
\* process (terminal.go:226, terminal.go:238).
NoDoubleClose == panic # "closeOfClosed"

\* A screen whose stream ends although it did not leave finds the exit status,
\* and the exit code unless waiting for the shell failed, since that is what
\* the stream handlers report last (terminal.go reap, stream.go:115).
EndMeansExited ==
    \A c \in Clients :
        eof[c] => status = "exited" /\ (exitCode = "code" \/ waitFailed)

\* However slow the screens are, and whether or not they read at all, what the
\* shell writes is read from the PTY and offered to every screen, and the pump
\* comes back for more (terminal.go:14-16).
OutputDrains ==
    \A n \in 1..MaxOutput :
        (emitted >= n) ~> (\/ written >= n /\ pump \in {"read", "end"}
                           \/ closing # "no" \/ panic # "none")

\* Once the shell is dead, a screen that was watching before the streams were
\* closed and keeps reading comes to the end of its stream, even if a job it
\* left behind still holds the PTY (terminal.go reap).
StreamsEnd ==
    \A c \in Attentive :
        (c \in subs /\ shell = "dead" /\ reap \notin {"done", "end"})
            ~> (eof[c] \/ left[c] \/ panic # "none")

\* What terminal.go:14-16 and README.md:451 ask of the fan-out: a client cannot
\* take the terminals down.  The sends of broadcast are not under the lock.
NoSendOnClosed == panic # "sendOnClosed"

\* What terminal_test.go:200 asks: when the shell has ended, the channel of
\* every subscription is closed, also of one made after the end.
EveryStreamEnds ==
    \A c \in Clients :
        (c \in subs /\ status = "exited")
            ~> (chan[c] = "closed" \/ panic # "none")

-----------------------------------------------------------------------------
(* What the terminal promises, and this module's state seen through it. *)

Phase(c) ==
    CASE chan[c] = "none" -> "away"
      [] left[c] -> "left"
      [] eof[c] /\ ~left[c] -> "ended"
      [] chan[c] # "none" /\ ~left[c] /\ ~eof[c] -> "watching"

Seen(c) == UNION {sent[c][i].lo .. sent[c][i].hi : i \in 1..rcvd[c]}

Promise == INSTANCE OutputStream WITH
    Window <- Scrollback,
    log <- written,
    exited <- (status = "exited"),
    phase <- [c \in Clients |-> Phase(c)],
    start <- base,
    seen <- [c \in Clients |-> Seen(c)]

\* The fan-out implements the output stream of module OutputStream.
ImplementsStream == Promise!Spec
=============================================================================
