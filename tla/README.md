# terminal-agent in TLA+

`terminal-agent` runs shells on a machine and shows them on many screens at once:
phones and browsers over WebSocket or SSE, a console on the machine itself, and
a relay server it dials out to. This directory holds TLA+ models of the parts of
it that are concurrent or that decide what is let through, TLC configurations that check them, and TLAPS proofs of
what matters most. Line references are to the repository (`terminal.go:196` is
`src/internal/terminal/terminal.go`, line 196). `PROJECT.json` maps every
definition to the lines it stands for.

Contents: [the system](#1-the-system), [the modules](#2-the-modules),
[the runs](#3-the-runs), [fairness](#4-fairness), [the proofs](#5-the-proofs),
[where the code differs from what it says](#6-where-the-code-differs-from-what-it-says),
[what is left out](#7-what-is-left-out), [plan](#8-plan).

## 1. The system

    screens ── HTTP/WS/SSE ──► api ──► Registry ──► Terminal ──► PTY, shell
    relay server ◄── ws ── relaylink ──► api          │ ▲
                                                      ▼ │
                                    console (tui) ── Subscribe / ResizeViewer

| Component | State | Operations | Talks to |
|---|---|---|---|
| Terminal output (`terminal/terminal.go`) | `scroll`, `subs`, `status`, `exitCode` under `t.mu`; a channel per subscriber | goroutines `pump` and `reap`; `Subscribe`, `cancel`, `closeSubs`, `Close` | reads the PTY, waits for the shell; channels to the stream handlers and the console |
| Scroll buffer (`terminal/ring.go`) | array, write position, full flag | `write`, `bytes` | called by the terminal under `t.mu` |
| Registry (`terminal/registry.go`) | `items` under `r.mu` | `Create`, `Close`, `CloseAll`, `sweep`; one expiry goroutine per terminal | HTTP handlers, `main`'s shutdown, `Terminal.Close` |
| Viewer sizes (`terminal.go`, `api/viewers.go`, `api/stream.go`, `api/handlers.go`, `tui/tui.go`) | `viewers`, `cols`, `rows`; the PTY's size; the bindings of streams | `NewViewer`, `ResizeViewer`, `DropViewer`, `Resize`, `bind`, `unbind`, `latest` | WebSocket handler and reader, SSE handler, POST /resize, console |
| Relay link (`relaylink/link.go`) | connection, back-off, status, `streams` table | `Run`, `connect`, `handle`, `openStream`, `proxyRequest`, `closeAllStreams` | relay server; the local HTTP API |
| Console (`tui/tui.go`, `tui/run.go`) | emulator, redraw token, output subscription | `readOutput`, `waitDirty`, `pumpReplies`, `Update`, `View`, `SetStatus` | Bubble Tea, the terminal, the relay link |
| Stream handlers (`api/stream.go`) | none of their own | `handleWS`, `handleSSE` | terminal, viewers |
| HTTP guards (`api/api.go`, `config/config.go`, `main.go`) | the configuration | `withOrigin`, `withHost`, `withAuth`; `main`'s check of the address | all handlers; the relay link's local requests |
| Command runner (`api/run.go`, `runner/run.go`, `runner/proc_unix.go`) | per call: shell, process group, output pipe, context | `handleRun`, `Run`, `ownGroup` | os/exec and its goroutines, the start directory |
| Start directory (`config/paths.go`) | none | `ResolveDir` | file system; called by `handleCreate`, `handleRun`, `main` |
| Reply filter (`terminal/reply_filter.go`) | none | `IsTerminalReply` | called for all input: WebSocket, POST /input, keys and pastes |
| Key table (`tui/keys.go`) | none | `keyToBytes` | the console |
| Configuration, system information, language, secrets, advertising | read once | see section 7 | |

What is hard about it, and what each component owes its callers:

- **Output.** The pump sends outside of the lock on a snapshot of the
  subscribers; screens come and go and the shell exits meanwhile. A screen must
  get every chunk once and in order unless its own channel is full; a slow one
  must not hold up the others; a stream must end after the exit is on record.
- **Scroll buffer.** Wrap-around: it holds the last bytes written.
- **Registry.** Four parties remove entries; a shell that is taken out and not
  closed runs for ever. The limit is tested and the entry made in two critical
  sections. The shutdown empties the table while handlers may still create.
- **Viewer sizes.** The smallest size is computed under the lock and applied
  after it; a WebSocket's reader outlives its handler.
- **Relay link.** Connections are lost at any time; a stream's goroutine and
  the reading one share its table entry; a local call may never return.
- **Guards.** What an agent without a key relies on is spread over `main` and two
  guards; what the relay's own requests need, over two files more.
- **Commands.** The shell, a job it leaves behind, the deadline, the client and
  the copying of the output end in any order; the answer must come, be complete
  and leave no shell.
- **Start directory.** `~`, `..`, relative paths and links are resolved at
  different places, and the name of the working directory is put in front last;
  the result must lie in an allowed root.
- **Replies and keys.** A terminal's own answers must not reach the shell, and
  no key and no text may be taken for one.
- **Console.** Every message re-arms readers, emulator writes block while they
  hold the mutex the renderer needs.

## 2. The modules

| Module | Models | Instance for TLC | Theorems |
|---|---|---|---|
| `OutputStream` | abstract: what a terminal promises to a screen | (through `TerminalOutput`) | |
| `TerminalOutput` | pump, broadcast, reap, subscriptions | `MCTerminalOutput` | `TerminalOutputProofs` |
| `RingBuffer` | the scroll buffer, byte by byte | `MCRingBuffer` | `RingBufferProofs` |
| `Registry` | the table of terminals and the shutdown of the agent | `MCRegistry` | `RegistryProofs` |
| `ViewerSizing` | viewers, `applySize` and everybody who calls it | `MCViewerSizing` | `ViewerSizingProofs` |
| `RelayLink` | the outgoing link | `MCRelayLink` | `RelayLinkProofs` |
| `Console` | the console's goroutines and the emulator's mutex | `MCConsole` | `ConsoleProofs` |
| `Guards` | who is let in | (through `Requests`) | |
| `StartDir` | where a shell or a command may start | (through `Requests`) | lemmas in `StartDirProofs` |
| `ReplyFilter` | what is a terminal's answer | (through `Requests`) | |
| `KeyTable` | what a key sends | (through `Requests`) | |
| `Runner` | one command to its end, on top of os/exec | (through `Requests`) | |
| `Requests` | one agent and what reaches it, composed of these five | `MCRequests` | `RequestsProofs` |

Common conventions. One action is one critical section, or one channel or system
operation outside of a lock, so goroutines interleave in the model wherever they
can in the program. Operations and variables keep the names of the code.
Variables that no guard reads are declared last, as history variables.
Definitions marked `Variant:` are mutations of the one after them, a plausible
bug each; they are no part of any specification and exist to show that the
property named with them in `PROJECT.json` can fail.

**TerminalOutput.** A chunk, what one `Read` of the PTY returns, is a number; a
message is the interval of chunks it carries. A channel is the log of what was
pushed on it (`sent`) and how much of it was taken (`rcvd`), and is full when the
difference is `Buffer`. `Read`, `Broadcast` (scroll write and snapshot),
`SendTo`/`Skip`/`SendDone` are the pump; `Wait`, `SetStatus`, `CloseSubs`,
`CloseDone` the reaper; `Subscribe` is one critical section, the channel push of
the replay included, as in the code. `Cancel` closes the channel if it is
still in `subs`. A send on a closed channel or closing one twice sets `panic`,
after which nothing moves: it kills the process. The shell, jobs that keep the
slave side open after it (`tty`), and `Close`, which closes the master first and
kills then, are the environment. `base` and `dropped` are history.

**OutputStream** is the promise without channels, goroutines or locks: a log that
grows, screens that join at its end or a window before it and are shown
stretches, each later than all before. `ImplementsStream` maps
`log <- written`, `start <- base`, `exited <- status = "exited"`, and `seen` to
what was taken off the channel.

**RingBuffer.** Byte n is the number n, so `bytes()` can be compared with the
last numbers written. `Write` has the code's branches: longer than the array,
fits before the end, wraps around. A request of 0 or less gives a buffer of one
byte.

**Registry.** A terminal is the call of `Create` that makes it. `Check`, `Spawn`
and `Insert` are the steps of `Create`; `Done` and `Expire` its expiry goroutine;
`Delete`/`DeleteClose`, `Sweep`/`SweepClose`, `Shutdown`/`CloseNext` take an
entry out and close its shell as two steps. `main` goes starting → up → closing
→ draining → last → gone: the server listens, the console's own call of `Create`
(`Own`) succeeds, `CloseAll`, `srv.Shutdown` with its time limit, the deferred
`CloseAll`. `HandlersRun` is when a handler may get to the registry: from the
moment the server listens, while `srv.Shutdown` waits for those it let in before,
and after it only when its time was up. `Abort` is the `os.Exit` of a console that cannot start. Time is a choice: a quiet terminal is one whose `IdleFor` exceeds the
limit, and any input or output wakes it.

**ViewerSizing.** A viewer is one call of `NewViewer`, of a WebSocket, an SSE
stream or the console. A thread is a goroutine that may be inside `applySize`,
whose steps are `CheckSame`, `PtyResize`, `Record`; computing the size is part
of the action that starts it. `Word` stands for 2^16, the width of a PTY's
dimension. `MaxOverlap` bounds the number of size changes under way at once and is
two in every run: nothing in the code keeps a second change from starting between
the steps of a first. What two changes at once do to each other is kept in history
variables: `latest` is the change whose size was computed last, `stale` says that
the size recorded last had been overtaken by it; `setter` is the change that resized
the PTY last and has not recorded its size yet, `crossed` that the size recorded last
is of another change than the one the PTY got last.

**Guards, StartDir, ReplyFilter, KeyTable** are operators without state. A
request has the fields the guards look at, each with the values they tell apart.
A path is the kind of its beginning and its elements; the file system is a
function from real paths to what is there, and `walk` follows links as
`filepath.EvalSymlinks` does, a bounded number of them. Of a relative path the walk
keeps what `EvalSymlinks` returns, how often it goes up and what comes then
(`ups`, `down`), while the system looks from the real working directory (`Here`);
`Abs` puts the name of the working directory in front of it. That name is what
`os.Getwd` returns: any of `Pwds`, the paths that lead to the working directory,
by way of links or not. Bytes are strings, one for
all those the filter treats alike. `clean`, `walk` and `splitEscapes` are loops in
the code and functions of the loop's variables here, applied to themselves where
the code goes round once more: a walk is where it has got to, what is left of the
path and how many links it may still follow; the splitter has the parts cut off
and the rest.

**Runner.** The variables are the processes (`shell`, `job`), the pipe with what
was written and copied, the context, the goroutine that watches it (`watcher`) and
the call of `Cmd.Run` (`call`, `err`). `KillGroup` is the `Cancel` of `ownGroup`:
it kills the shell and every job that has not moved to a group of its own. The
parts of os/exec are modelled from how `Run` uses them and marked external:
`Reap`, `HandOver`, `PipesDone` are `Cmd.Wait`, which reports the status of the
process first, then the context's error; `Delay` and `WatcherGivesUp` are the two
timers of `WaitDelay`.

**Requests.** `Start` is `main`'s check. `Request` is the chain of guards,
`Dispatch` the mux; from there the handlers of /health, /run, /input and of a
WebSocket's input, and the console's keys and pastes. `by` remembers who was let
in until the handler takes over. A message is a sequence of pieces, each a reply,
a key or text, which is forgotten when the bytes reach the filter and remembered
for the property. One request is handled at a time: the handlers share nothing
but the terminal, whose concurrency is in the other modules.

**RelayLink.** `run` is where the goroutine of `Run` is; a stream or a request is
a call of `openStream` or `proxyRequest`. The server's identifiers are unique, so
the table is a set. `conns` numbers the connections and `up` says whether the last
one works: it may break long before the reading goroutine sees that (`ConnBreaks`).
`send` takes the connection that is current (`Answer`) and writes to it
(`Write`), and what is written to a connection that is gone is dropped. What a
message contains is left out.

**Console.** Readers are goroutines of `readOutput`, waiters those of
`waitDirty`; `dirtyMsgs` and `exitMsgs` are the messages in Bubble Tea's queue.
The emulator's mutex is held from `Interpret` until `PumpReplies` has read the
answer, if the chunk asks for one. `tokens` counts, as a history variable, what was
put in `m.dirty`, by `main` at the start (the relay's status) and by every change of
it that found the channel empty.

## 3. The runs

All runs switch the deadlock check off, because the systems may stop: the
environment need not do anything, and an agent that has ended does nothing.

| Run | Question | Bounds |
|---|---|---|
| `TerminalOutput` | ordering, gaplessness, double close, status before end, `ImplementsStream`, draining, ends of streams | 2 screens of which one keeps reading, channels of 1, scroll buffer of 1, 2 chunks |
| `TerminalOutput_closed_send` | violation, finding 1 | 2 screens, 1 chunk |
| `TerminalOutput_late_stream` | violation, finding 2 | 2 screens, 1 chunk |
| `Registry` | lost shells, limit, start and shutdown, removal | 3 calls of `Create` of which one is `main`'s, limit 1, 2 overlapping |
| `ViewerSizing` | smallest size, reported size, bindings, answers | one WebSocket, SSE stream, console and poster; sizes 2x3, 8x2 (8 = 2^16), -1x2, at the start 0x-1; two size changes at a time |
| `ViewerSizing_race` | violation, finding 3 | a WebSocket and a console, two size changes at a time |
| `RelayLink` | table and streams, requests, reconnection, end | 2 streams, 1 request, 2 connections, waits of 2 to 5 |
| `RelayLink_early_close` | violation, finding 4 | 1 connection |
| `RingBuffer` | the latest bytes | 5 bytes, writes of 1 to 8, 60 bytes in all |
| `Console` | every chunk drawn, once; exit ends the console | 3 readers, 3 chunks of which one asks, 1 status change |
| `Console_order` | violation, finding 5 | 2 chunks |
| `Requests` | guards, start directory, commands, replies and keys | all 7776 requests, with and without a key, on 127.0.0.1 and on a LAN address, and started in a directory reached through a link; 16 ways to write a directory; messages of up to 2 of 27 pieces; 1 chunk of output, 1 job |

Why the bounds are enough.
*TerminalOutput*: a screen can join with a scroll buffer that has already
forgotten a chunk, have its channel full and lose a chunk, so gaps, overlaps and
overflow all happen; two screens are the least at which the pump's snapshot may be
half served while one leaves. Getting a later chunk after a lost one takes three
chunks; the proofs of all five invariants and of the refinement cover that
and all other sizes. *Registry*: with a limit of one and two overlapping calls
the limit is exceeded; the third call finds the table full or comes after the
sweep; `main`'s own call may be the one that finds it full.
*ViewerSizing*: each of the two valid sizes is the smaller one in one dimension,
so the smallest is neither; 8 is truncated to 0. Two changes at a time are the least that
overlap, and every step of one comes between any two of the other; the proofs are for
any number of them. *RelayLink*: two connections let
what was asked on one end on the next; waits of 2, 4, 5 reach the cap.
*RingBuffer*: 60 bytes in writes of up to 8 bring every write length to every
position, before and after the first lap. *Console*: three chunks around one
status change; the number of readers is the most there can be, one to start
with, one for the token `main` leaves, one for the change. *Requests*: two pieces
put everything beside everything else in a message; the tree has a link out of
the root, one into it, one up and a loop, and the roots an empty one, a missing
one and one written with `~`. The agent is started in /home, called that or
/home/u/work/up, a link in the allowed root.

What the properties say:

| Property | Says |
|---|---|
| `InOrder` | no channel carries a chunk twice or after a later one, the replay included |
| `NothingLost` | what a subscribed screen was sent, is being sent and lost to its full channel is all there was since it joined |
| `NoDoubleClose` | `cancel` and `closeSubs` never close the same channel |
| `EndMeansExited` | who sees the end of its stream finds the exit status |
| `ImplementsStream` | `TerminalOutput` refines `OutputStream` |
| `OutputDrains` | the pump comes back for more whatever the screens do |
| `StreamsEnd` | a screen that keeps reading comes to the end of its stream after the shell died, also if a job holds the PTY |
| `NoLostShell` | a running shell is in the table or in somebody's hands |
| `BoundedOvershoot` | the limit is exceeded only by overlapping calls |
| `ShutdownEndsShells` | which shells may outlive the agent: only one the sweeper was about to close, one of a handler that outlasted the time limit, or, when the console could not start, one of an HTTP client |
| `RemovedShellsDie`, `QuietTerminalsGo`, `DeadTerminalsGo` | who is taken out loses its shell; quiet shells are swept; entries of dead ones go |
| `FitsSmallest` | with no change under way, the shell has the size of the smallest registered screen, unless a size without a screen was set since or the size recorded last had been overtaken by a later one: however changes overlap, these two are all that goes wrong |
| `ReportedIsReal` | the size reported is the one the PTY was given, filled in and cut as the code does, unless a change is between `p.Resize` and its record or two have crossed |
| `AnswersAreReal` | a size below 65536 answered to POST /resize is, to the last bit, the size the PTY has, with the same two exceptions |
| `ViewersMatchSessions` | the stream POST /resize may pick is there, a screen that is there is registered, and a viewer whose screen has left has a valid size and is never the console's |
| `TableMatchesStreams` | the table and the running streams agree |
| `RequestsAreAnswered` | no request of the server is answered twice, and each one once, also when the API hangs, unless the connection its answer was written to is gone |
| `RegisteredStreamsEnd`, `DialsAgain`, `EverythingStops` | a lost connection ends its streams; the link dials again; the end of the agent ends everything |
| `HoldsLatest` | `bytes()` is the last bytes written, in order |
| `GoroutinesAccounted` | readers, running or on their way back, are exactly as many as the first one and the tokens taken from `m.dirty`, and there is one waiter for every chunk drawn |
| `NothingMissing` | no chunk is dropped or drawn twice |
| `OutputIsDrawn`, `ExitEndsConsole` | output reaches the screen although emulator writes block; the exit ends the console |
| `RequestsAreAllowed` | a handler is reached with the key or, without one, from this device; no page of an origin that is not listed gets there; the relay link's requests do |
| `CommandsAreAllowed` | what cannot be undone was confirmed; the directory exists and, with all links followed, is in an allowed root, unless a relative path is put behind a `$PWD` that runs through a link |
| `SurvivorsAreJobs` | when a command is answered its shell is waited for, and what is left is a job the shell outlived or one with a group of its own |
| `ResultsAreKept`, `RunIsAnswered` | every command is answered, and a client that waits gets its output and never sees a killed command as one that ended |
| `FilterIsExact` | a message is held back exactly if all of its pieces have the form of a terminal's answers, which of what is typed only F3 with a modifier has |
| `KeysAreDistinct` | two keys send the same only if ASCII has one code for both or one is a page key with a modifier, and no key is taken for a reply |

## 4. Fairness

Fairness is stated per goroutine: one that can take a step takes one eventually
(the Go scheduler). Timers fire, dials and local calls time out, and a read of a
connection fails once its context is cancelled. Nothing is assumed of the outside:
no shell writes or exits, no screen reads its channel or leaves, no server or user
does anything, unless a property's premise says so. `Attentive` names the screens
assumed to keep reading, and only `StreamsEnd` and `EveryStreamEnds` speak of
reading at all. In `Console` four actions are strongly fair: taking the
emulator's mutex (`Lock`, `View`), because a Go mutex in starvation mode is handed to the
one that waits longest, and the messages that matter (`Rearm`, `Leave`), because
Bubble Tea's queue is a channel, which serves its senders in turn. Keys, ticks and
changes of the window (`OtherMsg`) may come between them without end and need not come.
In `Requests` the goroutines of one command run, the deadline and the wait delay
pass, and a shell that ended can be waited for; that the copying goroutine reads
is not assumed, nor that a command or a job ever ends.

## 5. The proofs

Every theorem holds for all values of the constants that satisfy the named
assumptions of the modules (capacities, limits and sizes positive, sets of calls
finite where they are counted).

| Theorem | States |
|---|---|
| `TerminalOutputProofs!TypeCorrect`, `Ordered`, `ClosedOnce`, `EndsAfterExit`, `Gapless` | `TypeOK`, `InOrder`, `NoDoubleClose`, `EndMeansExited`, `NothingLost` |
| `TerminalOutputProofs!Implementation` | `ImplementsStream` |
| `RingBufferProofs!LatestHeld` | `HoldsLatest` |
| `RegistryProofs!TypeCorrect`, `NoShellLost`, `OvershootBounded`, `ShellsEndWithAgent` | `TypeOK`, `NoLostShell`, `BoundedOvershoot`, `ShutdownEndsShells` |
| `RelayLinkProofs!TypeCorrect`, `TableIsRight` | `TypeOK`, `TableMatchesStreams` |
| `ViewerSizingProofs!SizesAreTyped`, `ViewersAreRight` | `TypeOK`, `ViewersMatchSessions` |
| `ViewerSizingProofs!ShellFitsSmallest`, `ReportIsReal`, `AnswerIsReal` | `FitsSmallest`, `ReportedIsReal`, `AnswersAreReal`, for any number of size changes at once |
| `ConsoleProofs!TypeCorrect`, `GoroutinesBalance`, `EveryChunkOnce` | `TypeOK`, `GoroutinesAccounted`, `NothingMissing` |
| `RequestsProofs!TypeCorrect`, `ShellsAreReaped`, `ResultsAreDelivered`, `GuardsHold` | `TypeOK`, `SurvivorsAreJobs`, `ResultsAreKept`, `RequestsAreAllowed` |
| `RequestsProofs!CommandsStayInside` | `CommandsAreAllowed` |
| `RequestsProofs!FilterHoldsBackReplies`, `KeysStayDistinct` | `FilterIsExact`, `KeysAreDistinct` |

*TerminalOutput.* `InOrder` is not inductive: that the next send comes after all
on a channel needs the chunk under way to be the last one written, and the
message of a replay to end where the snapshot of the next broadcast begins.
`PumpInv` states the first (`written` runs behind `emitted`, only a sending pump
has targets), `OrderInv` the second (every message ends at or before `written`,
before it on a channel still to be served). `ChannelInv` says that `subs` is
exactly the set of open channels, which makes a double close impossible.
`EndInv` says that the channels of screens that have not left are closed only
once the exit is on record. Each is preserved using only the types and those
before it. `AccountInv` balances the account of every screen: the chunk
being sent is not on it yet. `StreamInv` says that a screen is sent
nothing from before the point it joined at and has nothing left to take when it
sees the end; with it each step is a step of `OutputStream` or a stutter.

*RingBuffer.* `Layout` says where each byte lies: before the first lap from the
start of the array to `pos`; afterwards the oldest at `pos`, the latest just
before it. One lemma for each branch of `write` preserves it.

*Registry.* `LifeInv` relates a call's progress to its shell and its expiry
goroutine, which is what makes `Expire` safe to drop an entry. `ClosingInv` says
what is empty in each phase of the shutdown. `BoundedOvershoot` counts the table
and the calls under way together: a call is let in when the table is below the
limit, and at most `MaxConcurrent` calls are under way; it needs the
cardinality theorems of the library.

*RelayLink.* The two parts of `TableMatchesStreams` are inductive together: the
entry goes with the cancellation, in one critical section, whoever takes it.

*ViewerSizing.* The invariant adds what `ViewersMatchSessions` rests on: no stream
is bound twice, so that taking its first entry out takes it out (`BoundOnce`); who
may still send a size has been there (`Arrived`); and a size a poster holds is
valid (`Shape`).

The size itself is proved for any number of changes under way at once. At every
moment at most one of them is the one computed last. `LatestInv` says that this one
carries the size the viewers call for, unless a size without a viewer has been set,
and that when it is through the terminal has that size, unless a change that was
overtaken has recorded its own after it (`stale`): a change that is not the latest may
do so, which is why the property must name it. `SetterInv` says the same of the PTY
and the record: the PTY has the size of the last `p.Resize`, whose change is still to
record it or has recorded it last, unless an earlier one came after it (`crossed`).
`WantInv` keeps what is applied and what is answered a size. Nothing is assumed
of the schedule; `ViewerSizing_race` shows that `stale` does happen.

*Console.* What must be counted is spread over goroutines, messages and a token.
`TokenInv` counts a reader that is under way, a message that will start one and
the token in `m.dirty` alike: their sum is one more than the tokens ever put there,
an equality, so a reader that ends without a successor would break it as much as one
too many. `WaiterInv` does the
same for the waiters, where a reader that has drawn a chunk and not yet reported it
counts for one. For `NothingMissing`, `QueueInv` says that the queue holds the
latest chunks in order, and `TakenInv` that each one before those is either drawn,
once, or in the hands of one reader (`HoldsChunk`). None of this says in
which order they are drawn, which is finding 5.

*Requests.* `RunInv` says where the call of `Cmd.Run` may be given the shell, the
watcher and the pipe (`CallInv`), that a shell was killed only after the context
was done and took the jobs of its group with it (`KillInv`), what has become of
the output when the call is done (`OutputInv`), and how the answer follows from it
(`AnswerInv`). `GuardsHold` rests on one lemma about the guards (`Through`: what
passes all of them), one about the relay's requests (`RelayGoesThrough`), and on
`main`'s check. `TypeOK` needs that a handler is only reached by the path it is
named for (`PathInv`).

*Loops.* `clean`, `walk` and `splitEscapes` are defined by recursion on unbounded
data. Each is a loop, `f[x] = IF x \in stop THEN out[x] ELSE f[next[x]]`, and
`StartDirProofs` has what the proofs need about any of those. That there is such a
function at all (`LoopExists`): take for f[x] the end that x comes to, with
`ComesTo` the least set that has x and is closed under `next`. That it returns
(`LoopEnds`): when a rank, a pair of naturals, falls with every turn in the
lexicographic order, the set of starting points that do not reach an end has no
least element, so it is empty. And what every turn keeps is so of the end: a loop
invariant is a set, so no induction over an operator is needed.

*Start directory.* A walk has a link less to follow or a shorter rest after every
turn. Its loop invariant `OnRealDir` says that what has been resolved so far, seen
from the working directory, is a path no element of which is a link, a directory
while anything is left (`Standing`): `..` goes up from a real directory (`BackOnward`,
`UpIsReal`), a link starts again from one (`FollowOnward`) and an element is added
only when it is one (`OneFurther`). So what `EvalSymlinks` finds is real, and for a path
that is not relative it does not hang on the name of the working directory
(`RealEnds`). A path without links leads to itself (`StandsStill`), so a command that
is started there starts where `ResolveDir` looked. `Rel` begins with `..` unless the
root is a prefix of the directory (`InsideHasPrefix`), and a prefix of a real
directory is real (`PrefixIsReal`), which makes the root the directory is in a real
one too (`ResolvedIsAllowed`). `CommandsAreAllowed` follows, for every tree, whatever
its links, every list of roots, every way to write the directory and every name
`os.Getwd` may return. Assumed are the shape of the tree (`TreeAssumption`) and that
`Cwd`, the real path of the working directory, is one (`CwdAssumption`), which says
nothing of the name it goes by.

*Reply filter.* `Judged`, that the outcome is what `IsTerminalReply` says of the
bytes, is inductive by itself; the work is in what it says of a message made of
pieces. `SettledPart`: a sequence its last byte ends (`Settled`) is cut off whole,
whatever follows. `TypedPart`: what is cut off first from a key or text is no
reply, whatever follows, unless the key is an opener and something does. The loop
invariant of `PiecesTell` then says that the splitter has cut off the first i
pieces, all of them replies, and has the rest of the message before it
(`Remainders`), or has found a part that is none. What the pieces are is assumed,
by their bytes and not by what the filter makes of them: a reply has one of the
six forms of `IsAnswer`, those the tests of the filter name with any numbers in
them (`RepliesAssumption`), and a key or text one of the four of `IsTyped`
(`TypedAssumption`): anything that does not begin with ESC, an opener, alt with a
character, or a control sequence whose last byte is not that of an answer. F3 with a
modifier is of the fourth kind although its last byte is that of a cursor report; it
is the one form that is both, and the theorem says that it is held back. That every
answer is settled (`AnswerEnds`) and known to `isSingleReply` (`AnswerIsKnown`), and
that the filter knows nothing else (`TypedPart`, from the last bytes `isSingleReply`
may see, `KnownEnding`), is proved. TLC evaluates the assumptions on the answers of
real terminals.

*Keys.* A key is a name, modifiers and a text that agree (`IsKey`). `KeyForms`
lists what `keyToBytes` may return. Each of the forms has a length of its own, but
for three sequences of three bytes, and `Code` says how a program reads it: what is
left of the key. `KeyIsRead` says that this is `OneCode`, what ASCII leaves of it,
for every key but a page key with a modifier, whose bytes are read as an arrow; and
`CodesApart` that bytes are read in one way only: it needs that the final letters but
the page keys' (`Lettering`), the digits of the modifiers and the control characters
differ (`FinalApart`, `ModifiersApart`, `ControlsApart`), and that no character is
also the name of a control character. For the filter, `KeyIsTyped` shows that every
key of the console, the page keys included, is typed and has no form of an answer:
the console sends no F3 with a modifier.
`KeyInv` carries this to the states: a key is pressed between two requests, so
what became of it was decided on its bytes alone. Besides the shape of the keys
one fact of typing is assumed, that what a key sends is a sequence of bytes: bytes
are strings here, and none of the provers knows that a string is in STRING.

Only model-checked: the liveness properties (liveness under fairness is out of
this prover's reach, as is ENABLED). No module uses a RECURSIVE operator.

## 6. Where the code differs from what it says

Five runs show a property that a comment, a test or the README states and the
code violates:

1. `TerminalOutput_closed_send`: `broadcast` sends on the channels of a snapshot
   after it has released the lock; a screen that leaves, or the exit of the shell,
   may have closed one. The send panics and takes the agent down
   (`terminal.go:14`, "one slow client must not stop the PTY").
2. `TerminalOutput_late_stream`: a subscription made after `closeSubs` has run is
   never closed, so the stream never reports the exit (`terminal_test.go:200`).
   Such terminals stay in the registry for a minute so that their exit can be seen.
3. `ViewerSizing_race`, `FollowsSmallest`: two size changes computed in one order and
   applied in the other leave the shell at a size that is not the smallest
   (`README.md:298`).
4. `RelayLink_early_close`: a `stream_close` handled before the stream's goroutine
   has made its entry is lost (`link.go:68`).
5. `Console_order`: every redraw message arms one more reader, whoever sent it; with
   two readers, two chunks may be written to the emulator in the wrong order
   (`README.md:450`).

Behaviour the models show that no run singles out:

- The limit on terminals may be exceeded by calls that overlap;
  `BoundedOvershoot` says by how many.
- The reader of a WebSocket, and a POST /resize, may resize a viewer after its
  handler has dropped it: the viewer is then registered for good and its size
  counts for ever. `FitsSmallest` is stated over the registered viewers, this one
  included, and `ViewersMatchSessions` says that such a size is all that can be
  left behind.
- A POST /resize with no open stream overrides the sizes of screens that are
  registered (`overridden`).
- When size changes overlap, the answer to POST /resize may not be the size the PTY
  has, although `handlers.go:193` and `README.md:301` say that it is the size actually
  set: another change has resized the PTY and not recorded that yet, or two changes
  recorded in the other order than they resized, and then the wrong answer stays until
  the next change. `AnswersAreReal` leaves out these two cases and no other.
- A dimension of 65536 becomes 0 on the PTY and is answered as 65536, against the same
  lines: `AnswersAreReal` asks for sizes that fit. One left out at creation, or below
  zero, is filled in on the PTY but reported as it came: `ReportedIsReal` compares
  through `Given`, which does both.
- A relay's request gets no answer when the connection goes before the answer is
  written; the comment says so (`link.go:396`), and nothing is kept for the next
  connection. This is the exception in `RequestsAreAnswered`.
- `ResolveDir` looks at a relative path as the system does, and then puts `$PWD` in
  front of it. Started in /home/u/work/link, a link to /etc, with /home/u/work
  allowed, it takes `.` for /home/u/work/link, which is inside, and the command runs
  in /etc, although `paths.go:15` says that links cannot be used to escape. This is
  the exception in `CommandsAreAllowed`: with it dropped, `Requests` fails. An agent
  without roots and without a directory starts in `$PWD` as it is written, which is
  the same place.
- The wait before dialling again is not reset by a good connection.
- Each chunk the console draws leaves one more goroutine waiting for the redraw
  token (`waiters`); `GoroutinesAccounted` counts them.
- If the console cannot start, `main` ends with `os.Exit` and without `CloseAll`,
  although the HTTP server accepts requests by then: shells made so far get no
  kill (`Abort`; they lose their PTY with the process).
- `Run` reports a time-out whenever the deadline has passed by the time it looks,
  also if the shell ended by itself while something held the pipe; a job it left
  then survives. This is why `SurvivorsAreJobs` asks how the shell ended.
- The relay link allows a request 25 seconds and a command may take two minutes:
  a command cut off by the link is killed, and what it had written is lost
  (`CtxDone("gone")`, outside of the premise of `ResultsAreKept`).
- The relay link calls 127.0.0.1 whatever `TERMINAL_HOST` is, so on an agent
  that listens on one LAN address only its requests cannot connect. `Verdict` is
  about those that do.
- With a modifier, PgUp and PgDn send what the modified arrows send: the test in
  `modifiedSpecial` looks at the end of the name (`keys.go:142-145`). xterm, which
  `keys.go:12` says the sequences follow, has `CSI 5;mod~` and `CSI 6;mod~`, and
  `keys.go:137` says that the form is for arrows and Home/End. `KeysAreDistinct`
  excepts these keys by name (`ModifiedPage`); `OneCode` lists only what ASCII makes
  coincide. Control characters drop other modifiers.
- A cursor report and a modified F3 of xterm are the same bytes (`ESC[1;2R`) and
  are held back, so such a key pressed in a browser never reaches the shell, although
  `reply_filter.go:30-31` would rather let an answer through than lose a key.
  `FilterIsExact` says so. The console sends no such key.
- A reply split over two messages is not recognised. A message in which esc, or alt
  with a character that begins a longer sequence (`Openers`), is followed by more
  may be read as one sequence (`Ambiguous`), and an OSC that is not ended swallows
  what follows it in the message.

## 7. What is left out

- Contents where no property is about them: texts, JSON, base64, logging, layout
  of the status bar, the clipping of a command's output.
- The time of pings, write deadlines and idle checks; only their order matters.
  The limit of a command's time is normalised to at most two minutes
  (`run.go:54`); in the model it is a deadline that comes.
- Starting up but for `main`'s check of the address and its own call of `Create`.
- The regular expressions of `danger.go`: a command is destructive or not.
- The file system does not change between the check of a directory and the start
  in it. `$PWD` has no `..` in it: `os.Getwd` takes it as it is when it leads to the
  working directory, but no shell writes one.
- An error of the kill itself: a group that is already gone is not told apart from
  one that was killed.
- `localURL` (`link.go:252`): a path of the relay is refused or not, and the host it
  calls is a constant, so that a local request that cannot connect is an API that does
  not answer.
- The sweeper is assumed to be switched on (`TERMINAL_IDLE_MINUTES` above zero).
- Data races on values that are only displayed (the status line of the console).
- The Unix PTY stands for both platforms; Windows' is not modelled.
- Stream handlers as one module: their subscription (`TerminalOutput`), viewer
  (`ViewerSizing`) and input (`Requests`) are modelled, in three parts.
- Language, secrets, advertising, system information and the reading of the
  configuration: they read their environment once or format what a tool prints,
  and have no behaviour over time.

## 8. Plan

Done: the modules of section 2, in the order the system depends on them, output
first.

Next modules:

1. `StreamSession`: a whole WebSocket or SSE handler (subscription, viewer,
   binding, ping, write failure, read failure, exit), composed with
   `OutputStream` as what it gets; that what was opened is released on every path,
   and that the exit is the last message sent.
2. `Shutdown`: `Registry` composed with the stream handlers and the relay link
   under `main`'s order of cancellation.
3. `localURL`, over paths as in `StartDir`, and the wire between `RelayLink` and
   `Requests`.

Next theorems: with `StreamSession`, that a handler implements what
`TerminalOutput` assumes of a screen; that `main`'s order of shutdown composes.
