------------------------------- MODULE Runner -------------------------------
(***************************************************************************)
(* One command run to its end (internal/runner/run.go, proc_unix.go), on   *)
(* top of os/exec: the shell in a process group of its own, a job it may   *)
(* leave behind, the pipe their output comes through, the context with     *)
(* the deadline, the goroutine that watches the context and the call of    *)
(* Cmd.Run that waits for all of them.                                     *)
(***************************************************************************)
EXTENDS Integers

CONSTANT MaxOutput     \* bound: chunks of output

ASSUME MaxOutputAssumption == MaxOutput \in Nat

VARIABLES
    shell,      \* the process: "none", "running", "exited" (not waited for), "reaped"
    how,        \* how it ended: "ok", "fail" (a status other than 0), "killed"
    job,        \* the job in the background: "none", "alive", "dead"
    inGroup,    \* it is in the shell's process group
    holdsPipe,  \* it holds the output pipe
    written,    \* chunks written to the pipe
    copied,     \* chunks in the buffer
    pipe,       \* the copying goroutine: "open", "eof", "cut" (closed under it)
    ctx,        \* "live", "deadline", "gone" (the client left)
    watcher,    \* watchCtx: "off", "watching", "killed" (timer on), "spent", "over"
    call,       \* Cmd.Run: "idle", "wait", "reaped", "pipes", "done"
    err         \* its error: "none", "exit", "ctx", "delay"

runVars == <<shell, how, job, inGroup, holdsPipe, written, copied, pipe, ctx,
             watcher, call, err>>
outputVars == <<written, copied, pipe>>
jobVars == <<job, inGroup, holdsPipe>>

RunIdle ==
    /\ shell = "none" /\ how = "ok" /\ job = "none"
    /\ inGroup = TRUE /\ holdsPipe = FALSE
    /\ written = 0 /\ copied = 0 /\ pipe = "open"
    /\ ctx = "live" /\ watcher = "off" /\ call = "idle" /\ err = "none"

\* The next command has a state of its own.
RunForget ==
    /\ shell' = "none" /\ how' = "ok" /\ job' = "none"
    /\ inGroup' = TRUE /\ holdsPipe' = FALSE
    /\ written' = 0 /\ copied' = 0 /\ pipe' = "open"
    /\ ctx' = "live" /\ watcher' = "off" /\ call' = "idle" /\ err' = "none"

\* The process started: Cmd.Start.
RunStart ==
    /\ shell' = "running" /\ watcher' = "watching" /\ call' = "wait"
    /\ UNCHANGED <<how, jobVars, outputVars, ctx, err>>

(***************************************************************************)
(* The processes                                                           *)
(***************************************************************************)
\* The shell leaves something running (cmd &), in a group of its own or not.
JobStart(group, holds) ==
    /\ shell = "running" /\ job = "none"
    /\ job' = "alive" /\ inGroup' = group /\ holdsPipe' = holds
    /\ UNCHANGED <<shell, how, outputVars, ctx, watcher, call, err>>

JobEnd ==
    /\ job = "alive"
    /\ job' = "dead"
    /\ UNCHANGED <<shell, how, inGroup, holdsPipe, outputVars, ctx, watcher, call, err>>

JobHolds == job = "alive" /\ holdsPipe

Output ==
    /\ shell = "running" \/ JobHolds
    /\ pipe = "open" /\ written < MaxOutput
    /\ written' = written + 1
    /\ UNCHANGED <<shell, how, jobVars, copied, pipe, ctx, watcher, call, err>>

ShellEnd(status) ==
    /\ shell = "running"
    /\ shell' = "exited" /\ how' = status
    /\ UNCHANGED <<jobVars, outputVars, ctx, watcher, call, err>>

(***************************************************************************)
(* The copying goroutine                                                   *)
(***************************************************************************)
\* Variant: reads once more than was written.
CopyOnce ==
    /\ pipe = "open" /\ copied <= written
    /\ copied' = copied + 1
    /\ UNCHANGED <<shell, how, jobVars, written, pipe, ctx, watcher, call, err>>

Copy ==
    /\ pipe = "open" /\ copied < written
    /\ copied' = copied + 1
    /\ UNCHANGED <<shell, how, jobVars, written, pipe, ctx, watcher, call, err>>

Eof ==
    /\ pipe = "open" /\ copied = written
    /\ shell \in {"exited", "reaped"} /\ ~JobHolds
    /\ pipe' = "eof"
    /\ UNCHANGED <<shell, how, jobVars, written, copied, ctx, watcher, call, err>>

(***************************************************************************)
(* The context and its watcher                                             *)
(***************************************************************************)
\* The time is up, or the client (or the relay's 25 seconds) went away.
CtxDone(why) ==
    /\ call # "idle" /\ ctx = "live"
    /\ ctx' = why
    /\ UNCHANGED <<shell, how, jobVars, outputVars, watcher, call, err>>

\* Variant: only the shell is killed.
KillShell ==
    /\ watcher = "watching" /\ ctx # "live"
    /\ watcher' = "killed"
    /\ shell' = IF shell = "running" THEN "exited" ELSE shell
    /\ how' = IF shell = "running" THEN "killed" ELSE how
    /\ UNCHANGED <<jobVars, outputVars, ctx, call, err>>

\* Cancel: the whole group is killed, and the wait delay begins.
KillGroup ==
    /\ watcher = "watching" /\ ctx # "live"
    /\ watcher' = "killed"
    /\ shell' = IF shell = "running" THEN "exited" ELSE shell
    /\ how' = IF shell = "running" THEN "killed" ELSE how
    /\ job' = IF job = "alive" /\ inGroup THEN "dead" ELSE job
    /\ UNCHANGED <<inGroup, holdsPipe, outputVars, ctx, call, err>>

\* The delay is over and the shell has still not been waited for.
WatcherGivesUp ==
    /\ watcher = "killed"
    /\ watcher' = "spent"
    /\ pipe' = IF pipe = "open" THEN "cut" ELSE pipe
    /\ UNCHANGED <<shell, how, jobVars, written, copied, ctx, call, err>>

(***************************************************************************)
(* The call                                                                *)
(***************************************************************************)
Reap ==
    /\ call = "wait" /\ shell = "exited"
    /\ shell' = "reaped" /\ call' = "reaped"
    /\ err' = IF how = "ok" THEN "none" ELSE "exit"
    /\ UNCHANGED <<how, jobVars, outputVars, ctx, watcher>>

\* The watcher hands over what it knows; the status of the process comes first.
HandOver ==
    /\ call = "reaped" /\ watcher \in {"watching", "killed", "spent"}
    /\ watcher' = "over" /\ call' = "pipes"
    /\ err' = IF err = "none" /\ watcher # "watching" THEN "ctx" ELSE err
    /\ UNCHANGED <<shell, how, jobVars, outputVars, ctx>>

\* awaitGoroutines: all the output is there, or was cut off already.
PipesDone ==
    /\ call = "pipes" /\ pipe # "open"
    /\ call' = "done"
    /\ UNCHANGED <<shell, how, jobVars, outputVars, ctx, watcher, err>>

\* Variant: no WaitDelay, the call waits for the end of the output.
WaitForEof ==
    /\ call = "pipes" /\ pipe = "eof"
    /\ call' = "done"
    /\ UNCHANGED <<shell, how, jobVars, outputVars, ctx, watcher, err>>

\* The delay is over and something still holds the pipe.
Delay ==
    /\ call = "pipes" /\ pipe = "open"
    /\ pipe' = "cut" /\ call' = "done"
    /\ err' = IF err = "none" THEN "delay" ELSE err
    /\ UNCHANGED <<shell, how, jobVars, written, copied, ctx, watcher>>

RunNext ==
    \/ \E group, holds \in BOOLEAN : JobStart(group, holds)
    \/ JobEnd
    \/ Output
    \/ \E status \in {"ok", "fail"} : ShellEnd(status)
    \/ Copy
    \/ Eof
    \/ \E why \in {"deadline", "gone"} : CtxDone(why)
    \/ KillGroup
    \/ WatcherGivesUp
    \/ Reap
    \/ HandOver
    \/ PipesDone
    \/ Delay

(***************************************************************************)
(* What Run makes of it                                                    *)
(***************************************************************************)
TimedOut == ctx = "deadline"

\* Variant: a pipe that is still held counts as a failure.
ResultOnlyIfClosed == TimedOut \/ err \in {"none", "exit"}

\* The result is an answer; any other error is the caller's.
HasResult == TimedOut \/ err \in {"none", "exit", "delay"}

RunTypeOK ==
    /\ shell \in {"none", "running", "exited", "reaped"}
    /\ how \in {"ok", "fail", "killed"}
    /\ job \in {"none", "alive", "dead"}
    /\ inGroup \in BOOLEAN /\ holdsPipe \in BOOLEAN
    /\ written \in 0 .. MaxOutput /\ copied \in 0 .. written
    /\ pipe \in {"open", "eof", "cut"}
    /\ ctx \in {"live", "deadline", "gone"}
    /\ watcher \in {"off", "watching", "killed", "spent", "over"}
    /\ call \in {"idle", "wait", "reaped", "pipes", "done"}
    /\ err \in {"none", "exit", "ctx", "delay"}
=============================================================================
