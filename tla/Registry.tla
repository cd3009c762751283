------------------------------ MODULE Registry ------------------------------
(***************************************************************************)
(* The table of live terminals (internal/terminal/registry.go) and the     *)
(* start and end of the agent (cmd/terminal-agent/main.go).  HTTP handlers *)
(* create and delete terminals, main creates one for the console, a        *)
(* sweeper removes those that have been quiet for too long, one goroutine  *)
(* per terminal removes it some time after its shell has exited, and on    *)
(* the way out main empties the table, drains the HTTP server and empties  *)
(* the table again.                                                        *)
(*                                                                         *)
(* A terminal is the call of Create that makes it: identifiers are fresh,  *)
(* so a call that is refused or fails is a terminal that never came to be. *)
(* An action is one critical section of r.mu, or one step outside of it.   *)
(***************************************************************************)
EXTENDS Integers, FiniteSets

CONSTANTS
    Terminals,      \* calls of Create
    Own,            \* main's own call, for the console: a set of one, or of none
                    \*   when there is no console
    Max,            \* r.max
    MaxConcurrent   \* bound: calls of Create under way at the same time

ASSUME TerminalsAssumption == IsFiniteSet(Terminals)
ASSUME OwnAssumption == Own \subseteq Terminals /\ \A s, t \in Own : s = t
ASSUME MaxAssumption == Max \in Nat \ {0}
ASSUME MaxConcurrentAssumption == MaxConcurrent \in Nat \ {0}

VARIABLES
    items,      \* r.items
    create,     \* of a call: "idle", "spawn", "insert", "done" or "failed"
    shell,      \* of a terminal: "none", "running" or "dead"
    quiet,      \* terminals whose IdleFor exceeds r.idleTimeout
    expiry,     \* goroutine of Create: "none", "wait", "sleep" or "end"
    deleting,   \* taken out of items by Close, t.Close not yet called
    sweeping,   \* the same for sweep
    closing,    \* the same for CloseAll
    sweeper,    \* sweepLoop: "run" or "end"
    agent,      \* main: "starting", "up", "closing", "draining", "last", "gone"
    timedOut,   \* srv.Shutdown gave up waiting for handlers
    aborted     \* main ended by os.Exit

vars == <<items, create, shell, quiet, expiry, deleting, sweeping, closing,
          sweeper, agent, timedOut, aborted>>

TypeOK ==
    /\ items \subseteq Terminals
    /\ create \in [Terminals -> {"idle", "spawn", "insert", "done", "failed"}]
    /\ shell \in [Terminals -> {"none", "running", "dead"}]
    /\ quiet \subseteq Terminals
    /\ expiry \in [Terminals -> {"none", "wait", "sleep", "end"}]
    /\ deleting \subseteq Terminals
    /\ sweeping \subseteq Terminals
    /\ closing \subseteq Terminals
    /\ sweeper \in {"run", "end"}
    /\ agent \in {"starting", "up", "closing", "draining", "last", "gone"}
    /\ timedOut \in BOOLEAN
    /\ aborted \in BOOLEAN
    /\ \A t \in items \union deleting \union sweeping \union closing :
          create[t] = "done" /\ shell[t] # "none"

Init ==
    /\ items = {}
    /\ create = [t \in Terminals |-> "idle"]
    /\ shell = [t \in Terminals |-> "none"]
    /\ quiet = {}
    /\ expiry = [t \in Terminals |-> "none"]
    /\ deleting = {} /\ sweeping = {} /\ closing = {}
    /\ sweeper = "run"
    /\ agent = "starting"
    /\ timedOut = FALSE
    /\ aborted = FALSE

Creating == {t \in Terminals : create[t] \in {"spawn", "insert"}}

-----------------------------------------------------------------------------
(* Create. *)

\* Handlers run as soon as the server listens, before the console has its
\* terminal.  Connections are accepted until CloseAll has returned, and a handler
\* of one may get to the registry while srv.Shutdown waits for it, or later when
\* Shutdown gave up waiting.
HandlersRun ==
    \/ agent \in {"starting", "up", "closing", "draining"}
    \/ agent = "last" /\ timedOut

\* main calls Create itself when it starts.
Calls(t) == IF t \in Own THEN agent = "starting" ELSE HandlersRun

\* Variant: the limit test off by one.
NotOverLimit == Cardinality(items) <= Max

BelowLimit == Cardinality(items) < Max

\* Variant: the entry is made in the first critical section.
CheckAndInsert(t) ==
    /\ Calls(t) /\ create[t] = "idle"
    /\ Cardinality(Creating) < MaxConcurrent
    /\ create' = [create EXCEPT ![t] = IF BelowLimit THEN "spawn" ELSE "failed"]
    /\ items' = IF BelowLimit THEN items \union {t} ELSE items
    /\ UNCHANGED <<shell, quiet, expiry, deleting, sweeping, closing, sweeper,
                   agent, timedOut, aborted>>

\* The first critical section: ErrTooMany, or go on to start the shell.
Check(t) ==
    /\ Calls(t) /\ create[t] = "idle"
    /\ Cardinality(Creating) < MaxConcurrent
    /\ create' = [create EXCEPT ![t] = IF BelowLimit THEN "spawn" ELSE "failed"]
    /\ UNCHANGED <<items, shell, quiet, expiry, deleting, sweeping, closing,
                   sweeper, agent, timedOut, aborted>>

\* New, outside of the lock: the PTY and the shell start, or they fail to.
Spawn(t) ==
    /\ agent # "gone" /\ create[t] = "spawn"
    /\ \/ /\ create' = [create EXCEPT ![t] = "insert"]
          /\ shell' = [shell EXCEPT ![t] = "running"]
       \/ /\ create' = [create EXCEPT ![t] = "failed"]
          /\ UNCHANGED shell
    /\ UNCHANGED <<items, quiet, expiry, deleting, sweeping, closing, sweeper,
                   agent, timedOut, aborted>>

\* The second critical section, and the goroutine that waits for t.Done().
Insert(t) ==
    /\ agent # "gone" /\ create[t] = "insert"
    /\ create' = [create EXCEPT ![t] = "done"]
    /\ items' = items \union {t}
    /\ expiry' = [expiry EXCEPT ![t] = "wait"]
    /\ UNCHANGED <<shell, quiet, deleting, sweeping, closing, sweeper, agent,
                   timedOut, aborted>>

-----------------------------------------------------------------------------
(* The life of a shell. *)

Exit(t) ==
    /\ agent # "gone" /\ shell[t] = "running"
    /\ shell' = [shell EXCEPT ![t] = "dead"]
    /\ UNCHANGED <<items, create, quiet, expiry, deleting, sweeping, closing,
                   sweeper, agent, timedOut, aborted>>

\* No input, output or resize for longer than the idle timeout.  Only of
\* terminals in the table does anybody ask.
GoQuiet(t) ==
    /\ agent # "gone" /\ t \in items \ quiet
    /\ quiet' = quiet \union {t}
    /\ UNCHANGED <<items, create, shell, expiry, deleting, sweeping, closing,
                   sweeper, agent, timedOut, aborted>>

\* Anything that sets t.lastAt.
Activity(t) ==
    /\ agent # "gone" /\ shell[t] = "running" /\ t \in items \intersect quiet
    /\ quiet' = quiet \ {t}
    /\ UNCHANGED <<items, create, shell, expiry, deleting, sweeping, closing,
                   sweeper, agent, timedOut, aborted>>

\* t.Done() is closed once the shell was waited for; then 60 seconds pass.
Done(t) ==
    /\ agent # "gone" /\ expiry[t] = "wait" /\ shell[t] = "dead"
    /\ expiry' = [expiry EXCEPT ![t] = "sleep"]
    /\ UNCHANGED <<items, create, shell, quiet, deleting, sweeping, closing,
                   sweeper, agent, timedOut, aborted>>

\* Variant: the entry is dropped a while after creation, whatever the shell does.
ExpireOnTimer(t) ==
    /\ agent # "gone" /\ expiry[t] \in {"wait", "sleep"}
    /\ expiry' = [expiry EXCEPT ![t] = "end"]
    /\ items' = items \ {t}
    /\ UNCHANGED <<create, shell, quiet, deleting, sweeping, closing, sweeper,
                   agent, timedOut, aborted>>

\* Variant: the goroutine ends without touching the table.
ExpireKeepingEntry(t) ==
    /\ agent # "gone" /\ expiry[t] = "sleep"
    /\ expiry' = [expiry EXCEPT ![t] = "end"]
    /\ UNCHANGED <<items, create, shell, quiet, deleting, sweeping, closing,
                   sweeper, agent, timedOut, aborted>>

Expire(t) ==
    /\ agent # "gone" /\ expiry[t] = "sleep"
    /\ expiry' = [expiry EXCEPT ![t] = "end"]
    /\ items' = items \ {t}
    /\ UNCHANGED <<create, shell, quiet, deleting, sweeping, closing, sweeper,
                   agent, timedOut, aborted>>

-----------------------------------------------------------------------------
(* Close, sweep and CloseAll: each takes terminals out of the table under the *)
(* lock and closes them after it.                                             *)

Kill(t) == shell' = [shell EXCEPT ![t] = "dead"]

\* The critical section of Close(id); for an id not in the table it is a no-op.
Delete(t) ==
    /\ HandlersRun /\ t \in items
    /\ items' = items \ {t}
    /\ deleting' = deleting \union {t}
    /\ UNCHANGED <<create, shell, quiet, expiry, sweeping, closing, sweeper,
                   agent, timedOut, aborted>>

DeleteClose(t) ==
    /\ agent # "gone" /\ t \in deleting
    /\ deleting' = deleting \ {t}
    /\ Kill(t)
    /\ UNCHANGED <<items, create, quiet, expiry, sweeping, closing, sweeper,
                   agent, timedOut, aborted>>

\* Variant: only terminals whose shell has exited are swept.
StaleExited == {t \in items \intersect quiet : shell[t] = "dead"}

Stale == items \intersect quiet

\* A tick of sweepLoop: the critical section of sweep.  When stop and a tick are
\* both ready, select picks either, so a sweep may come after CloseAll began.
Sweep ==
    /\ agent # "gone" /\ sweeper = "run" /\ sweeping = {} /\ Stale # {}
    /\ sweeping' = Stale
    /\ items' = items \ Stale
    /\ UNCHANGED <<create, shell, quiet, expiry, deleting, closing, sweeper,
                   agent, timedOut, aborted>>

\* Variant: sweep forgets the terminal without closing it.
SweepForget(t) ==
    /\ agent # "gone" /\ t \in sweeping
    /\ sweeping' = sweeping \ {t}
    /\ UNCHANGED <<items, create, shell, quiet, expiry, deleting, closing,
                   sweeper, agent, timedOut, aborted>>

SweepClose(t) ==
    /\ agent # "gone" /\ t \in sweeping
    /\ sweeping' = sweeping \ {t}
    /\ Kill(t)
    /\ UNCHANGED <<items, create, quiet, expiry, deleting, closing, sweeper,
                   agent, timedOut, aborted>>

\* sweepLoop sees r.stop closed, which the first CloseAll did.
SweepStop ==
    /\ agent \in {"closing", "draining", "last"} /\ sweeper = "run" /\ sweeping = {}
    /\ sweeper' = "end"
    /\ UNCHANGED <<items, create, shell, quiet, expiry, deleting, sweeping,
                   closing, agent, timedOut, aborted>>

\* The console has its terminal, or there is no console.
Started ==
    /\ agent = "starting" /\ \A t \in Own : create[t] = "done"
    /\ agent' = "up"
    /\ UNCHANGED <<items, create, shell, quiet, expiry, deleting, sweeping,
                   closing, sweeper, timedOut, aborted>>

\* There is no directory to start in, or Create failed: os.Exit, which runs no
\* deferred call.
Abort ==
    /\ agent = "starting" /\ \E t \in Own : create[t] \in {"idle", "failed"}
    /\ agent' = "gone" /\ aborted' = TRUE
    /\ UNCHANGED <<items, create, shell, quiet, expiry, deleting, sweeping,
                   closing, sweeper, timedOut>>

\* The console ended, a signal came or the server could not listen.
\* shutdown calls CloseAll: stop is closed and the table emptied.
Shutdown ==
    /\ agent = "up"
    /\ agent' = "closing"
    /\ closing' = items
    /\ items' = {}
    /\ UNCHANGED <<create, shell, quiet, expiry, deleting, sweeping, sweeper,
                   timedOut, aborted>>

\* The loop of CloseAll.
CloseNext(t) ==
    /\ agent # "gone" /\ t \in closing
    /\ closing' = closing \ {t}
    /\ Kill(t)
    /\ UNCHANGED <<items, create, quiet, expiry, deleting, sweeping, sweeper,
                   agent, timedOut, aborted>>

\* CloseAll has returned; srv.Shutdown closes the listeners.
Drain ==
    /\ agent = "closing" /\ closing = {}
    /\ agent' = "draining"
    /\ UNCHANGED <<items, create, shell, quiet, expiry, deleting, sweeping,
                   closing, sweeper, timedOut, aborted>>

\* Variant: main returns after srv.Shutdown, with no deferred CloseAll.
DrainedAndGone ==
    /\ agent = "draining" /\ Creating = {} /\ deleting = {}
    /\ agent' = "gone"
    /\ UNCHANGED <<items, create, shell, quiet, expiry, deleting, sweeping,
                   closing, sweeper, timedOut, aborted>>

\* srv.Shutdown returns when no handler is running, also none that has not got to
\* the registry yet; main returns, and its deferred CloseAll empties the table
\* once more.
Drained ==
    /\ agent = "draining" /\ Creating = {} /\ deleting = {}
    /\ agent' = "last"
    /\ closing' = items
    /\ items' = {}
    /\ UNCHANGED <<create, shell, quiet, expiry, deleting, sweeping, sweeper,
                   timedOut, aborted>>

\* The same after five seconds of waiting for a handler.
DrainTimeout ==
    /\ agent = "draining"
    /\ agent' = "last"
    /\ timedOut' = TRUE
    /\ closing' = items
    /\ items' = {}
    /\ UNCHANGED <<create, shell, quiet, expiry, deleting, sweeping, sweeper,
                   aborted>>

\* The process ends, and every goroutine with it.
Gone ==
    /\ agent = "last" /\ closing = {}
    /\ agent' = "gone"
    /\ UNCHANGED <<items, create, shell, quiet, expiry, deleting, sweeping,
                   closing, sweeper, timedOut, aborted>>

-----------------------------------------------------------------------------
Main == Started \/ Drain \/ Drained \/ DrainTimeout \/ Gone \/ \E t \in Terminals : CloseNext(t)

Step(t) == \/ Check(t) \/ Spawn(t) \/ Insert(t)
           \/ Exit(t) \/ GoQuiet(t) \/ Activity(t) \/ Done(t) \/ Expire(t)
           \/ Delete(t) \/ DeleteClose(t) \/ SweepClose(t)

Next == \/ \E t \in Terminals : Step(t)
        \/ Sweep \/ SweepStop \/ Abort \/ Shutdown \/ Main

Spec == Init /\ [][Next]_vars

(* Goroutines run, timers fire, and a tick comes every minute; nothing makes  *)
(* a shell exit, a request arrive or the user quit.                           *)
Fairness ==
    /\ WF_vars(Main)
    /\ WF_vars(Sweep)
    /\ \A t \in Terminals :
          /\ WF_vars(Spawn(t) \/ Insert(t))
          /\ WF_vars(Done(t) \/ Expire(t))
          /\ WF_vars(DeleteClose(t)) /\ WF_vars(SweepClose(t))

FairSpec == Spec /\ Fairness

-----------------------------------------------------------------------------
(* Properties. *)

\* A running shell is in the table, or somebody is about to put it there or to
\* close it: none is forgotten, whoever removes entries and in whatever order
\* (registry.go Create, Close, CloseAll, sweep).
NoLostShell ==
    \A t \in Terminals :
        shell[t] = "running" =>
            t \in items \union deleting \union sweeping \union closing
              \/ create[t] = "insert"

\* The limit is tested and the entry made in two critical sections, so it can
\* be exceeded, but only by the calls of Create that were under way at once
\* (registry.go:73-95).
BoundedOvershoot ==
    Cardinality(items \union Creating) <= Max + MaxConcurrent - 1

\* When the process is gone it has left a shell running only if the sweeper was
\* about to close it, or srv.Shutdown gave up on the handler that was creating
\* or closing it, or the console could not start, in which case no shell was its
\* own (main.go:161-194, shutdown and the deferred CloseAll).
ShutdownEndsShells ==
    agent = "gone" =>
        \A t \in Terminals :
            shell[t] = "running" =>
                \/ t \in sweeping
                \/ timedOut /\ (t \in deleting \/ create[t] = "insert"
                                \/ t \in items)
                \/ aborted /\ t \notin Own

\* A terminal somebody took out of the table to close does lose its shell.
RemovedShellsDie ==
    \A t \in Terminals :
        (t \in deleting \union sweeping) ~> (shell[t] = "dead" \/ agent = "gone")

\* A shell nobody uses does not stay: it is swept unless it wakes up
\* (README.md:345).
QuietTerminalsGo ==
    \A t \in Terminals :
        (t \in items /\ t \in quiet)
            ~> (t \notin items \/ t \notin quiet \/ agent \notin {"starting", "up"})

\* The entry of a dead shell does not hold its place in the table for ever
\* (registry.go:97).
DeadTerminalsGo ==
    \A t \in Terminals :
        (t \in items /\ shell[t] = "dead") ~> (t \notin items \/ agent = "gone")
=============================================================================
