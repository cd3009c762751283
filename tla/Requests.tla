------------------------------ MODULE Requests ------------------------------
(***************************************************************************)
(* What one agent does with what reaches it, one request at a time: main's *)
(* check of the configuration, the guards, the handlers of input and of    *)
(* POST /run (internal/api), and the keys and pastes of the console        *)
(* (internal/tui).  The guards, the start directory, the reply filter, the *)
(* key table and the runner are modules of their own.                      *)
(***************************************************************************)
EXTENDS Guards, StartDir, ReplyFilter, KeyTable, Runner

CONSTANTS
    Configs,    \* configurations and the name of the working directory
    Keys,       \* keys of the console
    Replies,    \* what a terminal answers on its own, each a sequence of bytes
    Typed,      \* what else a client sends in one piece
    Asks,       \* bodies of POST /run
    MaxUnits    \* bound: pieces in one message

ASSUME ConfigsAssumption ==
    Configs \subseteq [key : BOOLEAN, host : Hosts, pwd : Pwds]
ASSUME MaxUnitsAssumption == MaxUnits \in Nat
ASSUME AsksAssumption ==
    Asks \subseteq [json : BOOLEAN, blank : BOOLEAN, destructive : BOOLEAN,
                    confirm : BOOLEAN, dir : Paths]

ASSUME KeysAssumption == \A k \in Keys : IsKey(k) /\ keyToBytes(k) \in Seq(Bytes)
ASSUME RepliesAssumption == \A r \in Replies : r \in Seq(Bytes) /\ IsAnswer(r)
ASSUME TypedAssumption == \A t \in Typed : IsTyped(t)

VARIABLES
    agent,      \* "down", "refused" (main stopped), "up"
    cfg,        \* the configuration and what os.Getwd returns
    stage,      \* where the request is
    by,         \* who was let in, until the handler takes over
    message,    \* the input, as the pieces it was made of
    outcome,    \* what became of it: "none", "written", "filtered", "failed"
    pressed,    \* the key, as a set of at most one
    ask,        \* the command that runs, as a set of at most one
    status      \* the answer, 0 while there is none

requestVars == <<agent, cfg, stage, by, message, outcome, pressed, ask, status>>
vars == <<requestVars, runVars>>

Nobody == [path |-> "none", key |-> FALSE, loopback |-> FALSE,
           listed |-> FALSE, here |-> FALSE]

Init ==
    /\ agent = "down" /\ cfg \in Configs
    /\ stage = "idle" /\ by = Nobody /\ message = <<>> /\ outcome = "none"
    /\ pressed = {} /\ ask = {} /\ status = 0
    /\ RunIdle

Start ==
    /\ agent = "down"
    /\ agent' = IF Starts(cfg) THEN "up" ELSE "refused"
    /\ UNCHANGED <<cfg, stage, by, message, outcome, pressed, ask, status, runVars>>

(***************************************************************************)
(* HTTP                                                                    *)
(***************************************************************************)
\* The key is in a place the documentation names for this path.
HasKey(r) ==
    \/ "right" \in {r.header, r.bearer}
    \/ r.path \in Streams /\ "right" \in {r.token, r.apiKey}

\* A loopback address is reached from this device only.
Request(r, here) ==
    /\ agent = "up" /\ stage = "idle"
    /\ here \/ ~LocalOnly(cfg)
    /\ LET verdict == Verdict(cfg, r)
       IN  /\ status' = verdict
           /\ stage' = IF verdict = 0 THEN "admitted" ELSE "answered"
           /\ by' = IF verdict # 0 THEN Nobody
                    ELSE [path |-> r.path, key |-> HasKey(r),
                          loopback |-> IsLoopback(r.host),
                          listed |-> r.origin \in {"none", "listed"}, here |-> here]
    /\ UNCHANGED <<agent, cfg, message, outcome, pressed, ask, runVars>>

Answer(code) == stage' = "answered" /\ status' = code

Dispatch ==
    /\ stage = "admitted"
    /\ by' = Nobody
    /\ IF by.path = "health" THEN Answer(200)
       ELSE stage' = by.path /\ UNCHANGED status
    /\ UNCHANGED <<agent, cfg, message, outcome, pressed, ask, runVars>>

(***************************************************************************)
(* Input                                                                   *)
(***************************************************************************)
bytes == FlattenSeq(message)

Compose(u) ==
    /\ stage \in {"ws", "input", "paste"} /\ outcome = "none"
    /\ Len(message) < MaxUnits
    /\ message' = Append(message, u)
    /\ UNCHANGED <<agent, cfg, stage, by, outcome, pressed, ask, status, runVars>>

\* Filter, then Terminal.Write, which fails once the terminal is closed.
PassOn(input, alive) ==
    outcome' = IF IsTerminalReply(input) THEN "filtered"
               ELSE IF alive THEN "written" ELSE "failed"

\* The reader of a WebSocket: a write that fails ends the session.
WsInput(alive) ==
    /\ stage = "ws" /\ outcome = "none"
    /\ PassOn(bytes, alive)
    /\ IF outcome' = "failed" THEN Answer(101) ELSE UNCHANGED <<stage, status>>
    /\ UNCHANGED <<agent, cfg, by, message, pressed, ask, runVars>>

WsNext ==
    /\ stage = "ws" /\ outcome # "none"
    /\ message' = <<>> /\ outcome' = "none"
    /\ UNCHANGED <<agent, cfg, stage, by, pressed, ask, status, runVars>>

WsClose ==
    /\ stage = "ws"
    /\ Answer(101)
    /\ UNCHANGED <<agent, cfg, by, message, outcome, pressed, ask, runVars>>

HandleInput(found, json, alive) ==
    /\ stage = "input"
    /\ IF ~found THEN Answer(404) /\ UNCHANGED outcome
       ELSE IF ~json /\ message # <<>> THEN Answer(400) /\ UNCHANGED outcome
       ELSE /\ PassOn(bytes, alive)
            /\ Answer(IF outcome' = "failed" THEN 502 ELSE 200)
    /\ UNCHANGED <<agent, cfg, by, message, pressed, ask, runVars>>

(***************************************************************************)
(* The console                                                             *)
(***************************************************************************)
StartPaste ==
    /\ agent = "up" /\ stage = "idle"
    /\ stage' = "paste"
    /\ UNCHANGED <<agent, cfg, by, message, outcome, pressed, ask, status, runVars>>

Paste(alive) ==
    /\ stage = "paste"
    /\ PassOn(bytes, alive)
    /\ Answer(0)
    /\ UNCHANGED <<agent, cfg, by, message, pressed, ask, runVars>>

\* ctrl+\ ends the console (tui.go:40) and never gets here.
Press(k, alive) ==
    /\ agent = "up" /\ stage = "idle"
    /\ pressed' = {k}
    /\ IF keyToBytes(k) = <<>> THEN UNCHANGED outcome ELSE PassOn(keyToBytes(k), alive)
    /\ Answer(0)
    /\ UNCHANGED <<agent, cfg, by, message, ask, runVars>>

(***************************************************************************)
(* Commands                                                                *)
(***************************************************************************)
Confirmed(q) == q.confirm \/ ~q.destructive

RunRefused(q) ==
    CASE ~q.json -> 400
      [] q.json /\ ~Confirmed(q) -> 409
      [] OTHER -> IF ResolveDir(cfg.pwd, q.dir) = NoPath \/ q.blank THEN 400 ELSE 0

\* handleRun up to Cmd.Start, which may fail as well.
HandleRun(q, starts) ==
    /\ stage = "run"
    /\ IF RunRefused(q) # 0 \/ ~starts
       THEN /\ Answer(IF RunRefused(q) # 0 THEN RunRefused(q) ELSE 400)
            /\ UNCHANGED <<ask, runVars>>
       ELSE /\ stage' = "running" /\ UNCHANGED status
            /\ ask' = {[destructive |-> q.destructive, confirm |-> q.confirm,
                        relative |-> q.dir.kind = "rel",
                        dir |-> ResolveDir(cfg.pwd, q.dir)]}
            /\ RunStart
    /\ UNCHANGED <<agent, cfg, by, message, outcome, pressed>>

\* A step of the command or of what waits for it.
During(step) == stage = "running" /\ step /\ UNCHANGED requestVars

RunAnswer ==
    /\ stage = "running" /\ call = "done"
    /\ Answer(IF HasResult THEN 200 ELSE 400)
    /\ UNCHANGED <<agent, cfg, by, message, outcome, pressed, ask, runVars>>

\* The next request finds nothing of this one.
Done ==
    /\ stage = "answered"
    /\ stage' = "idle" /\ by' = Nobody /\ message' = <<>> /\ outcome' = "none"
    /\ pressed' = {} /\ ask' = {} /\ status' = 0
    /\ RunForget
    /\ UNCHANGED <<agent, cfg>>

Next ==
    \/ Start
    \/ \E r \in AllRequests, here \in BOOLEAN : Request(r, here)
    \/ Dispatch
    \/ \E u \in Replies \cup Typed : Compose(u)
    \/ \E alive \in BOOLEAN : WsInput(alive) \/ Paste(alive)
    \/ WsNext
    \/ WsClose
    \/ \E found, json, alive \in BOOLEAN : HandleInput(found, json, alive)
    \/ StartPaste
    \/ \E k \in Keys, alive \in BOOLEAN : Press(k, alive)
    \/ \E q \in Asks, starts \in BOOLEAN : HandleRun(q, starts)
    \/ During(RunNext)
    \/ RunAnswer
    \/ Done

Spec == Init /\ [][Next]_vars

\* The goroutines run, the timers fire, and a shell that was killed can be
\* waited for.  The command owes nothing, and neither does its client.
Fairness ==
    /\ WF_vars(During(CtxDone("deadline")))
    /\ WF_vars(During(KillGroup))
    /\ WF_vars(During(Reap))
    /\ WF_vars(During(HandOver))
    /\ WF_vars(During(PipesDone))
    /\ WF_vars(During(Delay))
    /\ WF_vars(RunAnswer)

FairSpec == Spec /\ Fairness

(***************************************************************************)
(* Properties                                                              *)
(***************************************************************************)
\* The state is well formed.
TypeOK ==
    /\ agent \in {"down", "refused", "up"} /\ cfg \in Configs
    /\ stage \in {"idle", "admitted", "ws", "input", "run", "paste", "running", "answered"}
    /\ by.path \in {"none", "health", "run", "input", "ws"}
    /\ message \in Seq(Replies \cup Typed) /\ Len(message) <= MaxUnits
    /\ outcome \in {"none", "written", "filtered", "failed"}
    /\ pressed \subseteq Keys
    /\ status \in {0, 101, 200, 204, 400, 401, 403, 404, 405, 409, 502}
    /\ RunTypeOK

\* A handler other than /health is reached by a caller with the key; without
\* a key in the configuration, from this device alone, and by its own name.
\* No page of an origin that is not listed gets there.  What the relay link
\* sends on is never refused.
RequestsAreAllowed ==
    /\ stage = "admitted" =>
          /\ by.listed
          /\ cfg.key => by.key \/ by.path = "health"
          /\ ~cfg.key => by.here /\ by.loopback
    /\ agent = "up" => \A path \in {"run", "input", "ws"} :
                           Verdict(cfg, RelayRequest(cfg, path)) = 0

\* The result of ResolveDir hangs on the name of the working directory.
HangsOnName(c) ==
    c.relative \/ \E i \in DOMAIN AllowedRoots : AllowedRoots[i].kind = "rel"

\* A command that cannot be undone runs only when that was confirmed, and every
\* command starts in a directory that exists.  That directory is in one of the
\* allowed roots once all links are followed, however it was written (.., links,
\* ~), unless a relative path is put behind a $PWD that runs through a link
\* (paths.go:27-31).
CommandsAreAllowed ==
    \A c \in ask :
        /\ c.destructive => c.confirm
        /\ IsRealDir(Reached(c.dir))
        /\ \/ cfg.pwd # Cwd /\ HangsOnName(c)
           \/ DOMAIN AllowedRoots = {}
           \/ \E i \in DOMAIN AllowedRoots :
                  /\ IsRealDir(Real(Cwd, AllowedRoots[i]))
                  /\ IsPrefix(Real(Cwd, AllowedRoots[i]), Reached(c.dir))

\* When a command is answered its shell is gone and waited for, and what it
\* left behind is gone too unless the shell ended by itself or the job moved
\* to a group of its own.
SurvivorsAreJobs ==
    stage = "answered" /\ ask # {} =>
        /\ shell = "reaped"
        /\ job = "alive" => ~inGroup \/ how # "killed"

\* A client that is still there gets the result of every command that was
\* started, also when the time was up or something kept the output open, and
\* all of the output unless that something held it too long.  A command that
\* was killed is never shown as one that ended.
ResultsAreKept ==
    stage = "answered" /\ ask # {} /\ ctx # "gone" =>
        /\ status = 200
        /\ copied = written \/ pipe = "cut"
        /\ how = "killed" => TimedOut

\* Every command is answered, whatever it does.
RunIsAnswered == stage = "running" ~> stage = "answered"

\* An opener that something follows: a terminal reads both as one sequence.
Ambiguous == \E i \in 1 .. Len(message) - 1 : message[i] \in Openers

\* Input is held back when all of it has the form of a terminal's answers, one
\* or more, and only then.  Of what is typed that is one key, f3 with a modifier,
\* which a browser sends in the form of a cursor report (reply_filter.go:132): no
\* other key and no text is lost, alone or beside an answer.
FilterIsExact ==
    outcome # "none" /\ pressed = {} /\ ~Ambiguous =>
        (outcome = "filtered" <=>
            message # <<>> /\ \A i \in DOMAIN message : IsAnswer(message[i]))

\* What is left of a key: ASCII has one code for tab and ctrl+i, enter and
\* ctrl+m, esc and ctrl+[; a control character has no other modifier; and of
\* shift a character only has its capital.
OneCode(k) ==
    CASE "ctrl" \in k.mods /\ k.name = "i" -> <<"tab", {}>>
      [] "ctrl" \in k.mods /\ k.name = "m" -> <<"enter", {}>>
      [] "ctrl" \in k.mods /\ k.name = "[" -> <<"esc", {}>>
      [] "ctrl" \in k.mods /\ k.name \in DOMAIN Control \ {"i", "m", "["} ->
             <<k.name, {"ctrl"}>>
      [] k.text # <<>> -> <<k.name, k.mods \ {"shift"}>>
      [] OTHER -> <<k.name, k.mods>>

\* A page key with a modifier.  It sends what the arrow with that modifier sends,
\* because modifiedSpecial takes the end of its name for the arrow's
\* (keys.go:142-145); xterm, which keys.go:12 follows, has CSI 5;mod~ and 6;mod~.
ModifiedPage(k) == k.name \in {"pgup", "pgdown"} /\ k.mods # {}

\* Two keys send the same bytes only where ASCII leaves one code for both, but
\* for the page keys with a modifier, and no key that sends something is taken
\* for a terminal's answer.
KeysAreDistinct ==
    \A k \in pressed :
        /\ outcome # "filtered"
        /\ \A other \in Keys :
              keyToBytes(other) = keyToBytes(k) /\ keyToBytes(k) # <<>> =>
                  \/ OneCode(other) = OneCode(k)
                  \/ ModifiedPage(k) \/ ModifiedPage(other)
=============================================================================
