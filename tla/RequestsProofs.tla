--------------------------- MODULE RequestsProofs ---------------------------
(***************************************************************************)
(* Theorems about who is let in, about commands, about the reply filter    *)
(* and about keys, for any configuration, file system, set of requests,    *)
(* amount of output, set of keys and messages of any length.               *)
(***************************************************************************)
EXTENDS Requests, StartDirProofs, TLAPS

(* Where the call of Cmd.Run, its processes and its watcher are, relative to   *)
(* each other and to the request.                                              *)
CallInv ==
    /\ ask = {} <=> call = "idle"
    /\ stage = "running" => ask # {}
    /\ stage = "answered" /\ ask # {} => call = "done"
    /\ ask # {} => stage \in {"running", "answered"}
    /\ call = "idle" => watcher = "off" /\ shell = "none"
    /\ call = "wait" => shell \in {"running", "exited"}
    /\ call \in {"reaped", "pipes", "done"} => shell = "reaped"
    /\ call \in {"idle", "wait", "reaped", "pipes", "done"}
    /\ watcher = "watching" => call \in {"wait", "reaped"}
    /\ how = "killed" => shell \notin {"none", "running"}
    /\ by.path \in {"none", "health", "run", "input", "ws"}

(* The watcher acts after the context is done, and takes the group with it.    *)
KillInv ==
    /\ ctx \in {"live", "deadline", "gone"}
    /\ how = "killed" => ctx # "live" /\ (job = "alive" => ~inGroup)
    /\ watcher \in {"killed", "spent"} =>
          ctx # "live" /\ shell # "running"
    /\ err = "ctx" => ctx # "live"
    /\ err \in {"none", "exit", "ctx", "delay"}
    /\ call = "idle" => ctx = "live" /\ how = "ok" /\ err = "none" /\ job = "none"

(* The copying goroutine ends with all of the output unless it is cut off.     *)
OutputInv ==
    /\ pipe \in {"open", "eof", "cut"}
    /\ pipe = "eof" => copied = written
    /\ call = "done" => pipe # "open"

(* The answer is made of what Cmd.Run returned.                                *)
AnswerInv == stage = "answered" /\ ask # {} => status = IF HasResult THEN 200 ELSE 400

RunInv == CallInv /\ KillInv /\ OutputInv /\ AnswerInv

LEMMA RunInvInit == Init => RunInv
  BY DEF Init, Nobody, RunIdle, RunInv, CallInv, KillInv, OutputInv, AnswerInv

(* A step of the command or of what waits for it. *)
LEMMA StepKeepsRunInv ==
  ASSUME RunInv, During(RunNext)
  PROVE  RunInv'
<1> USE DEF RunInv, CallInv, KillInv, OutputInv, AnswerInv, jobVars, outputVars
<1>1. stage = "running" /\ UNCHANGED <<stage, by, ask, status>> /\ RunNext
  BY DEF During, requestVars
<1>2. ASSUME NEW group \in BOOLEAN, NEW holds \in BOOLEAN, JobStart(group, holds)
      PROVE  RunInv'
  BY <1>1, <1>2 DEF JobStart
<1>3. CASE JobEnd
  BY <1>1, <1>3 DEF JobEnd
<1>4. CASE Output \/ Copy \/ Eof
  BY <1>1, <1>4 DEF Output, Copy, Eof
<1>5. ASSUME NEW s \in {"ok", "fail"}, ShellEnd(s)
      PROVE  RunInv'
  BY <1>1, <1>5 DEF ShellEnd
<1>6. ASSUME NEW why \in {"deadline", "gone"}, CtxDone(why)
      PROVE  RunInv'
  BY <1>1, <1>6 DEF CtxDone
<1>7. CASE KillGroup
  BY <1>1, <1>7 DEF KillGroup
<1>8. CASE WatcherGivesUp
  BY <1>1, <1>8 DEF WatcherGivesUp
<1>9. CASE Reap
  BY <1>1, <1>9 DEF Reap
<1>10. CASE HandOver
  BY <1>1, <1>10 DEF HandOver
<1>11. CASE PipesDone \/ Delay
  BY <1>1, <1>11 DEF PipesDone, Delay
<1> QED
  BY <1>1, <1>2, <1>3, <1>4, <1>5, <1>6, <1>7, <1>8, <1>9, <1>10, <1>11 DEF RunNext

LEMMA RunInvNext ==
  ASSUME RunInv, [Next]_vars
  PROVE  RunInv'
<1> DEFINE same == UNCHANGED <<ask, runVars>>
<1>1. ASSUME same, stage # "running", stage' # "running",
             ask = {} \/ UNCHANGED <<stage, status>>,
             by'.path \in {"none", "health", "run", "input", "ws"}
      PROVE  RunInv'
  BY <1>1 DEF RunInv, CallInv, KillInv, OutputInv, AnswerInv, HasResult, TimedOut, runVars
<1>2. ASSUME UNCHANGED <<stage, by, status, ask, runVars>>
      PROVE  RunInv'
  BY <1>2 DEF RunInv, CallInv, KillInv, OutputInv, AnswerInv, HasResult, TimedOut, runVars
<1>3. CASE Start \/ WsNext \/ UNCHANGED vars
  BY <1>2, <1>3 DEF Start, WsNext, vars, requestVars
<1>4. /\ stage \notin {"running", "answered"} => ask = {}
      /\ by.path \in {"none", "health", "run", "input", "ws"}
  BY DEF RunInv, CallInv
<1>5. ASSUME NEW r \in AllRequests, NEW here \in BOOLEAN, Request(r, here)
      PROVE  RunInv'
  <2>1. stage = "idle" /\ stage' \in {"admitted", "answered"} /\ same
    BY <1>5 DEF Request
  <2>2. by'.path \in {"none", "health", "run", "input", "ws"}
    BY <1>5 DEF Request, Nobody, AllRequests
  <2> QED
    BY <1>1, <1>4, <2>1, <2>2
<1>6. CASE Dispatch
  <2>1. stage = "admitted" /\ same /\ stage' \in {by.path, "answered"} /\ by'.path = "none"
    BY <1>6 DEF Dispatch, Answer, Nobody
  <2> QED
    BY <1>1, <1>4, <2>1
<1>7. ASSUME NEW u \in Replies \cup Typed, Compose(u)
      PROVE  RunInv'
  BY <1>2, <1>7 DEF Compose
<1>8. ASSUME NEW alive \in BOOLEAN, WsInput(alive) \/ Paste(alive)
      PROVE  RunInv'
  <2>1. stage \in {"ws", "paste"} /\ same /\ stage' \in {"ws", "answered"} /\ UNCHANGED by
    BY <1>8 DEF WsInput, Paste, Answer
  <2> QED
    BY <1>1, <1>4, <2>1
<1>9. CASE WsClose \/ StartPaste
  <2>1. /\ stage \in {"ws", "idle"} /\ same /\ stage' \in {"paste", "answered"}
        /\ UNCHANGED by
    BY <1>9 DEF WsClose, StartPaste, Answer
  <2> QED
    BY <1>1, <1>4, <2>1
<1>10. ASSUME NEW found \in BOOLEAN, NEW json \in BOOLEAN, NEW alive \in BOOLEAN,
              HandleInput(found, json, alive)
       PROVE  RunInv'
  <2>1. stage = "input" /\ same /\ stage' = "answered" /\ UNCHANGED by
    BY <1>10 DEF HandleInput, Answer
  <2> QED
    BY <1>1, <1>4, <2>1
<1>11. ASSUME NEW k \in Keys, NEW alive \in BOOLEAN, Press(k, alive)
       PROVE  RunInv'
  <2>1. stage = "idle" /\ same /\ stage' = "answered" /\ UNCHANGED by
    BY <1>11 DEF Press, Answer
  <2> QED
    BY <1>1, <1>4, <2>1
<1>12. ASSUME NEW q \in Asks, NEW starts \in BOOLEAN, HandleRun(q, starts)
       PROVE  RunInv'
  <2>1. stage = "run" /\ UNCHANGED by
    BY <1>12 DEF HandleRun
  <2>2. CASE stage' = "answered" /\ same
    BY <1>1, <1>4, <2>1, <2>2
  <2>3. CASE stage' = "running" /\ ask' # {} /\ RunStart
    BY <1>4, <2>1, <2>3 DEF RunStart, jobVars, outputVars, RunInv, CallInv, KillInv,
                       OutputInv, AnswerInv
  <2> QED
    BY <1>12, <2>2, <2>3 DEF HandleRun, Answer
<1>13. CASE During(RunNext)
  BY <1>13, StepKeepsRunInv
<1>14. CASE RunAnswer
  BY <1>14 DEF RunAnswer, Answer, runVars, HasResult, TimedOut, RunInv, CallInv, KillInv,
               OutputInv, AnswerInv
<1>15. CASE Done
  BY <1>15 DEF Done, RunForget, Nobody, RunInv, CallInv, KillInv, OutputInv, AnswerInv
<1> QED
  BY <1>3, <1>5, <1>6, <1>7, <1>8, <1>9, <1>10, <1>11, <1>12, <1>13, <1>14, <1>15
     DEF Next

(* The invariant is one. *)
THEOREM RunInvariance == Spec => []RunInv
  BY RunInvInit, RunInvNext, PTL DEF Spec

(* An answered command has left no process behind, but for a job of a shell    *)
(* that ended by itself or a job outside of its group (runner/run.go Run,      *)
(* proc_unix.go ownGroup).                                                     *)
THEOREM ShellsAreReaped == Spec => []SurvivorsAreJobs
<1>1. RunInv => SurvivorsAreJobs
  BY DEF RunInv, CallInv, KillInv, SurvivorsAreJobs
<1> QED
  BY <1>1, RunInvariance, PTL

(* A client that waits gets its result, whatever the order in which the shell  *)
(* ends, the time runs out and the output is read (runner/run.go Run).         *)
THEOREM ResultsAreDelivered == Spec => []ResultsAreKept
<1>1. RunInv => ResultsAreKept
  <2> SUFFICES ASSUME RunInv, stage = "answered", ask # {}, ctx # "gone"
               PROVE  /\ status = 200 /\ (copied = written \/ pipe = "cut")
                      /\ (how = "killed" => TimedOut)
    BY DEF ResultsAreKept
  <2>1. how = "killed" \/ err = "ctx" => TimedOut
    BY DEF RunInv, KillInv, TimedOut
  <2>2. HasResult
    BY <2>1 DEF RunInv, KillInv, HasResult
  <2>3. copied = written \/ pipe = "cut"
    BY DEF RunInv, CallInv, OutputInv
  <2> QED
    BY <2>1, <2>2, <2>3 DEF RunInv, AnswerInv
<1> QED
  BY <1>1, RunInvariance, PTL

-----------------------------------------------------------------------------
(* Who is let in. *)

(* The guards let a request through for one of three reasons. *)
LEMMA Through ==
  ASSUME NEW c, c.key \in BOOLEAN, c.host \in Hosts, NEW r \in AllRequests,
         Verdict(c, r) = 0
  PROVE  /\ r.origin \in {"none", "listed"}
         /\ c.key => HasKey(r) \/ r.path = "health"
         /\ ~c.key => IsLoopback(r.host)
<1>1. withOrigin(r) = 0 /\ withHost(c, r) = 0 /\ withAuth(c, r) = 0
  BY DEF Verdict
<1>2. r.origin \in {"none", "listed"}
  BY <1>1 DEF withOrigin, AllRequests
<1>3. ~c.key => IsLoopback(r.host)
  BY <1>1 DEF withHost
<1>4. c.key => Provided(r) = "right" \/ r.path = "health"
  BY <1>1 DEF withAuth
<1>5. Provided(r) = "right" => HasKey(r)
  BY DEF Provided, HasKey, AllRequests
<1> QED
  BY <1>2, <1>3, <1>4, <1>5

(* The relay link's requests have the key and come from this device. *)
LEMMA RelayGoesThrough ==
  ASSUME NEW c, c.key \in BOOLEAN, c.host \in Hosts, NEW path \in {"run", "input", "ws"}
  PROVE  Verdict(c, RelayRequest(c, path)) = 0
<1> DEFINE r == RelayRequest(c, path)
<1>1. /\ r.origin = "none" /\ r.host = "127.0.0.1" /\ r.preflight = FALSE
      /\ r.path = path /\ r.header = IF c.key THEN "right" ELSE "none"
  BY DEF RelayRequest
<1> HIDE DEF r
<1>2. withOrigin(r) = 0 /\ withHost(c, r) = 0 /\ Route(r) = 0
  BY <1>1 DEF withOrigin, withHost, IsLoopback, Route
<1>3. withAuth(c, r) = 0
  BY <1>1 DEF withAuth, Provided
<1>4. Verdict(c, r) = 0
  BY <1>2, <1>3 DEF Verdict
<1> QED
  BY <1>4 DEF r

GuardInv ==
    /\ cfg \in Configs
    /\ agent = "up" => Starts(cfg)
    /\ RequestsAreAllowed

(* What main refuses to start with and what the guards refuse add up: a        *)
(* handler is reached with the key or, without one, from this device alone     *)
(* (main.go:66, api.go withOrigin, withHost, withAuth).                        *)
THEOREM GuardsHold == Spec => []RequestsAreAllowed
<1>1. Init => GuardInv
  BY DEF Init, GuardInv, RequestsAreAllowed
<1>2. ASSUME RunInv, GuardInv, [Next]_vars
      PROVE  GuardInv'
  <2>1. cfg.key \in BOOLEAN /\ cfg.host \in Hosts /\ cfg' = cfg
    BY <1>2, ConfigsAssumption DEF GuardInv, Next, Start, Request, Dispatch, Compose,
       WsInput, WsNext, WsClose, HandleInput, StartPaste, Paste, Press, HandleRun, During,
       RunAnswer, Done, requestVars, vars
  <2>2. \A path \in {"run", "input", "ws"} : Verdict(cfg', RelayRequest(cfg', path)) = 0
    BY <2>1, RelayGoesThrough
  <2>3. ASSUME UNCHANGED agent, stage' # "admitted" \/ UNCHANGED <<stage, by>>
        PROVE  GuardInv'
    BY <1>2, <2>1, <2>2, <2>3 DEF GuardInv, RequestsAreAllowed
  <2>4. CASE Start
    BY <1>2, <2>1, <2>2, <2>4 DEF Start, GuardInv, RequestsAreAllowed
  <2>5. ASSUME NEW r \in AllRequests, NEW here \in BOOLEAN, Request(r, here)
        PROVE  GuardInv'
    <3>0. cfg \in Configs /\ Starts(cfg)
      BY <1>2, <2>5 DEF GuardInv, Request
    <3>1. CASE Verdict(cfg, r) # 0
      <4>1. stage' = "answered" /\ UNCHANGED agent
        BY <2>5, <3>1 DEF Request
      <4> QED
        BY <2>3, <4>1
    <3>2. CASE Verdict(cfg, r) = 0
      <4>1. /\ agent = "up" /\ UNCHANGED agent /\ (here \/ ~LocalOnly(cfg))
            /\ by' = [path |-> r.path, key |-> HasKey(r),
                      loopback |-> IsLoopback(r.host),
                      listed |-> r.origin \in {"none", "listed"}, here |-> here]
        BY <2>5, <3>2 DEF Request
      <4>2. /\ r.origin \in {"none", "listed"}
            /\ cfg.key => HasKey(r) \/ r.path = "health"
            /\ ~cfg.key => IsLoopback(r.host)
        BY <2>1, <3>2, Through
      <4>3. ~cfg.key => here
        <5>1. Starts(cfg)
          BY <3>0
        <5>2. cfg.key \/ LocalOnly(cfg)
          BY <5>1 DEF Starts
        <5> QED
          BY <4>1, <5>2
      <4>4. /\ by'.listed = (r.origin \in {"none", "listed"}) /\ by'.key = HasKey(r)
            /\ by'.loopback = IsLoopback(r.host) /\ by'.path = r.path /\ by'.here = here
        BY ONLY <4>1
      <4>5. by'.listed
        BY <4>2, <4>4, Zenon
      <4>6. cfg.key => by'.key \/ by'.path = "health"
        BY <4>2, <4>4, Zenon
      <4>7. ~cfg.key => by'.here /\ by'.loopback
        BY <4>2, <4>3, <4>4, Zenon
      <4>8. RequestsAreAllowed'
        BY <2>1, <2>2, <4>5, <4>6, <4>7, Zenon DEF RequestsAreAllowed
      <4>9. cfg' \in Configs /\ Starts(cfg')
        BY <2>1, <3>0
      <4> QED
        BY <4>8, <4>9 DEF GuardInv
    <3> QED
      BY <3>1, <3>2
  <2>6. CASE Dispatch
    <3>1. stage' \in {by.path, "answered"} /\ UNCHANGED agent
      BY <2>6 DEF Dispatch, Answer
    <3>2. by.path # "admitted"
      BY <1>2 DEF RunInv, CallInv
    <3> QED
      BY <2>3, <3>1, <3>2
  <2>7. ASSUME NEW alive \in BOOLEAN, WsInput(alive) \/ Paste(alive)
        PROVE  GuardInv'
    BY <2>3, <2>7 DEF WsInput, Paste, Answer
  <2>8. ASSUME NEW u \in Replies \cup Typed, Compose(u)
        PROVE  GuardInv'
    BY <2>3, <2>8 DEF Compose
  <2>9. CASE WsNext \/ WsClose \/ StartPaste \/ RunAnswer \/ Done
    BY <2>3, <2>9 DEF WsNext, WsClose, StartPaste, RunAnswer, Done, Answer
  <2>10. ASSUME NEW found \in BOOLEAN, NEW json \in BOOLEAN, NEW alive \in BOOLEAN,
                HandleInput(found, json, alive)
         PROVE  GuardInv'
    BY <2>3, <2>10 DEF HandleInput, Answer
  <2>11. ASSUME NEW k \in Keys, NEW alive \in BOOLEAN, Press(k, alive)
         PROVE  GuardInv'
    BY <2>3, <2>11 DEF Press, Answer
  <2>12. ASSUME NEW q \in Asks, NEW starts \in BOOLEAN, HandleRun(q, starts)
         PROVE  GuardInv'
    BY <2>3, <2>12 DEF HandleRun, Answer
  <2>13. CASE During(RunNext) \/ UNCHANGED vars
    BY <2>3, <2>13 DEF During, vars, requestVars
  <2> QED
    BY <1>2, <2>4, <2>5, <2>6, <2>7, <2>8, <2>9, <2>10, <2>11, <2>12, <2>13 DEF Next
<1>3. GuardInv => RequestsAreAllowed
  BY DEF GuardInv
<1> QED
  BY <1>1, <1>2, <1>3, RunInvariance, PTL DEF Spec

-----------------------------------------------------------------------------
(* Types. *)

(* Whom the guards let in asked for something. *)
PathInv == stage = "admitted" => by.path # "none"

LEMMA VerdictType ==
  ASSUME NEW c, NEW r \in AllRequests
  PROVE  Verdict(c, r) \in {0, 204, 401, 403, 405}
<1>1. withOrigin(r) \in {0, 204, 403} /\ withHost(c, r) \in {0, 403}
  BY DEF withOrigin, withHost, AllRequests
<1>2. withAuth(c, r) \in {0, 401} /\ Route(r) \in {0, 405}
  BY DEF withAuth, Route
<1> QED
  BY <1>1, <1>2 DEF Verdict

LEMMA RunTypes ==
  ASSUME RunTypeOK, RunNext
  PROVE  RunTypeOK'
<1> USE MaxOutputAssumption DEF RunTypeOK, jobVars, outputVars
<1>1. ASSUME NEW group \in BOOLEAN, NEW holds \in BOOLEAN, JobStart(group, holds)
      PROVE  RunTypeOK'
  BY <1>1 DEF JobStart
<1>2. CASE JobEnd
  BY <1>2 DEF JobEnd
<1>3. CASE Output
  BY <1>3 DEF Output
<1>4. CASE Copy
  BY <1>4 DEF Copy
<1>5. CASE Eof
  BY <1>5 DEF Eof
<1>6. ASSUME NEW s \in {"ok", "fail"}, ShellEnd(s)
      PROVE  RunTypeOK'
  BY <1>6 DEF ShellEnd
<1>7. ASSUME NEW why \in {"deadline", "gone"}, CtxDone(why)
      PROVE  RunTypeOK'
  BY <1>7 DEF CtxDone
<1>8. CASE KillGroup
  BY <1>8 DEF KillGroup
<1>9. CASE WatcherGivesUp
  BY <1>9 DEF WatcherGivesUp
<1>10. CASE Reap
  BY <1>10 DEF Reap
<1>11. CASE HandOver
  BY <1>11 DEF HandOver
<1>12. CASE PipesDone \/ Delay
  BY <1>12 DEF PipesDone, Delay
<1> QED
  BY <1>1, <1>2, <1>3, <1>4, <1>5, <1>6, <1>7, <1>8, <1>9, <1>10, <1>11, <1>12 DEF RunNext

(* The part of the state that is not the command's. *)
RequestTypeOK ==
    /\ agent \in {"down", "refused", "up"} /\ cfg \in Configs
    /\ stage \in {"idle", "admitted", "ws", "input", "run", "paste", "running", "answered"}
    /\ by.path \in {"none", "health", "run", "input", "ws"}
    /\ message \in Seq(Replies \cup Typed) /\ Len(message) <= MaxUnits
    /\ outcome \in {"none", "written", "filtered", "failed"}
    /\ pressed \subseteq Keys
    /\ status \in {0, 101, 200, 204, 400, 401, 403, 404, 405, 409, 502}

LEMMA TypeOKParts == TypeOK <=> RequestTypeOK /\ RunTypeOK
  BY DEF TypeOK, RequestTypeOK

LEMMA PassOnTypes ==
  ASSUME NEW input, NEW alive, PassOn(input, alive)
  PROVE  outcome' \in {"written", "filtered", "failed"}
  BY DEF PassOn

(* Before a command and after it. *)
LEMMA NoRunTypes ==
  /\ RunIdle => RunTypeOK
  /\ RunForget => RunTypeOK'
<1>1. 0 \in 0 .. MaxOutput /\ 0 \in 0 .. 0
  BY MaxOutputAssumption
<1>2. ASSUME RunIdle
      PROVE  RunTypeOK
  <2>1. inGroup \in BOOLEAN /\ holdsPipe \in BOOLEAN
    BY <1>2, Zenon DEF RunIdle
  <2> QED
    BY <1>1, <1>2, <2>1 DEF RunIdle, RunTypeOK
<1>3. ASSUME RunForget
      PROVE  RunTypeOK'
  <2>1. inGroup' \in BOOLEAN /\ holdsPipe' \in BOOLEAN
    BY <1>3, Zenon DEF RunForget
  <2> QED
    BY <1>1, <1>3, <2>1 DEF RunForget, RunTypeOK
<1> QED
  BY <1>2, <1>3

LEMMA TypesInit == Init => TypeOK /\ PathInv
<1> SUFFICES ASSUME Init
             PROVE  RequestTypeOK /\ RunTypeOK /\ PathInv
  BY TypeOKParts
<1>1. <<>> \in Seq(Replies \cup Typed) /\ Len(<<>>) = 0
  OBVIOUS
<1>2. message \in Seq(Replies \cup Typed) /\ Len(message) <= MaxUnits
  BY <1>1, MaxUnitsAssumption DEF Init
<1>3. RequestTypeOK /\ PathInv
  BY <1>2 DEF Init, RequestTypeOK, PathInv, Nobody
<1>4. RunTypeOK
  BY NoRunTypes DEF Init
<1> QED
  BY <1>3, <1>4

LEMMA TypesNext ==
  ASSUME TypeOK, PathInv, [Next]_vars
  PROVE  TypeOK' /\ PathInv'
<1>0. RequestTypeOK /\ RunTypeOK
  BY TypeOKParts
<1> SUFFICES RequestTypeOK' /\ RunTypeOK' /\ PathInv'
  BY DEF TypeOK, RequestTypeOK
<1>1. ASSUME UNCHANGED runVars
      PROVE  RunTypeOK'
  BY <1>0, <1>1 DEF RunTypeOK, runVars
<1>2. ASSUME UNCHANGED requestVars
      PROVE  RequestTypeOK' /\ PathInv'
  BY <1>0, <1>2 DEF requestVars, RequestTypeOK, PathInv
<1>3. CASE UNCHANGED vars
  BY <1>1, <1>2, <1>3 DEF vars
<1>4. CASE During(RunNext)
  BY <1>0, <1>2, <1>4, RunTypes DEF During
<1>5. CASE Start
  BY <1>0, <1>1, <1>5 DEF Start, RequestTypeOK, PathInv
<1>6. ASSUME NEW r \in AllRequests, NEW here \in BOOLEAN, Request(r, here)
      PROVE  RequestTypeOK' /\ RunTypeOK' /\ PathInv'
  <2>1. Verdict(cfg, r) \in {0, 204, 401, 403, 405}
    BY VerdictType
  <2>2. /\ status' = Verdict(cfg, r) /\ stage' \in {"admitted", "answered"}
        /\ by'.path \in {"none", "health", "run", "input", "ws"}
        /\ stage' = "admitted" => by'.path # "none"
        /\ UNCHANGED <<agent, cfg, message, outcome, pressed, ask, runVars>>
    BY <1>6 DEF Request, Nobody, AllRequests
  <2> QED
    BY <1>0, <1>1, <2>1, <2>2 DEF RequestTypeOK, PathInv
<1>7. CASE Dispatch
  <2>1. /\ stage' \in {by.path, "answered"} /\ by'.path = "none"
        /\ by.path = "health" => stage' = "answered"
        /\ status' \in {status, 200} /\ stage = "admitted"
        /\ UNCHANGED <<agent, cfg, message, outcome, pressed, ask, runVars>>
    BY <1>7 DEF Dispatch, Answer, Nobody
  <2> QED
    BY <1>0, <1>1, <2>1 DEF RequestTypeOK, PathInv
<1>8. ASSUME NEW u \in Replies \cup Typed, Compose(u)
      PROVE  RequestTypeOK' /\ RunTypeOK' /\ PathInv'
  <2>1. message' \in Seq(Replies \cup Typed) /\ Len(message') <= MaxUnits
    BY <1>0, <1>8, MaxUnitsAssumption DEF Compose, RequestTypeOK
  <2> QED
    BY <1>0, <1>1, <1>8, <2>1 DEF Compose, RequestTypeOK, PathInv
<1>9. ASSUME NEW alive \in BOOLEAN, WsInput(alive) \/ Paste(alive)
      PROVE  RequestTypeOK' /\ RunTypeOK' /\ PathInv'
  <2>1. outcome' \in {"written", "filtered", "failed"}
    BY <1>9, PassOnTypes DEF WsInput, Paste
  <2>2. /\ stage' \in {"ws", "answered"} /\ status' \in {status, 101, 0}
        /\ UNCHANGED <<agent, cfg, by, message, pressed, ask, runVars>>
    BY <1>9 DEF WsInput, Paste, Answer
  <2> QED
    BY <1>0, <1>1, <2>1, <2>2 DEF RequestTypeOK, PathInv
<1>10. CASE WsNext
  <2>1. <<>> \in Seq(Replies \cup Typed) /\ Len(<<>>) = 0
    OBVIOUS
  <2> QED
    BY <1>0, <1>1, <1>10, <2>1, MaxUnitsAssumption DEF WsNext, RequestTypeOK, PathInv
<1>11. CASE WsClose \/ StartPaste
  BY <1>0, <1>1, <1>11 DEF WsClose, StartPaste, Answer, RequestTypeOK, PathInv
<1>12. ASSUME NEW found \in BOOLEAN, NEW json \in BOOLEAN, NEW alive \in BOOLEAN,
              HandleInput(found, json, alive)
       PROVE  RequestTypeOK' /\ RunTypeOK' /\ PathInv'
  <2>1. outcome' \in {outcome, "written", "filtered", "failed"}
    BY <1>12, PassOnTypes DEF HandleInput
  <2>2. /\ stage' = "answered" /\ status' \in {404, 400, 502, 200}
        /\ UNCHANGED <<agent, cfg, by, message, pressed, ask, runVars>>
    BY <1>12 DEF HandleInput, Answer
  <2> QED
    BY <1>0, <1>1, <2>1, <2>2 DEF RequestTypeOK, PathInv
<1>13. ASSUME NEW k \in Keys, NEW alive \in BOOLEAN, Press(k, alive)
       PROVE  RequestTypeOK' /\ RunTypeOK' /\ PathInv'
  <2>1. outcome' \in {outcome, "written", "filtered", "failed"}
    BY <1>13, PassOnTypes DEF Press
  <2>2. /\ stage' = "answered" /\ status' = 0 /\ pressed' = {k}
        /\ UNCHANGED <<agent, cfg, by, message, ask, runVars>>
    BY <1>13 DEF Press, Answer
  <2> QED
    BY <1>0, <1>1, <2>1, <2>2 DEF RequestTypeOK, PathInv
<1>14. ASSUME NEW q \in Asks, NEW starts \in BOOLEAN, HandleRun(q, starts)
       PROVE  RequestTypeOK' /\ RunTypeOK' /\ PathInv'
  <2>1. RunRefused(q) \in {0, 400, 409}
    BY DEF RunRefused
  <2>2. /\ stage' \in {"answered", "running"} /\ status' \in {status, 400, 409}
        /\ UNCHANGED <<agent, cfg, by, message, outcome, pressed>>
    BY <1>14, <2>1 DEF HandleRun, Answer
  <2>3. UNCHANGED runVars \/ RunStart
    BY <1>14 DEF HandleRun
  <2>4. RunTypeOK'
    <3>1. CASE UNCHANGED runVars
      BY <1>1, <3>1
    <3>2. CASE RunStart
      BY <1>0, <3>2 DEF RunStart, RunTypeOK, jobVars, outputVars
    <3> QED
      BY <2>3, <3>1, <3>2
  <2> QED
    BY <1>0, <2>2, <2>4 DEF RequestTypeOK, PathInv
<1>15. CASE RunAnswer
  BY <1>0, <1>1, <1>15 DEF RunAnswer, Answer, RequestTypeOK, PathInv
<1>16. CASE Done
  <2>1. <<>> \in Seq(Replies \cup Typed) /\ Len(<<>>) = 0
    OBVIOUS
  <2>2. RequestTypeOK' /\ PathInv'
    BY <1>0, <1>16, <2>1, MaxUnitsAssumption DEF Done, Nobody, RequestTypeOK, PathInv
  <2>3. RunTypeOK'
    BY <1>16, NoRunTypes DEF Done
  <2> QED
    BY <2>2, <2>3
<1> QED
  BY <1>3, <1>4, <1>5, <1>6, <1>7, <1>8, <1>9, <1>10, <1>11, <1>12, <1>13, <1>14,
     <1>15, <1>16 DEF Next

(* The state is well formed: every request is answered with a status the       *)
(* handlers have, no more output is shown than was written (internal/api,      *)
(* runner/run.go).                                                             *)
THEOREM TypeCorrect == Spec => []TypeOK
  BY TypesInit, TypesNext, PTL DEF Spec

(***************************************************************************)
(* Commands.                                                               *)
(***************************************************************************)
(* The handler starts what was confirmed, in a directory that ResolveDir gave. *)
LEMMA StartedIsAllowed ==
  ASSUME cfg \in Configs, NEW q \in Asks, RunRefused(q) = 0,
         NEW c, c.destructive = q.destructive, c.confirm = q.confirm,
         c.relative = (q.dir.kind = "rel"), c.dir = ResolveDir(cfg.pwd, q.dir)
  PROVE  /\ c.destructive => c.confirm
         /\ IsRealDir(Reached(c.dir))
         /\ \/ cfg.pwd # Cwd /\ HangsOnName(c)
            \/ DOMAIN AllowedRoots = {}
            \/ \E i \in DOMAIN AllowedRoots :
                  /\ IsRealDir(Real(Cwd, AllowedRoots[i]))
                  /\ IsPrefix(Real(Cwd, AllowedRoots[i]), Reached(c.dir))
<1>1. q.dir \in Paths /\ cfg.pwd \in Pwds
  BY AsksAssumption, ConfigsAssumption
<1>2. Confirmed(q) /\ ResolveDir(cfg.pwd, q.dir) # NoPath
  BY DEF RunRefused
<1>3. c.destructive => c.confirm
  BY <1>2, Zenon DEF Confirmed
<1> QED
  BY <1>1, <1>2, <1>3, ResolvedIsAllowed DEF HangsOnName

LEMMA AllowedNext ==
  ASSUME cfg \in Configs, CommandsAreAllowed, [Next]_vars
  PROVE  CommandsAreAllowed'
<1>0. UNCHANGED cfg
  BY DEF Next, vars, requestVars, During, Start, Request, Dispatch, Compose, WsInput, Paste,
         WsNext, WsClose, HandleInput, StartPaste, Press, HandleRun, RunAnswer, Done
<1>1. ASSUME UNCHANGED ask \/ ask' = {}
      PROVE  CommandsAreAllowed'
  BY <1>0, <1>1 DEF CommandsAreAllowed, HangsOnName
<1>2. ASSUME NEW q \in Asks, NEW starts \in BOOLEAN, HandleRun(q, starts)
      PROVE  CommandsAreAllowed'
  <2>1. CASE UNCHANGED ask
    BY <1>1, <2>1
  <2> DEFINE c == [destructive |-> q.destructive, confirm |-> q.confirm,
                   relative |-> q.dir.kind = "rel", dir |-> ResolveDir(cfg.pwd, q.dir)]
  <2>2. CASE RunRefused(q) = 0 /\ ask' = {c}
    <3>1. /\ c.destructive = q.destructive /\ c.confirm = q.confirm
          /\ c.relative = (q.dir.kind = "rel") /\ c.dir = ResolveDir(cfg.pwd, q.dir)
      OBVIOUS
    <3> HIDE DEF c
    <3>2. /\ c.destructive => c.confirm
          /\ IsRealDir(Reached(c.dir))
          /\ \/ cfg.pwd # Cwd /\ HangsOnName(c)
             \/ DOMAIN AllowedRoots = {}
             \/ \E i \in DOMAIN AllowedRoots :
                   /\ IsRealDir(Real(Cwd, AllowedRoots[i]))
                   /\ IsPrefix(Real(Cwd, AllowedRoots[i]), Reached(c.dir))
      BY <2>2, <3>1, StartedIsAllowed
    <3> QED
      BY <1>0, <2>2, <3>2, Zenon DEF CommandsAreAllowed, HangsOnName
  <2> QED
    BY <1>2, <2>1, <2>2 DEF HandleRun
<1>3. UNCHANGED ask \/ ask' = {} \/ \E q \in Asks, starts \in BOOLEAN : HandleRun(q, starts)
  BY DEF Next, vars, requestVars, During, Start, Request, Dispatch, Compose, WsInput, Paste,
         WsNext, WsClose, HandleInput, StartPaste, Press, RunAnswer, Done
<1> QED
  BY <1>1, <1>2, <1>3

(* A command that cannot be undone runs only when that was confirmed, and      *)
(* every command starts in a directory that exists, on any file system.  That  *)
(* directory is in one of the allowed roots once all links are followed, but   *)
(* for a relative path behind a $PWD that runs through a link                  *)
(* (config/paths.go, handleRun).                                               *)
THEOREM CommandsStayInside == Spec => []CommandsAreAllowed
<1>1. Init => CommandsAreAllowed
  BY DEF Init, CommandsAreAllowed
<1>2. TypeOK => cfg \in Configs
  BY DEF TypeOK
<1> QED
  BY <1>1, <1>2, AllowedNext, TypeCorrect, PTL DEF Spec

(***************************************************************************)
(* The reply filter                                                        *)
(***************************************************************************)
LEMMA FirstOrIs ==
  ASSUME NEW S \in SUBSET Nat, NEW other
  PROVE  /\ S = {} => FirstOr(S, other) = other
         /\ S # {} => FirstOr(S, other) \in S /\ \A m \in S : FirstOr(S, other) =< m
  BY MinExists DEF FirstOr

(* The bytes of s are u and what comes after. *)
LEMMA Glued ==
  ASSUME NEW B, NEW u \in Seq(B), NEW more \in Seq(B)
  PROVE  /\ u \o more \in Seq(B)
         /\ Len(u) \in Nat /\ Len(more) \in Nat
         /\ Len(u \o more) = Len(u) + Len(more)
         /\ \A i \in 1 .. Len(u) : (u \o more)[i] = u[i]
         /\ SubSeq(u \o more, 1, Len(u)) = u
         /\ SubSeq(u \o more, Len(u) + 1, Len(u \o more)) = more
<1> DEFINE s == u \o more
<1>1. Len(u) \in Nat /\ Len(more) \in Nat
  BY LenProperties
<1>2. /\ s \in Seq(B) /\ Len(s) = Len(u) + Len(more)
      /\ \A i \in 1 .. Len(u) + Len(more) :
            s[i] = IF i <= Len(u) THEN u[i] ELSE more[i - Len(u)]
  BY ConcatProperties
<1>3. \A i \in 1 .. Len(u) : s[i] = u[i]
  BY <1>1, <1>2
<1> HIDE DEF s
<1>4. SubSeq(s, 1, Len(u)) = u
  <2>1. \A i \in 1 .. Len(u) : s[i] \in B
    BY <1>3, ElementOfSeq
  <2> DEFINE t == SubSeq(s, 1, Len(u)) 
             n == Len(u)
  <2>2. /\ t \in Seq(B) /\ Len(t) = IF 1 <= n THEN n - 1 + 1 ELSE 0
        /\ \A i \in 1 .. n - 1 + 1 : t[i] = s[1 + i - 1]
    BY <1>1, <2>1, SubSeqProperties
  <2> HIDE DEF t
  <2>3. n \in Nat
    BY <1>1
  <2>4. \A i \in 1 .. n : s[i] = u[i]
    BY <1>3
  <2> HIDE DEF n
  <2>5. Len(t) = n
    BY <2>2, <2>3
  <2>6. \A i \in 1 .. n : t[i] = u[i]
    BY <2>2, <2>3, <2>4
  <2>7. Len(t) = Len(u) /\ \A i \in 1 .. Len(t) : t[i] = u[i]
    BY <2>5, <2>6 DEF n
  <2>8. t = u
    BY <2>2, <2>7, SeqEqual
  <2> QED
    BY <2>8 DEF t
<1>5. SubSeq(s, Len(u) + 1, Len(s)) = more
  <2> DEFINE n == Len(u)
             k == Len(more)
             t == SubSeq(s, n + 1, n + k)
  <2>1. n \in Nat /\ k \in Nat
    BY <1>1
  <2>2. /\ \A i \in 1 .. n + k : s[i] = IF i <= n THEN u[i] ELSE more[i - n]
        /\ \A i \in 1 .. k : more[i] \in B
    BY <1>2, ElementOfSeq
  <2> HIDE DEF n, k
  <2>3. \A i \in n + 1 .. n + k : s[i] \in B
    BY <2>1, <2>2
  <2>4. /\ t \in Seq(B)
        /\ Len(t) = IF n + 1 <= n + k THEN n + k - (n + 1) + 1 ELSE 0
        /\ \A i \in 1 .. n + k - (n + 1) + 1 : t[i] = s[n + 1 + i - 1]
    BY <2>1, <2>3, SubSeqProperties
  <2> HIDE DEF t
  <2>5. Len(t) = k
    BY <2>1, <2>4
  <2>6. ASSUME NEW i \in 1 .. k
        PROVE  t[i] = more[i]
    <3>1. n + k - (n + 1) + 1 = k /\ n + 1 + i - 1 = n + i
      BY <2>1
    <3>2. t[i] = s[n + i]
      BY <2>4, <3>1, Zenon
    <3>3. PICK j \in 1 .. n + k : j = n + i /\ ~(j <= n) /\ j - n = i
      BY <2>1
    <3>4. s[j] = more[j - n]
      BY <2>2, <3>3
    <3> QED
      BY <3>2, <3>3, <3>4, Zenon
  <2>7. Len(t) = Len(more) /\ \A i \in 1 .. Len(t) : t[i] = more[i]
    BY <2>5, <2>6 DEF k
  <2>8. t = more
    BY <2>4, <2>7, SeqEqual
  <2> QED
    BY <1>2, <2>8 DEF t, n, k
<1> QED
  BY <1>1, <1>2, <1>3, <1>4, <1>5 DEF s

(* Every part is some of what is left. *)
LEMMA PartLength ==
  ASSUME NEW s \in Seq(Bytes), s # <<>>
  PROVE  partLen(s) \in 1 .. Len(s)
<1>1. Len(s) \in Nat /\ Len(s) >= 1
  BY EmptySeq
<1>2. CASE s[1] # ESC
  <2> DEFINE S == {i \in 1 .. Len(s) : s[i] = ESC}
  <2>1. S \in SUBSET Nat /\ \A i \in S : i \in 2 .. Len(s)
    BY <1>1, <1>2
  <2>2. partLen(s) = FirstOr(S, Len(s) + 1) - 1
    BY <1>2 DEF partLen, textLen
  <2> HIDE DEF S
  <2> DEFINE f == FirstOr(S, Len(s) + 1)
  <2>3. f = Len(s) + 1 \/ f \in S
    BY <2>1, FirstOrIs, Zenon
  <2> HIDE DEF f
  <2>4. f \in 2 .. Len(s) + 1
    <3>1. CASE f = Len(s) + 1
      BY <1>1, <3>1
    <3>2. CASE f \in S
      BY <1>1, <2>1, <3>2
    <3> QED
      BY <2>3, <3>1, <3>2
  <2> QED
    BY <1>1, <2>2, <2>4 DEF f
<1>3. CASE s[1] = ESC
  <2>1. StringEnds(s) \in SUBSET (3 .. Len(s)) /\ ControlEnds(s) \in SUBSET (3 .. Len(s))
    BY DEF StringEnds, ControlEnds
  <2> DEFINE f(S) == FirstOr(S, Len(s))
  <2>2. \A S \in SUBSET (3 .. Len(s)) : f(S) \in 1 .. Len(s)
    <3> SUFFICES ASSUME NEW S \in SUBSET (3 .. Len(s))
                 PROVE  f(S) \in 1 .. Len(s)
      OBVIOUS
    <3>1. S \in SUBSET Nat
      BY <1>1
    <3>2. f(S) = Len(s) \/ f(S) \in S
      BY <3>1, FirstOrIs, Zenon
    <3> HIDE DEF f
    <3>3. CASE f(S) = Len(s)
      BY <1>1, <3>3
    <3>4. CASE f(S) \in S
      <4>1. 3 .. Len(s) \subseteq 1 .. Len(s)
        BY <1>1
      <4> QED
        BY <3>4, <4>1, Zenon
    <3> QED
      BY <3>2, <3>3, <3>4
  <2>3. seqLen(s) \in 1 .. Len(s)
    BY <1>1, <2>1, <2>2 DEF seqLen
  <2> QED
    BY <1>3, <2>3 DEF partLen
<1> QED
  BY <1>2, <1>3

(* A sequence whose last byte ends it, whatever comes next. *)
Settled(s) ==
    /\ Len(s) >= 3 /\ s[1] = ESC
    /\ \/ s[2] \in StringIntroducers /\ StringEnds(s) = {Len(s)}
       \/ s[2] = "[" /\ ControlEnds(s) = {Len(s)}

(* The first and the last bytes of a sequence. *)
LEMMA BeginsWith ==
  ASSUME NEW B, NEW s \in Seq(B), NEW a, NEW b
  PROVE  /\ Len(s) >= 2 /\ s[1] = a /\ s[2] = b => IsPrefix(<<a, b>>, s)
         /\ IsPrefix(<<a, b>>, s) => Len(s) >= 2 /\ s[1] = a /\ s[2] = b
<1>1. Len(s) \in Nat /\ Len(<<a, b>>) = 2 /\ <<a, b>> \in Seq({a, b})
  BY LenProperties
<1>2. SubSeq(<<a, b>>, 1, 2) = <<a, b>>
  BY <1>1, SubSeqFull
<1>3. ASSUME Len(s) >= 2
      PROVE  SubSeq(s, 1, 2) = <<s[1], s[2]>>
  <2> DEFINE t == SubSeq(s, 1, 2)
  <2>1. \A i \in 1 .. 2 : s[i] \in B
    BY <1>1, <1>3, ElementOfSeq
  <2>2. t \in Seq(B) /\ Len(t) = 2 /\ \A i \in 1 .. 2 : t[i] = s[i]
    BY <2>1, SubSeqProperties
  <2> HIDE DEF t
  <2>3. /\ <<s[1], s[2]>> \in Seq(B) /\ Len(<<s[1], s[2]>>) = 2
        /\ \A i \in 1 .. 2 : <<s[1], s[2]>>[i] = s[i]
    BY <2>1
  <2>4. t = <<s[1], s[2]>>
    BY <2>2, <2>3, SeqEqual
  <2> QED
    BY <2>4 DEF t
<1> QED
  BY <1>1, <1>2, <1>3 DEF IsPrefix

(* A suffix, byte by byte. *)
LEMMA EndsWith ==
  ASSUME NEW B, NEW s \in Seq(B), NEW C, NEW t \in Seq(C)
  PROVE  IsSuffix(t, s) <=>
            /\ Len(t) <= Len(s)
            /\ \A i \in 1 .. Len(t) : s[Len(s) - Len(t) + i] = t[i]
<1> DEFINE n == Len(s)
           k == Len(t)
           rs == Reverse(s)
           rt == Reverse(t)
<1>1. n \in Nat /\ k \in Nat
  BY LenProperties
<1>2. /\ rs \in Seq(B) /\ Len(rs) = n /\ \A i \in 1 .. n : rs[i] = s[n - i + 1]
  <2>1. \A i \in 1 .. n : s[n - i + 1] \in B
    <3> SUFFICES ASSUME NEW i \in 1 .. n
                 PROVE  s[n - i + 1] \in B
      OBVIOUS
    <3>1. n - i + 1 \in 1 .. n
      BY <1>1
    <3> QED
      BY <3>1, ElementOfSeq
  <2>2. rs = [i \in 1 .. n |-> s[n - i + 1]]
    BY DEF Reverse
  <2> HIDE DEF rs, n
  <2> QED
    BY <1>1, <2>1, <2>2, IsASeq
<1>3. /\ rt \in Seq(C) /\ Len(rt) = k /\ \A i \in 1 .. k : rt[i] = t[k - i + 1]
  <2>1. \A i \in 1 .. k : t[k - i + 1] \in C
    <3> SUFFICES ASSUME NEW i \in 1 .. k
                 PROVE  t[k - i + 1] \in C
      OBVIOUS
    <3>1. k - i + 1 \in 1 .. k
      BY <1>1
    <3> QED
      BY <3>1, ElementOfSeq
  <2>2. rt = [i \in 1 .. k |-> t[k - i + 1]]
    BY DEF Reverse
  <2> HIDE DEF rt, k
  <2> QED
    BY <1>1, <2>1, <2>2, IsASeq
<1>4. SubSeq(rt, 1, Len(rt)) = rt
  BY <1>3, SubSeqFull
<1> HIDE DEF rs, rt, n, k
<1>5. CASE k <= n
  <2> DEFINE u == SubSeq(rs, 1, k)
  <2>1. \A i \in 1 .. k : rs[i] \in B
    BY <1>1, <1>2, <1>5, ElementOfSeq
  <2>2. u \in Seq(B) /\ Len(u) = k /\ \A i \in 1 .. k : u[i] = rs[i]
    <3>1. /\ u \in Seq(B) /\ Len(u) = IF 1 <= k THEN k - 1 + 1 ELSE 0
          /\ \A i \in 1 .. k - 1 + 1 : u[i] = rs[1 + i - 1]
      BY <1>1, <2>1, SubSeqProperties
    <3> HIDE DEF u
    <3> QED
      BY <1>1, <3>1
  <2> HIDE DEF u
  <2>3. rt = u <=> \A i \in 1 .. k : rt[i] = rs[i]
    <3>1. rt \in Seq(B \cup C) /\ u \in Seq(B \cup C)
      BY <1>3, <2>2, SeqMonotonic
    <3> QED
      BY <1>3, <2>2, <3>1, SeqEqual
  <2>4. (\A i \in 1 .. k : t[k - i + 1] = s[n - i + 1]) <=>
           (\A i \in 1 .. k : s[n - k + i] = t[i])
    <3>1. ASSUME NEW i \in 1 .. k, \A j \in 1 .. k : t[k - j + 1] = s[n - j + 1]
          PROVE  s[n - k + i] = t[i]
      <4>1. PICK j \in 1 .. k : k - j + 1 = i /\ n - j + 1 = n - k + i
        <5>1. k - i + 1 \in 1 .. k /\ k - (k - i + 1) + 1 = i
              /\ n - (k - i + 1) + 1 = n - k + i
          BY <1>1
        <5> QED
          BY <5>1
      <4> QED
        BY <3>1, <4>1
    <3>2. ASSUME NEW i \in 1 .. k, \A j \in 1 .. k : s[n - k + j] = t[j]
          PROVE  t[k - i + 1] = s[n - i + 1]
      <4>1. PICK j \in 1 .. k : k - i + 1 = j /\ n - i + 1 = n - k + j
        <5>1. k - i + 1 \in 1 .. k /\ n - i + 1 = n - k + (k - i + 1)
          BY <1>1
        <5> QED
          BY <5>1
      <4> QED
        BY <3>2, <4>1
    <3> QED
      BY <3>1, <3>2
  <2>5. (\A i \in 1 .. k : rt[i] = rs[i]) <=>
           (\A i \in 1 .. k : t[k - i + 1] = s[n - i + 1])
    <3>1. \A i \in 1 .. k : rs[i] = s[n - i + 1]
      BY <1>1, <1>2, <1>5
    <3> QED
      BY <1>3, <3>1, Zenon
  <2>6. IsSuffix(t, s) <=> rt = u
    BY <1>2, <1>3, <1>4, <1>5 DEF IsSuffix, IsPrefix, rs, rt, u
  <2>7. IsSuffix(t, s) <=> \A i \in 1 .. k : s[n - k + i] = t[i]
    BY <2>3, <2>4, <2>5, <2>6, Zenon
  <2> QED
    BY <1>5, <2>7 DEF n, k
<1>6. CASE ~(k <= n)
  BY <1>2, <1>3, <1>6 DEF IsSuffix, IsPrefix, rs, rt, n, k
<1> QED
  BY <1>5, <1>6

(* With CSI, a sequence has its body from the third byte on. *)
LEMMA BodyOf ==
  ASSUME NEW B, NEW s \in Seq(B), Len(s) >= 3
  PROVE  LET body == SubSeq(s, 3, Len(s))
         IN  /\ body \in Seq(B) /\ Len(body) = Len(s) - 2 /\ body # <<>>
             /\ \A i \in 1 .. Len(s) - 2 : body[i] = s[i + 2]
<1> DEFINE n == Len(s)
           body == SubSeq(s, 3, n)
<1>1. n \in Nat /\ n >= 3 /\ \A i \in 3 .. n : s[i] \in B
  <2>1. \A i \in 1 .. n : s[i] \in B
    BY ElementOfSeq
  <2> QED
    BY <2>1, LenProperties
<1> HIDE DEF n
<1>2. /\ body \in Seq(B) /\ Len(body) = IF 3 <= n THEN n - 3 + 1 ELSE 0
      /\ \A i \in 1 .. n - 3 + 1 : body[i] = s[3 + i - 1]
  BY <1>1, SubSeqProperties
<1> HIDE DEF body
<1>3. Len(body) = n - 2 /\ \A i \in 1 .. n - 2 : body[i] = s[i + 2]
  BY <1>1, <1>2
<1>4. body # <<>>
  BY <1>1, <1>2, <1>3, EmptySeq
<1> QED
  BY <1>2, <1>3, <1>4 DEF body, n

(* Which sequences isSingleReply knows, by their bytes. *)
LEMMA KnownEnding ==
  ASSUME NEW s \in Seq(Bytes), Len(s) >= 3, s[2] = "[", isSingleReply(s)
  PROVE  s[Len(s)] \in {"I", "O", "c", "R", "y", "t"}
<1> DEFINE n == Len(s)
           body == SubSeq(s, 3, Len(s))
<1>1. /\ body \in Seq(Bytes) /\ Len(body) = n - 2 /\ n \in Nat /\ n >= 3
      /\ body[n - 2] = s[n]
  <2>1. /\ body \in Seq(Bytes) /\ Len(body) = n - 2 
        /\ \A i \in 1 .. n - 2 : body[i] = s[i + 2]
    BY BodyOf
  <2>2. n \in Nat /\ n >= 3
    BY LenProperties
  <2>3. n - 2 \in 1 .. n - 2 /\ n - 2 + 2 = n
    BY <2>2
  <2> HIDE DEF body, n
  <2> QED
    BY <2>1, <2>2, <2>3
<1> HIDE DEF body
<1>2. ASSUME NEW C, NEW t \in Seq(C), Len(t) >= 1, IsSuffix(t, body)
      PROVE  s[n] = t[Len(t)]
  <2>1. Len(t) \in Nat /\ Len(t) \in 1 .. Len(t)
    BY <1>2, LenProperties
  <2>2. body[Len(body) - Len(t) + Len(t)] = t[Len(t)]
    BY <1>1, <1>2, <2>1, EndsWith
  <2> QED
    BY <1>1, <2>1, <2>2
<1>3. ASSUME NEW a, IsSuffix(<<a>>, body)
      PROVE  s[n] = a
  <2>1. <<a>> \in Seq({a}) /\ Len(<<a>>) >= 1 /\ <<a>>[Len(<<a>>)] = a
    OBVIOUS
  <2> QED
    BY <1>2, <1>3, <2>1, Zenon
<1>4. IsSuffix(<<"$", "y">>, body) => s[n] = "y"
  <2>1. /\ <<"$", "y">> \in Seq({"$", "y"}) /\ Len(<<"$", "y">>) >= 1
        /\ <<"$", "y">>[Len(<<"$", "y">>)] = "y"
    OBVIOUS
  <2> QED
    BY <1>2, <2>1, Zenon
<1>5. Focus(s) => s[n] \in {"I", "O"}
  BY DEF Focus
<1>6. ~ColorReport(s)
  <2>1. IsPrefix(<<ESC, "]">>, s) => s[2] = "]"
    BY BeginsWith
  <2> QED
    BY <2>1 DEF ColorReport
<1>7. isSingleReply(s) => 
         \/ Focus(s) \/ ColorReport(s)
         \/ IsSuffix(<<"c">>, body) \/ IsSuffix(<<"R">>, body) \/ IsSuffix(<<"t">>, body)
         \/ IsSuffix(<<"$", "y">>, body)
  BY Zenon DEF isSingleReply, DeviceReport, CursorReport, ModeReport, SizeReport, body
<1> QED
  BY <1>3, <1>4, <1>5, <1>6, <1>7, Zenon DEF n

(* Every answer ends with its last byte and not before. *)
LEMMA AnswerEnds ==
  ASSUME NEW s \in Seq(Bytes), IsAnswer(s)
  PROVE  Settled(s)
<1> DEFINE n == Len(s)
<1>1. n \in Nat /\ n >= 3 /\ s[1] = ESC
  BY LenProperties DEF IsAnswer
<1>2. CASE s[2] = "["
  <2>1. \/ FocusChange(s, n) \/ DeviceAttributes(s, n) \/ CursorPosition(s, n)
        \/ ModeState(s, n) \/ WindowSize(s, n)
    BY <1>2 DEF IsAnswer
  <2> HIDE DEF n
  <2>2. /\ \A b \in NumberBytes : b \in NonFinal
        /\ \A b \in {"?", ">", "$", "8", ";"} : b \in NonFinal
    BY DEF NumberBytes, NonFinal, ESC
  <2>3. \A b \in {"I", "O", "c", "R", "y", "t"} : b \notin NonFinal
    BY DEF NonFinal, ESC
  <2>4. s[n] \notin NonFinal
    BY <2>1, <2>3 DEF FocusChange, DeviceAttributes, CursorPosition, ModeState, WindowSize
  <2>5. ASSUME NEW i \in 3 .. n, i # n
        PROVE  s[i] \in NonFinal
    <3>1. CASE FocusChange(s, n)
      BY <1>1, <2>5, <3>1 DEF FocusChange
    <3>2. \A j, k : Numbers(s, j, k) /\ i \in j .. k => s[i] \in NonFinal
      BY <2>2 DEF Numbers
    <3>3. CASE DeviceAttributes(s, n)
      <4>1. i = 3 \/ i \in 4 .. n - 1
        BY <1>1, <2>5
      <4> QED
        BY <2>2, <3>2, <3>3, <4>1, Zenon DEF DeviceAttributes
    <3>4. CASE CursorPosition(s, n)
      <4>1. i \in 3 .. n - 1
        BY <1>1, <2>5
      <4> QED
        BY <3>2, <3>4, <4>1, Zenon DEF CursorPosition
    <3>5. CASE ModeState(s, n)
      <4>1. i = 3 \/ i \in 4 .. n - 2 \/ i = n - 1
        BY <1>1, <2>5
      <4> QED
        BY <2>2, <3>2, <3>5, <4>1, Zenon DEF ModeState
    <3>6. CASE WindowSize(s, n)
      <4>1. i = 3 \/ i = 4 \/ i \in 5 .. n - 1
        BY <1>1, <2>5
      <4> QED
        BY <2>2, <3>2, <3>6, <4>1, Zenon DEF WindowSize
    <3> QED
      BY <2>1, <3>1, <3>3, <3>4, <3>5, <3>6
  <2>6. ControlEnds(s) = {n}
    BY <1>1, <2>4, <2>5 DEF ControlEnds, n
  <2> QED
    BY <1>1, <1>2, <2>6 DEF Settled, n
<1>3. CASE s[2] = "]"
  <2>1. PICK m \in 3 .. n : Color(s, m)
    BY <1>3 DEF IsAnswer
  <2>2. \A i \in 3 .. m : s[i] # ESC /\ s[i] # "BEL"
    BY <2>1 DEF Color
  <2>3. ESC # "BEL" /\ ESC # "\\" /\ "BEL" # "\\"
    BY DEF ESC
  <2>4. StringEnds(s) = {n}
    <3>1. CASE n = m + 1 /\ s[m + 1] = "BEL"
      BY <1>1, <2>1, <2>2, <2>3, <3>1 DEF StringEnds
    <3>2. CASE n = m + 2 /\ s[m + 1] = ESC /\ s[m + 2] = "\\"
      BY <1>1, <2>1, <2>2, <2>3, <3>2 DEF StringEnds
    <3> QED
      BY <2>1, <3>1, <3>2 DEF Color
  <2> QED
    BY <1>1, <1>3, <2>4 DEF Settled, StringIntroducers
<1> QED
  BY <1>2, <1>3 DEF IsAnswer

(* isSingleReply knows every form of answer. *)
LEMMA AnswerIsKnown ==
  ASSUME NEW s \in Seq(Bytes), IsAnswer(s)
  PROVE  isSingleReply(s)
<1> DEFINE n == Len(s)
           body == SubSeq(s, 3, Len(s))
<1>1. n \in Nat /\ n >= 3 /\ s[1] = ESC
  BY LenProperties DEF IsAnswer
<1>2. /\ body \in Seq(Bytes) /\ Len(body) = n - 2 /\ body # <<>>
      /\ \A i \in 1 .. n - 2 : body[i] = s[i + 2]
  BY <1>1, BodyOf
<1> HIDE DEF body, n
<1>3. body[1] = s[3] /\ body[n - 2] = s[n]
  BY <1>1, <1>2
<1>4. ASSUME NEW a, s[n] = a
      PROVE  IsSuffix(<<a>>, body)
  <2> DEFINE t == <<a>>
  <2>1. t \in Seq({a}) /\ Len(t) = 1 /\ t[1] = a
    OBVIOUS
  <2> HIDE DEF t
  <2>2. Len(t) <= Len(body) /\ \A i \in 1 .. Len(t) : body[Len(body) - Len(t) + i] = t[i]
    BY <1>1, <1>2, <1>3, <1>4, <2>1
  <2>3. IsSuffix(t, body)
    BY <1>2, <2>1, <2>2, EndsWith
  <2> QED
    BY <2>3 DEF t
<1>5. ASSUME s[2] = "[", DeviceReport(body) \/ CursorReport(body)
                            \/ ModeReport(body) \/ SizeReport(body)
      PROVE  isSingleReply(s)
  <2>1. Len(s) >= 2
    BY <1>1 DEF n
  <2> QED
    BY <1>1, <1>5, <2>1, Zenon DEF isSingleReply, body
<1>6. CASE s[2] = "[" /\ FocusChange(s, n)
  <2>1. s = <<s[1], s[2], s[3]>>
    <3>1. /\ s \in Seq(Bytes) /\ Len(s) = 3
      BY <1>6 DEF FocusChange, n
    <3> QED
      BY <3>1
  <2>2. Focus(s)
    BY <1>1, <1>6, <2>1 DEF Focus, FocusChange
  <2>3. Len(s) >= 2
    BY <1>1 DEF n
  <2> QED
    BY <1>1, <2>2, <2>3, Zenon DEF isSingleReply
<1>7. CASE s[2] = "[" /\ DeviceAttributes(s, n)
  <2>1. DeviceReport(body)
    BY <1>2, <1>3, <1>4, <1>7 DEF DeviceAttributes, DeviceReport
  <2> QED
    BY <1>5, <1>7, <2>1
<1>8. CASE s[2] = "[" /\ CursorPosition(s, n)
  <2> DEFINE front == SubSeq(body, 1, Len(body) - 1)
  <2>1. n >= 4 /\ Numbers(s, 3, n - 1) /\ s[n] = "R"
    BY <1>8 DEF CursorPosition
  <2>2. \A i \in 1 .. n - 3 : body[i] \in Bytes
    BY <1>1, <1>2, ElementOfSeq
  <2>3. /\ front \in Seq(Bytes) /\ Len(front) = n - 3
        /\ \A i \in 1 .. n - 3 : front[i] = body[i]
    <3>1. Len(body) - 1 = n - 3 /\ n - 3 \in Int /\ n - 3 >= 1
      BY <1>1, <1>2, <2>1
    <3>2. /\ front \in Seq(Bytes) /\ Len(front) = IF 1 <= n - 3 THEN n - 3 - 1 + 1 ELSE 0
          /\ \A i \in 1 .. n - 3 - 1 + 1 : front[i] = body[1 + i - 1]
      BY <2>2, <3>1, SubSeqProperties
    <3> HIDE DEF front
    <3> QED
      BY <3>1, <3>2
  <2> HIDE DEF front
  <2>4. ASSUME NEW i \in 1 .. n - 3
        PROVE  front[i] \in NumberBytes
    <3>1. i + 2 \in 3 .. n - 1 /\ i \in 1 .. n - 2
      BY <1>1
    <3>2. s[i + 2] \in NumberBytes
      BY <2>1, <3>1, Zenon DEF Numbers
    <3> QED
      BY <1>2, <2>3, <3>1, <3>2
  <2>5. front # <<>> /\ DOMAIN front = 1 .. n - 3
    BY <1>1, <2>1, <2>3, EmptySeq, LenProperties
  <2>6. isDigitsAndSemis(front)
    BY <2>4, <2>5 DEF isDigitsAndSemis
  <2>7. CursorReport(body)
    BY <1>4, <2>1, <2>6 DEF CursorReport, Front, front
  <2> QED
    BY <1>5, <1>8, <2>7
<1>9. CASE s[2] = "[" /\ ModeState(s, n)
  <2> DEFINE t == <<"$", "y">>
  <2>1. n >= 6 /\ s[n - 1] = "$" /\ s[n] = "y"
    BY <1>9 DEF ModeState
  <2>2. t \in Seq({"$", "y"}) /\ Len(t) = 2 /\ t[1] = "$" /\ t[2] = "y"
    OBVIOUS
  <2> HIDE DEF t
  <2>3. body[n - 3] = s[n - 1]
    <3>1. n - 3 \in 1 .. n - 2 /\ n - 3 + 2 = n - 1
      BY <1>1, <2>1
    <3> QED
      BY <1>2, <3>1
  <2>4. Len(t) <= Len(body) /\ Len(body) - Len(t) + 1 = n - 3 /\ Len(body) - Len(t) + 2 = n - 2
    BY <1>1, <1>2, <2>1, <2>2
  <2>5. \A i \in 1 .. Len(t) : body[Len(body) - Len(t) + i] = t[i]
    <3>1. \A i \in 1 .. Len(t) : i = 1 \/ i = 2
      BY <2>2
    <3>2. /\ body[Len(body) - Len(t) + 1] = t[1]
          /\ body[Len(body) - Len(t) + 2] = t[2]
      BY <1>3, <2>1, <2>2, <2>3, <2>4
    <3> QED
      BY <3>1, <3>2
  <2>6. IsSuffix(t, body)
    BY <1>2, <2>2, <2>4, <2>5, EndsWith
  <2> QED
    BY <1>5, <1>9, <2>6 DEF ModeReport, t
<1>10. CASE s[2] = "[" /\ WindowSize(s, n)
  <2>1. s[3] = "8" /\ s[4] = ";" /\ s[n] = "t"
    BY <1>10, Zenon DEF WindowSize
  <2>0. n >= 6
    BY <1>10 DEF WindowSize
  <2>2. body[2] = s[4]
    <3>1. 2 \in 1 .. n - 2
      BY <1>1, <2>0
    <3>2. body[2] = s[2 + 2]
      BY <1>2, <3>1, Zenon
    <3>3. 2 + 2 = 4
      OBVIOUS
    <3> QED
      BY <3>2, <3>3, Zenon
  <2>3. IsPrefix(<<"8", ";">>, body)
    <3>1. Len(body) >= 2
      BY <1>1, <1>2, <2>0
    <3> QED
      BY <1>2, <1>3, <2>1, <2>2, <3>1, BeginsWith, Zenon
  <2>4. IsSuffix(<<"t">>, body)
    BY <1>4, <2>1
  <2> QED
    BY <1>5, <1>10, <2>3, <2>4 DEF SizeReport
<1>11. CASE s[2] = "]" /\ \E m \in 3 .. n : Color(s, m)
  <2>1. PICK m \in 3 .. n : \E i \in 3 .. m : s[i] = "rgb"
    BY <1>11 DEF Color
  <2>2. \E i \in DOMAIN s : s[i] = "rgb"
    <3>1. DOMAIN s = 1 .. n
      BY LenProperties DEF n
    <3> QED
      BY <1>1, <2>1, <3>1
  <2>3. Len(s) >= 2
    BY <1>1 DEF n
  <2>4. IsPrefix(<<ESC, "]">>, s)
    BY <1>1, <1>11, <2>3, BeginsWith
  <2> QED
    BY <1>1, <2>1, <2>2, <2>3, <2>4, Zenon DEF isSingleReply, ColorReport
<1> QED
  BY <1>6, <1>7, <1>8, <1>9, <1>10, <1>11 DEF IsAnswer, n

(* A sequence that its last byte ends is a part, whatever comes next. *)
LEMMA SettledPart ==
  ASSUME NEW u \in Seq(Bytes), Settled(u), NEW more \in Seq(Bytes)
  PROVE  partLen(u \o more) = Len(u) /\ FirstPart(u \o more) = u
<1> DEFINE s == u \o more
<1>1. /\ s \in Seq(Bytes) /\ Len(u) \in Nat /\ Len(more) \in Nat
      /\ Len(s) = Len(u) + Len(more)
      /\ \A i \in 1 .. Len(u) : s[i] = u[i]
      /\ SubSeq(s, 1, Len(u)) = u
  BY Glued
<1> HIDE DEF s
<1>2. Len(u) >= 3 /\ u[1] = ESC
  BY DEF Settled
<1>3. s[1] = ESC /\ s[2] = u[2] /\ Len(s) >= 2
  BY <1>1, <1>2
<1>4. ASSUME NEW S \in SUBSET (3 .. Len(u)), NEW T \in SUBSET (3 .. Len(s)),
             \A i \in 3 .. Len(u) : i \in T <=> i \in S,
             S = {Len(u)}
      PROVE  FirstOr(T, Len(s)) = Len(u)
  <2>1. S \in SUBSET Nat /\ T \in SUBSET Nat
    BY <1>1
  <2>4. Len(u) \in T
    BY <1>1, <1>2, <1>4
  <2>5. FirstOr(T, Len(s)) \in T /\ \A m \in T : FirstOr(T, Len(s)) =< m
    BY <2>1, <2>4, FirstOrIs
  <2> DEFINE f == FirstOr(T, Len(s))
  <2>6. f \in 3 .. Len(s) /\ f =< Len(u)
    BY <2>4, <2>5
  <2>7. f \in 3 .. Len(u)
    BY <1>1, <2>6
  <2>8. f \in S
    BY <1>4, <2>5, <2>7
  <2> QED
    BY <1>4, <2>8
<1>5. CASE u[2] \in StringIntroducers /\ StringEnds(u) = {Len(u)}
  <2>1. \A i \in 3 .. Len(u) : i \in StringEnds(s) <=> i \in StringEnds(u)
    BY <1>1 DEF StringEnds
  <2>2. /\ StringEnds(u) \in SUBSET (3 .. Len(u))
        /\ StringEnds(s) \in SUBSET (3 .. Len(s))
    BY DEF StringEnds
  <2>3. FirstOr(StringEnds(s), Len(s)) = Len(u)
    BY <1>4, <1>5, <2>1, <2>2
  <2>4. ~(Len(s) < 2) /\ Len(s) >= 2 /\ s[2] \in StringIntroducers
    BY <1>1, <1>3, <1>5
  <2>5. s[2] # "["
    BY <2>4 DEF StringIntroducers
  <2>6. seqLen(s) = Len(u)
    BY <2>3, <2>4, <2>5, Zenon DEF seqLen
  <2> QED
    BY <1>1, <1>3, <2>6 DEF partLen, FirstPart, s
<1>6. CASE u[2] = "[" /\ ControlEnds(u) = {Len(u)}
  <2>1. \A i \in 3 .. Len(u) : i \in ControlEnds(s) <=> i \in ControlEnds(u)
    BY <1>1 DEF ControlEnds
  <2>2. /\ ControlEnds(u) \in SUBSET (3 .. Len(u))
        /\ ControlEnds(s) \in SUBSET (3 .. Len(s))
    BY DEF ControlEnds
  <2>3. FirstOr(ControlEnds(s), Len(s)) = Len(u)
    BY <1>4, <1>6, <2>1, <2>2
  <2>4. "[" \notin StringIntroducers
    BY DEF StringIntroducers
  <2>5. seqLen(s) = Len(u)
    BY <1>1, <1>3, <1>6, <2>3, <2>4 DEF seqLen
  <2> QED
    BY <1>1, <1>3, <2>5 DEF partLen, FirstPart, s
<1> QED
  BY <1>5, <1>6 DEF Settled

(* ESC and at most one more byte is no answer of a terminal. *)
LEMMA ShortIsNoReply ==
  ASSUME NEW p \in Seq(Bytes), Len(p) <= 2, isSingleReply(p)
  PROVE  FALSE
<1>1. Len(p) = 2 /\ p[1] = ESC
  <2>1. Len(p) >= 2
    BY Zenon DEF isSingleReply
  <2>2. p[1] = ESC
    BY Zenon DEF isSingleReply
  <2>3. Len(p) = 2
    <3>1. Len(p) \in Nat
      BY LenProperties
    <3>2. \A n \in Nat : n <= 2 /\ n >= 2 => n = 2
      OBVIOUS
    <3> QED
      BY <2>1, <3>1, <3>2, Zenon
  <2> QED
    BY <2>2, <2>3
<1>2. ~Focus(p)
  <2>1. Len(<<ESC, "[", "I">>) = 3 /\ Len(<<ESC, "[", "O">>) = 3
    OBVIOUS
  <2> QED
    BY <1>1, <2>1 DEF Focus
<1>3. ~ColorReport(p)
  <2> SUFFICES ASSUME NEW i \in DOMAIN p, p[i] = "rgb", IsPrefix(<<ESC, "]">>, p)
               PROVE  FALSE
    BY DEF ColorReport
  <2>1. i \in 1 .. 2
    BY <1>1
  <2>2. SubSeq(p, 1, 2)[2] = SubSeq(<<ESC, "]">>, 1, 2)[2]
    BY DEF IsPrefix
  <2>3. p[2] = "]"
    BY <1>1, <2>2
  <2> QED
    BY <1>1, <2>1, <2>3 DEF ESC
<1>4. SubSeq(p, 3, Len(p)) = <<>>
  BY <1>1, SubSeqEmpty
<1>5. \A tail : Len(tail) \in Nat /\ Len(tail) > 0 => ~IsSuffix(tail, <<>>)
  BY DEF IsSuffix, IsPrefix, Reverse
<1>6. /\ ~CursorReport(<<>>) /\ ~DeviceReport(<<>>)
      /\ ~ModeReport(<<>>) /\ ~SizeReport(<<>>)
  <2>1. Len(<<"c">>) = 1 /\ Len(<<"R">>) = 1 /\ Len(<<"t">>) = 1 /\ Len(<<"$", "y">>) = 2
    OBVIOUS
  <2>2. /\ ~IsSuffix(<<"c">>, <<>>) /\ ~IsSuffix(<<"R">>, <<>>) /\ ~IsSuffix(<<"t">>, <<>>)
        /\ ~IsSuffix(<<"$", "y">>, <<>>)
    BY <1>5, <2>1
  <2> QED
    BY <2>2, Zenon DEF CursorReport, DeviceReport, ModeReport, SizeReport
<1> QED
  BY <1>2, <1>3, <1>4, <1>6 DEF isSingleReply

(* A key or text, as the first that is left, is no answer, also with what      *)
(* comes after it, unless it has the form of one.                              *)
LEMMA TypedPart ==
  ASSUME NEW t, IsTyped(t), ~IsAnswer(t), NEW more \in Seq(Bytes), t \in Openers => more = <<>>
  PROVE  ~isSingleReply(FirstPart(t \o more))
<1> DEFINE s == t \o more
           p == FirstPart(s)
<1>1. t \in Seq(Bytes) /\ t # <<>>
  BY DEF IsTyped
<1>2. Len(t) \in Nat /\ Len(t) >= 1
  BY <1>1, EmptySeq
<1>3. /\ s \in Seq(Bytes) /\ Len(s) = Len(t) + Len(more) /\ Len(more) \in Nat
      /\ \A i \in 1 .. Len(t) : s[i] = t[i]
  BY <1>1, Glued
<1>4. s[1] = t[1] /\ s # <<>> /\ Len(s) >= 1
  BY <1>2, <1>3, EmptySeq
<1> HIDE DEF s
<1>5. partLen(s) \in 1 .. Len(s)
  BY <1>3, <1>4, PartLength
<1>6. /\ p \in Seq(Bytes) /\ Len(p) = partLen(s)
      /\ \A i \in 1 .. partLen(s) : p[i] = s[i]
  <2> DEFINE n == partLen(s)
  <2>1. n \in Nat /\ n >= 1
    BY <1>3, <1>5
  <2>2. \A i \in 1 .. n : s[i] \in Bytes
    BY <1>3, <1>5, ElementOfSeq
  <2>3. p = SubSeq(s, 1, n)
    BY DEF FirstPart
  <2> HIDE DEF n, p
  <2>4. /\ p \in Seq(Bytes) /\ Len(p) = IF 1 <= n THEN n - 1 + 1 ELSE 0
        /\ \A i \in 1 .. n - 1 + 1 : p[i] = s[1 + i - 1]
    BY <2>1, <2>2, <2>3, SubSeqProperties
  <2>5. Len(p) = n /\ \A i \in 1 .. n : p[i] = s[i]
    BY <2>1, <2>4
  <2> QED
    BY <2>4, <2>5 DEF n
<1>7. CASE t[1] # ESC
  <2>1. p[1] = t[1]
    BY <1>4, <1>5, <1>6
  <2> QED
    BY <1>7, <2>1, Zenon DEF isSingleReply, p, s
<1>8. CASE /\ Len(t) >= 3 /\ t[1] = ESC /\ t[2] = "[" /\ ControlEnds(t) = {Len(t)}
           /\ t[Len(t)] \notin {"I", "O", "c", "R", "y", "t"}
  <2>1. Settled(t)
    BY <1>8 DEF Settled
  <2>2. ~isSingleReply(t)
    BY <1>1, <1>8, KnownEnding
  <2> QED
    BY <1>1, <2>1, <2>2, SettledPart DEF p, s
<1>12. CASE Len(t) >= 3 /\ t[1] = ESC /\ t[2] = "[" /\ CursorPosition(t, Len(t))
  BY <1>12 DEF IsAnswer
<1>9. ASSUME Len(p) <= 2
      PROVE  ~isSingleReply(p)
  BY <1>6, <1>9, ShortIsNoReply
<1>10. CASE Len(t) >= 2 /\ t[1] = ESC /\ t[2] \notin Introducers
  <2>1. s[2] = t[2] /\ s[1] = ESC
    BY <1>2, <1>3, <1>4, <1>10
  <2>2. s[2] \notin StringIntroducers /\ s[2] # "["
    BY <1>10, <2>1 DEF Introducers
  <2>3. ~(Len(s) < 2)
    BY <1>2, <1>3, <1>10
  <2>4. seqLen(s) = 2
    BY <2>2, <2>3, Zenon DEF seqLen
  <2>5. Len(p) <= 2
    BY <1>6, <2>1, <2>4 DEF partLen
  <2> QED
    BY <1>9, <2>5 DEF p, s
<1>11. CASE t \in Openers
  <2>1. Len(t) <= 2
    <3>1. \A c : Len(<<ESC>>) <= 2 /\ Len(<<ESC, c>>) <= 2
      OBVIOUS
    <3>2. t = <<ESC>> \/ \E c : t = <<ESC, c>>
      BY <1>11, Zenon DEF Openers
    <3> QED
      BY <3>1, <3>2, Zenon
  <2>2. Len(more) = 0
    BY <1>11, EmptySeq
  <2>3. Len(p) <= 2
    BY <1>2, <1>3, <1>5, <1>6, <2>1, <2>2
  <2> QED
    BY <1>9, <2>3 DEF p, s
<1> QED
  BY <1>7, <1>8, <1>10, <1>11, <1>12, Zenon DEF IsTyped

(* One turn of the loop of splitEscapes. *)
CutOff(w) == [out |-> Append(w.out, FirstPart(w.rest)),
              rest |-> SubSeq(w.rest, partLen(w.rest) + 1, Len(w.rest))]

LEMMA CutOffType ==
  ASSUME NEW w \in Splitting, w.rest # <<>>
  PROVE  CutOff(w) \in Splitting /\ Len(CutOff(w).rest) < Len(w.rest)
<1> DEFINE s == w.rest
           k == partLen(s)
           first == SubSeq(s, 1, k)
           left == SubSeq(s, k + 1, Len(s))
<1>1. s \in Seq(Bytes) /\ s # <<>> /\ w.out \in Seq(Seq(Bytes))
  BY DEF Splitting
<1> HIDE DEF s
<1>2. Len(s) \in Nat /\ k \in 1 .. Len(s)
  BY <1>1, PartLength, LenProperties
<1>3. CutOff(w) = [out |-> Append(w.out, first), rest |-> left]
  BY DEF CutOff, FirstPart, s
<1> HIDE DEF k
<1>4. \A i \in 1 .. Len(s) : s[i] \in Bytes
  BY <1>1, ElementOfSeq
<1>5. first \in Seq(Bytes)
  <2>1. \A i \in 1 .. k : s[i] \in Bytes
    BY <1>2, <1>4
  <2>2. k \in Int
    BY <1>2
  <2> QED
    BY <2>1, <2>2, SubSeqProperties
<1>6. left \in Seq(Bytes) /\ Len(left) < Len(s)
  <2>1. \A i \in k + 1 .. Len(s) : s[i] \in Bytes
    BY <1>2, <1>4
  <2>2. k + 1 \in Int /\ Len(s) \in Int
    BY <1>2
  <2>3. /\ left \in Seq(Bytes)
        /\ Len(left) = IF k + 1 <= Len(s) THEN Len(s) - (k + 1) + 1 ELSE 0
    BY <2>1, <2>2, SubSeqProperties
  <2> HIDE DEF left
  <2> QED
    BY <1>2, <2>3
<1>7. Append(w.out, first) \in Seq(Seq(Bytes))
  BY <1>1, <1>5, AppendProperties
<1> HIDE DEF first, left
<1> QED
  BY <1>3, <1>6, <1>7 DEF Splitting, s

(* What every turn keeps is so of the parts. *)
LEMMA SplitEnds ==
  ASSUME NEW I \in SUBSET Splitting,
         \A x \in I : x.rest # <<>> => CutOff(x) \in I,
         NEW w \in I
  PROVE  \E y \in I : y.rest = <<>> /\ splitEscapes[w] = y.out
<1> DEFINE stop == {x \in Splitting : x.rest = <<>>}
           next == [x \in Splitting |-> IF x \in stop THEN x ELSE CutOff(x)]
           out == [x \in Splitting |-> x.out]
           rank == [x \in Splitting |-> <<0, Len(x.rest)>>]
           body(f) == [x \in Splitting |-> IF x.rest = <<>> THEN x.out ELSE f[CutOff(x)]]
<1>1. next \in [Splitting -> Splitting] /\ stop \in SUBSET Splitting
  BY CutOffType
<1>2. \E f : Computes(f, Splitting, stop, next, out)
  <2> HIDE DEF stop, next, out
  <2> QED
    BY <1>1, LoopExists
<1>3. \A f : Computes(f, Splitting, stop, next, out) <=> f = body(f)
  BY DEF Computes
<1>4. Computes(splitEscapes, Splitting, stop, next, out)
  <2> HIDE DEF stop, next, out
  <2>1. splitEscapes = body(splitEscapes)
    BY <1>2, <1>3, Zenon DEF splitEscapes, CutOff
  <2> QED
    BY <1>3, <2>1
<1>5. rank \in [Splitting -> Nat \X Nat]
  BY LenProperties DEF Splitting
<1>6. ASSUME NEW x \in I, x \notin stop
      PROVE  next[x] \in I /\ <<rank[next[x]], rank[x]>> \in Order
  <2>1. /\ next[x] = CutOff(x) /\ x \in Splitting /\ CutOff(x) \in I
        /\ Len(CutOff(x).rest) < Len(x.rest)
    BY <1>6, CutOffType
  <2>2. Len(x.rest) \in Nat /\ Len(CutOff(x).rest) \in Nat /\ CutOff(x) \in Splitting
    BY <2>1, LenProperties DEF Splitting
  <2>3. <<<<0, Len(CutOff(x).rest)>>, <<0, Len(x.rest)>>>> \in Order
    BY <2>1, <2>2, OrderFalls
  <2> QED
    BY <2>1, <2>2, <2>3
<1>7. PICK y \in I \cap stop : splitEscapes[w] = out[y]
  <2> HIDE DEF stop, next, out, rank
  <2>1. \A x \in I \ stop : next[x] \in I /\ <<rank[next[x]], rank[x]>> \in Order
    BY <1>6
  <2>2. \A x \in I : \E y \in I \cap stop : splitEscapes[x] = out[y]
    BY ONLY <1>1, <1>4, <1>5, <2>1, I \in SUBSET Splitting, LoopEnds
  <2> QED
    BY <2>2
<1> QED
  BY <1>7

(* What holds of 0, and of i when it holds of i - 1, holds up to n. *)
LEMMA Upwards ==
  ASSUME NEW n \in Nat, NEW S, 0 \in S,
         \A i \in 1 .. n : i - 1 \in S => i \in S
  PROVE  \A i \in 0 .. n : i \in S
<1> DEFINE bad == {i \in 0 .. n : i \notin S}
<1> SUFFICES ASSUME bad # {}
             PROVE  FALSE
  OBVIOUS
<1>1. bad \in SUBSET Nat
  OBVIOUS
<1>2. Min(bad) \in bad /\ \A m \in bad : Min(bad) =< m
  <2> HIDE DEF bad
  <2> QED
    BY <1>1, MinExists
<1> DEFINE k == Min(bad)
<1> HIDE DEF k
<1>3. k \in 0 .. n /\ k \notin S /\ \A m \in bad : k =< m
  BY <1>2 DEF k
<1>4. k # 0 /\ k \in 1 .. n /\ k - 1 \in 0 .. n /\ ~(k =< k - 1)
  BY <1>3
<1>5. k - 1 \in S
  BY <1>3, <1>4
<1> QED
  BY <1>3, <1>4, <1>5

(* f is what n steps make of the first value. *)
Iterates(f, n, V, first, step) ==
    /\ f \in [0 .. n -> V]
    /\ f[0] = first
    /\ \A i \in 1 .. n : f[i] = step[<<i, f[i - 1]>>]

LEMMA Iterated ==
  ASSUME NEW n \in Nat, NEW V, NEW first \in V, NEW step \in [(1 .. n) \X V -> V]
  PROVE  \E f : Iterates(f, n, V, first, step)
<1> DEFINE good(k, f) == f[0] = first /\ \A i \in 1 .. k : f[i] = step[<<i, f[i - 1]>>]
           S == {k \in 0 .. n : \E f \in [0 .. n -> V] : good(k, f)}
<1>1. 0 \in S
  <2> DEFINE f == [i \in 0 .. n |-> first]
  <2>1. f \in [0 .. n -> V] /\ good(0, f) /\ 0 \in 0 .. n
    OBVIOUS
  <2> QED
    BY <2>1
<1>2. ASSUME NEW k \in 1 .. n, k - 1 \in S
      PROVE  k \in S
  <2>1. PICK f \in [0 .. n -> V] : good(k - 1, f)
    BY <1>2
  <2> DEFINE v == step[<<k, f[k - 1]>>]
             g == [f EXCEPT ![k] = v]
  <2>2. v \in V
    BY <2>1
  <2> HIDE DEF v
  <2>3. g \in [0 .. n -> V] /\ g[k] = v /\ \A i \in 0 .. k - 1 : g[i] = f[i]
    BY <2>2
  <2> HIDE DEF g
  <2>4. g[0] = first
    BY <2>1, <2>3
  <2>5. ASSUME NEW i \in 1 .. k
        PROVE  g[i] = step[<<i, g[i - 1]>>]
    <3>1. i - 1 \in 0 .. k - 1 /\ g[i - 1] = f[i - 1]
      BY <2>3
    <3>2. CASE i = k
      BY <2>3, <3>1, <3>2 DEF v
    <3>3. CASE i # k
      <4>1. i \in 1 .. k - 1 /\ i \in 0 .. k - 1
        BY <3>3
      <4> QED
        BY <2>1, <2>3, <3>1, <4>1
    <3> QED
      BY <3>2, <3>3
  <2> QED
    BY <2>3, <2>4, <2>5
<1>3. n \in S
  <2> HIDE DEF S
  <2>1. \A i \in 0 .. n : i \in S
    BY <1>1, <1>2, Upwards
  <2> QED
    BY <2>1
<1> QED
  BY <1>3 DEF Iterates

(* What is left of a message after its first i pieces. *)
LEMMA Remainders ==
  ASSUME NEW m \in Seq(Seq(Bytes))
  PROVE  \E R \in [0 .. Len(m) -> Seq(Bytes)] :
            /\ R[0] = FlattenSeq(m) /\ R[Len(m)] = <<>>
            /\ \A i \in 1 .. Len(m) : R[i - 1] = m[i] \o R[i]
<1> DEFINE V == Seq(Bytes)
           n == Len(m)
           Flattens(g) == g = [i \in 1 .. n |-> IF i = 1 THEN m[i] ELSE g[i - 1] \o m[i]]
<1>1. n \in Nat /\ \A i \in 1 .. n : m[i] \in V
  BY LenProperties, ElementOfSeq
<1>2. <<>> \in V /\ \A a, b \in V : a \o b \in V
  BY EmptySeq, ConcatProperties
<1>3. /\ \A a, b, c \in V : (a \o b) \o c = a \o (b \o c)
      /\ \A a \in V : a \o <<>> = a /\ <<>> \o a = a
  BY ConcatAssociative, ConcatEmptySeq
<1>4. n = 0 => m = <<>> /\ FlattenSeq(m) = <<>>
  BY EmptySeq DEF FlattenSeq
<1>5. n # 0 => FlattenSeq(m) = (CHOOSE g : Flattens(g))[n]
  BY DEF FlattenSeq
<1> HIDE DEF n, V
<1>6. \E g : Flattens(g)
  <2> DEFINE step == [p \in (1 .. n) \X V |-> p[2] \o m[p[1]]]
  <2>1. step \in [(1 .. n) \X V -> V] /\ \A i \in 1 .. n, v \in V : step[<<i, v>>] = v \o m[i]
    BY <1>1, <1>2
  <2> HIDE DEF step
  <2>2. PICK f \in [0 .. n -> V] :
           f[0] = <<>> /\ \A i \in 1 .. n : f[i] = step[<<i, f[i - 1]>>]
    <3>1. n \in Nat /\ <<>> \in V /\ step \in [(1 .. n) \X V -> V]
      BY <1>1, <1>2, <2>1
    <3>2. \E f : Iterates(f, n, V, <<>>, step)
      BY ONLY <3>1, Iterated
    <3> QED
      BY <3>2 DEF Iterates
  <2> DEFINE g == [i \in 1 .. n |-> f[i]]
  <2>3. ASSUME NEW i \in 1 .. n
        PROVE  g[i] = IF i = 1 THEN m[i] ELSE g[i - 1] \o m[i]
    <3>1. i - 1 \in 0 .. n /\ f[i - 1] \in V
      BY <1>1
    <3>2. f[i] = f[i - 1] \o m[i]
      BY <2>1, <2>2, <3>1
    <3>3. CASE i = 1
      <4>1. i - 1 = 0 /\ m[i] \in V
        BY <1>1, <3>3
      <4>2. f[i] = <<>> \o m[i]
        BY <2>2, <3>2, <4>1, Zenon
      <4>3. f[i] = m[i]
        BY <1>3, <4>1, <4>2, Zenon
      <4> QED
        BY <3>3, <4>3
    <3>4. CASE i # 1
      <4>1. i - 1 \in 1 .. n
        BY <1>1, <3>4
      <4> QED
        BY <3>2, <3>4, <4>1
    <3> QED
      BY <3>3, <3>4
  <2>4. Flattens(g)
    BY <2>3
  <2> QED
    BY <2>4
<1>7. PICK R \in [0 .. n -> V] :
         R[n] = <<>> /\ \A i \in 1 .. n : R[i - 1] = m[i] \o R[i]
  <2> DEFINE step == [p \in (1 .. n) \X V |-> m[n + 1 - p[1]] \o p[2]]
  <2>1. \A i \in 1 .. n : n + 1 - i \in 1 .. n
    BY <1>1
  <2>2. /\ step \in [(1 .. n) \X V -> V]
        /\ \A i \in 1 .. n, v \in V : step[<<i, v>>] = m[n + 1 - i] \o v
    BY <1>1, <1>2, <2>1
  <2> HIDE DEF step
  <2>3. PICK f \in [0 .. n -> V] :
           f[0] = <<>> /\ \A i \in 1 .. n : f[i] = step[<<i, f[i - 1]>>]
    <3>1. n \in Nat /\ <<>> \in V /\ step \in [(1 .. n) \X V -> V]
      BY <1>1, <1>2, <2>2
    <3>2. \E f : Iterates(f, n, V, <<>>, step)
      BY ONLY <3>1, Iterated
    <3> QED
      BY <3>2 DEF Iterates
  <2> DEFINE R == [i \in 0 .. n |-> f[n - i]]
  <2>4. R \in [0 .. n -> V] /\ R[n] = <<>>
    <3>1. \A i \in 0 .. n : n - i \in 0 .. n
      BY <1>1
    <3>2. n \in 0 .. n /\ n - n = 0
      BY <1>1
    <3> QED
      BY <2>3, <3>1, <3>2
  <2>5. ASSUME NEW i \in 1 .. n
        PROVE  R[i - 1] = m[i] \o R[i]
    <3> DEFINE j == n - (i - 1)
    <3>1. /\ j \in 1 .. n /\ j - 1 = n - i /\ n + 1 - j = i /\ n - i \in 0 .. n
          /\ i \in 0 .. n /\ i - 1 \in 0 .. n
      BY <1>1
    <3>2. R[i - 1] = f[j] /\ R[i] = f[n - i] /\ f[n - i] \in V
      BY <3>1
    <3> HIDE DEF j, R
    <3>3. f[j] = m[i] \o f[n - i]
      BY <2>2, <2>3, <3>1, <3>2
    <3> QED
      BY <3>2, <3>3
  <2> HIDE DEF R
  <2> QED
    BY <2>4, <2>5
<1>8. ASSUME n # 0, NEW g, Flattens(g)
      PROVE  g[n] = R[0]
  <2> DEFINE S == {0} \cup {i \in 1 .. n : g[i] \in V /\ g[i] \o R[i] = R[0]}
  <2>1. ASSUME NEW i \in 1 .. n, i - 1 \in S
        PROVE  i \in S
    <3>1. m[i] \in V /\ R[i] \in V /\ R[i - 1] = m[i] \o R[i]
      BY <1>1, <1>7
    <3> DEFINE sum == g[i - 1] \o m[i]
    <3>2. g[i] = IF i = 1 THEN m[i] ELSE sum
      BY <1>8
    <3> HIDE DEF sum
    <3>3. CASE i = 1
      <4>1. g[i] = m[i] /\ i - 1 = 0
        BY <3>2, <3>3
      <4>2. m[i] \o R[i] = R[0]
        BY <3>1, <4>1, Zenon
      <4>3. g[i] \in V /\ g[i] \o R[i] = R[0]
        BY <3>1, <4>1, <4>2, Zenon
      <4> QED
        BY <4>3
    <3>4. CASE i # 1
      <4>1. i - 1 # 0 /\ g[i] = g[i - 1] \o m[i]
        <5>1. i - 1 # 0
          BY <3>4
        <5> QED
          BY <3>2, <3>4, <5>1, Zenon DEF sum
      <4>2. g[i - 1] \in V /\ g[i - 1] \o R[i - 1] = R[0]
        BY <2>1, <4>1
      <4>3. g[i] \in V
        BY <1>2, <3>1, <4>1, <4>2
      <4>4. g[i] \o R[i] = R[0]
        <5>1. (g[i - 1] \o m[i]) \o R[i] = g[i - 1] \o (m[i] \o R[i])
          BY <1>3, <3>1, <4>2, Zenon
        <5> QED
          BY <3>1, <4>1, <4>2, <5>1, Zenon
      <4> QED
        BY <4>3, <4>4
    <3> QED
      BY <3>3, <3>4
  <2>2. 0 \in S
    OBVIOUS
  <2>3. n \in S
    <3> HIDE DEF S
    <3>1. \A i \in 0 .. n : i \in S
      BY <1>1, <2>1, <2>2, Upwards
    <3> QED
      BY <1>1, <3>1
  <2>4. g[n] \in V /\ g[n] \o <<>> = R[0]
    BY <1>7, <1>8, <2>3
  <2> QED
    BY <1>3, <2>4
<1>9. R[0] = FlattenSeq(m)
  <2>1. CASE n = 0
    BY <1>4, <1>7, <2>1
  <2>2. CASE n # 0
    <3>1. Flattens(CHOOSE g : Flattens(g))
      BY <1>6, Zenon
    <3> DEFINE g == CHOOSE h : Flattens(h)
    <3> HIDE DEF Flattens
    <3> QED
      BY <1>5, <1>8, <2>2, <3>1
  <2> QED
    BY <2>1, <2>2
<1> QED
  BY <1>7, <1>9 DEF n, V

(* A message is an answer when all of its pieces are. *)
LEMMA PiecesTell ==
  ASSUME NEW m \in Seq(Seq(Bytes)),
         \A i \in 1 .. Len(m) : IsAnswer(m[i]) \/ IsTyped(m[i]),
         \A i \in 1 .. Len(m) - 1 : m[i] \notin Openers
  PROVE  IsTerminalReply(FlattenSeq(m)) <=>
            m # <<>> /\ \A i \in DOMAIN m : IsAnswer(m[i])
<1> DEFINE n == Len(m)
<1>1. n \in Nat /\ DOMAIN m = 1 .. n /\ (m = <<>> <=> n = 0)
  BY LenProperties, EmptySeq
<1>2. \A i \in 1 .. n : IsAnswer(m[i]) \/ IsTyped(m[i])
  OBVIOUS
<1>3. \A i \in 1 .. n : m[i] \in Seq(Bytes) /\ m[i] # <<>>
  <2>1. \A i \in 1 .. n : m[i] \in Seq(Bytes)
    BY ElementOfSeq
  <2>2. \A s : IsAnswer(s) => s # <<>>
    BY EmptySeq DEF IsAnswer
  <2>3. \A s : IsTyped(s) => s # <<>>
    BY Zenon DEF IsTyped
  <2> QED
    BY <1>2, <2>1, <2>2, <2>3, Zenon
<1>5. PICK R \in [0 .. n -> Seq(Bytes)] :
         /\ R[0] = FlattenSeq(m) /\ R[n] = <<>>
         /\ \A i \in 1 .. n : R[i - 1] = m[i] \o R[i]
  BY Remainders
<1>6. \A i \in 1 .. n : m[i] \in Openers => R[i] = <<>>
  BY <1>1, <1>5
<1> HIDE DEF n
<1>7. ASSUME NEW i \in 0 .. n, i # n
       PROVE  /\ i + 1 \in 1 .. n
              /\ R[i] = m[i + 1] \o R[i + 1]
              /\ m[i + 1] \in Seq(Bytes) /\ m[i + 1] # <<>> /\ R[i + 1] \in Seq(Bytes)
  <2>1. PICK h \in 1 .. n : h = i + 1 /\ h - 1 = i
    BY <1>1, <1>7
  <2>2. R[i] = m[h] \o R[h] /\ m[h] \in Seq(Bytes) /\ m[h] # <<>>
    BY <1>3, <1>5, <2>1, Zenon
  <2>3. R[h] \in Seq(Bytes)
    BY <1>1, <1>5, <2>1
  <2> QED
    BY <2>1, <2>2, <2>3, Zenon
<1> DEFINE halfway(x, i) ==
               /\ x.rest = R[i] /\ Len(x.out) = i
               /\ \A j \in 1 .. i : IsAnswer(m[j]) /\ isSingleReply(x.out[j])
           over(x) ==
               /\ \E j \in 1 .. Len(x.out) : ~isSingleReply(x.out[j])
               /\ \E j \in 1 .. n : ~IsAnswer(m[j])
           I == {x \in Splitting : over(x) \/ \E i \in 0 .. n : halfway(x, i)}
           start == [out |-> <<>>, rest |-> FlattenSeq(m)]
<1>8. start \in I
  <2>1. start \in Splitting
    BY <1>1, <1>5, EmptySeq DEF Splitting
  <2>2. halfway(start, 0) /\ 0 \in 0 .. n
    BY <1>1, <1>5, EmptySeq
  <2> QED
    BY <2>1, <2>2
<1>9. ASSUME NEW x \in I, x.rest # <<>>
      PROVE  CutOff(x) \in I
  <2> DEFINE y == CutOff(x)
             u == FirstPart(x.rest)
             k == Len(x.out)
  <2>1. x \in Splitting /\ y \in Splitting
    BY <1>9, CutOffType
  <2>2. /\ x.out \in Seq(Seq(Bytes)) /\ k \in Nat
        /\ y.out = Append(x.out, u) /\ y.out \in Seq(Seq(Bytes))
    BY <2>1, LenProperties DEF Splitting, CutOff
  <2>3. u \in Seq(Bytes)
    BY <2>2
  <2>4. Len(y.out) = k + 1 /\ y.out[k + 1] = u /\ \A j \in 1 .. k : y.out[j] = x.out[j]
    BY <2>2, <2>3, AppendProperties
  <2>5. CASE over(x)
    <3>1. PICK j \in 1 .. k : ~isSingleReply(x.out[j])
      BY <2>5
    <3>2. j \in 1 .. Len(y.out) /\ y.out[j] = x.out[j]
      BY <2>2, <2>4, <3>1
    <3>3. over(y)
      BY <2>5, <3>1, <3>2, Zenon
    <3> QED
      BY <2>1, <3>3
  <2>6. ASSUME NEW i \in 0 .. n, halfway(x, i)
        PROVE  y \in I
    <3>1. i # n /\ i + 1 \in 1 .. n /\ k = i
      <4>1. x.rest = R[i] /\ k = i
        BY <2>6
      <4>2. i # n
        BY <1>5, <1>9, <4>1, Zenon
      <4> QED
        BY <1>1, <4>1, <4>2
    <3> DEFINE t == m[i + 1]
               more == R[i + 1]
    <3>2. t \in Seq(Bytes) /\ more \in Seq(Bytes) /\ x.rest = t \o more
      BY <1>7, <2>6, <3>1
    <3>3. CASE IsAnswer(t)
      <4>1. Settled(t) /\ isSingleReply(t)
        BY <3>2, <3>3, AnswerEnds, AnswerIsKnown
      <4>2. partLen(x.rest) = Len(t) /\ u = t
        BY <3>2, <4>1, SettledPart
      <4>3. y.rest = more
        <5>1. y.rest = SubSeq(x.rest, partLen(x.rest) + 1, Len(x.rest))
          BY DEF CutOff
        <5>2. y.rest = SubSeq(x.rest, Len(t) + 1, Len(x.rest))
          BY <4>2, <5>1
        <5>3. SubSeq(t \o more, Len(t) + 1, Len(t \o more)) = more
          <6>1. \A a, b \in Seq(Bytes) : SubSeq(a \o b, Len(a) + 1, Len(a \o b)) = b
            BY Glued
          <6> QED
            BY <3>2, <6>1, Zenon
        <5> QED
          BY <3>2, <5>2, <5>3
      <4>4. \A j \in 1 .. i + 1 : IsAnswer(m[j]) /\ isSingleReply(y.out[j])
        <5> SUFFICES ASSUME NEW j \in 1 .. i + 1
                     PROVE  IsAnswer(m[j]) /\ isSingleReply(y.out[j])
          OBVIOUS
        <5>1. CASE j = i + 1
          BY <2>4, <3>1, <3>3, <4>1, <4>2, <5>1
        <5>2. CASE j # i + 1
          <6>1. j \in 1 .. i
            BY <5>2
          <6> QED
            BY <2>4, <2>6, <3>1, <6>1
        <5> QED
          BY <5>1, <5>2
      <4>5. halfway(y, i + 1)
        BY <2>4, <3>1, <4>3, <4>4
      <4>6. i + 1 \in 0 .. n
        BY <1>1, <3>1
      <4> QED
        BY <2>1, <4>5, <4>6, Zenon
    <3>4. CASE ~IsAnswer(t)
      <4>1. IsTyped(t) /\ (t \in Openers => more = <<>>)
        <5>1. IsAnswer(m[i + 1]) \/ IsTyped(m[i + 1])
          BY <1>2, <3>1
        <5>2. m[i + 1] \in Openers => R[i + 1] = <<>>
          BY <1>6, <3>1
        <5> QED
          BY <3>4, <5>1, <5>2, Zenon
      <4>2. ~isSingleReply(u)
        BY <3>2, <3>4, <4>1, TypedPart
      <4>3. over(y)
        BY <2>2, <2>4, <3>1, <3>4, <4>2
      <4> QED
        BY <2>1, <4>3
    <3> QED
      BY <3>3, <3>4
  <2> QED
    BY <2>5, <2>6
<1>10. PICK y \in I : y.rest = <<>> /\ parts(FlattenSeq(m)) = y.out
  <2> HIDE DEF I
  <2>1. I \in SUBSET Splitting /\ \A x \in I : x.rest # <<>> => CutOff(x) \in I
    BY <1>9 DEF I
  <2>2. \E y \in I : y.rest = <<>> /\ splitEscapes[start] = y.out
    BY ONLY <1>8, <2>1, SplitEnds
  <2> QED
    BY <2>2 DEF parts
<1>11. /\ y.out \in Seq(Seq(Bytes)) /\ DOMAIN y.out = 1 .. Len(y.out)
       /\ Len(y.out) \in Nat /\ (y.out = <<>> <=> Len(y.out) = 0)
  <2>1. y.out \in Seq(Seq(Bytes))
    BY DEF Splitting
  <2> QED
    BY <2>1, LenProperties, EmptySeq
<1>12. CASE over(y)
  BY <1>1, <1>10, <1>11, <1>12 DEF IsTerminalReply
<1>13. ASSUME NEW i \in 0 .. n, halfway(y, i)
       PROVE  IsTerminalReply(FlattenSeq(m)) <=>
                 m # <<>> /\ \A j \in DOMAIN m : IsAnswer(m[j])
  <2>1. i = n
    <3> SUFFICES ASSUME i # n
                 PROVE  FALSE
      OBVIOUS
    <3>1. /\ m[i + 1] \o R[i + 1] = <<>>
          /\ m[i + 1] \in Seq(Bytes) /\ R[i + 1] \in Seq(Bytes) /\ m[i + 1] # <<>>
      BY <1>10, <1>13, <1>7
    <3> QED
      BY <3>1, ConcatEqualIffEmpty
  <2> QED
    BY <1>1, <1>10, <1>11, <1>13, <2>1 DEF IsTerminalReply
<1> QED
  BY <1>12, <1>13

(* What became of the input is what the filter says of its bytes.              *)
Judged ==
    outcome # "none" /\ pressed = {} => (outcome = "filtered" <=> IsTerminalReply(bytes))

LEMMA JudgedNext ==
  ASSUME Judged, [Next]_vars
  PROVE  Judged'
<1> USE DEF Judged
<1>1. ASSUME UNCHANGED <<message, outcome, pressed>>
      PROVE  Judged'
  BY <1>1 DEF bytes
<1>2. ASSUME outcome' = "none" \/ pressed' # {}
      PROVE  Judged'
  BY <1>2
<1>3. ASSUME NEW alive \in BOOLEAN, PassOn(bytes, alive), UNCHANGED message
      PROVE  Judged'
  <2>1. bytes' = bytes
    BY <1>3 DEF bytes
  <2>2. outcome' = "filtered" <=> IsTerminalReply(bytes)
    BY <1>3 DEF PassOn
  <2> HIDE DEF bytes
  <2> QED
    BY <2>1, <2>2
<1>4. ASSUME NEW u \in Replies \cup Typed, Compose(u)
      PROVE  outcome' = "none"
  BY <1>4 DEF Compose
<1>5. ASSUME NEW alive \in BOOLEAN, WsInput(alive) \/ Paste(alive)
      PROVE  Judged'
  BY <1>3, <1>5 DEF WsInput, Paste
<1>6. CASE WsNext \/ Done
  BY <1>2, <1>6 DEF WsNext, Done
<1>7. ASSUME NEW found \in BOOLEAN, NEW json \in BOOLEAN, NEW alive \in BOOLEAN,
             HandleInput(found, json, alive)
      PROVE  Judged'
  BY <1>1, <1>3, <1>7 DEF HandleInput
<1>8. ASSUME NEW k \in Keys, NEW alive \in BOOLEAN, Press(k, alive)
      PROVE  Judged'
  <2>1. pressed' # {}
    BY <1>8 DEF Press
  <2> QED
    BY <1>2, <2>1
<1>9. CASE \/ Start \/ Dispatch \/ WsClose \/ StartPaste \/ During(RunNext) \/ RunAnswer
           \/ \E r \in AllRequests, here \in BOOLEAN : Request(r, here)
           \/ \E q \in Asks, starts \in BOOLEAN : HandleRun(q, starts)
           \/ UNCHANGED vars
  <2>1. UNCHANGED <<message, outcome, pressed>>
    BY <1>9 DEF Start, Dispatch, WsClose, StartPaste, During, RunAnswer, Request, HandleRun,
                vars, requestVars
  <2> QED
    BY <1>1, <2>1
<1> QED
  BY <1>2, <1>4, <1>5, <1>6, <1>7, <1>8, <1>9 DEF Next

LEMMA JudgedIsExact ==
  ASSUME TypeOK, Judged
  PROVE  FilterIsExact
<1> SUFFICES ASSUME outcome # "none", pressed = {}, ~Ambiguous
             PROVE  outcome = "filtered" <=>
                       message # <<>> /\ \A i \in DOMAIN message : IsAnswer(message[i])
  BY DEF FilterIsExact
<1>1. outcome = "filtered" <=> IsTerminalReply(FlattenSeq(message))
  BY DEF Judged, bytes
<1>2. Len(message) \in Nat /\ DOMAIN message = 1 .. Len(message)
      /\ \A i \in 1 .. Len(message) : message[i] \in Replies \cup Typed
  <2>1. message \in Seq(Replies \cup Typed)
    BY DEF TypeOK
  <2> QED
    BY <2>1, LenProperties, ElementOfSeq
<1>3. \A u \in Replies \cup Typed :
         u \in Seq(Bytes) /\ (IsAnswer(u) \/ IsTyped(u))
  <2>1. \A t \in Typed : IsTyped(t) /\ t \in Seq(Bytes)
    BY TypedAssumption DEF IsTyped
  <2> QED
    BY <2>1, RepliesAssumption, Zenon
<1>4. message \in Seq(Seq(Bytes))
  <2>1. message \in Seq(Replies \cup Typed) /\ Replies \cup Typed \subseteq Seq(Bytes)
    BY <1>3 DEF TypeOK
  <2> QED
    BY <2>1, SeqMonotonic
<1>5. \A i \in 1 .. Len(message) - 1 : message[i] \notin Openers
  BY DEF Ambiguous
<1>6. \A i \in 1 .. Len(message) : IsAnswer(message[i]) \/ IsTyped(message[i])
  BY <1>2, <1>3, Zenon
<1>7. IsTerminalReply(FlattenSeq(message)) <=>
         message # <<>> /\ \A i \in DOMAIN message : IsAnswer(message[i])
  BY <1>4, <1>5, <1>6, PiecesTell
<1> QED
  BY <1>1, <1>7, Zenon

(* Input is held back when all of it has the form of a terminal's answers, one *)
(* or more, and only then, for all answers of the forms terminals have and for *)
(* any keys and text, a browser's f3 with a modifier (which has the form of a  *)
(* cursor report) among them, in messages of any length                        *)
(* (terminal/reply_filter.go).                                                 *)
THEOREM FilterHoldsBackReplies == Spec => []FilterIsExact
<1>1. Init => Judged
  BY DEF Init, Judged
<1>2. Judged /\ [Next]_vars => Judged'
  BY JudgedNext
<1>3. TypeOK /\ Judged => FilterIsExact
  BY JudgedIsExact
<1> QED
  BY <1>1, <1>2, <1>3, TypeCorrect, PTL DEF Spec

(***************************************************************************)
(* The keys                                                                *)
(***************************************************************************)
(* What comes after CSI is what it is given. *)
LEMMA CSIBytes ==
  ASSUME NEW B, NEW rest \in Seq(B)
  PROVE  /\ Len(rest) \in Nat /\ Len(CSI(rest)) = Len(rest) + 2
         /\ CSI(rest)[1] = ESC /\ CSI(rest)[2] = "["
         /\ \A i \in 1 .. Len(rest) : CSI(rest)[i + 2] = rest[i]
<1> DEFINE A == B \cup {ESC, "["}
           s == <<ESC, "[">>
<1>1. rest \in Seq(A) /\ s \in Seq(A) /\ Len(s) = 2 /\ Len(rest) \in Nat
  BY LenProperties
<1>2. /\ Len(s \o rest) = Len(s) + Len(rest)
      /\ \A i \in 1 .. Len(s) + Len(rest) :
            (s \o rest)[i] = IF i <= Len(s) THEN s[i] ELSE rest[i - Len(s)]
  BY <1>1, ConcatProperties
<1>3. s[1] = ESC /\ s[2] = "["
  OBVIOUS
<1>0. CSI(rest) = s \o rest
  BY DEF CSI, ESC
<1> HIDE DEF s
<1>4. Len(s \o rest) = Len(rest) + 2 /\ (s \o rest)[1] = ESC /\ (s \o rest)[2] = "["
  BY <1>1, <1>2, <1>3
<1>5. ASSUME NEW i \in 1 .. Len(rest)
      PROVE  (s \o rest)[i + 2] = rest[i]
  <2>1. i + 2 \in 1 .. 2 + Len(rest) /\ ~(i + 2 <= 2) /\ i + 2 - 2 = i
    BY <1>1
  <2> QED
    BY <1>1, <1>2, <2>1
<1> QED
  BY <1>0, <1>1, <1>4, <1>5

(* The sequences that begin with CSI, written out. *)
LEMMA CSIWrittenOut ==
  ASSUME NEW a, NEW b, NEW c, NEW d
  PROVE  /\ CSI(<<a>>) = <<ESC, "[", a>>
         /\ CSI(<<a, b>>) = <<ESC, "[", a, b>>
         /\ CSI(<<a, b, c>>) = <<ESC, "[", a, b, c>>
         /\ CSI(<<a, b, c, d>>) = <<ESC, "[", a, b, c, d>>
<1> DEFINE B == {ESC, "[", a, b, c, d}
<1>1. ASSUME NEW rest \in Seq(B), NEW s \in Seq(B), Len(s) = Len(rest) + 2,
             s[1] = ESC, s[2] = "[",
             \A i \in 1 .. Len(rest) : s[i + 2] = rest[i]
      PROVE  CSI(rest) = s
  <2> DEFINE t == CSI(rest)
  <2>1. /\ Len(rest) \in Nat /\ Len(t) = Len(rest) + 2
        /\ t[1] = ESC /\ t[2] = "[" /\ \A i \in 1 .. Len(rest) : t[i + 2] = rest[i]
    BY CSIBytes
  <2>2. t \in Seq(B)
    <3>1. <<ESC, "[">> \in Seq(B)
      OBVIOUS
    <3> QED
      BY <3>1, ConcatProperties DEF CSI, ESC
  <2> HIDE DEF t, B
  <2>3. ASSUME NEW i \in 1 .. Len(rest) + 2
        PROVE  t[i] = s[i]
    <3>1. CASE i = 1 \/ i = 2
      BY <1>1, <2>1, <3>1
    <3>2. CASE i # 1 /\ i # 2
      <4>1. PICK j \in 1 .. Len(rest) : i = j + 2
        <5>1. i - 2 \in 1 .. Len(rest) /\ i = (i - 2) + 2
          BY <2>1, <3>2
        <5> QED
          BY <5>1
      <4> QED
        BY <1>1, <2>1, <4>1
    <3> QED
      BY <3>1, <3>2
  <2> QED
    BY <1>1, <2>1, <2>2, <2>3, SeqEqual DEF t
<1>2. CSI(<<a>>) = <<ESC, "[", a>>
  <2> DEFINE r == <<a>>
             s == <<ESC, "[", a>>
  <2>1. r \in Seq(B) /\ s \in Seq(B) /\ Len(s) = Len(r) + 2 /\ s[1] = ESC /\ s[2] = "["
    OBVIOUS
  <2>2. \A i \in 1 .. Len(r) : s[i + 2] = r[i]
    OBVIOUS
  <2> HIDE DEF r, s, B
  <2> QED
    BY <1>1, <2>1, <2>2 DEF r, s
<1>3. CSI(<<a, b>>) = <<ESC, "[", a, b>>
  <2> DEFINE r == <<a, b>>
             s == <<ESC, "[", a, b>>
  <2>1. r \in Seq(B) /\ s \in Seq(B) /\ Len(s) = Len(r) + 2 /\ s[1] = ESC /\ s[2] = "["
    OBVIOUS
  <2>2. \A i \in 1 .. Len(r) : s[i + 2] = r[i]
    OBVIOUS
  <2> HIDE DEF r, s, B
  <2> QED
    BY <1>1, <2>1, <2>2 DEF r, s
<1>4. CSI(<<a, b, c>>) = <<ESC, "[", a, b, c>>
  <2> DEFINE r == <<a, b, c>>
             s == <<ESC, "[", a, b, c>>
  <2>1. r \in Seq(B) /\ s \in Seq(B) /\ Len(s) = Len(r) + 2 /\ s[1] = ESC /\ s[2] = "["
    OBVIOUS
  <2>2. \A i \in 1 .. Len(r) : s[i + 2] = r[i]
    OBVIOUS
  <2> HIDE DEF r, s, B
  <2> QED
    BY <1>1, <2>1, <2>2 DEF r, s
<1>5. CSI(<<a, b, c, d>>) = <<ESC, "[", a, b, c, d>>
  <2> DEFINE r == <<a, b, c, d>>
             s == <<ESC, "[", a, b, c, d>>
  <2>1. r \in Seq(B) /\ s \in Seq(B) /\ Len(s) = Len(r) + 2 /\ s[1] = ESC /\ s[2] = "["
    OBVIOUS
  <2>2. \A i \in 1 .. Len(r) : s[i + 2] = r[i]
    OBVIOUS
  <2> HIDE DEF r, s, B
  <2> QED
    BY <1>1, <2>1, <2>2 DEF r, s
<1> QED
  BY <1>2, <1>3, <1>4, <1>5

(* The forms of the keys without a modifier. *)
One == {<<"enter", "CR">>, <<"backspace", "DEL">>, <<"tab", "TAB">>, <<"esc", "ESC">>,
        <<"space", "SP">>}
Cursor == {<<"up", "A">>, <<"down", "B">>, <<"right", "C">>, <<"left", "D">>,
           <<"home", "H">>, <<"end", "F">>}
Tilde == {<<"pgup", "5">>, <<"pgdown", "6">>, <<"insert", "2">>, <<"delete", "3">>}
FirstFour == {<<"f1", "P">>, <<"f2", "Q">>, <<"f3", "R">>, <<"f4", "S">>}
Functions == {<<"f5", "1", "5">>, <<"f6", "1", "7">>, <<"f7", "1", "8">>, <<"f8", "1", "9">>,
              <<"f9", "2", "0">>, <<"f10", "2", "1">>, <<"f11", "2", "3">>, <<"f12", "2", "4">>}

(* Every key without a modifier has one of them. *)
LEMMA PlainForms ==
  ASSUME NEW n \in DOMAIN Plain
  PROVE  \/ \E x : Plain[n] = <<x>> /\ <<n, x>> \in One
         \/ \E x : Plain[n] = <<ESC, "[", x>> /\ <<n, x>> \in Cursor
         \/ \E x : Plain[n] = <<ESC, "[", x, "~">> /\ <<n, x>> \in Tilde
         \/ \E x : Plain[n] = <<ESC, "O", x>> /\ <<n, x>> \in FirstFour
         \/ \E x, y : Plain[n] = <<ESC, "[", x, y, "~">> /\ <<n, x, y>> \in Functions
<1>1. \A a, b, c : /\ CSI(<<a>>) = <<ESC, "[", a>>
                   /\ CSI(<<a, b>>) = <<ESC, "[", a, b>>
                   /\ CSI(<<a, b, c>>) = <<ESC, "[", a, b, c>>
  BY CSIWrittenOut
<1>2. CASE n \in {"enter", "backspace", "tab", "esc", "space"}
  BY <1>2 DEF Plain, One
<1>3. CASE n \in {"up", "down", "right", "left", "home", "end"}
  BY <1>1, <1>3 DEF Plain, Cursor
<1>4. CASE n \in {"pgup", "pgdown", "insert", "delete"}
  BY <1>1, <1>4 DEF Plain, Tilde
<1>5. CASE n \in {"f1", "f2", "f3", "f4"}
  BY <1>5 DEF Plain, FirstFour, ESC
<1>6. CASE n \in {"f5", "f6", "f7", "f8", "f9", "f10", "f11", "f12"}
  BY <1>1, <1>6 DEF Plain, Functions
<1> QED
  BY <1>2, <1>3, <1>4, <1>5, <1>6 DEF Plain

(* The modifiers of a key are told by one digit. *)
LEMMA ModifierIsDigit ==
  ASSUME NEW m
  PROVE  xtermMod(m) \in 1 .. 8 /\ Digit[xtermMod(m)] \in NumberBytes
<1>1. xtermMod(m) \in 1 .. 8
  BY DEF xtermMod
<1>2. \A i \in 1 .. 8 : i = 1 \/ i = 2 \/ i = 3 \/ i = 4 \/ i = 5 \/ i = 6 \/ i = 7 \/ i = 8
  OBVIOUS
<1>3. /\ Digit[1] = "1" /\ Digit[2] = "2" /\ Digit[3] = "3" /\ Digit[4] = "4"
      /\ Digit[5] = "5" /\ Digit[6] = "6" /\ Digit[7] = "7" /\ Digit[8] = "8"
  BY DEF Digit
<1>4. \A i \in 1 .. 8 : Digit[i] \in NumberBytes
  BY <1>2, <1>3 DEF NumberBytes
<1> QED
  BY <1>1, <1>4, Zenon

(* Different modifiers have different digits. *)
LEMMA ModifiersApart ==
  ASSUME NEW m, NEW p, m \subseteq {"shift", "alt", "ctrl"}, p \subseteq {"shift", "alt", "ctrl"},
         Digit[xtermMod(m)] = Digit[xtermMod(p)]
  PROVE  m = p
<1>1. /\ xtermMod(m) \in 1 .. 8 /\ xtermMod(p) \in 1 .. 8
      /\ xtermMod(m) = xtermMod(p) => /\ "shift" \in m <=> "shift" \in p
                                      /\ "alt" \in m <=> "alt" \in p
                                      /\ "ctrl" \in m <=> "ctrl" \in p
  BY DEF xtermMod
<1>2. \A i, j \in 1 .. 8 : Digit[i] = Digit[j] => i = j
  BY DEF Digit
<1>3. xtermMod(m) = xtermMod(p)
  BY <1>1, <1>2
<1>4. \A x : x \in m <=> x \in p
  <2>1. \A x : x \in m \/ x \in p => x \in {"shift", "alt", "ctrl"}
    OBVIOUS
  <2> QED
    BY <1>1, <1>3, <2>1
<1> QED
  BY <1>4

(* The keys that take modifiers have letters of their own, but for the page    *)
(* keys.                                                                       *)
Lettering == DOMAIN Final \ {"pgup", "pgdown"}

LEMMA FinalApart ==
  /\ \A n, o \in Lettering : Final[n] = Final[o] => n = o
  /\ \A n \in DOMAIN Final : Final[n] \in {"A", "B", "C", "D", "F", "H"}
  /\ DOMAIN Final \subseteq SpecialKeys
  BY DEF Final, Lettering, SpecialKeys, Plain

(* What a key that sends something sends. *)
LEMMA KeyForms ==
  ASSUME NEW k, IsKey(k), keyToBytes(k) # <<>>
  PROVE  \/ /\ k.mods # {} /\ k.name \in DOMAIN Final
            /\ keyToBytes(k) = <<ESC, "[", "1", ";", Digit[xtermMod(k.mods)], Final[k.name]>>
         \/ /\ k.mods = {} /\ k.name \in DOMAIN Plain
            /\ keyToBytes(k) = Plain[k.name]
         \/ /\ k.mods = {"shift"} /\ k.name = "tab"
            /\ keyToBytes(k) = <<ESC, "[", "Z">>
         \/ /\ "ctrl" \in k.mods /\ k.name \in DOMAIN Control
            /\ keyToBytes(k) = <<Control[k.name]>>
         \/ /\ "alt" \in k.mods /\ "ctrl" \notin k.mods /\ k.name \notin SpecialKeys
            /\ k.text = TextOf(k.name) /\ keyToBytes(k) = <<ESC, k.text[1]>>
         \/ /\ k.mods \subseteq {"shift"} /\ k.name \notin SpecialKeys
            /\ k.text = TextOf(k.name) /\ keyToBytes(k) = k.text
<1>0. /\ "tab" \notin DOMAIN Final /\ "tab" \notin DOMAIN Control
      /\ DOMAIN Final \cap DOMAIN Control = {}
  BY DEF Final, Control, LetterCodes
<1>1. CASE k.mods # {} /\ k.name \in DOMAIN Final
  <2>1. k.name # "tab" /\ k.name \notin DOMAIN Control
    BY <1>0, <1>1
  <2>2. keyToBytes(k) = modifiedSpecial(k)
    BY <1>1, <2>1, Zenon DEF keyToBytes
  <2>3. \A c, d : CSI(<<"1", ";", c, d>>) = <<ESC, "[", "1", ";", c, d>>
    BY CSIWrittenOut
  <2>4. keyToBytes(k) = <<ESC, "[", "1", ";", Digit[xtermMod(k.mods)], Final[k.name]>>
    BY <2>2, <2>3, Zenon DEF modifiedSpecial
  <2> QED
    BY <1>1, <2>4
<1>2. CASE k.mods = {} /\ k.name \in DOMAIN Plain
  <2>1. k.mods # {"shift"} /\ "ctrl" \notin k.mods
    BY <1>2
  <2>2. keyToBytes(k) = Plain[k.name]
    BY <1>2, <2>1, Zenon DEF keyToBytes
  <2> QED
    BY <1>2, <2>2
<1>3. CASE k.mods = {"shift"} /\ k.name = "tab"
  <2>1. k.name \notin DOMAIN Final /\ k.mods # {} /\ "ctrl" \notin k.mods
    BY <1>0, <1>3
  <2>2. keyToBytes(k) = CSI(<<"Z">>)
    BY <1>3, <2>1, Zenon DEF keyToBytes
  <2> QED
    BY <1>3, <2>2, CSIWrittenOut
<1>4. CASE "ctrl" \in k.mods /\ k.name \in DOMAIN Control
  <2>1. k.mods # {} /\ k.mods # {"shift"} /\ k.name \notin DOMAIN Final
    BY <1>0, <1>4
  <2>2. keyToBytes(k) = <<Control[k.name]>>
    BY <1>4, <2>1, Zenon DEF keyToBytes
  <2> QED
    BY <1>4, <2>2
<1>5. CASE /\ ~(k.mods # {} /\ k.name \in DOMAIN Final)
           /\ ~(k.mods = {} /\ k.name \in DOMAIN Plain)
           /\ ~(k.mods = {"shift"} /\ k.name = "tab")
           /\ ~("ctrl" \in k.mods /\ k.name \in DOMAIN Control)
  <2>1. keyToBytes(k) = IF "alt" \in k.mods /\ k.text # <<>> THEN <<"ESC">> \o k.text
                        ELSE k.text
    BY <1>5, Zenon DEF keyToBytes
  <2>2. k.text # <<>>
    BY <2>1
  <2>3. k.text = TextOf(k.name) /\ k.name \notin SpecialKeys /\ "ctrl" \notin k.mods
    BY <2>2, Zenon DEF IsKey
  <2>4. \E x : k.text = <<x>>
    BY <2>3 DEF TextOf
  <2>5. <<"ESC">> \o k.text = <<ESC, k.text[1]>>
    <3>1. PICK x : k.text = <<x>>
      BY <2>4
    <3>2. <<ESC>> \o <<x>> = <<ESC, x>>
      <4> DEFINE S == {ESC, x}
                 t == <<ESC>> \o <<x>>
                 u == <<ESC, x>>
      <4>1. t \in Seq(S) /\ Len(t) = 2 /\ t[1] = ESC /\ t[2] = x
        BY ConcatProperties
      <4>2. u \in Seq(S) /\ Len(u) = 2 /\ u[1] = ESC /\ u[2] = x
        OBVIOUS
      <4> HIDE DEF t, u, S
      <4>3. t = u
        BY <4>1, <4>2, SeqEqual
      <4> QED
        BY <4>3 DEF t, u
    <3>3. k.text[1] = x
      BY <3>1
    <3> QED
      BY <3>1, <3>2, <3>3, Zenon DEF ESC
  <2>6. k.mods \subseteq {"shift", "alt", "ctrl"}
    BY DEF IsKey
  <2> QED
    BY <2>1, <2>2, <2>3, <2>5, <2>6
<1> QED
  BY <1>1, <1>2, <1>3, <1>4, <1>5

(* Typed, and not of the form of an answer.                                    *)
IsEntry(s) == IsTyped(s) /\ ~IsAnswer(s)

(* A key that its last byte ends, and that is not the last byte of an answer.  *)
LEMMA ControlKey ==
  ASSUME NEW s \in Seq(Bytes), Len(s) >= 3, s[1] = ESC, s[2] = "[",
         \A i \in 3 .. Len(s) - 1 : s[i] \in NumberBytes,
         s[Len(s)] \in {"A", "B", "C", "D", "F", "H", "Z", "~"}
  PROVE  IsEntry(s)
<1> DEFINE n == Len(s)
<1>1. n \in Nat /\ n >= 3
  BY LenProperties
<1>2. s[n] \notin NonFinal /\ s[n] \notin {"I", "O", "c", "R", "y", "t"}
  BY DEF NonFinal, ESC
<1>3. \A i \in 3 .. n - 1 : s[i] \in NonFinal
  BY DEF NumberBytes, NonFinal
<1> HIDE DEF n
<1>4. \A i \in 3 .. n : i = n \/ i \in 3 .. n - 1
  BY <1>1
<1>5. n \in 3 .. n
  BY <1>1
<1>6. {i \in 3 .. n : s[i] \notin NonFinal} = {n}
  BY <1>2, <1>3, <1>4, <1>5
<1>7. ControlEnds(s) = {n}
  BY <1>6 DEF ControlEnds, n
<1>8. s # <<>> /\ Len(s) >= 3
  BY <1>1, EmptySeq DEF n
<1>9. IsTyped(s)
  BY <1>2, <1>7, <1>8, Zenon DEF IsTyped, n
<1>10. ~IsAnswer(s)
  <2>1. s[2] # "]"
    OBVIOUS
  <2>2. /\ ~FocusChange(s, n) /\ ~DeviceAttributes(s, n) /\ ~CursorPosition(s, n)
        /\ ~ModeState(s, n) /\ ~WindowSize(s, n)
    BY <1>2 DEF FocusChange, DeviceAttributes, CursorPosition, ModeState, WindowSize
  <2> QED
    BY <2>1, <2>2, Zenon DEF IsAnswer, n
<1> QED
  BY <1>9, <1>10 DEF IsEntry

(* What a key sends is one of the forms the filter is told about, and not that *)
(* of an answer.                                                               *)
LEMMA KeyIsTyped ==
  ASSUME NEW k, IsKey(k), keyToBytes(k) \in Seq(Bytes), keyToBytes(k) # <<>>
  PROVE  IsEntry(keyToBytes(k))
<1> DEFINE s == keyToBytes(k)
<1> HIDE DEF s
<1>0. s \in Seq(Bytes) /\ s # <<>>
  BY DEF s
<1>1. ASSUME NEW d \in NumberBytes, NEW f \in {"A", "B", "C", "D", "F", "H"},
             s = <<ESC, "[", "1", ";", d, f>>
      PROVE  IsEntry(s)
  <2>1. "1" \in NumberBytes /\ ";" \in NumberBytes
    BY DEF NumberBytes
  <2>2. Len(s) = 6 /\ s[1] = ESC /\ s[2] = "[" /\ s[6] = f
    BY <1>1
  <2>3. s[3] = "1" /\ s[4] = ";" /\ s[5] = d
    BY <1>1
  <2>4. \A i \in 3 .. Len(s) - 1 : i = 3 \/ i = 4 \/ i = 5
    BY <2>2
  <2>5. \A i \in 3 .. Len(s) - 1 : s[i] \in NumberBytes
    BY <2>1, <2>3, <2>4, Zenon
  <2>6. Len(s) >= 3
    BY <2>2
  <2>7. s[Len(s)] \in {"A", "B", "C", "D", "F", "H", "Z", "~"}
    <3>1. f \in {"A", "B", "C", "D", "F", "H", "Z", "~"}
      OBVIOUS
    <3> QED
      BY <2>2, <3>1, Zenon
  <2> QED
    BY <1>0, <2>2, <2>5, <2>6, <2>7, ControlKey, Zenon
<1>2. ASSUME NEW x \in NumberBytes, NEW y \in NumberBytes, s = <<ESC, "[", x, y, "~">>
      PROVE  IsEntry(s)
  <2>1. Len(s) = 5 /\ s[1] = ESC /\ s[2] = "[" /\ s[5] = "~"
    BY <1>2
  <2>2. s[3] = x /\ s[4] = y
    BY <1>2
  <2>3. \A i \in 3 .. Len(s) - 1 : i = 3 \/ i = 4
    BY <2>1
  <2>4. \A i \in 3 .. Len(s) - 1 : s[i] \in NumberBytes
    BY <2>2, <2>3, Zenon
  <2>5. Len(s) >= 3 /\ s[Len(s)] \in {"A", "B", "C", "D", "F", "H", "Z", "~"}
    BY <2>1
  <2> QED
    BY <1>0, <2>1, <2>4, <2>5, ControlKey, Zenon
<1>3. ASSUME NEW x \in NumberBytes, s = <<ESC, "[", x, "~">>
      PROVE  IsEntry(s)
  <2>1. Len(s) = 4 /\ s[1] = ESC /\ s[2] = "[" /\ s[4] = "~"
    BY <1>3
  <2>2. s[3] = x /\ \A i \in 3 .. Len(s) - 1 : i = 3
    BY <1>3
  <2>3. \A i \in 3 .. Len(s) - 1 : s[i] \in NumberBytes
    BY <2>2, Zenon
  <2>4. Len(s) >= 3 /\ s[Len(s)] \in {"A", "B", "C", "D", "F", "H", "Z", "~"}
    BY <2>1
  <2> QED
    BY <1>0, <2>1, <2>3, <2>4, ControlKey, Zenon
<1>4. ASSUME NEW f \in {"A", "B", "C", "D", "F", "H", "Z"}, s = <<ESC, "[", f>>
      PROVE  IsEntry(s)
  <2>1. Len(s) = 3 /\ s[1] = ESC /\ s[2] = "[" /\ s[3] = f
    BY <1>4
  <2>2. \A i \in 3 .. Len(s) - 1 : s[i] \in NumberBytes
    BY <2>1
  <2>3. Len(s) >= 3 /\ s[Len(s)] \in {"A", "B", "C", "D", "F", "H", "Z", "~"}
    BY <1>4, <2>1
  <2> QED
    BY <1>0, <2>1, <2>2, <2>3, ControlKey, Zenon
<1>5. ASSUME NEW x, s = <<ESC, "O", x>>
      PROVE  IsEntry(s)
  <2>1. Len(s) >= 2 /\ s[2] \notin Introducers /\ s[2] # "[" /\ s[2] # "]"
    BY <1>5 DEF Introducers, StringIntroducers
  <2> QED
    BY <1>0, <2>1, Zenon DEF IsEntry, IsTyped, IsAnswer
<1>6. ASSUME NEW x, s = <<x>>
      PROVE  IsEntry(s)
  <2>1. /\ s[1] # ESC \/ s \in Openers
        /\ ~(Len(s) >= 3)
    BY <1>6 DEF Openers
  <2> QED
    BY <1>0, <2>1, Zenon DEF IsEntry, IsTyped, IsAnswer
<1>7. ASSUME NEW x, s = <<ESC, x>>
      PROVE  IsEntry(s)
  <2>1. Len(s) >= 2 /\ s[2] = x /\ ~(Len(s) >= 3)
    BY <1>7
  <2>2. x \in Introducers => s \in Openers
    BY <1>7, Zenon DEF Openers
  <2> QED
    BY <1>0, <2>1, <2>2, Zenon DEF IsEntry, IsTyped, IsAnswer
<1>8. ASSUME k.mods = {}, k.name \in DOMAIN Plain, s = Plain[k.name]
      PROVE  IsEntry(s)
  <2> DEFINE n == k.name
  <2>1. CASE \E x : s = <<x>>
    BY <1>6, <2>1
  <2>2. CASE \E x : s = <<ESC, "[", x>> /\ <<n, x>> \in Cursor
    BY <1>4, <2>2 DEF Cursor
  <2>3. CASE \E x : s = <<ESC, "[", x, "~">> /\ <<n, x>> \in Tilde
    BY <1>3, <2>3 DEF Tilde, NumberBytes
  <2>4. CASE \E x : s = <<ESC, "O", x>>
    BY <1>5, <2>4
  <2>5. CASE \E x, y : s = <<ESC, "[", x, y, "~">> /\ <<n, x, y>> \in Functions
    BY <1>2, <2>5 DEF Functions, NumberBytes
  <2> QED
    BY <1>8, <2>1, <2>2, <2>3, <2>4, <2>5, PlainForms, Zenon
<1>9. CASE /\ k.name \in DOMAIN Final
           /\ s = <<ESC, "[", "1", ";", Digit[xtermMod(k.mods)], Final[k.name]>>
  <2>1. PICK f \in {"A", "B", "C", "D", "F", "H"} : f = Final[k.name]
    BY <1>9, FinalApart
  <2>2. PICK d \in NumberBytes : d = Digit[xtermMod(k.mods)]
    BY ModifierIsDigit, Zenon
  <2>3. s = <<ESC, "[", "1", ";", d, f>>
    BY <1>9, <2>1, <2>2, Zenon
  <2> QED
    BY <1>1, <2>3 DEF s
<1>10. CASE k.text = TextOf(k.name) /\ s = k.text
  <2>1. s = <<"SP">> \/ s = <<k.name>>
    <3>1. CASE k.name = "space"
      BY <1>10, <3>1, Zenon DEF TextOf
    <3>2. CASE k.name # "space"
      BY <1>10, <3>2, Zenon DEF TextOf
    <3> QED
      BY <3>1, <3>2
  <2> QED
    BY <1>6, <2>1 DEF s
<1>11. s = <<ESC, "[", "Z">> => IsEntry(s)
  <2>1. "Z" \in {"A", "B", "C", "D", "F", "H", "Z"}
    OBVIOUS
  <2> QED
    BY <1>4, <2>1, Zenon
<1> QED
  BY <1>6, <1>7, <1>8, <1>9, <1>10, <1>11, KeyForms, Zenon DEF s

(* The control characters, letters and the rest. *)
LEMMA ControlTable ==
  ASSUME NEW c \in DOMAIN Control
  PROVE  \/ c \in DOMAIN LetterCodes /\ Control[c] = LetterCodes[c]
         \/ c = "[" /\ Control[c] = "ESC"
         \/ c = "\\" /\ Control[c] = "^\\"
         \/ c = "]" /\ Control[c] = "^]"
         \/ c = "^" /\ Control[c] = "^^"
         \/ c = "_" /\ Control[c] = "^_"
<1>1. /\ "[" \notin DOMAIN LetterCodes /\ "\\" \notin DOMAIN LetterCodes
      /\ "]" \notin DOMAIN LetterCodes /\ "^" \notin DOMAIN LetterCodes
      /\ "_" \notin DOMAIN LetterCodes
  BY DEF LetterCodes
<1> QED
  BY <1>1 DEF Control

(* No two letters have one control character. *)
LEMMA LettersApart ==
  /\ \A c, d \in DOMAIN LetterCodes : LetterCodes[c] = LetterCodes[d] => c = d
  /\ \A c \in DOMAIN LetterCodes :
        /\ LetterCodes[c] \notin {"ESC", "^\\", "^]", "^^", "^_", "DEL", "SP"}
        /\ LetterCodes[c] = "TAB" => c = "i"
        /\ LetterCodes[c] = "CR" => c = "m"
  BY DEF LetterCodes

(* Nor have any two characters; those with a key of their own are three. *)
LEMMA ControlsApart ==
  /\ \A c, d \in DOMAIN Control : Control[c] = Control[d] => c = d
  /\ \A c \in DOMAIN Control :
        /\ Control[c] \notin {"DEL", "SP"}
        /\ Control[c] = "ESC" => c = "["
        /\ Control[c] = "TAB" => c = "i"
        /\ Control[c] = "CR" => c = "m"
  BY ControlTable, LettersApart

(* How a program reads a single byte, and what is longer. *)
ControlCode(n) ==
    IF n = "i" THEN <<"tab", {}>> ELSE IF n = "m" THEN <<"enter", {}>>
    ELSE IF n = "[" THEN <<"esc", {}>> ELSE <<n, {"ctrl"}>>

Named(x, c) == \E n : <<n, x>> \in One /\ c = <<n, {}>>
Controlled(x, c) == \E n \in DOMAIN Control : x = Control[n] /\ c = ControlCode(n)
Lettered(x, n) == x = TextOf(n)[1] /\ n \notin ByteNames

ByteCode(s, c) ==
    \E x : s = <<x>> /\ (Named(x, c) \/ Controlled(x, c)
                             \/ \E n : Lettered(x, n) /\ c = <<n, {}>>)
AltCode(s, c) == \E x, n : s = <<ESC, x>> /\ Lettered(x, n) /\ c = <<n, {"alt"}>>
ShortCode(s, c) ==
    \/ \E x, n : s = <<ESC, "[", x>> /\ <<n, x>> \in Cursor /\ c = <<n, {}>>
    \/ s = <<ESC, "[", "Z">> /\ c = <<"tab", {"shift"}>>
    \/ \E x, n : s = <<ESC, "O", x>> /\ <<n, x>> \in FirstFour /\ c = <<n, {}>>
TildeCode(s, c) ==
    \E x, n : s = <<ESC, "[", x, "~">> /\ <<n, x>> \in Tilde /\ c = <<n, {}>>
FunctionCode(s, c) ==
    \E x, y, n : s = <<ESC, "[", x, y, "~">> /\ <<n, x, y>> \in Functions /\ c = <<n, {}>>
ModifiedCode(s, c) ==
    \E m \in SUBSET {"shift", "alt", "ctrl"}, n \in Lettering :
        /\ s = <<ESC, "[", "1", ";", Digit[xtermMod(m)], Final[n]>>
        /\ c = <<n, m>>

Code(s, c) ==
    \/ ByteCode(s, c) \/ AltCode(s, c) \/ ShortCode(s, c) \/ TildeCode(s, c)
    \/ FunctionCode(s, c) \/ ModifiedCode(s, c)

(* A character names one key. *)
LEMMA LettersAreNames ==
  ASSUME NEW x, NEW n, NEW o, Lettered(x, n), Lettered(x, o)
  PROVE  n = o
<1>1. "SP" \in ByteNames
  BY DEF ByteNames
<1>2. TextOf("space")[1] = "SP" /\ \A p : p # "space" => TextOf(p)[1] = p
  BY DEF TextOf
<1>3. x = (IF n = "space" THEN "SP" ELSE n) /\ x = (IF o = "space" THEN "SP" ELSE o)
  BY <1>2 DEF Lettered
<1> QED
  BY <1>1, <1>3 DEF Lettered

(* A character is no control character. *)
LEMMA LetteredIsNoControl ==
  ASSUME NEW x, NEW n, Lettered(x, n)
  PROVE  /\ x \notin {Control[c] : c \in DOMAIN Control}
         /\ x # "DEL" /\ (x = "SP" => n = "space")
<1>1. x = IF n = "space" THEN "SP" ELSE n
  BY DEF Lettered, TextOf
<1>2. n \notin {Control[c] : c \in DOMAIN Control} /\ n # "DEL" /\ n # "SP"
  BY DEF Lettered, ByteNames
<1>3. "SP" \notin {Control[c] : c \in DOMAIN Control}
  BY ControlsApart
<1> QED
  BY <1>1, <1>2, <1>3

(* A single byte is read in one way. *)
LEMMA ByteCodesApart ==
  ASSUME NEW s, NEW c, NEW d, ByteCode(s, c), ByteCode(s, d)
  PROVE  c = d
<1>1. PICK x : /\ Named(x, c) \/ Controlled(x, c) \/ \E n : Lettered(x, n) /\ c = <<n, {}>>
               /\ Named(x, d) \/ Controlled(x, d) \/ \E n : Lettered(x, n) /\ d = <<n, {}>>
  <2>1. PICK x : s = <<x>> /\ (Named(x, c) \/ Controlled(x, c)
                             \/ \E n : Lettered(x, n) /\ c = <<n, {}>>)
    BY Zenon DEF ByteCode
  <2>2. PICK y : s = <<y>> /\ (Named(y, d) \/ Controlled(y, d)
                             \/ \E n : Lettered(y, n) /\ d = <<n, {}>>)
    BY Zenon DEF ByteCode
  <2>3. x = y
    BY <2>1, <2>2
  <2> QED
    BY <2>1, <2>2, <2>3, Zenon
<1>2. ASSUME NEW a, NEW b, Named(x, a), Named(x, b)
      PROVE  a = b
  BY <1>2 DEF Named, One
<1>3. ASSUME NEW a, NEW b, Controlled(x, a), Controlled(x, b)
      PROVE  a = b
  BY <1>3, ControlsApart, Zenon DEF Controlled
<1>4. ASSUME NEW a, NEW b, Named(x, a), Controlled(x, b)
      PROVE  a = b
  <2>1. PICK n \in DOMAIN Control : x = Control[n] /\ b = ControlCode(n)
    BY <1>4 DEF Controlled
  <2>2. \/ x = "CR" /\ a = <<"enter", {}>> /\ n = "m"
        \/ x = "TAB" /\ a = <<"tab", {}>> /\ n = "i"
        \/ x = "ESC" /\ a = <<"esc", {}>> /\ n = "["
    <3>1. \/ x = "CR" /\ a = <<"enter", {}>>
          \/ x = "TAB" /\ a = <<"tab", {}>>
          \/ x = "ESC" /\ a = <<"esc", {}>>
          \/ x = "DEL" \/ x = "SP"
      BY <1>4 DEF Named, One
    <3> QED
      BY <2>1, <3>1, ControlsApart
  <2> QED
    BY <2>1, <2>2 DEF ControlCode
<1>5. ASSUME NEW a, NEW n, Named(x, a), Lettered(x, n)
      PROVE  a = <<n, {}>>
  <2>1. \/ x \in {"CR", "TAB", "ESC"}
        \/ x = "DEL"
        \/ x = "SP" /\ a = <<"space", {}>>
    BY <1>5 DEF Named, One
  <2>2. \A y \in {"CR", "TAB", "ESC"} : y \in {Control[e] : e \in DOMAIN Control}
    <3>1. /\ "m" \in DOMAIN Control /\ Control["m"] = "CR"
          /\ "i" \in DOMAIN Control /\ Control["i"] = "TAB"
          /\ "[" \in DOMAIN Control /\ Control["["] = "ESC"
      <4>1. "m" \in DOMAIN LetterCodes /\ "i" \in DOMAIN LetterCodes /\ "[" \notin DOMAIN LetterCodes
            /\ LetterCodes["m"] = "CR" /\ LetterCodes["i"] = "TAB"
        BY DEF LetterCodes
      <4> QED
        BY <4>1 DEF Control
    <3> QED
      BY <3>1
  <2> QED
    BY <1>5, <2>1, <2>2, LetteredIsNoControl
<1>6. ASSUME NEW a, NEW n, Controlled(x, a), Lettered(x, n)
      PROVE  FALSE
  BY <1>6, LetteredIsNoControl DEF Controlled
<1>7. CASE Named(x, c)
  BY <1>1, <1>2, <1>4, <1>5, <1>7, Zenon
<1>8. CASE Controlled(x, c)
  BY <1>1, <1>3, <1>4, <1>6, <1>8, Zenon
<1>9. CASE \E n : Lettered(x, n) /\ c = <<n, {}>>
  <2>1. PICK n : Lettered(x, n) /\ c = <<n, {}>>
    BY <1>9
  <2>2. Named(x, d) => c = d
    BY <1>5, <2>1, Zenon
  <2>3. ~Controlled(x, d)
    BY <1>6, <2>1, Zenon
  <2>4. ASSUME NEW o, Lettered(x, o), d = <<o, {}>>
        PROVE  c = d
    <3>1. n = o
      BY <2>1, <2>4, LettersAreNames, Zenon
    <3> QED
      BY <2>1, <2>4, <3>1, Zenon
  <2> QED
    BY <1>1, <2>2, <2>3, <2>4, Zenon
<1> QED
  BY <1>1, <1>7, <1>8, <1>9

(* The bytes tell the code. *)
LEMMA CodesApart ==
  ASSUME NEW s, NEW c, NEW d, Code(s, c), Code(s, d)
  PROVE  c = d
<1>1. ASSUME NEW a
      PROVE  /\ ByteCode(s, a) => Len(s) = 1
             /\ AltCode(s, a) => Len(s) = 2
             /\ ShortCode(s, a) => Len(s) = 3
             /\ TildeCode(s, a) => Len(s) = 4
             /\ FunctionCode(s, a) => Len(s) = 5
             /\ ModifiedCode(s, a) => Len(s) = 6
  <2>1. ByteCode(s, a) => Len(s) = 1
    <3> SUFFICES ASSUME NEW x, s = <<x>>
                 PROVE  Len(s) = 1
      BY Zenon DEF ByteCode
    <3> QED
      OBVIOUS
  <2>2. AltCode(s, a) => Len(s) = 2
    BY DEF AltCode
  <2>3. ShortCode(s, a) => Len(s) = 3
    <3> SUFFICES ASSUME NEW u, NEW v, s = <<ESC, u, v>>
                 PROVE  Len(s) = 3
      BY Zenon DEF ShortCode
    <3> QED
      OBVIOUS
  <2>4. TildeCode(s, a) => Len(s) = 4
    BY DEF TildeCode
  <2>5. FunctionCode(s, a) => Len(s) = 5
    BY DEF FunctionCode
  <2>6. ModifiedCode(s, a) => Len(s) = 6
    <3> SUFFICES ASSUME NEW u, NEW v, s = <<ESC, "[", "1", ";", u, v>>
                 PROVE  Len(s) = 6
      BY Zenon DEF ModifiedCode
    <3> QED
      OBVIOUS
  <2> QED
    BY <2>1, <2>2, <2>3, <2>4, <2>5, <2>6
<1>2. AltCode(s, c) /\ AltCode(s, d) => c = d
  <2> SUFFICES ASSUME AltCode(s, c), AltCode(s, d)
               PROVE  c = d
    OBVIOUS
  <2>1. PICK x, n : s = <<ESC, x>> /\ Lettered(x, n) /\ c = <<n, {"alt"}>>
    BY DEF AltCode
  <2>2. PICK y, o : s = <<ESC, y>> /\ Lettered(y, o) /\ d = <<o, {"alt"}>>
    BY DEF AltCode
  <2>3. x = y
    BY <2>1, <2>2
  <2>4. n = o
    BY <2>1, <2>2, <2>3, LettersAreNames, Zenon
  <2> QED
    BY <2>1, <2>2, <2>4
<1>3. ShortCode(s, c) /\ ShortCode(s, d) => c = d
  BY DEF ShortCode, Cursor, FirstFour
<1>4. TildeCode(s, c) /\ TildeCode(s, d) => c = d
  BY DEF TildeCode, Tilde
<1>5. FunctionCode(s, c) /\ FunctionCode(s, d) => c = d
  BY DEF FunctionCode, Functions
<1>6. ModifiedCode(s, c) /\ ModifiedCode(s, d) => c = d
  <2> SUFFICES ASSUME ModifiedCode(s, c), ModifiedCode(s, d)
               PROVE  c = d
    OBVIOUS
  <2>1. PICK m \in SUBSET {"shift", "alt", "ctrl"}, n \in Lettering :
           /\ s = <<ESC, "[", "1", ";", Digit[xtermMod(m)], Final[n]>>
           /\ c = <<n, m>>
    BY DEF ModifiedCode
  <2>2. PICK p \in SUBSET {"shift", "alt", "ctrl"}, o \in Lettering :
           /\ s = <<ESC, "[", "1", ";", Digit[xtermMod(p)], Final[o]>>
           /\ d = <<o, p>>
    BY DEF ModifiedCode
  <2>3. Digit[xtermMod(m)] = Digit[xtermMod(p)] /\ Final[n] = Final[o]
    <3>1. ASSUME NEW u, NEW v, s = <<ESC, "[", "1", ";", u, v>>
          PROVE  s[5] = u /\ s[6] = v
      BY <3>1
    <3>2. s[5] = Digit[xtermMod(m)] /\ s[6] = Final[n]
      BY <2>1, <3>1, Zenon
    <3>3. s[5] = Digit[xtermMod(p)] /\ s[6] = Final[o]
      BY <2>2, <3>1, Zenon
    <3> QED
      BY <3>2, <3>3, Zenon
  <2>4. m = p
    BY <2>3, ModifiersApart
  <2>5. n = o
    BY <2>3, FinalApart
  <2> QED
    BY <2>1, <2>2, <2>4, <2>5
<1> QED
  BY <1>1, <1>2, <1>3, <1>4, <1>5, <1>6, ByteCodesApart DEF Code

(* What is left of a key is what its bytes tell. *)
LEMMA KeyIsRead ==
  ASSUME NEW k, IsKey(k), keyToBytes(k) # <<>>, ~ModifiedPage(k)
  PROVE  Code(keyToBytes(k), OneCode(k))
<1> DEFINE s == keyToBytes(k)
           n == k.name
<1>0. /\ k.mods \subseteq {"shift", "alt", "ctrl"}
      /\ k.name \in SpecialKeys => k.text = <<>>
      /\ "ctrl" \in k.mods => k.text = <<>>
      /\ k.name \notin SpecialKeys => k.name \notin ByteNames
  BY DEF IsKey
<1>1. /\ DOMAIN Final \cap DOMAIN Control = {} /\ "tab" \notin DOMAIN Control
      /\ "tab" \in SpecialKeys /\ "tab" \notin {"i", "m", "["}
      /\ DOMAIN Final \cap {"i", "m", "["} = {}
  BY DEF Final, Control, LetterCodes, SpecialKeys, Plain
<1>2. ASSUME k.mods # {}, n \in DOMAIN Final,
             s = <<ESC, "[", "1", ";", Digit[xtermMod(k.mods)], Final[n]>>
      PROVE  Code(s, OneCode(k))
  <2>1. n \notin DOMAIN Control /\ k.text = <<>> /\ n # "i" /\ n # "m" /\ n # "["
    BY <1>0, <1>1, <1>2, FinalApart
  <2>2. OneCode(k) = <<n, k.mods>>
    BY <2>1, Zenon DEF OneCode
  <2>3. n \in Lettering
    BY <1>2 DEF ModifiedPage, Lettering
  <2>4. ModifiedCode(s, OneCode(k))
    BY <1>0, <1>2, <2>2, <2>3 DEF ModifiedCode
  <2> QED
    BY <2>4 DEF Code
<1>3. ASSUME k.mods = {}, n \in DOMAIN Plain, s = Plain[n]
      PROVE  Code(s, OneCode(k))
  <2>1. OneCode(k) = <<n, {}>>
    <3>1. "ctrl" \notin k.mods /\ k.mods \ {"shift"} = {}
      BY <1>3
    <3>2. CASE k.text # <<>>
      BY <1>3, <3>1, <3>2, Zenon DEF OneCode
    <3>3. CASE k.text = <<>>
      BY <1>3, <3>1, <3>3, Zenon DEF OneCode
    <3> QED
      BY <3>2, <3>3
  <2> HIDE DEF s, n
  <2>2. CASE \E x : s = <<x>> /\ <<n, x>> \in One
    BY <2>1, <2>2, Zenon DEF Code, ByteCode, Named
  <2>3. CASE \E x : s = <<ESC, "[", x>> /\ <<n, x>> \in Cursor
    BY <2>1, <2>3, Zenon DEF Code, ShortCode
  <2>4. CASE \E x : s = <<ESC, "[", x, "~">> /\ <<n, x>> \in Tilde
    BY <2>1, <2>4, Zenon DEF Code, TildeCode
  <2>5. CASE \E x : s = <<ESC, "O", x>> /\ <<n, x>> \in FirstFour
    BY <2>1, <2>5, Zenon DEF Code, ShortCode
  <2>6. CASE \E x, y : s = <<ESC, "[", x, y, "~">> /\ <<n, x, y>> \in Functions
    BY <2>1, <2>6, Zenon DEF Code, FunctionCode
  <2> QED
    BY <1>3, <2>2, <2>3, <2>4, <2>5, <2>6, PlainForms, Zenon
<1>4. ASSUME k.mods = {"shift"}, n = "tab", s = <<ESC, "[", "Z">>
      PROVE  Code(s, OneCode(k))
  <2>1. "ctrl" \notin k.mods /\ k.text = <<>>
    BY <1>0, <1>1, <1>4
  <2>2. OneCode(k) = <<"tab", {"shift"}>>
    BY <1>4, <2>1, Zenon DEF OneCode
  <2> QED
    BY <1>4, <2>2, Zenon DEF Code, ShortCode
<1>5. ASSUME "ctrl" \in k.mods, n \in DOMAIN Control, s = <<Control[n]>>
      PROVE  Code(s, OneCode(k))
  <2>1. k.text = <<>>
    BY <1>0, <1>5
  <2>2. OneCode(k) = ControlCode(n)
    <3>0. "i" # "m" /\ "i" # "[" /\ "m" # "["
      OBVIOUS
    <3>1. CASE n = "i"
      BY <1>5, <2>1, <3>0, <3>1, Zenon DEF OneCode, ControlCode
    <3>2. CASE n = "m"
      BY <1>5, <2>1, <3>0, <3>2, Zenon DEF OneCode, ControlCode
    <3>3. CASE n = "["
      BY <1>5, <2>1, <3>0, <3>3, Zenon DEF OneCode, ControlCode
    <3>4. CASE n \notin {"i", "m", "["}
      <4>1. n # "i" /\ n # "m" /\ n # "[" /\ n \in DOMAIN Control \ {"i", "m", "["}
        BY <1>5, <3>4
      <4> QED
        BY <1>5, <2>1, <4>1, Zenon DEF OneCode, ControlCode
    <3> QED
      BY <3>1, <3>2, <3>3, <3>4
  <2>3. Controlled(Control[n], OneCode(k))
    BY <1>5, <2>2 DEF Controlled
  <2> QED
    BY <1>5, <2>3, Zenon DEF Code, ByteCode
<1>6. ASSUME k.text = TextOf(n), n \notin SpecialKeys, "ctrl" \notin k.mods
      PROVE  /\ OneCode(k) = <<n, k.mods \ {"shift"}>>
             /\ k.text = <<k.text[1]>> /\ Lettered(k.text[1], n)
  <2>1. k.text # <<>> /\ k.text = <<k.text[1]>>
    BY <1>6 DEF TextOf
  <2>3. OneCode(k) = <<n, k.mods \ {"shift"}>>
    BY <1>6, <2>1, Zenon DEF OneCode
  <2>4. Lettered(k.text[1], n)
    BY <1>0, <1>6 DEF Lettered
  <2> QED
    BY <2>1, <2>3, <2>4
<1>7. ASSUME "alt" \in k.mods, "ctrl" \notin k.mods, n \notin SpecialKeys,
             k.text = TextOf(n), s = <<ESC, k.text[1]>>
      PROVE  Code(s, OneCode(k))
  <2>1. k.mods \ {"shift"} = {"alt"}
    BY <1>0, <1>7
  <2>2. OneCode(k) = <<n, {"alt"}>> /\ Lettered(k.text[1], n)
    BY <1>6, <1>7, <2>1, Zenon
  <2> QED
    BY <1>7, <2>2, Zenon DEF Code, AltCode
<1>8. ASSUME k.mods \subseteq {"shift"}, n \notin SpecialKeys,
             k.text = TextOf(n), s = k.text
      PROVE  Code(s, OneCode(k))
  <2>1. k.mods \ {"shift"} = {} /\ "ctrl" \notin k.mods
    BY <1>8
  <2>2. OneCode(k) = <<n, {}>> /\ Lettered(k.text[1], n) /\ s = <<k.text[1]>>
    BY <1>6, <1>8, <2>1, Zenon
  <2> QED
    BY <2>2, Zenon DEF Code, ByteCode
<1> HIDE DEF s
<1> QED
  BY <1>2, <1>3, <1>4, <1>5, <1>7, <1>8, KeyForms, Zenon DEF s

(* Two keys send the same bytes only where they are one code, page keys with a *)
(* modifier aside.                                                             *)
LEMMA KeysApart ==
  ASSUME NEW k, NEW o, IsKey(k), IsKey(o), keyToBytes(o) = keyToBytes(k),
         keyToBytes(k) # <<>>, ~ModifiedPage(k), ~ModifiedPage(o)
  PROVE  OneCode(o) = OneCode(k)
<1>1. Code(keyToBytes(k), OneCode(k)) /\ Code(keyToBytes(k), OneCode(o))
  <2>1. keyToBytes(o) # <<>>
    OBVIOUS
  <2>2. Code(keyToBytes(o), OneCode(o))
    BY <2>1, KeyIsRead
  <2> QED
    BY <2>2, KeyIsRead
<1> QED
  BY <1>1, CodesApart

(* No key alone is taken for an answer. *)
LEMMA KeyIsNoReply ==
  ASSUME NEW k, IsKey(k), keyToBytes(k) \in Seq(Bytes), keyToBytes(k) # <<>>
  PROVE  ~IsTerminalReply(keyToBytes(k))
<1> DEFINE s == keyToBytes(k)
           m == <<s>>
<1>1. s \in Seq(Bytes) /\ IsTyped(s) /\ ~IsAnswer(s)
  BY KeyIsTyped DEF IsEntry
<1> HIDE DEF s
<1>2. m \in Seq(Seq(Bytes)) /\ Len(m) = 1 /\ m[1] = s /\ DOMAIN m = 1 .. 1
  BY <1>1
<1> HIDE DEF m
<1>3. FlattenSeq(m) = s
  <2>1. PICK R \in [0 .. Len(m) -> Seq(Bytes)] :
           /\ R[0] = FlattenSeq(m) /\ R[Len(m)] = <<>>
           /\ \A i \in 1 .. Len(m) : R[i - 1] = m[i] \o R[i]
    BY <1>2, Remainders
  <2>2. 1 \in 1 .. Len(m) /\ 1 - 1 = 0 /\ R[1] = <<>>
    BY <1>2, <2>1
  <2>3. R[0] = s \o <<>>
    BY <1>2, <2>1, <2>2, Zenon
  <2> QED
    BY <1>1, <2>1, <2>3, ConcatEmptySeq
<1>4. /\ \A i \in 1 .. Len(m) : IsAnswer(m[i]) \/ IsTyped(m[i])
      /\ \A i \in 1 .. Len(m) - 1 : m[i] \notin Openers
  BY <1>1, <1>2
<1>5. ~(\A i \in DOMAIN m : IsAnswer(m[i]))
  BY <1>1, <1>2
<1>6. ~IsTerminalReply(FlattenSeq(m))
  BY <1>2, <1>4, <1>5, PiecesTell
<1> QED
  BY <1>3, <1>6 DEF s

(* A key is pressed between two requests, and only its bytes are filtered.     *)
KeyInv ==
    /\ stage # "answered" => pressed = {}
    /\ stage = "idle" => outcome = "none"
    /\ \A k \in pressed : outcome = "filtered" =>
          keyToBytes(k) # <<>> /\ IsTerminalReply(keyToBytes(k))

(* Only Press makes a key pressed, and nothing happens to it until Done. *)
LEMMA KeyInvNext ==
  ASSUME RunInv, KeyInv, [Next]_vars
  PROVE  KeyInv'
<1> USE DEF KeyInv
<1>1. ASSUME UNCHANGED <<pressed, outcome>>, stage' # "idle" \/ stage = "idle",
             stage = "answered" => stage' = "answered"
      PROVE  KeyInv'
  BY <1>1
<1>2. ASSUME stage # "answered", UNCHANGED pressed, stage' # "idle"
      PROVE  KeyInv'
  BY <1>2
<1>3. ASSUME NEW k \in Keys, NEW alive \in BOOLEAN, Press(k, alive)
      PROVE  KeyInv'
  <2>1. /\ stage' = "answered" /\ pressed' = {k} /\ outcome = "none"
        /\ IF keyToBytes(k) = <<>> THEN UNCHANGED outcome ELSE PassOn(keyToBytes(k), alive)
    BY <1>3 DEF Press, Answer
  <2>2. outcome' = "filtered" => keyToBytes(k) # <<>> /\ IsTerminalReply(keyToBytes(k))
    <3>1. CASE keyToBytes(k) = <<>>
      BY <2>1, <3>1
    <3>2. CASE keyToBytes(k) # <<>>
      <4>1. outcome' = IF IsTerminalReply(keyToBytes(k)) THEN "filtered"
                       ELSE IF alive THEN "written" ELSE "failed"
        BY <2>1, <3>2, Zenon DEF PassOn
      <4> QED
        BY <3>2, <4>1
    <3> QED
      BY <3>1, <3>2
  <2> QED
    BY <2>1, <2>2, Zenon
<1>4. CASE Dispatch
  <2>1. stage = "admitted" /\ stage' \in {by.path, "answered"} /\ UNCHANGED pressed
    BY <1>4 DEF Dispatch, Answer
  <2>2. by.path # "idle"
    BY DEF RunInv, CallInv
  <2> QED
    BY <1>2, <2>1, <2>2
<1>5. CASE Done
  BY <1>5 DEF Done
<1>6. CASE Start \/ UNCHANGED vars
  BY <1>1, <1>6 DEF Start, vars, requestVars
<1>7. ASSUME NEW r \in AllRequests, NEW here \in BOOLEAN, Request(r, here)
      PROVE  KeyInv'
  BY <1>2, <1>7 DEF Request
<1>8. ASSUME NEW alive \in BOOLEAN, WsInput(alive) \/ Paste(alive)
      PROVE  KeyInv'
  BY <1>2, <1>8 DEF WsInput, Paste, Answer
<1>9. ASSUME NEW u \in Replies \cup Typed, Compose(u)
      PROVE  KeyInv'
  BY <1>2, <1>9 DEF Compose
<1>10. CASE WsNext \/ WsClose \/ StartPaste \/ RunAnswer
  BY <1>2, <1>10 DEF WsNext, WsClose, StartPaste, RunAnswer, Answer
<1>11. ASSUME NEW found \in BOOLEAN, NEW json \in BOOLEAN, NEW alive \in BOOLEAN,
              HandleInput(found, json, alive)
       PROVE  KeyInv'
  BY <1>2, <1>11 DEF HandleInput, Answer
<1>12. ASSUME NEW q \in Asks, NEW starts \in BOOLEAN, HandleRun(q, starts)
       PROVE  KeyInv'
  BY <1>2, <1>12 DEF HandleRun, Answer
<1>13. CASE During(RunNext)
  BY <1>1, <1>13 DEF During, requestVars
<1> QED
  BY <1>3, <1>4, <1>5, <1>6, <1>7, <1>8, <1>9, <1>10, <1>11, <1>12, <1>13 DEF Next

(* Two keys send the same bytes only where ASCII leaves one code for both,     *)
(* unless one is a page key with a modifier (keys.go:142-145 gives it the      *)
(* arrow's bytes), and no key is lost in the reply filter, whatever keys there *)
(* are (tui/keys.go keyToBytes, terminal/reply_filter.go).                     *)
THEOREM KeysStayDistinct == Spec => []KeysAreDistinct
<1>1. Init => KeyInv
  BY DEF Init, KeyInv
<1>2. RunInv /\ KeyInv /\ [Next]_vars => KeyInv'
  BY KeyInvNext
<1>3. TypeOK /\ KeyInv => KeysAreDistinct
  <2> SUFFICES ASSUME TypeOK, KeyInv, NEW k \in pressed
               PROVE  /\ outcome # "filtered"
                      /\ \A other \in Keys :
                            keyToBytes(other) = keyToBytes(k) /\ keyToBytes(k) # <<>> =>
                               \/ OneCode(other) = OneCode(k)
                               \/ ModifiedPage(k) \/ ModifiedPage(other)
    BY DEF KeysAreDistinct
  <2>1. \A o \in Keys : IsKey(o) /\ keyToBytes(o) \in Seq(Bytes)
    BY KeysAssumption
  <2>2. k \in Keys
    BY DEF TypeOK
  <2>3. outcome # "filtered"
    BY <2>1, <2>2, KeyIsNoReply, Zenon DEF KeyInv
  <2>4. ASSUME NEW other \in Keys, keyToBytes(other) = keyToBytes(k), keyToBytes(k) # <<>>,
               ~ModifiedPage(k), ~ModifiedPage(other)
        PROVE  OneCode(other) = OneCode(k)
    BY <2>1, <2>2, <2>4, KeysApart, Zenon
  <2> QED
    BY <2>3, <2>4, Zenon
<1> QED
  BY <1>1, <1>2, <1>3, TypeCorrect, RunInvariance, PTL DEF Spec
=============================================================================
