----------------------------- MODULE RelayLink ------------------------------
(***************************************************************************)
(* The outgoing link to the relay server (internal/relaylink/link.go): one *)
(* goroutine dials, reads the server's messages and waits before it dials  *)
(* again; every request and every stream the server asks for runs in a     *)
(* goroutine of its own, which calls the local HTTP API and sends what     *)
(* comes back over whatever connection is current.                         *)
(*                                                                         *)
(* Streams and Requests are calls of openStream and proxyRequest.  The     *)
(* server gives each one an identifier of its own, so the table l.streams  *)
(* is the set of the streams that have an entry.                           *)
(***************************************************************************)
EXTENDS Integers, FiniteSets

CONSTANTS
    Streams, Requests,
    RetryMin, RetryMax,   \* retryMin and retryMax
    MaxConns              \* bound: how many times dialling succeeds

ASSUME RetryAssumption ==
    /\ RetryMin \in Nat \ {0}
    /\ RetryMax \in Nat
    /\ RetryMin <= RetryMax
ASSUME MaxConnsAssumption == MaxConns \in Nat

VARIABLES
    quit,        \* ctx is cancelled: the agent is stopping
    (* the goroutine of Run *)
    run,         \* "dial", "hello" (connected, status not set yet), "reading",
                 \*   "closing" (connect returns), "down", "backoff" or "end"
    conns,       \* connections made; l.conn is the last one
    up,          \* l.conn works: what is written to it gets through
    backoff,     \* seconds to wait after the next failure
    connected,   \* l.status.Connected
    registered,  \* l.status.AgentID is known
    (* the goroutines of openStream *)
    stream,      \* "none", "start", "open", "ending", "farewell" or "end"
    streams,     \* l.streams
    cancelled,   \* contexts of streams that were cancelled by name
    (* the goroutines of proxyRequest *)
    request,     \* "none", "calling", "answer", "sending" or "end"
    via,         \* the connection send has taken; 0 before
    (* history variables *)
    closeAsked,  \* streams the server has asked to close
    answers      \* how often an answer to a request was written

runVars == <<run, conns, up, backoff, connected, registered>>
streamVars == <<stream, streams, cancelled>>
requestVars == <<request, via, answers>>
vars == <<quit, runVars, streamVars, requestVars, closeAsked>>

TypeOK ==
    /\ quit \in BOOLEAN
    /\ run \in {"dial", "hello", "reading", "closing", "down", "backoff", "end"}
    /\ conns \in 0..MaxConns /\ up \in BOOLEAN
    /\ backoff \in RetryMin..RetryMax
    /\ connected \in BOOLEAN
    /\ registered \in BOOLEAN
    /\ stream \in [Streams -> {"none", "start", "open", "ending", "farewell",
                               "end"}]
    /\ streams \subseteq Streams
    /\ cancelled \subseteq Streams
    /\ request \in [Requests -> {"none", "calling", "answer", "sending", "end"}]
    /\ via \in [Requests -> 0..MaxConns]
    /\ closeAsked \subseteq Streams
    /\ answers \in [Requests -> Nat]

Init ==
    /\ quit = FALSE
    /\ run = "dial" /\ conns = 0 /\ up = FALSE /\ backoff = RetryMin
    /\ connected = FALSE /\ registered = FALSE
    /\ stream = [s \in Streams |-> "none"]
    /\ streams = {} /\ cancelled = {}
    /\ request = [r \in Requests |-> "none"]
    /\ via = [r \in Requests |-> 0] /\ answers = [r \in Requests |-> 0]
    /\ closeAsked = {}

-----------------------------------------------------------------------------
(* Run and connect. *)

Quit ==
    /\ ~quit
    /\ quit' = TRUE
    /\ UNCHANGED <<runVars, streamVars, requestVars, closeAsked>>

\* The dial succeeds within 15 seconds: l.conn is the new connection.
DialOk ==
    /\ run = "dial" /\ ~quit /\ conns < MaxConns
    /\ run' = "hello"
    /\ conns' = conns + 1 /\ up' = TRUE
    /\ UNCHANGED <<quit, backoff, connected, registered, streamVars,
                   requestVars, closeAsked>>

DialFail ==
    /\ run = "dial"
    /\ run' = "down"
    /\ UNCHANGED <<quit, conns, up, backoff, connected, registered, streamVars,
                   requestVars, closeAsked>>

SetConnected ==
    /\ run = "hello"
    /\ run' = "reading"
    /\ connected' = TRUE
    /\ UNCHANGED <<quit, conns, up, backoff, registered, streamVars,
                   requestVars, closeAsked>>

\* The network fails, and nobody has noticed yet.
ConnBreaks ==
    /\ up
    /\ up' = FALSE
    /\ UNCHANGED <<quit, run, conns, backoff, connected, registered,
                   streamVars, requestVars, closeAsked>>

\* Nothing came for readTimeout, the server closed, or ctx is cancelled: a read
\* that fails closes the connection.
ReadError ==
    /\ run = "reading"
    /\ run' = "closing"
    /\ up' = FALSE
    /\ UNCHANGED <<quit, conns, backoff, connected, registered,
                   streamVars, requestVars, closeAsked>>

\* Variant: the table is emptied, the contexts are not cancelled.
ForgetAllStreams ==
    /\ run = "closing"
    /\ run' = "down"
    /\ streams' = {}
    /\ UNCHANGED <<quit, conns, up, backoff, connected, registered, stream, cancelled, requestVars, closeAsked>>

\* connect returns through closeAllStreams.
CloseAllStreams ==
    /\ run = "closing"
    /\ run' = "down"
    /\ cancelled' = cancelled \union streams
    /\ streams' = {}
    /\ UNCHANGED <<quit, conns, up, backoff, connected, registered, stream, requestVars, closeAsked>>

\* Variant: the failure ends the goroutine.
GiveUp ==
    /\ run = "down"
    /\ run' = "end"
    /\ connected' = FALSE
    /\ registered' = FALSE
    /\ UNCHANGED <<quit, conns, up, backoff, streamVars, requestVars,
                   closeAsked>>

\* Run: return when ctx is cancelled, otherwise report and wait.
Lost ==
    /\ run = "down"
    /\ \/ /\ quit
          /\ run' = "end"
          /\ UNCHANGED <<connected, registered>>
       \/ /\ ~quit
          /\ run' = "backoff"
          /\ connected' = FALSE
          /\ registered' = FALSE
    /\ UNCHANGED <<quit, conns, up, backoff, streamVars, requestVars,
                   closeAsked>>

\* Variant: twice the time, without a limit.
DoubleUnbounded(b) == 2 * b

Double(b) == IF 2 * b > RetryMax THEN RetryMax ELSE 2 * b

\* The wait is over; the next one will be longer.
Retry ==
    /\ run = "backoff" /\ ~quit
    /\ run' = "dial"
    /\ backoff' = Double(backoff)
    /\ UNCHANGED <<quit, conns, up, connected, registered, streamVars,
                   requestVars, closeAsked>>

RunStops ==
    /\ run = "backoff" /\ quit
    /\ run' = "end"
    /\ UNCHANGED <<quit, conns, up, backoff, connected, registered,
                   streamVars, requestVars, closeAsked>>

-----------------------------------------------------------------------------
(* handle: the messages of the server, one at a time. *)

Welcome ==
    /\ run = "reading" /\ ~registered
    /\ registered' = TRUE
    /\ UNCHANGED <<quit, run, conns, up, backoff, connected, streamVars,
                   requestVars, closeAsked>>

AskRequest(r) ==
    /\ run = "reading" /\ request[r] = "none"
    /\ request' = [request EXCEPT ![r] = "calling"]
    /\ UNCHANGED <<quit, runVars, streamVars, via, answers, closeAsked>>

AskStream(s) ==
    /\ run = "reading" /\ stream[s] = "none"
    /\ stream' = [stream EXCEPT ![s] = "start"]
    /\ UNCHANGED <<quit, runVars, streams, cancelled, requestVars,
                   closeAsked>>

\* A stream_close for a stream without an entry does nothing.
AskClose(s) ==
    /\ run = "reading" /\ stream[s] # "none" /\ s \notin closeAsked
    /\ closeAsked' = closeAsked \union {s}
    /\ cancelled' = cancelled \union ({s} \intersect streams)
    /\ streams' = streams \ {s}
    /\ UNCHANGED <<quit, runVars, stream, requestVars>>

-----------------------------------------------------------------------------
(* openStream. *)

\* The goroutine gets to run: it enters its cancel function in the table.
Register(s) ==
    /\ stream[s] = "start"
    /\ stream' = [stream EXCEPT ![s] = "open"]
    /\ streams' = streams \union {s}
    /\ UNCHANGED <<quit, runVars, cancelled, requestVars, closeAsked>>

\* The path is refused, the API does not answer, or its stream ends.
SourceEnds(s) ==
    /\ stream[s] = "open"
    /\ stream' = [stream EXCEPT ![s] = "ending"]
    /\ UNCHANGED <<quit, runVars, streams, cancelled, requestVars,
                   closeAsked>>

\* Variant: the context of a stream does not descend from that of Run.
CancelledByName(s) == s \in cancelled

\* streamCtx descends from ctx.
Cancelled(s) == s \in cancelled \/ quit

\* Reading the API's stream fails because the context is cancelled.
SeeCancel(s) ==
    /\ stream[s] = "open" /\ Cancelled(s)
    /\ stream' = [stream EXCEPT ![s] = "ending"]
    /\ UNCHANGED <<quit, runVars, streams, cancelled, requestVars,
                   closeAsked>>

\* Variant: the entry is left in the table.
UnregisterNothing(s) ==
    /\ stream[s] = "ending"
    /\ stream' = [stream EXCEPT ![s] = "farewell"]
    /\ UNCHANGED <<quit, runVars, streams, cancelled, requestVars,
                   closeAsked>>

\* The deferred function: cancel, drop the entry ...
Unregister(s) ==
    /\ stream[s] = "ending"
    /\ stream' = [stream EXCEPT ![s] = "farewell"]
    /\ cancelled' = cancelled \union {s}
    /\ streams' = streams \ {s}
    /\ UNCHANGED <<quit, runVars, requestVars, closeAsked>>

\* ... and send the last chunk, "done", on the current connection if it is up.
SayDone(s) ==
    /\ stream[s] = "farewell"
    /\ stream' = [stream EXCEPT ![s] = "end"]
    /\ UNCHANGED <<quit, runVars, streams, cancelled, requestVars, closeAsked>>

-----------------------------------------------------------------------------
(* proxyRequest. *)

\* The API answers, or one of the error returns is taken.
CallReturns(r) ==
    /\ request[r] = "calling"
    /\ request' = [request EXCEPT ![r] = "answer"]
    /\ UNCHANGED <<quit, runVars, streamVars, via, answers, closeAsked>>

\* Variant: a call that runs out of time is dropped without an answer.
CallDropped(r) ==
    /\ request[r] = "calling"
    /\ request' = [request EXCEPT ![r] = "end"]
    /\ UNCHANGED <<quit, runVars, streamVars, via, answers, closeAsked>>

\* 25 seconds are over, or ctx is cancelled: an error is the answer.
CallTimeout(r) ==
    /\ request[r] = "calling"
    /\ request' = [request EXCEPT ![r] = "answer"]
    /\ UNCHANGED <<quit, runVars, streamVars, via, answers, closeAsked>>

\* send takes the connection that is current now, whichever the request came
\* over; after the first dial there is always one, if only a lost one ...
Answer(r) ==
    /\ request[r] = "answer"
    /\ request' = [request EXCEPT ![r] = "sending"]
    /\ via' = [via EXCEPT ![r] = conns]
    /\ UNCHANGED <<quit, runVars, streamVars, answers, closeAsked>>

\* ... and writes to it, once.  A write that fails is silently dropped; one that
\* takes more than ten seconds closes the connection.
Write(r) ==
    /\ request[r] = "sending"
    /\ request' = [request EXCEPT ![r] = "end"]
    /\ \/ /\ via[r] = conns /\ up
          /\ answers' = [answers EXCEPT ![r] = @ + 1]
          /\ UNCHANGED up
       \/ /\ up' = (up /\ via[r] # conns)
          /\ UNCHANGED answers
    /\ UNCHANGED <<quit, run, conns, backoff, connected, registered, streamVars,
                   via, closeAsked>>

-----------------------------------------------------------------------------
RunStep == DialOk \/ DialFail \/ SetConnected \/ CloseAllStreams \/ Lost
             \/ Retry \/ RunStops

StreamStep(s) == Register(s) \/ SeeCancel(s) \/ Unregister(s) \/ SayDone(s)

RequestStep(r) == CallTimeout(r) \/ Answer(r) \/ Write(r)

Next ==
    \/ Quit \/ RunStep \/ ConnBreaks \/ ReadError \/ Welcome
    \/ \E s \in Streams : AskStream(s) \/ AskClose(s) \/ SourceEnds(s) \/ StreamStep(s)
    \/ \E r \in Requests : AskRequest(r) \/ CallReturns(r) \/ RequestStep(r)

Spec == Init /\ [][Next]_vars

(* The goroutines run, dials and calls time out and the timer fires, and a    *)
(* read fails once ctx is cancelled.  Neither the server nor the API need do  *)
(* anything.                                                                  *)
Fairness ==
    /\ WF_vars(RunStep)
    /\ WF_vars(quit /\ ReadError)
    /\ \A s \in Streams : WF_vars(StreamStep(s))
    /\ \A r \in Requests : WF_vars(RequestStep(r))

FairSpec == Spec /\ Fairness

-----------------------------------------------------------------------------
(* Properties. *)

\* An entry of the table belongs to a stream that is still being read or about
\* to take its own entry out: none is left behind to be cancelled in vain.  A
\* stream that has lost its entry before it came to its end was cancelled, so
\* that nothing runs on that no message of the server could stop
\* (link.go:236-242, link.go:332-336, link.go:400-407).
TableMatchesStreams ==
    \A s \in Streams :
        /\ s \in streams => stream[s] \in {"open", "ending"}
        /\ stream[s] \in {"open", "ending"} /\ s \notin streams => s \in cancelled

\* A connection that was made and does not work any more.
Gone(c) == c > 0 /\ (c < conns \/ ~up)

\* A request never gets two answers.  It gets one, a response or an error, also
\* when the API never answers, unless the connection that send took for it is
\* gone: such an answer is dropped and not repeated on the next connection
\* (link.go:279-322, link.go:381-397).
RequestsAreAnswered ==
    \A r \in Requests :
        /\ [](answers[r] <= 1)
        /\ (request[r] = "calling") ~>
               (request[r] = "end" /\ (answers[r] = 1 \/ Gone(via[r])))

\* A stream that is in the table when its connection ends comes to its own end,
\* however slow its source is (link.go:200, link.go:400-407).
RegisteredStreamsEnd ==
    \A s \in Streams :
        (s \in streams /\ run = "closing") ~> (stream[s] = "end")

\* Losing the connection is never the end: unless the agent stops, it dials
\* again (link.go:126-163).
DialsAgain == (run = "down" /\ ~quit) ~> (run = "dial" \/ quit)

\* When the agent stops, every goroutine of the link comes to its end, streams
\* that escaped closeAllStreams included (link.go:130-139, link.go:326).
EverythingStops ==
    quit ~> (/\ run = "end"
             /\ \A s \in Streams : stream[s] \in {"none", "end"}
             /\ \A r \in Requests : request[r] \in {"none", "end"})

\* What link.go:68 says of the streams: when the server says close, they are
\* cancelled.
ClosedStreamsEnd ==
    \A s \in Streams : (s \in closeAsked) ~> (stream[s] = "end")
=============================================================================
