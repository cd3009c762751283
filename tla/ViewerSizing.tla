---------------------------- MODULE ViewerSizing ----------------------------
(***************************************************************************)
(* The size of a terminal that several screens watch: the viewers table    *)
(* and applySize of internal/terminal/terminal.go, and the goroutines that *)
(* change them (internal/api/stream.go, viewers.go, handlers.go and the    *)
(* console, internal/tui/tui.go).                                          *)
(*                                                                         *)
(* A viewer is one call of NewViewer.  A WebSocket has a handler, which    *)
(* registers the viewer and drops it, and a reader goroutine, which        *)
(* resizes it and is not waited for.  An SSE stream only has a handler;    *)
(* its size comes in a POST /resize, which goes to the stream opened last. *)
(* The console is one goroutine.  Computing the smallest viewer is one     *)
(* critical section, applying it (applySize) three more steps.             *)
(***************************************************************************)
EXTENDS Integers, Sequences, FiniteSets, FiniteSetsExt, SequencesExt

CONSTANTS
    WebSockets, Streams, Consoles,   \* viewers, by the kind of screen
    Posters,                         \* clients that POST /resize
    Sizes,                           \* sizes in messages, nonsense included
    Starts,                          \* sizes asked for when the terminal is made
    Default,                         \* defaultCols x defaultRows
    Word,                            \* 2^16, the range of a PTY's dimension
    MaxOverlap                       \* bound: size changes under way at once

Viewers == WebSockets \union Streams \union Consoles
Unsized == [cols |-> 0, rows |-> 0]
Size == [cols : Nat, rows : Nat]

ASSUME KindsAssumption ==
    /\ WebSockets \intersect Streams = {}
    /\ WebSockets \intersect Consoles = {}
    /\ Streams \intersect Consoles = {}
    /\ Posters \intersect Viewers = {}
ASSUME SizesAssumption ==
    /\ Sizes \subseteq [cols : Int, rows : Int]
    /\ Starts \subseteq [cols : Int, rows : Int]
    /\ Default \in [cols : Nat \ {0}, rows : Nat \ {0}]
ASSUME WordAssumption == Word \in Nat \ {0}

\* The goroutines that may be inside applySize.
Threads == (Viewers \X {"handler"}) \union (WebSockets \X {"reader"})
             \union (Posters \X {"post"})

VARIABLES
    registered,   \* the keys of t.viewers
    size,         \* t.viewers[v]; Unsized until the screen tells its size
    known,        \* t.cols, t.rows
    pty,          \* the size the PTY has
    closed,       \* the PTY is closed: p.Resize fails
    session,      \* of a viewer: "new", "open", "bound", "unbound", "dropped"
                  \*   or "over" (its connection is closed)
    inbox,        \* the message the reader of a WebSocket has read, if any
    bound,        \* viewerBinding.byID for this terminal, newest last
    post,         \* of a poster: "idle", "found" or "applying"
    request,      \* of a poster: the size in its body and the viewer, if any
    call,         \* of a thread: where it is in applySize, and the size it sets
    (* history variables *)
    overridden,   \* a size without a viewer was set after the viewers' last
    latest,       \* the thread whose size was computed last, while under way
    stale,        \* the size recorded last had been overtaken by a later one
    setter,       \* the thread that resized the PTY last, until it records
    crossed       \* the size recorded last is not the one the PTY got last

history == <<overridden, latest, stale, setter, crossed>>
vars == <<registered, size, known, pty, closed, session, inbox, bound, post,
          request, call, history>>

Idle == [pc |-> "idle", want |-> Unsized]

TypeOK ==
    /\ registered \subseteq Viewers
    /\ size \in [Viewers -> Size]
    /\ known \in [cols : Int, rows : Int]
    /\ pty \in Size
    /\ closed \in BOOLEAN
    /\ session \in [Viewers -> {"new", "open", "bound", "unbound", "dropped",
                                "over"}]
    /\ inbox \in [WebSockets -> SUBSET Sizes]
    /\ bound \in Seq(Streams)
    /\ post \in [Posters -> {"idle", "found", "applying"}]
    /\ request \in [Posters -> [want : Sizes \union {Unsized},
                                to : SUBSET Streams]]
    /\ call \in [Threads -> [pc : {"idle", "check", "resize", "record"},
                             want : Size]]
    /\ overridden \in BOOLEAN /\ stale \in BOOLEAN /\ crossed \in BOOLEAN
    /\ latest \subseteq Threads /\ setter \subseteq Threads

\* Variant: the dimensions change places.
TruncateSwapped(s) == [cols |-> s.rows % Word, rows |-> s.cols % Word]

Truncate(s) == [cols |-> s.cols % Word, rows |-> s.rows % Word]

\* pty.Options.normalize, for each dimension on its own.
Normalize(s) == [cols |-> IF s.cols <= 0 THEN Default.cols ELSE s.cols,
                 rows |-> IF s.rows <= 0 THEN Default.rows ELSE s.rows]

Init ==
    /\ registered = {}
    /\ size = [v \in Viewers |-> Unsized]
    /\ known \in Starts
    /\ pty = Truncate(Normalize(known))
    /\ closed = FALSE
    /\ session = [v \in Viewers |-> "new"]
    /\ inbox = [v \in WebSockets |-> {}]
    /\ bound = <<>>
    /\ post = [p \in Posters |-> "idle"]
    /\ request = [p \in Posters |-> [want |-> Unsized, to |-> {}]]
    /\ call = [th \in Threads |-> Idle]
    /\ overridden = FALSE /\ stale = FALSE /\ crossed = FALSE
    /\ latest = {} /\ setter = {}
-----------------------------------------------------------------------------
(* The viewers table. *)

\* smallestLocked: the least of each dimension over the viewers with a size.
Smallest(reg, sz) ==
    LET sized == {v \in reg : sz[v].cols > 0 /\ sz[v].rows > 0}
    IN  IF sized = {} THEN Unsized
        ELSE [cols |-> Min({sz[v].cols : v \in sized}),
              rows |-> Min({sz[v].rows : v \in sized})]

\* Size changes under way, from the critical section to the last step.
Calling == {th \in Threads : call[th].pc # "idle"}
             \union {p \in Posters : post[p] = "applying"}

MayCall(th) == call[th] = Idle /\ Cardinality(Calling) < MaxOverlap

\* th goes on to applySize with the smallest size, if there is one.
Apply(th, s) ==
    /\ call' = [call EXCEPT ![th] = IF s = Unsized THEN Idle
                                    ELSE [pc |-> "check", want |-> s]]
    /\ latest' = IF s = Unsized THEN {} ELSE {th}
    /\ UNCHANGED <<stale, setter, crossed>>

\* Variant: no look at what the message says.
AnySize(s) == s \in Sizes

Valid(s) == s.cols > 0 /\ s.rows > 0

\* ResizeViewer, its critical section: an unknown viewer is registered.
ResizeViewer(th, v, s) ==
    /\ registered' = registered \union {v}
    /\ size' = [size EXCEPT ![v] = s]
    /\ Apply(th, Smallest(registered', size'))
    /\ overridden' = FALSE

\* Variant: the size is not computed again for those who stay.
DropAndKeepSize(th, v) ==
    /\ registered' = registered \ {v}
    /\ size' = [size EXCEPT ![v] = Unsized]
    /\ Apply(th, Unsized)
    /\ UNCHANGED overridden

\* DropViewer, its critical section.
DropViewer(th, v) ==
    /\ registered' = registered \ {v}
    /\ size' = [size EXCEPT ![v] = Unsized]
    /\ Apply(th, Smallest(registered', size'))
    /\ overridden' = (overridden /\ Smallest(registered', size') = Unsized)

-----------------------------------------------------------------------------
(* applySize. *)

\* The same size again would only pile up SIGWINCH: return early.
CheckSame(th) ==
    /\ call[th].pc = "check"
    /\ \/ /\ known = call[th].want
          /\ call' = [call EXCEPT ![th] = Idle]
          /\ latest' = latest \ {th}
          /\ stale' = (stale /\ th \notin latest)
       \/ /\ known # call[th].want
          /\ call' = [call EXCEPT ![th].pc = "resize"]
          /\ UNCHANGED <<latest, stale>>
    /\ UNCHANGED <<registered, size, known, pty, closed, session, inbox, bound,
                   post, request, overridden, setter, crossed>>

\* p.Resize; when it fails, a poster answers with the error.
PtyResize(th) ==
    /\ call[th].pc = "resize"
    /\ \/ /\ ~closed
          /\ pty' = Truncate(call[th].want)
          /\ call' = [call EXCEPT ![th].pc = "record"]
          /\ setter' = {th}
          /\ UNCHANGED <<post, latest>>
       \/ /\ closed
          /\ call' = [call EXCEPT ![th] = Idle]
          /\ latest' = latest \ {th}
          /\ post' = [p \in Posters |-> IF th = <<p, "post">> THEN "idle"
                                        ELSE post[p]]
          /\ UNCHANGED <<pty, setter>>
    /\ UNCHANGED <<registered, size, known, closed, session, inbox, bound,
                   request, overridden, stale, crossed>>

\* th has done its last step.
Finish(th) ==
    /\ call' = [call EXCEPT ![th] = Idle]
    /\ latest' = latest \ {th} /\ stale' = (th \notin latest)
    /\ setter' = setter \ {th} /\ crossed' = (th \notin setter)
    /\ UNCHANGED <<registered, size, pty, closed, session, inbox, bound, post,
                   request, overridden>>

\* Variant: the size is not kept.
RecordNothing(th) == call[th].pc = "record" /\ UNCHANGED known /\ Finish(th)

Record(th) == call[th].pc = "record" /\ known' = call[th].want /\ Finish(th)

Close ==
    /\ ~closed
    /\ closed' = TRUE
    /\ UNCHANGED <<registered, size, known, pty, session, inbox, bound, post,
                   request, call, history>>

-----------------------------------------------------------------------------
(* The screens. *)

NewViewer(v) ==
    /\ session[v] = "new"
    /\ session' = [session EXCEPT ![v] = "open"]
    /\ registered' = registered \union {v}
    /\ size' = [size EXCEPT ![v] = Unsized]
    /\ UNCHANGED <<known, pty, closed, inbox, bound, post, request, call,
                   history>>

\* bindViewer: from now on POST /resize goes to this stream.
Bind(v) ==
    /\ v \in Streams /\ session[v] = "open"
    /\ session' = [session EXCEPT ![v] = "bound"]
    /\ bound' = Append(bound, v)
    /\ UNCHANGED <<registered, size, known, pty, closed, inbox, post, request,
                   call, history>>

Unbind(v) ==
    /\ v \in Streams /\ session[v] = "bound"
    /\ session' = [session EXCEPT ![v] = "unbound"]
    /\ \E i \in DOMAIN bound :
          /\ bound[i] = v /\ \A j \in 1 .. i - 1 : bound[j] # v
          /\ bound' = RemoveAt(bound, i)
    /\ UNCHANGED <<registered, size, known, pty, closed, inbox, post, request,
                   call, history>>

\* Variant: the deferred calls of handleSSE in the order they are written.
LeavesFrom(v) == IF v \in Streams THEN "bound" ELSE "open"

\* An SSE handler unbinds its viewer before it drops it.
LastPhase(v) == IF v \in Streams THEN "unbound" ELSE "open"

\* The handler returns, or the console ends: DropViewer.
Leave(v) ==
    /\ session[v] = LastPhase(v) /\ MayCall(<<v, "handler">>)
    /\ session' = [session EXCEPT ![v] = "dropped"]
    /\ DropViewer(<<v, "handler">>, v)
    /\ UNCHANGED <<known, pty, closed, inbox, bound, post, request>>

\* The remaining deferred calls of handleWS: the connection is closed.
Hang(v) ==
    /\ v \in WebSockets /\ session[v] = "dropped" /\ call[<<v, "handler">>] = Idle
    /\ session' = [session EXCEPT ![v] = "over"]
    /\ UNCHANGED <<registered, size, known, pty, closed, inbox, bound, post,
                   request, call, history>>

\* The reader of a WebSocket takes an "r" message off the connection (one with a
\* size that is none is dropped by ResizeViewer before it looks at anything) ...
ReadMessage(v, s) ==
    /\ session[v] \in {"open", "dropped"} /\ inbox[v] = {}
    /\ call[<<v, "reader">>] = Idle
    /\ Valid(s)
    /\ inbox' = [inbox EXCEPT ![v] = {s}]
    /\ UNCHANGED <<registered, size, known, pty, closed, session, bound, post,
                   request, call, history>>

\* ... and acts on it, however long that takes and whatever happened meanwhile.
ReaderResize(v) ==
    /\ MayCall(<<v, "reader">>)
    /\ \E s \in inbox[v] : ResizeViewer(<<v, "reader">>, v, s)
    /\ inbox' = [inbox EXCEPT ![v] = {}]
    /\ UNCHANGED <<known, pty, closed, session, bound, post, request>>

\* The console's window changed; shellSize keeps the size positive.
ConsoleResize(v, s) ==
    /\ Valid(s)
    /\ session[v] = "open" /\ MayCall(<<v, "handler">>)
    /\ ResizeViewer(<<v, "handler">>, v, s)
    /\ UNCHANGED <<known, pty, closed, session, inbox, bound, post, request>>

\* handleResize, which refuses a size that is not one: viewers.latest, under the
\* lock of the bindings ...
PostLookup(p, s) ==
    /\ Valid(s)
    /\ post[p] = "idle"
    /\ post' = [post EXCEPT ![p] = "found"]
    /\ request' = [request EXCEPT ![p] =
                      [want |-> s,
                       to |-> IF bound = <<>> THEN {} ELSE {bound[Len(bound)]}]]
    /\ UNCHANGED <<registered, size, known, pty, closed, session, inbox, bound,
                   call, history>>

\* ... then ResizeViewer for that stream, or Resize when there is none.
PostResize(p) ==
    /\ post[p] = "found" /\ MayCall(<<p, "post">>)
    /\ post' = [post EXCEPT ![p] = "applying"]
    /\ request' = [request EXCEPT ![p] = [want |-> Unsized, to |-> {}]]
    /\ \/ \E v \in request[p].to :
             ResizeViewer(<<p, "post">>, v, request[p].want)
       \/ /\ request[p].to = {}
          /\ Apply(<<p, "post">>, request[p].want)
          /\ overridden' = TRUE
          /\ UNCHANGED <<registered, size>>
    /\ UNCHANGED <<known, pty, closed, session, inbox, bound>>

\* The size t.Info() returns, which is what handleResize answers.
Info == known

PostReply(p) ==
    /\ post[p] = "applying" /\ call[<<p, "post">>] = Idle
    /\ post' = [post EXCEPT ![p] = "idle"]
    /\ UNCHANGED <<registered, size, known, pty, closed, session, inbox, bound,
                   request, call, history>>

-----------------------------------------------------------------------------
Next ==
    \/ \E th \in Threads : CheckSame(th) \/ PtyResize(th) \/ Record(th)
    \/ \E v \in Viewers : NewViewer(v) \/ Bind(v) \/ Unbind(v) \/ Leave(v) \/ Hang(v)
    \/ \E v \in WebSockets : ReaderResize(v) \/ \E s \in Sizes : ReadMessage(v, s)
    \/ \E v \in Consoles, s \in Sizes : ConsoleResize(v, s)
    \/ \E p \in Posters : PostResize(p) \/ PostReply(p)
                          \/ \E s \in Sizes : PostLookup(p, s)
    \/ Close

Spec == Init /\ [][Next]_vars

-----------------------------------------------------------------------------
(* Properties. *)

Quiet == Calling = {} /\ ~closed

Target == Smallest(registered, size)

\* However size changes overlap: when none is under way, the shell has the size
\* of the smallest registered screen, unless a size without a screen was set
\* since, or the size recorded last had been overtaken by one computed after it
\* and done with before it.  No drop, late message or early return does more
\* harm than that (terminal.go ResizeViewer, DropViewer, applySize).
FitsSmallest ==
    Quiet /\ ~overridden /\ ~stale /\ Target # Unsized => known = Target

\* What the README says, overtaken or not: the shell's size follows the smallest
\* screen (README.md:298).
FollowsSmallest ==
    Quiet /\ ~overridden /\ Target # Unsized => known = Target

\* The size a PTY has once it was given s: a dimension left out is filled in
\* when the terminal is made, and each one is cut to 16 bits.
Given(s) == Truncate(Normalize(s))

\* The size recorded last was given to the PTY last, and none since.
InStep == setter = {} /\ ~crossed

\* However size changes overlap, the size the terminal reports is the one the PTY
\* was given, but for two cases: a change has resized the PTY and not recorded
\* its size yet, or two changes have recorded theirs in the other order than
\* they resized (terminal.go applySize, Info).
ReportedIsReal == InStep => pty = Given(Info)

Fits(s) == s.cols < Word /\ s.rows < Word

Answers(p) == post[p] = "applying" /\ call[<<p, "post">>] = Idle /\ post'[p] = "idle"

\* The answer to POST /resize is the size the PTY has, to the last bit, when the
\* size fits 16 bits and no other change is caught between its two steps or has
\* crossed with another (handlers.go:193).
AnswersAreReal ==
    [][\A p \in Posters :
          Answers(p) /\ InStep /\ Fits(Info) => pty = Info]_vars

\* A screen that is there is registered, and a stream that POST /resize may pick
\* is there.  A viewer outlives its screen only when a size it sent before it
\* left was handled after: that registers it again, for good, and no other
\* screen gets larger than it.  The console never leaves one behind
\* (stream.go:99, stream.go:173-178, handlers.go:182, terminal.go:298).
ViewersMatchSessions ==
    /\ \A i \in DOMAIN bound : session[bound[i]] = "bound"
    /\ \A v \in Viewers : session[v] \in {"open", "bound", "unbound"} => v \in registered
    /\ \A v \in registered :
          session[v] \in {"dropped", "over"} => v \notin Consoles /\ Valid(size[v])
=============================================================================
