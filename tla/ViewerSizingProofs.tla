------------------------ MODULE ViewerSizingProofs --------------------------
(***************************************************************************)
(* Theorems about the viewers table and about the size of the shell, for   *)
(* any number of screens, clients and size changes under way at once.      *)
(***************************************************************************)
EXTENDS ViewerSizing, SequenceTheorems, FiniteSetTheorems, WellFoundedInduction, TLAPS

(* The types the argument needs. *)
Shape ==
    /\ registered \subseteq Viewers
    /\ session \in [Viewers -> {"new", "open", "bound", "unbound", "dropped", "over"}]
    /\ size \in [Viewers -> [cols : Int, rows : Int]]
    /\ inbox \in [WebSockets -> SUBSET Sizes]
    /\ bound \in Seq(Streams)
    /\ request \in [Posters -> [want : Sizes \union {Unsized}, to : SUBSET Streams]]
    /\ \A p \in Posters : post[p] = "found" => Valid(request[p].want)
    /\ \A v \in WebSockets : \A s \in inbox[v] : Valid(s)

(* A stream is bound once, so that taking its first entry out takes it out. *)
BoundOnce == \A i, j \in DOMAIN bound : bound[i] = bound[j] => i = j

(* Who may still send a size has been there. *)
Arrived ==
    /\ \A v \in registered : session[v] # "new"
    /\ \A p \in Posters : \A v \in request[p].to : session[v] # "new"
    /\ \A v \in WebSockets : inbox[v] # {} => session[v] # "new"

Inv == Shape /\ BoundOnce /\ Arrived /\ ViewersMatchSessions

LEMMA Removed ==
  ASSUME NEW S, NEW s \in Seq(S), NEW i \in DOMAIN s,
         \A a, b \in DOMAIN s : s[a] = s[b] => a = b
  PROVE  /\ RemoveAt(s, i) \in Seq(S)
         /\ \A a \in DOMAIN RemoveAt(s, i) :
               \E b \in DOMAIN s : b # i /\ RemoveAt(s, i)[a] = s[b]
         /\ \A a, b \in DOMAIN RemoveAt(s, i) :
               RemoveAt(s, i)[a] = RemoveAt(s, i)[b] => a = b
<1>1. Len(s) \in Nat /\ i \in 1 .. Len(s) /\ DOMAIN s = 1 .. Len(s)
  OBVIOUS
<1> DEFINE p == SubSeq(s, 1, i - 1)
           q == SubSeq(s, i + 1, Len(s))
           t == p \o q
<1>2. p \in Seq(S) /\ Len(p) = i - 1 /\ \A a \in 1 .. i - 1 : p[a] = s[a]
  BY <1>1, SubSeqProperties
<1>3. /\ q \in Seq(S) /\ Len(q) = Len(s) - i
      /\ \A a \in 1 .. Len(s) - i : q[a] = s[i + a]
  BY <1>1, SubSeqProperties
<1> HIDE DEF p, q
<1>4. /\ t \in Seq(S) /\ Len(t) = Len(p) + Len(q)
      /\ \A a \in 1 .. Len(p) + Len(q) :
            t[a] = IF a <= Len(p) THEN p[a] ELSE q[a - Len(p)]
  <2>1. p \in Seq(S) /\ q \in Seq(S)
    BY <1>2, <1>3
  <2> QED
    BY ONLY <2>1, ConcatProperties, Zenon
<1>5. RemoveAt(s, i) = t
  BY DEF RemoveAt, p, q
<1> HIDE DEF t
<1>6. Len(t) = Len(s) - 1 /\ DOMAIN t = 1 .. Len(s) - 1
  BY <1>1, <1>2, <1>3, <1>4
<1>7. \A a \in 1 .. Len(s) - 1 : t[a] = IF a < i THEN s[a] ELSE s[a + 1]
  <2>1. ASSUME NEW a \in 1 .. Len(s) - 1, a < i
        PROVE  t[a] = s[a]
    BY <1>1, <1>2, <1>3, <1>4, <2>1
  <2>2. ASSUME NEW a \in 1 .. Len(s) - 1, ~(a < i)
        PROVE  t[a] = s[a + 1]
    <3>1. /\ Len(s) \in Nat /\ i \in 1 .. Len(s) /\ a \in Int
          /\ Len(p) = i - 1 /\ Len(q) = Len(s) - i
      BY <1>1, <1>2, <1>3
    <3>2. a \in 1 .. Len(p) + Len(q) /\ ~(a <= Len(p))
      BY <2>2, <3>1
    <3>3. t[a] = q[a - Len(p)]
      BY <1>4, <3>2
    <3>4. PICK c \in 1 .. Len(s) - i : c = a - Len(p)
      BY <2>2, <3>1
    <3>5. q[c] = s[i + c]
      BY <1>3
    <3>6. i + c = a + 1
      BY <3>1, <3>4
    <3> QED
      BY <3>3, <3>4, <3>5, <3>6
  <2> QED
    BY <2>1, <2>2
<1>8. \A a \in DOMAIN t : \E b \in DOMAIN s : b # i /\ t[a] = s[b]
  BY <1>1, <1>6, <1>7
<1>9. \A a, b \in DOMAIN t : t[a] = t[b] => a = b
  BY <1>1, <1>6, <1>7
<1> QED
  BY <1>4, <1>5, <1>8, <1>9

LEMMA InvInit == Init => Inv
<1> SUFFICES ASSUME Init
             PROVE  Inv
  OBVIOUS
<1>1. Shape
  BY DEF Init, Shape, Unsized, Viewers
<1>2. BoundOnce /\ Arrived /\ ViewersMatchSessions
  BY DEF Init, BoundOnce, Arrived, ViewersMatchSessions, Viewers
<1> QED
  BY <1>1, <1>2 DEF Inv

(* A size is set for a screen that has been there. *)
LEMMA ResizeKeepsInv ==
  ASSUME Inv, NEW th, NEW v \in Viewers, NEW sz \in [cols : Int, rows : Int],
         Valid(sz), session[v] # "new", ResizeViewer(th, v, sz),
         session[v] \in {"dropped", "over"} => v \notin Consoles,
         UNCHANGED <<session, bound>>,
         inbox' \in [WebSockets -> SUBSET Sizes],
         \A x \in WebSockets : inbox'[x] \subseteq inbox[x],
         request' \in [Posters -> [want : Sizes \union {Unsized}, to : SUBSET Streams]],
         \A p \in Posters : request'[p].to \subseteq request[p].to,
         \A p \in Posters : post'[p] = "found" =>
             post[p] = "found" /\ request'[p] = request[p]
  PROVE  Inv'
<1>1. registered' = registered \union {v} /\ size' = [size EXCEPT ![v] = sz]
  BY DEF ResizeViewer
<1>2. Shape'
  <2>1. size' \in [Viewers -> [cols : Int, rows : Int]] /\ registered' \subseteq Viewers
    BY <1>1 DEF Inv, Shape
  <2>2. \A p \in Posters : post'[p] = "found" => Valid(request'[p].want)
    BY DEF Inv, Shape
  <2>3. \A x \in WebSockets : \A t \in inbox'[x] : Valid(t)
    BY DEF Inv, Shape
  <2> QED
    BY <2>1, <2>2, <2>3 DEF Inv, Shape
<1>3. BoundOnce' /\ Arrived'
  <2>1. \A x \in WebSockets : inbox'[x] # {} => inbox[x] # {}
    OBVIOUS
  <2> QED
    BY <1>1, <2>1 DEF Inv, Shape, BoundOnce, Arrived
<1>4. ViewersMatchSessions'
  BY <1>1 DEF Inv, Shape, ViewersMatchSessions
<1> QED
  BY <1>2, <1>3, <1>4 DEF Inv

LEMMA InvNext ==
  ASSUME Inv, TypeOK, [Next]_vars
  PROVE  Inv'
<1> USE DEF Viewers
<1> DEFINE kept == <<registered, size, session, inbox, bound, request>>
<1>1. ASSUME UNCHANGED kept, \A p \in Posters : post'[p] = "found" => post[p] = "found"
      PROVE  Inv'
  BY <1>1 DEF Inv, Shape, BoundOnce, Arrived, ViewersMatchSessions
<1>2. CASE UNCHANGED vars \/ Close
  BY <1>1, <1>2 DEF vars, Close
<1>3. ASSUME NEW th \in Threads, CheckSame(th) \/ PtyResize(th) \/ Record(th)
      PROVE  Inv'
  <2>1. UNCHANGED kept
    BY <1>3 DEF CheckSame, PtyResize, Record, Finish
  <2>2. \A p \in Posters : post'[p] = "found" => post[p] = "found"
    BY <1>3 DEF CheckSame, PtyResize, Record, Finish
  <2> QED
    BY <1>1, <2>1, <2>2
<1>4. ASSUME NEW v \in Viewers, NewViewer(v)
      PROVE  Inv'
  <2>1. Shape' /\ BoundOnce' /\ Arrived'
    BY <1>4 DEF NewViewer, Inv, Shape, BoundOnce, Arrived, Unsized
  <2>2. ViewersMatchSessions'
    BY <1>4 DEF NewViewer, Inv, Shape, ViewersMatchSessions
  <2> QED
    BY <2>1, <2>2 DEF Inv
<1>5. ASSUME NEW v \in Viewers, Bind(v)
      PROVE  Inv'
  <2>1. v \in Streams /\ session[v] = "open" /\ bound \in Seq(Streams)
    BY <1>5 DEF Bind, Inv, Shape
  <2>2. /\ bound' \in Seq(Streams) /\ Len(bound') = Len(bound) + 1
        /\ DOMAIN bound' = 1 .. Len(bound) + 1 /\ DOMAIN bound = 1 .. Len(bound)
        /\ \A i \in DOMAIN bound : bound'[i] = bound[i]
        /\ bound'[Len(bound) + 1] = v
    BY <1>5, <2>1 DEF Bind
  <2>3. Shape' /\ Arrived'
    BY <1>5, <2>2 DEF Bind, Inv, Shape, Arrived
  <2>4. \A i \in DOMAIN bound : bound[i] # v
    BY <2>1 DEF Inv, ViewersMatchSessions
  <2>5. BoundOnce'
    BY <2>1, <2>2, <2>4 DEF Inv, BoundOnce
  <2>6. ViewersMatchSessions'
    BY <1>5, <2>1, <2>2 DEF Bind, Inv, Shape, ViewersMatchSessions
  <2> QED
    BY <2>3, <2>5, <2>6 DEF Inv
<1>6. ASSUME NEW v \in Viewers, Unbind(v)
      PROVE  Inv'
  <2>1. PICK i \in DOMAIN bound : bound[i] = v /\ bound' = RemoveAt(bound, i)
    BY <1>6 DEF Unbind
  <2>2. /\ bound' \in Seq(Streams)
        /\ \A a \in DOMAIN bound' :
              \E b \in DOMAIN bound : b # i /\ bound'[a] = bound[b]
        /\ \A a, b \in DOMAIN bound' : bound'[a] = bound'[b] => a = b
    <3>1. bound \in Seq(Streams) /\ \A a, b \in DOMAIN bound : bound[a] = bound[b] => a = b
      BY DEF Inv, Shape, BoundOnce
    <3> QED
      BY <2>1, <3>1, Removed
  <2>3. Shape' /\ Arrived' /\ BoundOnce'
    BY <1>6, <2>2 DEF Unbind, Inv, Shape, Arrived, BoundOnce
  <2>4. \A a \in DOMAIN bound' : bound'[a] # v /\ session[bound'[a]] = "bound"
    BY <2>1, <2>2 DEF Inv, BoundOnce, ViewersMatchSessions
  <2>5. ViewersMatchSessions'
    BY <1>6, <2>2, <2>4 DEF Unbind, Inv, Shape, ViewersMatchSessions
  <2> QED
    BY <2>3, <2>5 DEF Inv
<1>7. ASSUME NEW v \in Viewers, Leave(v)
      PROVE  Inv'
  <2>1. /\ registered' = registered \ {v} /\ size' = [size EXCEPT ![v] = Unsized]
        /\ session' = [session EXCEPT ![v] = "dropped"]
        /\ session[v] \in {"open", "unbound"}
        /\ UNCHANGED <<inbox, bound, post, request>>
    BY <1>7 DEF Leave, DropViewer, LastPhase
  <2>2. Shape' /\ BoundOnce' /\ Arrived'
    BY <2>1 DEF Inv, Shape, BoundOnce, Arrived, Unsized
  <2>3. ViewersMatchSessions'
    BY <2>1 DEF Inv, Shape, ViewersMatchSessions
  <2> QED
    BY <2>2, <2>3 DEF Inv
<1>8. ASSUME NEW v \in Viewers, Hang(v)
      PROVE  Inv'
  <2>1. Shape' /\ BoundOnce' /\ Arrived'
    BY <1>8 DEF Hang, Inv, Shape, BoundOnce, Arrived
  <2>2. ViewersMatchSessions'
    BY <1>8 DEF Hang, Inv, Shape, ViewersMatchSessions
  <2> QED
    BY <2>1, <2>2 DEF Inv
<1>9. ASSUME NEW v \in WebSockets, NEW s \in Sizes, ReadMessage(v, s)
      PROVE  Inv'
  BY <1>9 DEF ReadMessage, Inv, Shape, BoundOnce, Arrived, ViewersMatchSessions
<1>10. ASSUME NEW v \in WebSockets, ReaderResize(v)
       PROVE  Inv'
  <2>1. PICK s \in inbox[v] : ResizeViewer(<<v, "reader">>, v, s)
    BY <1>10 DEF ReaderResize
  <2>2. /\ inbox' = [inbox EXCEPT ![v] = {}]
        /\ UNCHANGED <<session, bound, post, request>>
    BY <1>10 DEF ReaderResize
  <2>3. /\ s \in [cols : Int, rows : Int] /\ Valid(s)
        /\ session[v] # "new" /\ v \notin Consoles
    BY KindsAssumption, SizesAssumption DEF Inv, Shape, Arrived
  <2>4. /\ inbox' \in [WebSockets -> SUBSET Sizes]
        /\ \A x \in WebSockets : inbox'[x] \subseteq inbox[x]
        /\ request' \in [Posters -> [want : Sizes \union {Unsized}, to : SUBSET Streams]]
        /\ \A p \in Posters : request'[p].to \subseteq request[p].to
    BY <2>2 DEF Inv, Shape
  <2> QED
    BY <2>1, <2>2, <2>3, <2>4, ResizeKeepsInv
<1>11. ASSUME NEW v \in Consoles, NEW s \in Sizes, ConsoleResize(v, s)
       PROVE  Inv'
  <2>1. /\ s \in [cols : Int, rows : Int] /\ Valid(s) /\ session[v] = "open"
        /\ ResizeViewer(<<v, "handler">>, v, s)
        /\ UNCHANGED <<session, inbox, bound, post, request>>
    BY <1>11, SizesAssumption DEF ConsoleResize
  <2>2. /\ inbox' \in [WebSockets -> SUBSET Sizes]
        /\ \A x \in WebSockets : inbox'[x] \subseteq inbox[x]
        /\ request' \in [Posters -> [want : Sizes \union {Unsized}, to : SUBSET Streams]]
        /\ \A p \in Posters : request'[p].to \subseteq request[p].to
    BY <2>1 DEF Inv, Shape
  <2> QED
    BY <2>1, <2>2, ResizeKeepsInv
<1>12. ASSUME NEW p \in Posters, NEW s \in Sizes, PostLookup(p, s)
       PROVE  Inv'
  <2> DEFINE to == IF bound = <<>> THEN {} ELSE {bound[Len(bound)]}
  <2>1. /\ UNCHANGED <<registered, size, session, inbox, bound>> /\ Valid(s)
        /\ post' = [post EXCEPT ![p] = "found"]
        /\ request' = [request EXCEPT ![p] = [want |-> s, to |-> to]]
    BY <1>12 DEF PostLookup
  <2>2. to \subseteq Streams /\ \A v \in to : session[v] # "new"
    BY DEF Inv, Shape, ViewersMatchSessions
  <2> HIDE DEF to
  <2>3. Shape' /\ Arrived'
    BY <2>1, <2>2 DEF Inv, Shape, Arrived
  <2>4. BoundOnce' /\ ViewersMatchSessions'
    BY <2>1 DEF Inv, BoundOnce, ViewersMatchSessions
  <2> QED
    BY <2>3, <2>4 DEF Inv
<1>13. ASSUME NEW p \in Posters, PostResize(p)
       PROVE  Inv'
  <2>1. /\ post[p] = "found" /\ post' = [post EXCEPT ![p] = "applying"]
        /\ request' = [request EXCEPT ![p] = [want |-> Unsized, to |-> {}]]
        /\ UNCHANGED <<session, inbox, bound>>
        /\ \/ \E v \in request[p].to : ResizeViewer(<<p, "post">>, v, request[p].want)
           \/ UNCHANGED <<registered, size>>
    BY <1>13 DEF PostResize
  <2>2. /\ request' \in [Posters -> [want : Sizes \union {Unsized}, to : SUBSET Streams]]
        /\ \A q \in Posters : request'[q].to \subseteq request[q].to
    BY <2>1 DEF Inv, Shape
  <2>3. ASSUME NEW q \in Posters, post'[q] = "found"
        PROVE  post[q] = "found" /\ request'[q] = request[q]
    <3>1. q # p
      BY <2>1, <2>3 DEF TypeOK
    <3> QED
      BY <2>1, <2>3, <3>1 DEF TypeOK
  <2>4. CASE UNCHANGED <<registered, size>>
    BY <2>1, <2>2, <2>3, <2>4 DEF Inv, Shape, BoundOnce, Arrived, ViewersMatchSessions
  <2>5. ASSUME NEW v \in request[p].to, ResizeViewer(<<p, "post">>, v, request[p].want)
        PROVE  Inv'
    <3>1. v \in Streams /\ v \notin Consoles /\ session[v] # "new"
      BY KindsAssumption DEF Inv, Shape, Arrived
    <3>2. Valid(request[p].want) /\ request[p].want \in [cols : Int, rows : Int]
      BY <2>1, SizesAssumption DEF Inv, Shape, Unsized
    <3>3. /\ inbox' \in [WebSockets -> SUBSET Sizes]
          /\ \A x \in WebSockets : inbox'[x] \subseteq inbox[x]
      BY <2>1 DEF Inv, Shape
    <3> QED
      BY <2>1, <2>2, <2>3, <2>5, <3>1, <3>2, <3>3, ResizeKeepsInv
  <2> QED
    BY <2>1, <2>4, <2>5
<1>14. ASSUME NEW p \in Posters, PostReply(p)
       PROVE  Inv'
  <2>1. /\ UNCHANGED kept /\ post' = [post EXCEPT ![p] = "idle"]
    BY <1>14 DEF PostReply
  <2>2. \A q \in Posters : post'[q] = "found" => post[q] = "found"
    BY <2>1
  <2> QED
    BY <1>1, <2>1, <2>2
<1> QED
  BY <1>2, <1>3, <1>4, <1>5, <1>6, <1>7, <1>8, <1>9, <1>10, <1>11, <1>12, <1>13,
     <1>14 DEF Next

-----------------------------------------------------------------------------
(* Types. *)

LEMMA LeastExists ==
  ASSUME NEW S \in SUBSET Nat, S # {}
  PROVE  Min(S) \in S
<1>1. PICK x \in S : \A y \in S : <<y, x>> \notin OpToRel(<, Nat)
  BY WFMin, NatLessThanWellFounded
<1>2. \A y \in S : x <= y
  <2>1. ASSUME NEW y \in S
        PROVE  ~(y < x)
    BY <1>1 DEF OpToRel
  <2> QED
    BY <2>1
<1> QED
  BY <1>2 DEF Min

(* The smallest size of all is a size. *)
LEMMA SmallestIsValid ==
  ASSUME NEW reg \in SUBSET Viewers, NEW sz \in [Viewers -> [cols : Int, rows : Int]],
         Smallest(reg, sz) # Unsized
  PROVE  Smallest(reg, sz) \in Size /\ Valid(Smallest(reg, sz))
<1> DEFINE sized == {v \in reg : sz[v].cols > 0 /\ sz[v].rows > 0}
           widths == {sz[v].cols : v \in sized}
           heights == {sz[v].rows : v \in sized}
<1>1. sized # {} /\ Smallest(reg, sz) = [cols |-> Min(widths), rows |-> Min(heights)]
  BY DEF Smallest
<1>2. widths \in SUBSET (Nat \ {0}) /\ heights \in SUBSET (Nat \ {0})
  OBVIOUS
<1>3. widths # {} /\ heights # {}
  BY <1>1
<1> HIDE DEF widths, heights
<1>4. Min(widths) \in Nat \ {0} /\ Min(heights) \in Nat \ {0}
  BY <1>2, <1>3, LeastExists
<1> QED
  BY <1>1, <1>4 DEF Size, Valid

LEMMA ApplyTypes ==
  ASSUME TypeOK, NEW th \in Threads, NEW s, s = Unsized \/ s \in Size, Apply(th, s)
  PROVE  /\ call' \in [Threads -> [pc : {"idle", "check", "resize", "record"}, want : Size]]
         /\ latest' \subseteq Threads /\ setter' \subseteq Threads
         /\ stale' \in BOOLEAN /\ crossed' \in BOOLEAN
<1>1. call' \in [Threads -> [pc : {"idle", "check", "resize", "record"}, want : Size]]
  BY DEF Apply, TypeOK, Size, Unsized, Idle
<1>2. latest' \subseteq Threads
  BY DEF Apply
<1>3. UNCHANGED <<setter, stale, crossed>>
  BY DEF Apply
<1> QED
  BY <1>1, <1>2, <1>3 DEF TypeOK

LEMMA ResizeTypes ==
  ASSUME TypeOK, NEW th \in Threads, NEW v \in Viewers, NEW s \in Sizes, Valid(s),
         ResizeViewer(th, v, s)
  PROVE  /\ registered' \subseteq Viewers /\ size' \in [Viewers -> Size]
         /\ call' \in [Threads -> [pc : {"idle", "check", "resize", "record"}, want : Size]]
         /\ latest' \subseteq Threads /\ setter' \subseteq Threads
         /\ stale' \in BOOLEAN /\ crossed' \in BOOLEAN /\ overridden' \in BOOLEAN
<1>1. s \in Size
  BY SizesAssumption DEF Valid, Size
<1>2. registered' \subseteq Viewers /\ size' \in [Viewers -> Size] /\ overridden' \in BOOLEAN
  BY <1>1 DEF ResizeViewer, TypeOK
<1>3. size' \in [Viewers -> [cols : Int, rows : Int]]
  BY <1>2 DEF Size
<1>4. Smallest(registered', size') = Unsized \/ Smallest(registered', size') \in Size
  BY <1>2, <1>3, SmallestIsValid
<1>5. Apply(th, Smallest(registered', size'))
  BY DEF ResizeViewer
<1> QED
  BY <1>2, <1>4, <1>5, ApplyTypes

LEMMA TypeOKInit == Init => TypeOK
<1> SUFFICES ASSUME Init
             PROVE  TypeOK
  OBVIOUS
<1>1. known \in [cols : Int, rows : Int]
  BY SizesAssumption DEF Init
<1>2. Truncate(Normalize(known)) \in Size
  BY <1>1, SizesAssumption, WordAssumption DEF Truncate, Normalize, Size
<1>3. Unsized \in Size /\ Unsized \in [cols : Int, rows : Int]
  BY DEF Unsized, Size
<1>4. call \in [Threads -> [pc : {"idle", "check", "resize", "record"}, want : Size]]
  BY <1>3 DEF Init, Idle
<1>5. request \in [Posters -> [want : Sizes \union {Unsized}, to : SUBSET Streams]]
  BY DEF Init
<1>6. inbox \in [WebSockets -> SUBSET Sizes]
  BY DEF Init
<1>7. bound \in Seq(Streams) /\ pty \in Size
  BY <1>2 DEF Init
<1>8. size \in [Viewers -> Size]
  BY <1>3 DEF Init
<1>9. /\ registered \subseteq Viewers /\ closed \in BOOLEAN /\ overridden \in BOOLEAN
      /\ stale \in BOOLEAN /\ crossed \in BOOLEAN
      /\ latest \subseteq Threads /\ setter \subseteq Threads
      /\ session \in [Viewers -> {"new", "open", "bound", "unbound", "dropped", "over"}]
      /\ post \in [Posters -> {"idle", "found", "applying"}]
  BY DEF Init
<1> QED
  BY <1>1, <1>4, <1>5, <1>6, <1>7, <1>8, <1>9 DEF TypeOK

LEMMA TypeOKNext ==
  ASSUME Inv, TypeOK, [Next]_vars
  PROVE  TypeOK'
<1> USE DEF TypeOK
<1>1. CASE UNCHANGED vars
  BY <1>1 DEF vars, history
<1>2. CASE Close
  BY <1>2 DEF Close, history
<1>3. ASSUME NEW th \in Threads, CheckSame(th) \/ PtyResize(th) \/ Record(th)
      PROVE  TypeOK'
  <2>1. Idle \in [pc : {"idle", "check", "resize", "record"}, want : Size]
    BY DEF Idle, Unsized, Size
  <2>2. call[th].want \in Size
    OBVIOUS
  <2>3. Truncate(call[th].want) \in Size /\ call[th].want \in [cols : Int, rows : Int]
    BY <2>2, WordAssumption DEF Truncate, Size
  <2>4. CASE CheckSame(th)
    <3>1. UNCHANGED <<registered, size, known, pty, closed, session, inbox, bound, post,
                      request, overridden, setter, crossed>>
      BY <2>4 DEF CheckSame
    <3>2. call' \in [Threads -> [pc : {"idle", "check", "resize", "record"}, want : Size]]
      <4>1. CASE call' = [call EXCEPT ![th] = Idle]
        BY <2>1, <4>1
      <4>2. CASE call' = [call EXCEPT ![th].pc = "resize"]
        BY <4>2
      <4> QED
        BY <2>4, <4>1, <4>2 DEF CheckSame
    <3>3. latest' \subseteq Threads
      BY <2>4 DEF CheckSame
    <3>4. stale' \in BOOLEAN
      BY <2>4, Zenon DEF CheckSame
    <3> QED
      BY <3>1, <3>2, <3>3, <3>4
  <2>5. CASE PtyResize(th)
    <3>1. UNCHANGED <<registered, size, known, closed, session, inbox, bound, request,
                      overridden, stale, crossed>>
      BY <2>5 DEF PtyResize
    <3>2. CASE pty' = Truncate(call[th].want) /\ UNCHANGED <<post, latest>>
               /\ call' = [call EXCEPT ![th].pc = "record"] /\ setter' = {th}
      BY <2>3, <3>1, <3>2
    <3>3. CASE UNCHANGED <<pty, setter>> /\ call' = [call EXCEPT ![th] = Idle]
               /\ latest' = latest \ {th}
               /\ post' = [p \in Posters |-> IF th = <<p, "post">> THEN "idle" ELSE post[p]]
      BY <2>1, <3>1, <3>3
    <3> QED
      BY <2>5, <3>2, <3>3 DEF PtyResize
  <2>6. CASE Record(th)
    <3>1. /\ UNCHANGED <<registered, size, pty, closed, session, inbox, bound, post,
                         request, overridden>>
          /\ known' = call[th].want /\ call' = [call EXCEPT ![th] = Idle]
          /\ latest' = latest \ {th} /\ setter' = setter \ {th}
      BY <2>6 DEF Record, Finish
    <3>2. stale' \in BOOLEAN /\ crossed' \in BOOLEAN
      BY <2>6, Zenon DEF Record, Finish
    <3> QED
      BY <2>1, <2>3, <3>1, <3>2
  <2> QED
    BY <1>3, <2>4, <2>5, <2>6
<1>4. ASSUME NEW v \in Viewers, NewViewer(v)
      PROVE  TypeOK'
  BY <1>4 DEF NewViewer, Unsized, Size, history
<1>5. ASSUME NEW v \in Viewers, Bind(v) \/ Unbind(v)
      PROVE  TypeOK'
  <2>1. bound' \in Seq(Streams)
    BY <1>5, InvNext DEF Next, Inv, Shape
  <2> QED
    BY <1>5, <2>1 DEF Bind, Unbind, history
<1>6. ASSUME NEW v \in Viewers, Leave(v)
      PROVE  TypeOK'
  <2>1. /\ registered' = registered \ {v} /\ size' = [size EXCEPT ![v] = Unsized]
        /\ Apply(<<v, "handler">>, Smallest(registered', size'))
        /\ overridden' = (overridden /\ Smallest(registered', size') = Unsized)
        /\ session' = [session EXCEPT ![v] = "dropped"]
        /\ UNCHANGED <<known, pty, closed, inbox, bound, post, request>>
    BY <1>6 DEF Leave, DropViewer
  <2>2. registered' \subseteq Viewers /\ size' \in [Viewers -> Size]
    BY <2>1 DEF Unsized, Size
  <2>3. size' \in [Viewers -> [cols : Int, rows : Int]]
    BY <2>2 DEF Size
  <2>4. Smallest(registered', size') = Unsized \/ Smallest(registered', size') \in Size
    BY <2>2, <2>3, SmallestIsValid
  <2>5. <<v, "handler">> \in Threads
    BY DEF Threads
  <2>6. /\ call' \in [Threads -> [pc : {"idle", "check", "resize", "record"}, want : Size]]
        /\ latest' \subseteq Threads /\ setter' \subseteq Threads
        /\ stale' \in BOOLEAN /\ crossed' \in BOOLEAN
    BY <2>1, <2>4, <2>5, ApplyTypes
  <2>7. overridden' \in BOOLEAN
    BY <2>1, Zenon
  <2> QED
    BY <2>1, <2>2, <2>6, <2>7
<1>7. ASSUME NEW v \in Viewers, Hang(v)
      PROVE  TypeOK'
  BY <1>7 DEF Hang, history
<1>8. ASSUME NEW v \in WebSockets, NEW s \in Sizes, ReadMessage(v, s)
      PROVE  TypeOK'
  BY <1>8 DEF ReadMessage, history
<1>9. ASSUME NEW v \in WebSockets, ReaderResize(v)
      PROVE  TypeOK'
  <2>1. PICK s \in inbox[v] : ResizeViewer(<<v, "reader">>, v, s)
    BY <1>9 DEF ReaderResize
  <2>2. /\ s \in Sizes /\ v \in Viewers /\ <<v, "reader">> \in Threads
        /\ inbox' \in [WebSockets -> SUBSET Sizes]
        /\ UNCHANGED <<known, pty, closed, session, bound, post, request>>
    BY <1>9 DEF ReaderResize, Viewers, Threads
  <2>3. Valid(s)
    BY DEF Inv, Shape
  <2> QED
    BY <2>1, <2>2, <2>3, ResizeTypes
<1>10. ASSUME NEW v \in Consoles, NEW s \in Sizes, ConsoleResize(v, s)
       PROVE  TypeOK'
  <2>1. /\ Valid(s) /\ ResizeViewer(<<v, "handler">>, v, s)
        /\ v \in Viewers /\ <<v, "handler">> \in Threads
        /\ UNCHANGED <<known, pty, closed, session, inbox, bound, post, request>>
    BY <1>10 DEF ConsoleResize, Viewers, Threads
  <2> QED
    BY <2>1, ResizeTypes
<1>11. ASSUME NEW p \in Posters, NEW s \in Sizes, PostLookup(p, s)
       PROVE  TypeOK'
  <2> DEFINE to == IF bound = <<>> THEN {} ELSE {bound[Len(bound)]}
  <2>1. to \subseteq Streams
    OBVIOUS
  <2>2. /\ post' = [post EXCEPT ![p] = "found"]
        /\ request' = [request EXCEPT ![p] = [want |-> s, to |-> to]]
        /\ UNCHANGED <<registered, size, known, pty, closed, session, inbox, bound,
                       call, overridden, latest, stale, setter, crossed>>
    BY <1>11 DEF PostLookup, history
  <2> HIDE DEF to
  <2> QED
    BY <2>1, <2>2
<1>12. ASSUME NEW p \in Posters, PostResize(p)
       PROVE  TypeOK'
  <2>1. /\ post' = [post EXCEPT ![p] = "applying"]
        /\ request' = [request EXCEPT ![p] = [want |-> Unsized, to |-> {}]]
        /\ UNCHANGED <<known, pty, closed, session, inbox, bound>>
        /\ <<p, "post">> \in Threads
    BY <1>12 DEF PostResize, Threads
  <2>2. Valid(request[p].want) /\ request[p].want \in Sizes
    BY <1>12 DEF PostResize, Inv, Shape, Valid, Unsized
  <2>3. ASSUME NEW v \in request[p].to, ResizeViewer(<<p, "post">>, v, request[p].want)
        PROVE  TypeOK'
    <3>1. v \in Viewers
      BY DEF Viewers
    <3> QED
      BY <2>1, <2>2, <2>3, <3>1, ResizeTypes
  <2>4. ASSUME Apply(<<p, "post">>, request[p].want), overridden' = TRUE,
               UNCHANGED <<registered, size>>
        PROVE  TypeOK'
    <3>1. request[p].want \in Size
      BY <2>2, SizesAssumption DEF Valid, Size
    <3> QED
      BY <2>1, <2>4, <3>1, ApplyTypes
  <2> QED
    BY <1>12, <2>3, <2>4 DEF PostResize
<1>13. ASSUME NEW p \in Posters, PostReply(p)
       PROVE  TypeOK'
  BY <1>13 DEF PostReply, history
<1> QED
  BY <1>1, <1>2, <1>3, <1>4, <1>5, <1>6, <1>7, <1>8, <1>9, <1>10, <1>11, <1>12,
     <1>13 DEF Next

(* The state is well formed, whatever sizes the screens send: what is applied  *)
(* is a size, and what the PTY has fits in its dimensions (terminal.go         *)
(* smallestLocked, ResizeViewer, applySize).                                   *)
THEOREM SizesAreTyped == Spec => []TypeOK
  BY InvInit, InvNext, TypeOKInit, TypeOKNext, PTL DEF Spec

(* A screen that is there is counted, one that left is not unless a size it    *)
(* sent came after, and POST /resize picks one that is there (stream.go:173,   *)
(* handlers.go:182, terminal.go DropViewer).                                   *)
THEOREM ViewersAreRight == Spec => []ViewersMatchSessions
<1>1. Inv => ViewersMatchSessions
  BY DEF Inv
<1> QED
  BY <1>1, InvInit, InvNext, TypeOKInit, TypeOKNext, PTL DEF Spec

-----------------------------------------------------------------------------
(***************************************************************************)
(* The size, however many changes are under way.                           *)
(***************************************************************************)

Busy(th) == call[th].pc # "idle"

(* What is applied is a size, and so is what a client is told.                 *)
WantInv ==
    /\ \A th \in Threads : Busy(th) => Valid(call[th].want)
    /\ \A p \in Posters : post[p] = "applying" => Busy(<<p, "post">>) \/ Valid(known)

(* The change computed last is what the viewers call for, unless it was a size *)
(* without a viewer; once it is through, the terminal has that size, unless    *)
(* one that was computed before it has been recorded after it.                 *)
LatestInv ==
    /\ \A a, b \in latest : a = b
    /\ \A th \in latest : Busy(th) /\ (overridden \/ call[th].want = Target)
    /\ ~closed /\ latest = {} /\ ~overridden /\ ~stale /\ Target # Unsized
          => known = Target

(* The PTY has the size its last p.Resize gave it; that one is recorded last,  *)
(* unless one that resized before it records after it.                         *)
SetterInv ==
    /\ \A a, b \in setter : a = b
    /\ \A th \in setter : call[th].pc = "record" /\ pty = Truncate(call[th].want)
    /\ setter = {} /\ ~crossed => pty = Given(known)

SizeInv == Inv /\ TypeOK /\ WantInv /\ LatestInv /\ SetterInv

LEMMA SizeInit == Init => WantInv /\ LatestInv /\ SetterInv
<1> SUFFICES ASSUME Init
             PROVE  WantInv /\ LatestInv /\ SetterInv
  OBVIOUS
<1>1. \A th \in Threads : ~Busy(th)
  BY DEF Init, Idle, Busy
<1>2. Target = Unsized
  BY DEF Init, Target, Smallest
<1>3. \A p \in Posters : post[p] # "applying"
  BY DEF Init
<1>4. pty = Given(known) /\ latest = {} /\ setter = {}
  BY DEF Init, Given
<1> QED
  BY <1>1, <1>2, <1>3, <1>4 DEF WantInv, LatestInv, SetterInv

(* A change begins: its size is what the viewers call for from now on, or no   *)
(* viewer has it.                                                              *)
LEMMA Begins ==
  ASSUME TypeOK, WantInv, LatestInv, SetterInv, NEW th \in Threads, NEW s, Apply(th, s),
         call[th] = Idle, UNCHANGED <<known, pty>>, s = Unsized \/ Valid(s),
         overridden' \/ s = Target', closed' = closed,
         \A p \in Posters : post'[p] = "applying" =>
             post[p] = "applying" \/ (th = <<p, "post">> /\ s # Unsized)
  PROVE  WantInv' /\ LatestInv' /\ SetterInv'
<1>1. /\ call' = [call EXCEPT ![th] = IF s = Unsized THEN Idle ELSE [pc |-> "check", want |-> s]]
      /\ latest' = IF s = Unsized THEN {} ELSE {th}
      /\ UNCHANGED <<stale, setter, crossed>>
  BY DEF Apply
<1>2. \A a \in Threads : a # th => call'[a] = call[a]
  BY <1>1 DEF TypeOK
<1>3. ~Busy(th) /\ call[th].pc # "record"
  BY DEF Busy, Idle
<1>4. s = Unsized => ~Busy(th)' /\ call'[th] = Idle
  BY <1>1 DEF TypeOK, Busy, Idle
<1>5. s # Unsized => Busy(th)' /\ call'[th].want = s
  BY <1>1 DEF TypeOK, Busy, Idle
<1>6. WantInv'
  <2>1. ASSUME NEW a \in Threads, Busy(a)'
        PROVE  Valid(call'[a].want)
    BY <1>2, <1>4, <1>5, <2>1 DEF WantInv, Busy
  <2>2. ASSUME NEW p \in Posters, post'[p] = "applying"
        PROVE  Busy(<<p, "post">>)' \/ Valid(known)
    <3>1. <<p, "post">> \in Threads
      BY DEF Threads
    <3>2. CASE th = <<p, "post">> /\ s # Unsized
      BY <1>5, <3>2
    <3>3. CASE post[p] = "applying"
      <4>1. CASE th = <<p, "post">>
        BY <1>3, <3>3, <4>1 DEF WantInv
      <4>2. CASE th # <<p, "post">>
        BY <1>2, <3>1, <3>3, <4>2 DEF WantInv, Busy
      <4> QED
        BY <4>1, <4>2
    <3> QED
      BY <2>2, <3>2, <3>3
  <2> QED
    BY <2>1, <2>2 DEF WantInv, Valid
<1>7. LatestInv'
  BY <1>1, <1>4, <1>5 DEF LatestInv
<1>8. SetterInv'
  <2>1. \A a \in setter : a # th /\ a \in Threads
    BY <1>3 DEF SetterInv, TypeOK
  <2> QED
    BY <1>1, <1>2, <2>1 DEF SetterInv, Given, Truncate, Normalize
<1> QED
  BY <1>6, <1>7, <1>8

(* The early return of applySize. *)
LEMMA CheckSameRight ==
  ASSUME TypeOK, WantInv, LatestInv, SetterInv, NEW th \in Threads, CheckSame(th)
  PROVE  WantInv' /\ LatestInv' /\ SetterInv'
<1>1. /\ call[th].pc = "check" /\ Busy(th) /\ th \notin setter
      /\ UNCHANGED <<registered, size, known, pty, closed, post, overridden, setter, crossed>>
  BY DEF CheckSame, Busy, SetterInv
<1>2. Target' = Target /\ (Given(known))' = Given(known)
  BY <1>1 DEF Target, Given, Truncate, Normalize
<1>3. \A a \in Threads : a # th => call'[a] = call[a]
  BY DEF CheckSame, TypeOK
<1>4. \A a \in setter : a \in Threads /\ a # th
  BY <1>1 DEF TypeOK
<1>5. SetterInv'
  BY <1>1, <1>2, <1>3, <1>4 DEF SetterInv
<1>6. CASE known = call[th].want
  <2>1. /\ call'[th] = Idle /\ latest' = latest \ {th}
        /\ stale' = (stale /\ th \notin latest)
    BY <1>6 DEF CheckSame, TypeOK
  <2>2. ~Busy(th)'
    BY <2>1 DEF Busy, Idle
  <2>3. Valid(known)
    BY <1>1, <1>6 DEF WantInv
  <2>4. WantInv'
    <3>1. \A a \in Threads : Busy(a)' => a # th
      BY <2>2
    <3>2. Valid(known)'
      BY <1>1, <2>3 DEF Valid
    <3> QED
      BY <1>3, <3>1, <3>2 DEF WantInv, Busy
  <2>5. CASE th \in latest
    <3>1. latest' = {} /\ (overridden \/ known = Target)
      BY <1>6, <2>1, <2>5 DEF LatestInv
    <3> QED
      BY <1>1, <1>2, <1>5, <2>4, <3>1 DEF LatestInv
  <2>6. CASE th \notin latest
    <3>1. latest' = latest /\ stale' = stale /\ \A a \in latest : a \in Threads /\ a # th
      BY <2>1, <2>6 DEF TypeOK
    <3> QED
      BY <1>1, <1>2, <1>3, <1>5, <2>4, <3>1 DEF LatestInv, Busy
  <2> QED
    BY <2>5, <2>6
<1>7. CASE known # call[th].want
  <2>1. /\ call'[th].pc = "resize" /\ call'[th].want = call[th].want
        /\ UNCHANGED <<latest, stale>>
    BY <1>7 DEF CheckSame, TypeOK
  <2>2. \A a \in Threads : Busy(a)' = Busy(a) /\ call'[a].want = call[a].want
    BY <1>1, <1>3, <2>1 DEF Busy
  <2>3. WantInv'
    BY <1>1, <2>2 DEF WantInv, Threads, Valid
  <2>4. LatestInv'
    BY <1>1, <1>2, <2>1, <2>2 DEF LatestInv, TypeOK
  <2> QED
    BY <1>5, <2>3, <2>4
<1> QED
  BY <1>6, <1>7

LEMMA PtyResizeRight ==
  ASSUME TypeOK, WantInv, LatestInv, SetterInv, NEW th \in Threads, PtyResize(th)
  PROVE  WantInv' /\ LatestInv' /\ SetterInv'
<1>1. /\ call[th].pc = "resize" /\ Busy(th) /\ th \notin setter
      /\ UNCHANGED <<registered, size, known, closed, overridden, stale, crossed>>
  BY DEF PtyResize, Busy, SetterInv
<1>2. Target' = Target /\ (Given(known))' = Given(known)
  BY <1>1 DEF Target, Given, Truncate, Normalize
<1>3. \A a \in Threads : a # th => call'[a] = call[a]
  BY DEF PtyResize, TypeOK
<1>4. CASE ~closed
  <2>1. /\ call'[th].pc = "record" /\ call'[th].want = call[th].want
        /\ pty' = Truncate(call[th].want) /\ setter' = {th} /\ UNCHANGED <<post, latest>>
    BY <1>4 DEF PtyResize, TypeOK
  <2>2. \A a \in Threads : Busy(a)' = Busy(a) /\ call'[a].want = call[a].want
    BY <1>1, <1>3, <2>1 DEF Busy
  <2>3. WantInv'
    BY <1>1, <2>1, <2>2 DEF WantInv, Threads, Valid
  <2>4. LatestInv'
    BY <1>1, <1>2, <2>1, <2>2 DEF LatestInv, TypeOK
  <2>5. SetterInv'
    BY <2>1 DEF SetterInv, Truncate
  <2> QED
    BY <2>3, <2>4, <2>5
<1>5. CASE closed
  <2>1. /\ call'[th] = Idle /\ latest' = latest \ {th} /\ UNCHANGED <<pty, setter>>
        /\ post' = [p \in Posters |-> IF th = <<p, "post">> THEN "idle" ELSE post[p]]
    BY <1>5 DEF PtyResize, TypeOK
  <2>2. ~Busy(th)'
    BY <2>1 DEF Busy, Idle
  <2>3. WantInv'
    <3>1. \A a \in Threads : Busy(a)' => a # th
      BY <2>2
    <3>2. \A p \in Posters : post'[p] = "applying" =>
             post[p] = "applying" /\ <<p, "post">> # th /\ <<p, "post">> \in Threads
      BY <2>1 DEF Threads
    <3> QED
      BY <1>1, <1>3, <3>1, <3>2 DEF WantInv, Busy, Valid
  <2>4. LatestInv'
    <3>1. \A a \in latest' : a \in latest /\ a # th /\ a \in Threads
      BY <2>1 DEF TypeOK
    <3> QED
      BY <1>1, <1>2, <1>3, <1>5, <3>1 DEF LatestInv, Busy
  <2>5. SetterInv'
    <3>1. \A a \in setter : a # th /\ a \in Threads
      BY <1>1 DEF TypeOK
    <3> QED
      BY <1>1, <1>2, <1>3, <2>1, <3>1 DEF SetterInv
  <2> QED
    BY <2>3, <2>4, <2>5
<1> QED
  BY <1>4, <1>5

LEMMA RecordRight ==
  ASSUME TypeOK, WantInv, LatestInv, SetterInv, NEW th \in Threads, Record(th)
  PROVE  WantInv' /\ LatestInv' /\ SetterInv'
<1> DEFINE want == call[th].want
<1>1. /\ call[th].pc = "record" /\ Busy(th) /\ known' = want
      /\ latest' = latest \ {th} /\ stale' = (th \notin latest)
      /\ setter' = setter \ {th} /\ crossed' = (th \notin setter)
      /\ UNCHANGED <<registered, size, pty, closed, post, overridden>>
  BY DEF Record, Finish, Busy
<1>2. call'[th] = Idle /\ \A a \in Threads : a # th => call'[a] = call[a]
  BY DEF Record, Finish, TypeOK
<1>3. ~Busy(th)' /\ Target' = Target
  BY <1>1, <1>2 DEF Busy, Idle, Target
<1>4. Valid(want) /\ want \in Size
  BY <1>1 DEF WantInv, TypeOK
<1>5. Given(want) = Truncate(want)
  BY <1>4 DEF Given, Truncate, Normalize, Valid, Size
<1>6. Valid(known)' /\ (Given(known))' = Given(want)
  BY <1>1, <1>4 DEF Valid, Given, Truncate, Normalize
<1> HIDE DEF want
<1>7. WantInv'
  <2>1. \A a \in Threads : Busy(a)' => a # th
    BY <1>3
  <2> QED
    BY <1>2, <1>6, <2>1 DEF WantInv, Busy
<1>8. LatestInv'
  <2>1. CASE th \in latest
    <3>1. latest' = {} /\ (overridden \/ want = Target)
      BY <1>1, <2>1 DEF LatestInv, want
    <3> QED
      BY <1>1, <1>3, <3>1 DEF LatestInv
  <2>2. CASE th \notin latest
    <3>1. /\ latest' = latest /\ stale'
          /\ \A a \in latest : a # th /\ a \in Threads
      BY <1>1, <2>2 DEF TypeOK
    <3> QED
      BY <1>1, <1>2, <1>3, <3>1 DEF LatestInv, Busy
  <2> QED
    BY <2>1, <2>2
<1>9. SetterInv'
  <2>1. CASE th \in setter
    <3>1. setter' = {} /\ pty = Truncate(want)
      BY <1>1, <2>1 DEF SetterInv, want
    <3> QED
      BY <1>1, <1>5, <1>6, <3>1 DEF SetterInv
  <2>2. CASE th \notin setter
    <3>1. /\ setter' = setter /\ crossed'
          /\ \A a \in setter : a # th /\ a \in Threads
      BY <1>1, <2>2 DEF TypeOK
    <3> QED
      BY <1>1, <1>2, <3>1 DEF SetterInv
  <2> QED
    BY <2>1, <2>2
<1> QED
  BY <1>7, <1>8, <1>9

(* A viewer that has not told its size is not counted. *)
LEMMA NewcomerIsNotCounted ==
  ASSUME TypeOK, NEW v \in Viewers, v \notin registered,
         registered' = registered \union {v}, size' = [size EXCEPT ![v] = Unsized]
  PROVE  Target' = Target
<1> DEFINE sized(reg, sz) == {x \in reg : sz[x].cols > 0 /\ sz[x].rows > 0}
<1>1. \A x \in registered : x # v /\ size'[x] = size[x]
  BY DEF TypeOK
<1>2. size'[v].cols = 0
  BY DEF TypeOK, Unsized
<1>3. sized(registered', size') = sized(registered, size)
  BY <1>1, <1>2
<1>4. /\ {size'[x].cols : x \in sized(registered, size)} = {size[x].cols : x \in sized(registered, size)}
      /\ {size'[x].rows : x \in sized(registered, size)} = {size[x].rows : x \in sized(registered, size)}
  BY <1>1
<1> QED
  BY <1>3, <1>4, Zenon DEF Target, Smallest

(* After a screen has told its size there is a smallest one. *)
LEMMA ResizeIsSized ==
  ASSUME TypeOK, TypeOK', NEW th, NEW v \in Viewers, NEW s \in Sizes, Valid(s),
         ResizeViewer(th, v, s)
  PROVE  Target' # Unsized
<1>1. ASSUME NEW reg \in SUBSET Viewers, NEW sz \in [Viewers -> Size],
             v \in reg, Valid(sz[v])
      PROVE  Smallest(reg, sz) # Unsized
  <2> DEFINE sized == {x \in reg : sz[x].cols > 0 /\ sz[x].rows > 0}
             widths == {sz[x].cols : x \in sized}
             heights == {sz[x].rows : x \in sized}
  <2>1. v \in sized
    BY <1>1 DEF Valid
  <2>2. Smallest(reg, sz) = [cols |-> Min(widths), rows |-> Min(heights)]
    BY <2>1 DEF Smallest
  <2>3. widths \in SUBSET (Nat \ {0}) /\ widths # {}
    BY <2>1 DEF Size
  <2> HIDE DEF widths, heights
  <2>4. Min(widths) \in Nat \ {0}
    BY <2>3, LeastExists
  <2> QED
    BY <2>2, <2>4 DEF Unsized
<1>2. v \in registered' /\ size'[v] = s
  BY DEF ResizeViewer, TypeOK
<1>3. registered' \in SUBSET Viewers /\ size' \in [Viewers -> Size]
  BY DEF TypeOK
<1> QED
  BY <1>1, <1>2, <1>3 DEF Target

LEMMA SizeNext ==
  ASSUME SizeInv, [Next]_vars
  PROVE  WantInv' /\ LatestInv' /\ SetterInv'
<1> USE DEF SizeInv
<1>1. TypeOK'
  BY TypeOKNext
<1>2. ASSUME UNCHANGED <<known, pty, call, history>>, closed => closed', Target' = Target,
             \A p \in Posters : post'[p] = "applying" => post[p] = "applying"
      PROVE  WantInv' /\ LatestInv' /\ SetterInv'
  <2>1. (Given(known))' = Given(known)
    BY <1>2 DEF Given, Truncate, Normalize
  <2>2. WantInv'
    BY <1>2 DEF WantInv, Busy, Valid
  <2>3. LatestInv'
    BY <1>2 DEF LatestInv, Busy, history
  <2>4. SetterInv'
    BY <1>2, <2>1 DEF SetterInv, Truncate, history
  <2> QED
    BY <2>2, <2>3, <2>4
<1>3. CASE UNCHANGED vars
  BY <1>2, <1>3 DEF vars, Target
<1>4. CASE Close
  BY <1>2, <1>4 DEF Close, Target
<1>5. ASSUME NEW th \in Threads, CheckSame(th) \/ PtyResize(th) \/ Record(th)
      PROVE  WantInv' /\ LatestInv' /\ SetterInv'
  BY <1>5, CheckSameRight, PtyResizeRight, RecordRight
<1>6. ASSUME NEW v \in Viewers, NewViewer(v)
      PROVE  WantInv' /\ LatestInv' /\ SetterInv'
  <2>1. v \notin registered
    BY <1>6 DEF NewViewer, Inv, Arrived
  <2>2. Target' = Target
    BY <1>6, <2>1, NewcomerIsNotCounted DEF NewViewer
  <2> QED
    BY <1>2, <1>6, <2>2 DEF NewViewer
<1>7. ASSUME NEW v \in Viewers, Bind(v) \/ Unbind(v) \/ Hang(v)
      PROVE  WantInv' /\ LatestInv' /\ SetterInv'
  BY <1>2, <1>7 DEF Bind, Unbind, Hang, Target
<1>8. ASSUME NEW v \in WebSockets, NEW s \in Sizes, ReadMessage(v, s)
      PROVE  WantInv' /\ LatestInv' /\ SetterInv'
  BY <1>2, <1>8 DEF ReadMessage, Target
<1>9. Target' = Unsized \/ Valid(Target')
  <2>1. size' \in [Viewers -> [cols : Int, rows : Int]] /\ registered' \in SUBSET Viewers
    BY <1>1 DEF TypeOK, Size
  <2> QED
    BY <2>1, SmallestIsValid DEF Target
<1>10. ASSUME NEW th \in Threads, MayCall(th), UNCHANGED <<known, pty, closed>>,
              NEW v \in Viewers, NEW s \in Sizes, Valid(s), ResizeViewer(th, v, s),
              \A p \in Posters : post'[p] = "applying" =>
                  post[p] = "applying" \/ th = <<p, "post">>
       PROVE  WantInv' /\ LatestInv' /\ SetterInv'
  <2>1. Apply(th, Target')
    BY <1>10 DEF ResizeViewer, Target
  <2>2. Target' # Unsized
    BY <1>1, <1>10, ResizeIsSized
  <2> QED
    BY <1>9, <1>10, <2>1, <2>2, Begins DEF MayCall
<1>11. ASSUME NEW v \in Viewers, Leave(v)
       PROVE  WantInv' /\ LatestInv' /\ SetterInv'
  <2>1. /\ Apply(<<v, "handler">>, Target') /\ <<v, "handler">> \in Threads
        /\ call[<<v, "handler">>] = Idle /\ UNCHANGED <<known, pty, closed, post>>
    BY <1>11 DEF Leave, DropViewer, Target, Threads, MayCall
  <2> QED
    BY <1>9, <2>1, Begins
<1>12. ASSUME NEW v \in WebSockets, ReaderResize(v)
       PROVE  WantInv' /\ LatestInv' /\ SetterInv'
  <2>1. PICK s \in inbox[v] : ResizeViewer(<<v, "reader">>, v, s)
    BY <1>12 DEF ReaderResize
  <2>2. /\ s \in Sizes /\ Valid(s) /\ v \in Viewers /\ <<v, "reader">> \in Threads
        /\ MayCall(<<v, "reader">>) /\ UNCHANGED <<known, pty, closed, post>>
    BY <1>12 DEF ReaderResize, Viewers, Threads, TypeOK, Inv, Shape
  <2> QED
    BY <1>10, <2>1, <2>2
<1>13. ASSUME NEW v \in Consoles, NEW s \in Sizes, ConsoleResize(v, s)
       PROVE  WantInv' /\ LatestInv' /\ SetterInv'
  <2>1. v \in Viewers /\ <<v, "handler">> \in Threads
    BY DEF Viewers, Threads
  <2> QED
    BY <1>10, <1>13, <2>1 DEF ConsoleResize
<1>14. ASSUME NEW p \in Posters, NEW s \in Sizes, PostLookup(p, s)
       PROVE  WantInv' /\ LatestInv' /\ SetterInv'
  BY <1>2, <1>14 DEF PostLookup, Target, TypeOK
<1>15. ASSUME NEW p \in Posters, PostResize(p)
       PROVE  WantInv' /\ LatestInv' /\ SetterInv'
  <2>1. /\ <<p, "post">> \in Threads /\ MayCall(<<p, "post">>)
        /\ UNCHANGED <<known, pty, closed>>
        /\ \A q \in Posters : post'[q] = "applying" =>
              post[q] = "applying" \/ <<p, "post">> = <<q, "post">>
    BY <1>15 DEF PostResize, Threads, TypeOK
  <2>2. Valid(request[p].want) /\ request[p].want \in Sizes /\ request[p].want # Unsized
    BY <1>15 DEF PostResize, Inv, Shape, Valid, Unsized
  <2>3. ASSUME NEW v \in request[p].to, ResizeViewer(<<p, "post">>, v, request[p].want)
        PROVE  WantInv' /\ LatestInv' /\ SetterInv'
    <3>1. v \in Viewers
      BY DEF Inv, Shape, Viewers
    <3> QED
      BY <1>10, <2>1, <2>2, <2>3, <3>1
  <2>4. ASSUME Apply(<<p, "post">>, request[p].want), overridden' = TRUE
        PROVE  WantInv' /\ LatestInv' /\ SetterInv'
    BY <2>1, <2>2, <2>4, Begins DEF MayCall
  <2> QED
    BY <1>15, <2>3, <2>4 DEF PostResize
<1>16. ASSUME NEW p \in Posters, PostReply(p)
       PROVE  WantInv' /\ LatestInv' /\ SetterInv'
  <2>1. /\ UNCHANGED <<registered, size, known, pty, call, closed, history>>
        /\ post' = [post EXCEPT ![p] = "idle"]
    BY <1>16 DEF PostReply
  <2>2. \A q \in Posters : post'[q] = "applying" => post[q] = "applying"
    BY <2>1 DEF TypeOK
  <2> QED
    BY <1>2, <2>1, <2>2 DEF Target
<1> QED
  BY <1>3, <1>4, <1>5, <1>6, <1>7, <1>8, <1>11, <1>12, <1>13, <1>14, <1>15, <1>16 DEF Next

LEMMA SizeInvariance == Spec => []SizeInv
<1>1. Init => SizeInv
  BY InvInit, TypeOKInit, SizeInit DEF SizeInv
<1>2. SizeInv /\ [Next]_vars => SizeInv'
  BY InvNext, TypeOKNext, SizeNext DEF SizeInv
<1> QED
  BY <1>1, <1>2, PTL DEF Spec

(* Whatever overlaps: when no change is under way, the shell has the size of   *)
(* the smallest screen, unless the size recorded last had been overtaken       *)
(* (terminal.go ResizeViewer, DropViewer, applySize).                          *)
THEOREM ShellFitsSmallest == Spec => []FitsSmallest
<1>1. SizeInv => FitsSmallest
  <2> SUFFICES ASSUME SizeInv, Quiet
               PROVE  latest = {} /\ ~closed
    BY DEF SizeInv, LatestInv, FitsSmallest, Quiet
  <2>1. ~closed /\ \A th \in Threads : ~Busy(th)
    BY DEF Quiet, Calling, Busy
  <2> QED
    BY <2>1 DEF SizeInv, TypeOK, LatestInv
<1> QED
  BY <1>1, SizeInvariance, PTL

(* Whatever overlaps: the size the terminal reports is the one its PTY was     *)
(* given, but between the two steps of a change, and when two have crossed     *)
(* (terminal.go applySize, Info).                                              *)
THEOREM ReportIsReal == Spec => []ReportedIsReal
<1>1. SizeInv => ReportedIsReal
  BY DEF SizeInv, SetterInv, ReportedIsReal, InStep, Info
<1> QED
  BY <1>1, SizeInvariance, PTL

(* Whatever overlaps: what a client is told in answer to POST /resize is the   *)
(* size the PTY has, when it fits 16 bits, but between the two steps of a      *)
(* change and when two have crossed (handlers.go:193).                         *)
THEOREM AnswerIsReal == Spec => AnswersAreReal
<1> DEFINE Told == \A p \in Posters : Answers(p) /\ InStep /\ Fits(Info) => pty = Info
<1>1. ASSUME SizeInv, [Next]_vars
      PROVE  [Told]_vars
  <2> SUFFICES ASSUME NEW p \in Posters, Answers(p), InStep, Fits(known)
               PROVE  pty = known
    BY DEF Info
  <2>1. <<p, "post">> \in Threads /\ ~Busy(<<p, "post">>)
    BY DEF Answers, Busy, Idle, Threads
  <2>2. Valid(known) /\ known \in [cols : Int, rows : Int]
    BY <1>1, <2>1 DEF Answers, SizeInv, WantInv, TypeOK
  <2>3. pty = Given(known)
    BY <1>1 DEF SizeInv, SetterInv, InStep
  <2>4. Normalize(known) = known
    BY <2>2 DEF Normalize, Valid
  <2>5. known.cols % Word = known.cols /\ known.rows % Word = known.rows
    BY <2>2, WordAssumption DEF Valid, Fits
  <2> QED
    BY <2>2, <2>3, <2>4, <2>5 DEF Given, Truncate
<1> QED
  BY <1>1, SizeInvariance, PTL DEF Spec, AnswersAreReal
=============================================================================
