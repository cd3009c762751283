--------------------------- MODULE RegistryProofs ---------------------------
(***************************************************************************)
(* Theorems about the table of terminals, for any limit, any number of     *)
(* calls of Create and any bound on how many of them overlap.              *)
(***************************************************************************)
EXTENDS Registry, FiniteSetTheorems, TLAPS

(* A terminal that is not in the table yet has no goroutine that waits for    *)
(* its end, and that goroutine sleeps only when the shell is dead.            *)
LifeInv ==
    \A t \in Terminals :
        /\ create[t] # "done" => expiry[t] = "none"
        /\ create[t] \in {"idle", "spawn", "failed"} => shell[t] = "none"
        /\ create[t] \in {"insert", "done"} => shell[t] # "none"
        /\ expiry[t] \in {"sleep", "end"} => shell[t] = "dead"

(* CloseAll holds terminals only while it runs; when srv.Shutdown has waited  *)
(* for the handlers to the end, none of them holds or makes one any more.     *)
(* When the console could not start it has no shell.                          *)
ClosingInv ==
    /\ agent \in {"starting", "up", "draining", "gone"} => closing = {}
    /\ agent \in {"last", "gone"} /\ ~timedOut /\ ~aborted
          => items = {} /\ Creating = {} /\ deleting = {}
    /\ aborted => agent = "gone" /\ \A t \in Own : shell[t] = "none"

(* How many terminals there are and may come to be at once.                   *)
LimitInv ==
    /\ Cardinality(Creating) <= MaxConcurrent
    /\ BoundedOvershoot

(* At first there are no terminals. *)
LEMMA InitTypes == Init => TypeOK /\ LifeInv /\ ClosingInv /\ NoLostShell
  BY DEF Init, TypeOK, LifeInv, ClosingInv, NoLostShell

(* Types, and the terminals that are in the table or out of it to be closed    *)
(* have been started.                                                          *)
LEMMA TypeNext ==
  ASSUME TypeOK, LifeInv, [Next]_vars
  PROVE  TypeOK'
<1> USE DEF TypeOK
<1>1. ASSUME NEW t \in Terminals, Step(t)
      PROVE  TypeOK'
  <2>1. CASE Check(t)
    BY <2>1 DEF Check, Calls, HandlersRun
  <2>2. CASE Spawn(t)
    BY <2>2 DEF Spawn
  <2>3. CASE Insert(t)
    BY <2>3 DEF Insert, LifeInv
  <2>4. CASE Exit(t) \/ GoQuiet(t) \/ Activity(t) \/ Done(t) \/ Expire(t)
    BY <2>4 DEF Exit, GoQuiet, Activity, Done, Expire
  <2>5. CASE Delete(t) \/ DeleteClose(t) \/ SweepClose(t)
    BY <2>5 DEF Delete, DeleteClose, SweepClose, Kill
  <2> QED
    BY <1>1, <2>1, <2>2, <2>3, <2>4, <2>5 DEF Step
<1>2. CASE Sweep \/ SweepStop \/ Shutdown
  BY <1>2 DEF Sweep, SweepStop, Shutdown, Stale
<1>3. CASE Started \/ Abort \/ Drain \/ Drained \/ DrainTimeout \/ Gone
  BY <1>3 DEF Started, Abort, Drain, Drained, DrainTimeout, Gone
<1>4. ASSUME NEW t \in Terminals, CloseNext(t)
      PROVE  TypeOK'
  BY <1>4 DEF CloseNext, Kill
<1>5. CASE UNCHANGED vars
  BY <1>5 DEF vars
<1> QED
  BY <1>1, <1>2, <1>3, <1>4, <1>5 DEF Next, Main

(* A shell starts once and dies once, and its goroutine follows it. *)
LEMMA LifeNext ==
  ASSUME TypeOK, LifeInv, [Next]_vars
  PROVE  LifeInv'
<1> USE DEF LifeInv, TypeOK
<1>1. ASSUME NEW t \in Terminals, Step(t)
      PROVE  LifeInv'
  <2>1. CASE Check(t)
    BY <2>1 DEF Check, Calls, HandlersRun
  <2>2. CASE Spawn(t)
    BY <2>2 DEF Spawn
  <2>3. CASE Insert(t)
    BY <2>3 DEF Insert
  <2>4. CASE Exit(t) \/ GoQuiet(t) \/ Activity(t) \/ Done(t) \/ Expire(t)
    BY <2>4 DEF Exit, GoQuiet, Activity, Done, Expire
  <2>5. CASE Delete(t) \/ DeleteClose(t) \/ SweepClose(t)
    BY <2>5 DEF Delete, DeleteClose, SweepClose, Kill
  <2> QED
    BY <1>1, <2>1, <2>2, <2>3, <2>4, <2>5 DEF Step
<1>2. CASE Sweep \/ SweepStop \/ Shutdown
  BY <1>2 DEF Sweep, SweepStop, Shutdown
<1>3. CASE Started \/ Abort \/ Drain \/ Drained \/ DrainTimeout \/ Gone
  BY <1>3 DEF Started, Abort, Drain, Drained, DrainTimeout, Gone
<1>4. ASSUME NEW t \in Terminals, CloseNext(t)
      PROVE  LifeInv'
  BY <1>4 DEF CloseNext, Kill
<1>5. CASE UNCHANGED vars
  BY <1>5 DEF vars
<1> QED
  BY <1>1, <1>2, <1>3, <1>4, <1>5 DEF Next, Main

-----------------------------------------------------------------------------
(* No shell is forgotten. *)

(* The two calls of CloseAll do not overlap. *)
LEMMA ClosingNext ==
  ASSUME TypeOK, LifeInv, ClosingInv, [Next]_vars
  PROVE  ClosingInv'
<1> USE DEF ClosingInv, TypeOK, Creating
<1>1. ASSUME NEW t \in Terminals, Step(t)
      PROVE  ClosingInv'
  <2>1. CASE Check(t)
    BY <2>1 DEF Check, Calls, HandlersRun
  <2>2. CASE Spawn(t) \/ Insert(t)
    BY <2>2 DEF Spawn, Insert
  <2>3. CASE Exit(t) \/ GoQuiet(t) \/ Activity(t) \/ Done(t) \/ Expire(t)
    BY <2>3 DEF Exit, GoQuiet, Activity, Done, Expire
  <2>4. CASE Delete(t) \/ DeleteClose(t) \/ SweepClose(t)
    BY <2>4 DEF Delete, DeleteClose, SweepClose, Kill, HandlersRun
  <2> QED
    BY <1>1, <2>1, <2>2, <2>3, <2>4 DEF Step
<1>2. CASE Sweep \/ SweepStop \/ Shutdown
  BY <1>2 DEF Sweep, SweepStop, Shutdown
<1>3. CASE Started \/ Abort \/ Drain \/ Drained \/ DrainTimeout \/ Gone
  BY <1>3, OwnAssumption DEF Started, Abort, Drain, Drained, DrainTimeout, Gone, LifeInv
<1>4. ASSUME NEW t \in Terminals, CloseNext(t)
      PROVE  ClosingInv'
  BY <1>4 DEF CloseNext, Kill
<1>5. CASE UNCHANGED vars
  BY <1>5 DEF vars
<1> QED
  BY <1>1, <1>2, <1>3, <1>4, <1>5 DEF Next, Main

(* Whoever takes a terminal out of the table keeps it until its shell is dead; *)
(* the goroutine of Create takes out dead ones only.                           *)
LEMMA NoLostNext ==
  ASSUME TypeOK, LifeInv, ClosingInv, NoLostShell, [Next]_vars
  PROVE  NoLostShell'
<1> USE DEF NoLostShell, TypeOK
<1>1. ASSUME NEW t \in Terminals, Step(t)
      PROVE  NoLostShell'
  <2>1. CASE Check(t) \/ Spawn(t) \/ Insert(t)
    BY <2>1 DEF Check, Spawn, Insert, LifeInv
  <2>2. CASE Exit(t) \/ GoQuiet(t) \/ Activity(t) \/ Done(t)
    BY <2>2 DEF Exit, GoQuiet, Activity, Done
  <2>3. CASE Expire(t)
    BY <2>3 DEF Expire, LifeInv
  <2>4. CASE Delete(t) \/ DeleteClose(t) \/ SweepClose(t)
    BY <2>4 DEF Delete, DeleteClose, SweepClose, Kill, HandlersRun
  <2> QED
    BY <1>1, <2>1, <2>2, <2>3, <2>4 DEF Step
<1>2. CASE Sweep \/ SweepStop
  BY <1>2 DEF Sweep, SweepStop
<1>3. CASE Shutdown
  BY <1>3 DEF Shutdown, ClosingInv
<1>4. CASE Started \/ Abort \/ Drain \/ Gone
  BY <1>4 DEF Started, Abort, Drain, Gone
<1>5. CASE Drained \/ DrainTimeout
  BY <1>5 DEF Drained, DrainTimeout, ClosingInv
<1>6. ASSUME NEW t \in Terminals, CloseNext(t)
      PROVE  NoLostShell'
  BY <1>6 DEF CloseNext, Kill
<1>7. CASE UNCHANGED vars
  BY <1>7 DEF vars
<1> QED
  BY <1>1, <1>2, <1>3, <1>4, <1>5, <1>6, <1>7 DEF Next, Main

-----------------------------------------------------------------------------
(* The limit. *)

(* Sets of terminals are finite, and a smaller set has no more members. *)
LEMMA Fewer ==
  ASSUME NEW S \in SUBSET Terminals, NEW R \in SUBSET S
  PROVE  /\ IsFiniteSet(S) /\ IsFiniteSet(R)
         /\ Cardinality(S) \in Nat /\ Cardinality(R) \in Nat
         /\ Cardinality(R) <= Cardinality(S)
<1>1. IsFiniteSet(S)
  BY TerminalsAssumption, FS_Subset
<1> QED
  BY <1>1, FS_Subset, FS_CardinalityType

(* At first nothing is being created. *)
LEMMA LimitInit == Init => LimitInv
<1> SUFFICES ASSUME Init
             PROVE  LimitInv
  OBVIOUS
<1>1. Creating = {} /\ items \union Creating = {}
  BY DEF Init, Creating
<1> QED
  BY <1>1, FS_EmptySet, MaxAssumption, MaxConcurrentAssumption
     DEF LimitInv, BoundedOvershoot

(* Only Check adds to the terminals there are or may come to be, and it does   *)
(* so while there are fewer than the limit and fewer than the bound on calls.  *)
LEMMA LimitNext ==
  ASSUME TypeOK, LimitInv, [Next]_vars
  PROVE  LimitInv'
<1> USE MaxAssumption, MaxConcurrentAssumption
<1>1. ASSUME Creating' \subseteq Creating,
             items' \subseteq items \union Creating
      PROVE  LimitInv'
  <2>1. items \union Creating \subseteq Terminals
    BY DEF TypeOK, Creating
  <2>2. items' \union Creating' \subseteq items \union Creating
    BY <1>1
  <2>3. /\ Cardinality(items' \union Creating') <= Cardinality(items \union Creating)
        /\ Cardinality(items' \union Creating') \in Nat
        /\ Cardinality(items \union Creating) \in Nat
    BY <2>1, <2>2, Fewer
  <2>4. /\ Cardinality(Creating') <= Cardinality(Creating)
        /\ Cardinality(Creating') \in Nat /\ Cardinality(Creating) \in Nat
    BY <1>1, <2>1, Fewer
  <2> QED
    BY <2>3, <2>4 DEF LimitInv, BoundedOvershoot
<1>2. ASSUME NEW t \in Terminals, Check(t)
      PROVE  LimitInv'
  <2>1. items' = items /\ Cardinality(Creating) < MaxConcurrent
    BY <1>2 DEF Check
  <2>2. CASE ~BelowLimit
    <3>1. Creating' \subseteq Creating
      BY <1>2, <2>2 DEF Check, Creating, TypeOK
    <3> QED
      BY <1>1, <2>1, <3>1
  <2>3. CASE BelowLimit
    <3>1. Creating' = Creating \union {t}
      BY <1>2, <2>3 DEF Check, Creating, TypeOK
    <3>2. items \in SUBSET Terminals /\ Creating \in SUBSET Terminals
      BY DEF TypeOK, Creating
    <3>3. /\ IsFiniteSet(items) /\ Cardinality(items) \in Nat
          /\ IsFiniteSet(Creating) /\ Cardinality(Creating) \in Nat
      BY <3>2, Fewer
    <3>4. /\ IsFiniteSet(Creating')
          /\ Cardinality(Creating') \in Nat
          /\ Cardinality(Creating') <= Cardinality(Creating) + 1
      <4>1. /\ IsFiniteSet(Creating \union {t})
            /\ Cardinality(Creating \union {t})
                 = IF t \in Creating THEN Cardinality(Creating)
                   ELSE Cardinality(Creating) + 1
        BY <3>3, FS_AddElement
      <4> QED
        BY <3>1, <3>3, <4>1
    <3>5. /\ Cardinality(items \intersect Creating') \in Nat
          /\ Cardinality(items \union Creating')
                = Cardinality(items) + Cardinality(Creating')
                    - Cardinality(items \intersect Creating')
      <4>1. items \intersect Creating' \in SUBSET items
        OBVIOUS
      <4> QED
        BY <3>2, <3>3, <3>4, <4>1, Fewer, FS_Union
    <3>6. Cardinality(items) < Max
      BY <2>3 DEF BelowLimit
    <3> QED
      BY <2>1, <3>3, <3>4, <3>5, <3>6 DEF LimitInv, BoundedOvershoot
  <2> QED
    BY <2>2, <2>3
<1>3. ASSUME NEW t \in Terminals, Spawn(t) \/ Insert(t)
      PROVE  LimitInv'
  <2>1. Creating' \subseteq Creating /\ items' \subseteq items \union Creating
    BY <1>3 DEF Spawn, Insert, Creating, TypeOK
  <2> QED
    BY <1>1, <2>1
<1>4. ASSUME UNCHANGED create, items' \subseteq items
      PROVE  LimitInv'
  <2>1. Creating' = Creating
    BY <1>4 DEF Creating
  <2> QED
    BY <1>1, <1>4, <2>1
<1>5. ASSUME NEW t \in Terminals,
             Exit(t) \/ GoQuiet(t) \/ Activity(t) \/ Done(t) \/ Expire(t)
               \/ Delete(t) \/ DeleteClose(t) \/ SweepClose(t) \/ CloseNext(t)
      PROVE  LimitInv'
  BY <1>4, <1>5 DEF Exit, GoQuiet, Activity, Done, Expire, Delete, DeleteClose,
                    SweepClose, CloseNext
<1>6. CASE Sweep \/ SweepStop \/ Shutdown \/ Drain \/ Drained \/ DrainTimeout
             \/ Gone \/ Started \/ Abort \/ UNCHANGED vars
  BY <1>4, <1>6 DEF Sweep, SweepStop, Shutdown, Drain, Drained, DrainTimeout,
                    Gone, Started, Abort, vars
<1> QED
  BY <1>2, <1>3, <1>5, <1>6 DEF Next, Step, Main

-----------------------------------------------------------------------------
(* Theorems. *)

Inv == TypeOK /\ LifeInv /\ ClosingInv /\ NoLostShell /\ LimitInv

(* The invariant is one. *)
THEOREM Invariance == Spec => []Inv
<1>1. Init => Inv
  BY InitTypes, LimitInit DEF Inv
<1>2. Inv /\ [Next]_vars => Inv'
  BY TypeNext, LifeNext, ClosingNext, NoLostNext, LimitNext DEF Inv
<1> QED
  BY <1>1, <1>2, PTL DEF Spec

(* Terminals in the table, and those taken out to be closed, have been made    *)
(* (registry.go).                                                              *)
THEOREM TypeCorrect == Spec => []TypeOK
<1>1. Inv => TypeOK
  BY DEF Inv
<1> QED
  BY <1>1, Invariance, PTL

(* Whoever removes entries and in whatever order, a running shell is in the    *)
(* table, about to be put there, or held by somebody who will close it         *)
(* (registry.go Create, Close, CloseAll, sweep).                               *)
THEOREM NoShellLost == Spec => []NoLostShell
<1>1. Inv => NoLostShell
  BY DEF Inv
<1> QED
  BY <1>1, Invariance, PTL

(* Calls of Create that overlap exceed the limit by one less than there are of *)
(* them, and by no more (registry.go:73-95).                                   *)
THEOREM OvershootBounded == Spec => []BoundedOvershoot
<1>1. Inv => BoundedOvershoot
  BY DEF Inv, LimitInv
<1> QED
  BY <1>1, Invariance, PTL

(* What the process may leave running when it ends: a shell the sweeper was    *)
(* about to close, one of a handler srv.Shutdown gave up on, or one of a       *)
(* client when the console could not start (main.go:161-194, shutdown and the  *)
(* deferred CloseAll).                                                         *)
THEOREM ShellsEndWithAgent == Spec => []ShutdownEndsShells
<1>1. Inv => ShutdownEndsShells
  BY DEF Inv, TypeOK, ClosingInv, NoLostShell, ShutdownEndsShells, Creating
<1> QED
  BY <1>1, Invariance, PTL
=============================================================================
