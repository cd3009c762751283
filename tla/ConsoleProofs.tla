--------------------------- MODULE ConsoleProofs ----------------------------
(***************************************************************************)
(* Theorems about the console for any number of readers, any set of chunks *)
(* that make the emulator answer and any amount of output: its goroutines  *)
(* are accounted for, and no chunk is lost or drawn twice, though the      *)
(* readers may overtake each other.                                        *)
(***************************************************************************)
EXTENDS Console, FiniteSetTheorems, TLAPS

(* Who has taken a chunk off the queue has it until it is back. *)
HoldsChunk ==
    \A r \in Readers :
        reader[r] \in {"lock", "write", "query", "post"} => chunk[r] \in 1..produced

(* The readers that count as tokens under way, those whose chunk is drawn but  *)
(* not reported, and those whose chunk is not drawn yet.                       *)
Active == {r \in Readers : reader[r] # "free"}
Reporting == {r \in Readers : reader[r] \in {"query", "post"}}
Carrying == {r \in Readers : reader[r] \in {"lock", "write"}}

(* The token in m.dirty counts as well, until a waiter turns it into a message. *)
Pending == IF dirty THEN 1 ELSE 0

TokenInv ==
    loop # "end" =>
        Cardinality(Active) + dirtyMsgs + exitMsgs + Pending = 1 + tokens

WaiterInv == waiters + dirtyMsgs + Cardinality(Reporting) = 1 + Len(screen)

Drawn == {screen[i] : i \in 1..Len(screen)}
Held == {chunk[r] : r \in Carrying}

(* The queue holds the latest chunks, in order. *)
QueueInv ==
    /\ Len(out) <= produced
    /\ \A i \in 1..Len(out) : out[i] = produced - Len(out) + i

(* Each chunk before those is either drawn, once, or with one reader. *)
TakenInv ==
    /\ Drawn \union Held = 1..(produced - Len(out))
    /\ Drawn \intersect Held = {}
    /\ \A r, q \in Carrying : chunk[r] = chunk[q] => r = q
    /\ IsFiniteSet(Drawn) /\ Cardinality(Drawn) = Len(screen)

Inv == TypeOK /\ HoldsChunk /\ TokenInv /\ WaiterInv /\ QueueInv /\ TakenInv

-----------------------------------------------------------------------------
(* Sets of readers. *)

LEMMA ReadersAreFinite ==
  /\ IsFiniteSet(Active) /\ IsFiniteSet(Reporting)
  /\ Cardinality(Active) \in Nat /\ Cardinality(Reporting) \in Nat
<1>1. Active \subseteq Readers /\ Reporting \subseteq Readers
  BY DEF Active, Reporting
<1> QED
  BY <1>1, ReadersAssumption, FS_Subset, FS_CardinalityType

(* One reader enters such a set, or leaves it. *)
LEMMA OneMore ==
  ASSUME NEW S, IsFiniteSet(S), NEW x, x \notin S
  PROVE  Cardinality(S \union {x}) = Cardinality(S) + 1
  BY FS_AddElement

LEMMA OneLess ==
  ASSUME NEW S, IsFiniteSet(S), NEW x \in S
  PROVE  Cardinality(S \ {x}) = Cardinality(S) - 1
  BY FS_RemoveElement

-----------------------------------------------------------------------------
LEMMA EmptyIsSeq ==
  ASSUME NEW S
  PROVE  <<>> \in Seq(S)
  OBVIOUS

LEMMA InvInit == Init => Inv
<1> SUFFICES ASSUME Init
             PROVE  Inv
  OBVIOUS
<1>1. PICK r \in Readers : reader = [x \in Readers |-> IF x = r THEN "ready" ELSE "free"]
  BY DEF Init
<1>2. TypeOK
  <2>1. 0 \in 0..MaxChunks /\ 0 \in 0..MaxStatus
    BY BoundsAssumption
  <2>2. reader \in [Readers -> {"free", "ready", "lock", "write", "query", "post"}]
    BY <1>1
  <2>3. chunk \in [Readers -> 0..MaxChunks]
    BY <2>1 DEF Init, None
  <2>4. dirty \in BOOLEAN
    BY RelayAssumption DEF Init
  <2> QED
    BY <2>1, <2>2, <2>3, <2>4, EmptyIsSeq, RelayAssumption DEF Init, TypeOK
<1>3. HoldsChunk
  BY <1>1 DEF HoldsChunk
<1>4. Cardinality(Active) = 1 /\ Cardinality(Reporting) = 0
  <2>1. Active = {r} /\ Reporting = {}
    BY <1>1 DEF Active, Reporting
  <2> QED
    BY <2>1, FS_Singleton, FS_EmptySet
<1>5. TokenInv /\ WaiterInv
  BY <1>4, RelayAssumption DEF Init, TokenInv, WaiterInv, Pending
<1>6. QueueInv
  BY DEF Init, QueueInv
<1>7. TakenInv
  <2>1. Drawn = {} /\ Carrying = {} /\ Held = {}
    BY <1>1 DEF Init, Drawn, Carrying, Held
  <2> QED
    BY <2>1, FS_EmptySet DEF Init, TakenInv
<1> QED
  BY <1>2, <1>3, <1>5, <1>6, <1>7 DEF Inv

LEMMA TypeOKNext ==
  ASSUME TypeOK, HoldsChunk, QueueInv, [Next]_vars
  PROVE  TypeOK' /\ HoldsChunk'
<1> USE BoundsAssumption DEF TypeOK
<1>1. CASE UNCHANGED vars \/ ShellExits \/ SetStatus \/ Wake \/ View \/ OtherMsg
             \/ Leave \/ QuitKey
  <2>1. UNCHANGED <<produced, out, reader, chunk, screen>>
    BY <1>1 DEF vars, ShellExits, SetStatus, Wake, View, OtherMsg, Leave, QuitKey
  <2>2. HoldsChunk'
    BY <2>1 DEF HoldsChunk
  <2>3. closed' \in BOOLEAN /\ dirty' \in BOOLEAN /\ loop' \in {"wait", "view", "end"}
    BY <1>1 DEF vars, ShellExits, SetStatus, Wake, View, OtherMsg, Leave, QuitKey
  <2>4. waiters' \in Nat /\ dirtyMsgs' \in Nat /\ exitMsgs' \in Nat
    BY <1>1 DEF vars, ShellExits, SetStatus, Wake, View, OtherMsg, Leave, QuitKey
  <2>5. changes' \in 0..MaxStatus /\ tokens' \in Nat
    BY <1>1 DEF vars, ShellExits, SetStatus, Wake, View, OtherMsg, Leave, QuitKey
  <2> QED
    BY <2>1, <2>2, <2>3, <2>4, <2>5
<1>2. CASE Output
  <2>1. produced' = produced + 1 /\ produced' \in 0..MaxChunks /\ produced' \in 1..MaxChunks
    BY <1>2 DEF Output
  <2>2. out' \in Seq(1..MaxChunks)
    BY <1>2, <2>1 DEF Output
  <2>3. HoldsChunk'
    BY <1>2, <2>1 DEF Output, HoldsChunk
  <2> QED
    BY <1>2, <2>1, <2>2, <2>3 DEF Output
<1>3. ASSUME NEW r \in Readers, Take(r)
      PROVE  TypeOK' /\ HoldsChunk'
  <2>1. /\ out # <<>> /\ Head(out) \in 1..MaxChunks /\ Tail(out) \in Seq(1..MaxChunks)
    BY <1>3 DEF Take
  <2>2. TypeOK'
    BY <1>3, <2>1 DEF Take
  <2>3. Head(out) \in 1..produced
    <3>1. Len(out) \in Nat /\ Len(out) >= 1 /\ Head(out) = out[1]
      BY <2>1
    <3>2. Head(out) = produced - Len(out) + 1 /\ Len(out) <= produced
      BY <3>1 DEF QueueInv
    <3> QED
      BY <3>1, <3>2
  <2>4. HoldsChunk'
    BY <1>3, <2>3 DEF Take, HoldsChunk
  <2> QED
    BY <2>2, <2>4
<1>4. ASSUME NEW r \in Readers, SeeClosed(r) \/ Lock(r) \/ PumpReplies(r)
      PROVE  TypeOK' /\ HoldsChunk'
  <2>1. CASE SeeClosed(r)
    BY <2>1 DEF SeeClosed, HoldsChunk
  <2>2. CASE Lock(r)
    BY <2>2 DEF Lock, HoldsChunk
  <2>3. CASE PumpReplies(r)
    BY <2>3 DEF PumpReplies, HoldsChunk
  <2> QED
    BY <1>4, <2>1, <2>2, <2>3
<1>5. ASSUME NEW r \in Readers, Interpret(r)
      PROVE  TypeOK' /\ HoldsChunk'
  <2>1. chunk[r] \in 1..MaxChunks
    BY <1>5 DEF Interpret, HoldsChunk
  <2>2. /\ screen' = Append(screen, chunk[r]) /\ reader[r] = "write"
        /\ \E to \in {"query", "post"} : reader' = [reader EXCEPT ![r] = to]
        /\ UNCHANGED <<produced, out, closed, chunk, dirty, waiters, dirtyMsgs,
                       exitMsgs, loop, changes, tokens>>
    BY <1>5 DEF Interpret
  <2>3. screen' \in Seq(1..MaxChunks)
    BY <2>1, <2>2
  <2>4. TypeOK'
    BY <2>2, <2>3
  <2> QED
    BY <2>2, <2>4 DEF HoldsChunk
<1>6. ASSUME NEW r \in Readers, Post(r)
      PROVE  TypeOK' /\ HoldsChunk'
  BY <1>6 DEF Post, HoldsChunk, None
<1>7. CASE Rearm
  BY <1>7 DEF Rearm, HoldsChunk
<1> QED
  BY <1>1, <1>2, <1>3, <1>4, <1>5, <1>6, <1>7 DEF Next, ReaderStep, Loop

(* Each step moves a token from one place to another, or takes it away. *)
LEMMA CountsNext ==
  ASSUME TypeOK, TokenInv, WaiterInv, [Next]_vars
  PROVE  TokenInv' /\ WaiterInv'
<1> USE ReadersAreFinite DEF TokenInv, WaiterInv, Pending
<1>1. ASSUME UNCHANGED reader
      PROVE  Active' = Active /\ Reporting' = Reporting
  BY <1>1 DEF Active, Reporting
<1>2. CASE Output \/ ShellExits \/ View \/ OtherMsg \/ QuitKey \/ UNCHANGED vars
  <2>1. UNCHANGED <<reader, dirty, waiters, dirtyMsgs, exitMsgs, screen, tokens>>
    BY <1>2 DEF Output, ShellExits, View, OtherMsg, QuitKey, vars
  <2>2. loop' # "end" => loop # "end"
    BY <1>2 DEF Output, ShellExits, View, OtherMsg, QuitKey, vars
  <2> QED
    BY <1>1, <2>1, <2>2
<1>3. CASE SetStatus
  BY <1>1, <1>3, RelayAssumption DEF SetStatus, TypeOK
<1>4. CASE Wake
  BY <1>1, <1>4, RelayAssumption DEF Wake, TypeOK
<1>5. CASE Leave
  BY <1>1, <1>5, RelayAssumption DEF Leave, TypeOK
<1>6. ASSUME NEW r \in Readers, Take(r) \/ Lock(r) \/ PumpReplies(r)
      PROVE  TokenInv' /\ WaiterInv'
  <2>1. UNCHANGED <<dirty, waiters, dirtyMsgs, exitMsgs, screen, loop, tokens>>
    BY <1>6 DEF Take, Lock, PumpReplies
  <2>2. /\ reader[r] # "free" /\ reader'[r] # "free"
        /\ reader[r] \in {"query", "post"} <=> reader'[r] \in {"query", "post"}
        /\ \A x \in Readers : x # r => reader'[x] = reader[x]
    BY <1>6 DEF Take, Lock, PumpReplies, TypeOK
  <2>3. Active' = Active /\ Reporting' = Reporting
    BY <2>2 DEF Active, Reporting
  <2> QED
    BY <2>1, <2>3
<1>7. ASSUME NEW r \in Readers, SeeClosed(r)
      PROVE  TokenInv' /\ WaiterInv'
  <2>1. /\ exitMsgs' = exitMsgs + 1
        /\ UNCHANGED <<dirty, waiters, dirtyMsgs, screen, loop, tokens>>
    BY <1>7 DEF SeeClosed
  <2>2. Active' = Active \ {r} /\ r \in Active /\ Reporting' = Reporting
    BY <1>7 DEF SeeClosed, Active, Reporting, TypeOK
  <2>3. Cardinality(Active)' = Cardinality(Active) - 1
    BY <2>2, OneLess
  <2>4. WaiterInv'
    BY <2>1, <2>2
  <2>5. TokenInv'
    BY <2>1, <2>3, BoundsAssumption, RelayAssumption DEF TypeOK
  <2> QED
    BY <2>4, <2>5
<1>8. ASSUME NEW r \in Readers, Interpret(r)
      PROVE  TokenInv' /\ WaiterInv'
  <2>1. /\ UNCHANGED <<dirty, waiters, dirtyMsgs, exitMsgs, loop, tokens>>
        /\ Len(screen') = Len(screen) + 1 /\ Len(screen) \in Nat
    BY <1>8 DEF Interpret, TypeOK
  <2>2. /\ reader[r] = "write" /\ reader'[r] \in {"query", "post"}
        /\ \A x \in Readers : x # r => reader'[x] = reader[x]
    BY <1>8 DEF Interpret, TypeOK
  <2>3. Active' = Active /\ Reporting' = Reporting \union {r} /\ r \notin Reporting
    BY <2>2 DEF Active, Reporting
  <2>4. Cardinality(Reporting)' = Cardinality(Reporting) + 1
    BY <2>3, OneMore
  <2> QED
    BY <2>1, <2>3, <2>4 DEF TypeOK
<1>9. ASSUME NEW r \in Readers, Post(r)
      PROVE  TokenInv' /\ WaiterInv'
  <2>1. /\ dirtyMsgs' = dirtyMsgs + 1
        /\ UNCHANGED <<dirty, waiters, exitMsgs, screen, loop, tokens>>
    BY <1>9 DEF Post
  <2>2. /\ Active' = Active \ {r} /\ r \in Active
        /\ Reporting' = Reporting \ {r} /\ r \in Reporting
    BY <1>9 DEF Post, Active, Reporting, TypeOK
  <2>3. /\ Cardinality(Active)' = Cardinality(Active) - 1
        /\ Cardinality(Reporting)' = Cardinality(Reporting) - 1
    BY <2>2, OneLess
  <2> QED
    BY <2>1, <2>3, RelayAssumption DEF TypeOK
<1>10. CASE Rearm
  <2>1. PICK r \in Readers : reader[r] = "free" /\ reader' = [reader EXCEPT ![r] = "ready"]
    BY <1>10 DEF Rearm
  <2>2. /\ dirtyMsgs' = dirtyMsgs - 1 /\ waiters' = waiters + 1
        /\ UNCHANGED <<dirty, exitMsgs, screen, tokens>> /\ loop = "wait"
    BY <1>10 DEF Rearm
  <2>3. Active' = Active \union {r} /\ r \notin Active /\ Reporting' = Reporting
    BY <2>1 DEF Active, Reporting, TypeOK
  <2>4. Cardinality(Active)' = Cardinality(Active) + 1
    BY <2>3, OneMore
  <2> QED
    BY <2>2, <2>3, <2>4, RelayAssumption DEF TypeOK
<1> QED
  BY <1>2, <1>3, <1>4, <1>5, <1>6, <1>7, <1>8, <1>9, <1>10 DEF Next, ReaderStep, Loop

(* A chunk goes from the queue to one reader, and from it to the screen. *)
LEMMA ChunksNext ==
  ASSUME TypeOK, HoldsChunk, QueueInv, TakenInv, [Next]_vars
  PROVE  QueueInv' /\ TakenInv'
<1>1. ASSUME UNCHANGED <<produced, out, screen, chunk>>,
             Carrying' = Carrying
      PROVE  QueueInv' /\ TakenInv'
  <2>1. Drawn' = Drawn /\ Held' = Held
    BY <1>1 DEF Drawn, Held
  <2> QED
    BY <1>1, <2>1 DEF QueueInv, TakenInv
<1>2. CASE ShellExits \/ SetStatus \/ Wake \/ View \/ OtherMsg \/ Leave \/ QuitKey
             \/ UNCHANGED vars
  <2>1. UNCHANGED <<produced, out, screen, chunk, reader>>
    BY <1>2 DEF ShellExits, SetStatus, Wake, View, OtherMsg, Leave, QuitKey, vars
  <2> QED
    BY <1>1, <2>1 DEF Carrying
<1>3. ASSUME NEW r \in Readers, SeeClosed(r) \/ Lock(r) \/ PumpReplies(r)
      PROVE  QueueInv' /\ TakenInv'
  <2>1. UNCHANGED <<produced, out, screen, chunk>>
    BY <1>3 DEF SeeClosed, Lock, PumpReplies
  <2>2. Carrying' = Carrying
    BY <1>3 DEF SeeClosed, Lock, PumpReplies, Carrying, TypeOK
  <2> QED
    BY <1>1, <2>1, <2>2
<1>4. CASE Rearm
  BY <1>1, <1>4 DEF Rearm, Carrying, TypeOK
<1>5. CASE Output
  <2>1. /\ out' = Append(out, produced + 1) /\ produced' = produced + 1
        /\ UNCHANGED <<reader, chunk, screen>>
        /\ out \in Seq(1..MaxChunks) /\ produced \in Nat
    BY <1>5, BoundsAssumption DEF Output, TypeOK
  <2>2. /\ Len(out) \in Nat /\ Len(out') = Len(out) + 1
        /\ \A i \in 1..Len(out) : out'[i] = out[i]
        /\ out'[Len(out) + 1] = produced + 1
    BY <2>1
  <2>3. QueueInv'
    BY <2>1, <2>2 DEF QueueInv
  <2>4. Drawn' = Drawn /\ Held' = Held /\ Carrying' = Carrying
    BY <2>1 DEF Drawn, Held, Carrying
  <2>5. produced' - Len(out') = produced - Len(out)
    BY <2>1, <2>2
  <2> QED
    BY <2>1, <2>3, <2>4, <2>5 DEF TakenInv
<1>6. ASSUME NEW r \in Readers, Take(r)
      PROVE  QueueInv' /\ TakenInv'
  <2> DEFINE first == produced - Len(out) + 1
  <2>1. /\ out # <<>> /\ out' = Tail(out) /\ reader[r] = "ready"
        /\ chunk' = [chunk EXCEPT ![r] = Head(out)]
        /\ reader' = [reader EXCEPT ![r] = "lock"]
        /\ UNCHANGED <<produced, screen>>
        /\ out \in Seq(1..MaxChunks) /\ produced \in Nat
    BY <1>6, BoundsAssumption DEF Take, TypeOK
  <2>2. /\ Len(out) \in Nat /\ Len(out) >= 1 /\ Head(out) = out[1]
        /\ Len(out') = Len(out) - 1
        /\ \A i \in 1..Len(out) - 1 : out'[i] = out[i + 1]
    BY <2>1
  <2>3. Head(out) = first /\ first \in Nat \ {0}
    <3>1. out[1] = first /\ Len(out) <= produced
      BY <2>2 DEF QueueInv
    <3>2. \A n, m \in Nat : n <= m => m - n + 1 \in Nat \ {0}
      OBVIOUS
    <3>3. Len(out) \in Nat /\ produced \in Nat
      BY <2>1, <2>2
    <3>4. first \in Nat \ {0}
      BY <3>1, <3>2, <3>3
    <3> QED
      BY <2>2, <3>1, <3>4
  <2>4. QueueInv'
    BY <2>1, <2>2 DEF QueueInv
  <2>5. /\ r \notin Carrying /\ Carrying' = Carrying \union {r}
        /\ chunk'[r] = first /\ \A x \in Carrying : chunk'[x] = chunk[x]
    BY <2>1, <2>3 DEF Carrying, TypeOK
  <2>6. Held' = Held \union {first} /\ Drawn' = Drawn
    BY <2>1, <2>5 DEF Held, Drawn
  <2>7. first \notin Drawn /\ first \notin Held
    BY <2>1, <2>2 DEF TakenInv
  <2>8. Drawn' \union Held' = 1..(produced' - Len(out'))
    <3>1. 1..(produced - Len(out)) \union {first} = 1..first
      <4>1. \A n \in Nat : 1..n \union {n + 1} = 1..(n + 1)
        OBVIOUS
      <4>2. produced - Len(out) \in Nat
        BY <2>1, <2>2 DEF QueueInv
      <4> QED
        BY <4>1, <4>2
    <3>2. produced' - Len(out') = first
      BY <2>1, <2>2
    <3>3. Drawn \union Held = 1..(produced - Len(out))
      BY DEF TakenInv
    <3>4. Drawn' \union Held' = (Drawn \union Held) \union {first}
      BY <2>6
    <3> QED
      BY <3>1, <3>2, <3>3, <3>4, Zenon
  <2>9. \A x \in Carrying : chunk[x] # first
    BY <2>7 DEF Held
  <2> QED
    BY <2>1, <2>4, <2>5, <2>6, <2>7, <2>8, <2>9 DEF TakenInv
<1>7. ASSUME NEW r \in Readers, Interpret(r)
      PROVE  QueueInv' /\ TakenInv'
  <2>1. /\ reader[r] = "write" /\ screen' = Append(screen, chunk[r])
        /\ reader'[r] \in {"query", "post"}
        /\ \A x \in Readers : x # r => reader'[x] = reader[x]
        /\ UNCHANGED <<produced, out, chunk>> /\ screen \in Seq(1..MaxChunks)
    BY <1>7 DEF Interpret, TypeOK
  <2>2. /\ Len(screen) \in Nat /\ Len(screen') = Len(screen) + 1
        /\ \A i \in 1..Len(screen) : screen'[i] = screen[i]
        /\ screen'[Len(screen) + 1] = chunk[r]
    <3>1. chunk[r] \in 1..MaxChunks
      BY <2>1, BoundsAssumption DEF HoldsChunk, TypeOK
    <3> QED
      BY <2>1, <3>1
  <2>3. r \in Carrying /\ Carrying' = Carrying \ {r}
    BY <2>1 DEF Carrying
  <2>4. chunk[r] \in Held /\ chunk[r] \notin Drawn
    BY <2>3 DEF Held, TakenInv
  <2>5. Drawn' = Drawn \union {chunk[r]}
    BY <2>2 DEF Drawn
  <2>6. Held' = Held \ {chunk[r]}
    BY <2>1, <2>3 DEF Held, TakenInv
  <2>7. IsFiniteSet(Drawn') /\ Cardinality(Drawn') = Len(screen')
    BY <2>2, <2>4, <2>5, FS_AddElement DEF TakenInv
  <2>8. Drawn' \union Held' = Drawn \union Held /\ Drawn' \intersect Held' = {}
    BY <2>4, <2>5, <2>6 DEF TakenInv
  <2> QED
    BY <2>1, <2>3, <2>7, <2>8 DEF QueueInv, TakenInv
<1>8. ASSUME NEW r \in Readers, Post(r)
      PROVE  QueueInv' /\ TakenInv'
  <2>1. /\ UNCHANGED <<produced, out, screen>> /\ r \notin Carrying
        /\ Carrying' = Carrying /\ \A x \in Carrying : chunk'[x] = chunk[x]
    BY <1>8 DEF Post, Carrying, TypeOK
  <2>2. Drawn' = Drawn /\ Held' = Held
    BY <2>1 DEF Drawn, Held
  <2> QED
    BY <2>1, <2>2 DEF QueueInv, TakenInv
<1> QED
  BY <1>2, <1>3, <1>4, <1>5, <1>6, <1>7, <1>8 DEF Next, ReaderStep, Loop

-----------------------------------------------------------------------------
LEMMA Invariance == Spec => []Inv
<1>1. Inv /\ [Next]_vars => Inv'
  BY TypeOKNext, CountsNext, ChunksNext DEF Inv
<1> QED
  BY <1>1, InvInit, PTL DEF Spec

(* The state is well formed: no message is consumed that was not sent, and     *)
(* nothing is drawn but chunks.                                                *)
THEOREM TypeCorrect == Spec => []TypeOK
<1>1. Inv => TypeOK
  BY DEF Inv
<1> QED
  BY <1>1, Invariance, PTL

(* However many readers there are, while the console runs none is lost and     *)
(* none is added: they are as many as the first and one for each token that    *)
(* was put in m.dirty and taken from it.  Every chunk drawn leaves one more    *)
(* goroutine of waitDirty behind (tui.go:220-222).                             *)
THEOREM GoroutinesBalance == Spec => []GoroutinesAccounted
<1>1. Inv => GoroutinesAccounted
  <2> SUFFICES ASSUME Inv
               PROVE  GoroutinesAccounted
    OBVIOUS
  <2>1. /\ {r \in Readers : reader[r] # "free"} = Active
        /\ {r \in Readers : reader[r] \in {"query", "post"}} = Reporting
    BY DEF Active, Reporting
  <2>2. /\ Cardinality(Active) \in Nat /\ tokens \in Nat
        /\ dirtyMsgs \in Nat /\ exitMsgs \in Nat
    BY ReadersAreFinite DEF Inv, TypeOK
  <2>3. loop # "end" => Cardinality(Active) + dirtyMsgs + exitMsgs
                          = 1 + tokens - (IF dirty THEN 1 ELSE 0)
    BY <2>2 DEF Inv, TokenInv, Pending
  <2>4. waiters + dirtyMsgs + Cardinality(Reporting) = 1 + Len(screen)
    BY DEF Inv, WaiterInv
  <2> QED
    BY <2>1, <2>3, <2>4 DEF GoroutinesAccounted
<1> QED
  BY <1>1, Invariance, PTL

(* No chunk is drawn twice and none is lost between the subscription and the   *)
(* screen, though readers overtake each other on the way (tui.go:160-169).     *)
THEOREM EveryChunkOnce == Spec => []NothingMissing
<1>1. Inv => NothingMissing
  <2> SUFFICES ASSUME Inv
               PROVE  NothingMissing
    OBVIOUS
  <2> DEFINE waiting == {out[i] : i \in 1..Len(out)}
  <2>1. waiting = (produced - Len(out) + 1)..produced
    <3>1. Len(out) \in Nat /\ produced \in Nat /\ Len(out) <= produced
      BY BoundsAssumption DEF Inv, TypeOK, QueueInv
    <3>2. \A i \in 1..Len(out) : out[i] \in (produced - Len(out) + 1)..produced
      BY <3>1 DEF Inv, QueueInv
    <3>3. ASSUME NEW n \in (produced - Len(out) + 1)..produced
          PROVE  n \in waiting
      <4>1. n - (produced - Len(out)) \in 1..Len(out)
        BY <3>1
      <4>2. out[n - (produced - Len(out))] = n
        BY <3>1, <4>1 DEF Inv, QueueInv
      <4> QED
        BY <4>1, <4>2
    <3> QED
      BY <3>2, <3>3
  <2>2. Drawn \union Held \union waiting = 1..produced
    <3>1. Len(out) \in Nat /\ produced \in Nat /\ Len(out) <= produced
      BY BoundsAssumption DEF Inv, TypeOK, QueueInv
    <3>2. 1..produced = 1..(produced - Len(out))
                          \union (produced - Len(out) + 1)..produced
      BY <3>1
    <3> QED
      BY <2>1, <3>2 DEF Inv, TakenInv
  <2> QED
    BY <2>2 DEF Inv, TakenInv, Drawn, Held, Carrying, NothingMissing
<1> QED
  BY <1>1, Invariance, PTL
=============================================================================
