--------------------------- MODULE StartDirProofs ---------------------------
(***************************************************************************)
(* What the walk of a path, Clean and Rel return, for any file system, any *)
(* links in it, any list of roots and any path that is asked for.          *)
(*                                                                         *)
(* Both loops end: a step of the walk follows one link less than it may,   *)
(* or leaves a shorter rest.  Rank is that pair, and a value that every    *)
(* step keeps true of the loop is true of its end.                         *)
(***************************************************************************)
EXTENDS StartDir, SequenceTheorems, WellFoundedInduction, TLAPS

(***************************************************************************)
(* Loops                                                                   *)
(***************************************************************************)
(* What a loop comes to from x: what is in every set that has x and, unless    *)
(* the loop ends there, what comes after each of its elements.                 *)
ComesTo(D, stop, next, x) ==
    {y \in D : \A C \in SUBSET D :
        x \in C /\ (\A z \in C : z \in stop \/ next[z] \in C) => y \in C}

LEMMA ComesToNext ==
  ASSUME NEW D, NEW stop \in SUBSET D, NEW next \in [D -> D], NEW x \in D
  PROVE  /\ x \in stop => ComesTo(D, stop, next, x) = {x}
         /\ x \notin stop => ComesTo(D, stop, next, x) \cap stop
                              = ComesTo(D, stop, next, next[x]) \cap stop
<1>1. ASSUME x \in stop
      PROVE  ComesTo(D, stop, next, x) = {x}
  <2>1. {x} \in SUBSET D /\ \A z \in {x} : z \in stop \/ next[z] \in {x}
    BY <1>1
  <2>2. \A y \in ComesTo(D, stop, next, x) : y \in {x}
    BY <2>1, Zenon DEF ComesTo
  <2>3. x \in ComesTo(D, stop, next, x)
    BY DEF ComesTo
  <2> QED
    BY <2>2, <2>3
<1>2. ASSUME x \notin stop
      PROVE  ComesTo(D, stop, next, x) \cap stop
             = ComesTo(D, stop, next, next[x]) \cap stop
  <2> DEFINE n == next[x]
             C == {x} \cup ComesTo(D, stop, next, n)
  <2>1. n \in D
    OBVIOUS
  <2>2. \A z \in ComesTo(D, stop, next, n) :
            z \in stop \/ next[z] \in ComesTo(D, stop, next, n)
    <3> SUFFICES ASSUME NEW z \in ComesTo(D, stop, next, n), z \notin stop,
                        NEW B \in SUBSET D,
                        n \in B, \A b \in B : b \in stop \/ next[b] \in B
                 PROVE  next[z] \in B
      BY DEF ComesTo
    <3>1. z \in B
      BY Zenon DEF ComesTo
    <3> QED
      BY <3>1
  <2>3. n \in ComesTo(D, stop, next, n)
    BY <2>1 DEF ComesTo
  <2>4. C \in SUBSET D /\ x \in C /\ \A z \in C : z \in stop \/ next[z] \in C
    BY <2>2, <2>3 DEF ComesTo
  <2> HIDE DEF C
  <2>5. \A y \in ComesTo(D, stop, next, x) : y \in C
    BY <2>4, Zenon DEF ComesTo
  <2>6. \A y \in ComesTo(D, stop, next, n) : y \in ComesTo(D, stop, next, x)
    <3> SUFFICES ASSUME NEW y \in ComesTo(D, stop, next, n),
                        NEW B \in SUBSET D,
                        x \in B, \A b \in B : b \in stop \/ next[b] \in B
                 PROVE  y \in B
      BY DEF ComesTo
    <3>1. n \in B
      BY <1>2
    <3> QED
      BY <3>1, Zenon DEF ComesTo
  <2> QED
    BY <1>2, <2>5, <2>6 DEF C
<1> QED
  BY <1>1, <1>2

(* What f returns is what the loop that starts there ends with. *)
Computes(f, D, stop, next, out) ==
    f = [x \in D |-> IF x \in stop THEN out[x] ELSE f[next[x]]]

LEMMA LoopExists ==
  ASSUME NEW D, NEW stop \in SUBSET D, NEW next \in [D -> D], NEW out
  PROVE  \E f : Computes(f, D, stop, next, out)
<1> DEFINE ends(x) == ComesTo(D, stop, next, x) \cap stop
           f == [x \in D |-> out[CHOOSE y : y \in ends(x)]]
<1>1. ASSUME NEW x \in D, x \in stop
      PROVE  f[x] = out[x]
  <2>1. ends(x) = {x}
    BY <1>1, ComesToNext
  <2>2. (CHOOSE y : y \in ends(x)) = x
    BY <2>1
  <2> QED
    BY <2>2
<1>2. ASSUME NEW x \in D, x \notin stop
      PROVE  f[x] = f[next[x]]
  <2>1. ends(x) = ends(next[x]) /\ next[x] \in D
    BY <1>2, ComesToNext
  <2> HIDE DEF ends
  <2> QED
    BY <2>1
<1>3. f = [x \in D |-> f[x]]
  OBVIOUS
<1> HIDE DEF f
<1>4. Computes(f, D, stop, next, out)
  BY <1>1, <1>2, <1>3 DEF Computes
<1> QED
  BY <1>4

Order == LexPairOrdering(OpToRel(<, Nat), OpToRel(<, Nat), Nat, Nat)

(* A loop whose rank falls with every step ends, with what its steps keep. *)
LEMMA LoopEnds ==
  ASSUME NEW D, NEW stop \in SUBSET D, NEW next \in [D -> D], NEW out, NEW f, Computes(f, D, stop, next, out),
         NEW rank \in [D -> Nat \X Nat], NEW I \in SUBSET D,
         \A x \in I \ stop : next[x] \in I /\ <<rank[next[x]], rank[x]>> \in Order
  PROVE  \A x \in I : \E y \in I \cap stop : f[x] = out[y]
<1> DEFINE bad == {x \in I : ~ \E y \in I \cap stop : f[x] = out[y]}
           ranks == {rank[x] : x \in bad}
<1> SUFFICES ASSUME bad # {}
             PROVE  FALSE
  OBVIOUS
<1>1. IsWellFoundedOn(Order, Nat \X Nat)
  BY NatLessThanWellFounded, WFLexPairOrdering, Zenon DEF Order
<1>2. ranks \subseteq Nat \X Nat /\ ranks # {}
  OBVIOUS
<1>3. PICK r \in ranks : \A q \in ranks : <<q, r>> \notin Order
  <2> HIDE DEF ranks
  <2> QED
    BY <1>1, <1>2, WFMin
<1>4. PICK x \in bad : r = rank[x]
  OBVIOUS
<1>5. x \notin stop
  <2>1. x \in stop => f[x] = out[x]
    BY DEF Computes
  <2> QED
    BY <2>1
<1>6. f[x] = f[next[x]] /\ next[x] \in I
  BY <1>5 DEF Computes
<1>7. next[x] \in bad
  BY <1>6
<1> QED
  BY <1>3, <1>4, <1>5, <1>7

LEMMA OrderFalls ==
  ASSUME NEW a \in Nat, NEW b \in Nat, NEW c \in Nat, NEW d \in Nat,
         a < c \/ (a = c /\ b < d)
  PROVE  <<<<a, b>>, <<c, d>>>> \in Order
<1>1. <<a, c>> \in OpToRel(<, Nat) \/ (a = c /\ <<b, d>> \in OpToRel(<, Nat))
  BY DEF OpToRel
<1>2. <<a, b>> \in Nat \X Nat /\ <<c, d>> \in Nat \X Nat
  OBVIOUS
<1> QED
  BY <1>1, <1>2 DEF Order, LexPairOrdering

(***************************************************************************)
(* Directories                                                             *)
(***************************************************************************)
LEMMA RealDirs ==
  /\ IsRealDir(<<>>)
  /\ \A dir \in Seq(Names) :
        /\ Above(dir) \in Seq(Names)
        /\ IsRealDir(dir) => IsRealDir(Above(dir))
        /\ \A e \in Names :
              /\ IsRealDir(dir)
              /\ Append(dir, e) \in DOMAIN Tree
              /\ Tree[Append(dir, e)].is = "dir"
              => IsRealDir(Append(dir, e))
<1>1. IsRealDir(<<>>)
  BY DEF IsRealDir
<1>2. ASSUME NEW dir \in Seq(Names)
      PROVE  /\ Above(dir) \in Seq(Names)
             /\ IsRealDir(dir) => IsRealDir(Above(dir))
  <2>1. CASE dir = <<>>
    BY <2>1 DEF Above
  <2>2. CASE dir # <<>>
    <3> DEFINE up == SubSeq(dir, 1, Len(dir) - 1)
    <3>1. Above(dir) = up /\ Len(dir) \in Nat /\ Len(dir) >= 1
      BY <2>2, EmptySeq DEF Above, Front
    <3>2. up \in Seq(Names) /\ Len(up) = Len(dir) - 1
      <4>1. \A i \in 1 .. Len(dir) - 1 : dir[i] \in Names
        BY <3>1, ElementOfSeq
      <4>2. Len(dir) - 1 \in Int /\ 1 \in Int
        BY <3>1
      <4>3. /\ up \in Seq(Names)
            /\ Len(up) = IF 1 <= Len(dir) - 1 THEN Len(dir) - 1 - 1 + 1 ELSE 0
        BY <4>1, <4>2, SubSeqProperties
      <4>4. ASSUME NEW n \in Nat, n >= 1
            PROVE  (IF 1 <= n - 1 THEN n - 1 - 1 + 1 ELSE 0) = n - 1
        BY <4>4
      <4>5. Len(up) = Len(dir) - 1
        BY <3>1, <4>3, <4>4, Zenon
      <4> QED
        BY <4>3, <4>5, Zenon
    <3>3. \A n \in 1 .. Len(dir) - 1 : SubSeq(up, 1, n) = SubSeq(dir, 1, n)
      BY <3>1, SubSeqOfSubSeq
    <3> HIDE DEF up
    <3>4. Len(dir) - 1 \in Nat /\ \A n \in 1 .. Len(dir) - 1 : n \in 1 .. Len(dir)
      BY <3>1
    <3> QED
      BY <3>1, <3>2, <3>3, <3>4 DEF IsRealDir
  <2> QED
    BY <2>1, <2>2
<1>3. ASSUME NEW dir \in Seq(Names), NEW e \in Names,
             IsRealDir(dir),
             Append(dir, e) \in DOMAIN Tree,
             Tree[Append(dir, e)].is = "dir"
      PROVE  IsRealDir(Append(dir, e))
  <2> DEFINE to == Append(dir, e)
  <2>1. to \in Seq(Names) /\ Len(to) = Len(dir) + 1 /\ Len(dir) \in Nat
    BY AppendProperties
  <2>2. SubSeq(to, 1, Len(to)) = to
    BY <2>1, SubSeqFull
  <2>3. \A n \in 1 .. Len(dir) : SubSeq(to, 1, n) = SubSeq(dir, 1, n)
    <3>1. to = dir \o <<e>> /\ <<e>> \in Seq(Names)
      BY AppendIsConcat
    <3> HIDE DEF to
    <3> QED
      BY <2>1, <3>1, SubSeqOfConcat1
  <2> HIDE DEF to
  <2>4. \A n \in 1 .. Len(to) : n = Len(to) \/ n \in 1 .. Len(dir)
    BY <2>1
  <2> QED
    BY <1>3, <2>2, <2>3, <2>4 DEF IsRealDir, to
<1> QED
  BY <1>1, <1>2, <1>3

(***************************************************************************)
(* Clean                                                                   *)
(***************************************************************************)
LEMMA CleanType ==
  ASSUME NEW c \in Cleaning
  PROVE  clean[c] \in Seq(Names)
<1> DEFINE stop == {x \in Cleaning : x.rest = <<>>}
           step(x) == [at |-> IF Head(x.rest) = ".." THEN Above(x.at)
                              ELSE Append(x.at, Head(x.rest)),
                       rest |-> Tail(x.rest)]
           next == [x \in Cleaning |-> IF x \in stop THEN x ELSE step(x)]
           out == [x \in Cleaning |-> x.at]
           rank == [x \in Cleaning |-> <<0, Len(x.rest)>>]
<1>1. ASSUME NEW x \in Cleaning, x \notin stop
      PROVE  step(x) \in Cleaning /\ Len(step(x).rest) < Len(x.rest)
  <2>1. x.at \in Seq(Names) /\ x.rest \in Seq(Names) /\ x.rest # <<>>
    BY <1>1 DEF Cleaning
  <2>2. /\ Head(x.rest) \in Names /\ Tail(x.rest) \in Seq(Names)
        /\ Len(Tail(x.rest)) = Len(x.rest) - 1 /\ Len(x.rest) \in Nat
    BY <2>1, HeadTailProperties, LenProperties
  <2>3. Append(x.at, Head(x.rest)) \in Seq(Names) /\ Above(x.at) \in Seq(Names)
    BY <2>1, <2>2, RealDirs, AppendProperties
  <2> QED
    BY <2>2, <2>3 DEF Cleaning
<1> HIDE DEF step
<1>2. next \in [Cleaning -> Cleaning] /\ stop \in SUBSET Cleaning
  BY <1>1
<1>3. \E f : Computes(f, Cleaning, stop, next, out)
  <2> HIDE DEF stop, next, out
  <2> QED
    BY <1>2, LoopExists
<1>4. \A f : Computes(f, Cleaning, stop, next, out)
             <=> f = [x \in Cleaning |-> IF x.rest = <<>> THEN x.at ELSE f[step(x)]]
  BY DEF Computes
<1>5. Computes(clean, Cleaning, stop, next, out)
  <2> HIDE DEF stop, next, out
  <2>1. clean = [x \in Cleaning |-> IF x.rest = <<>> THEN x.at ELSE clean[step(x)]]
    BY <1>3, <1>4, Zenon DEF clean, step, Cleaning
  <2> QED
    BY <1>4, <2>1
<1>6. /\ rank \in [Cleaning -> Nat \X Nat]
      /\ \A x \in Cleaning \ stop : next[x] \in Cleaning /\ <<rank[next[x]], rank[x]>> \in Order
  <2>1. \A x \in Cleaning : Len(x.rest) \in Nat
    BY LenProperties DEF Cleaning
  <2>2. ASSUME NEW x \in Cleaning, x \notin stop
        PROVE  next[x] \in Cleaning /\ <<rank[next[x]], rank[x]>> \in Order
    <3>1. next[x] = step(x) /\ step(x) \in Cleaning /\ Len(step(x).rest) < Len(x.rest)
      BY <1>1, <2>2
    <3>2. <<<<0, Len(step(x).rest)>>, <<0, Len(x.rest)>>>> \in Order
      BY <2>1, <3>1, OrderFalls
    <3> QED
      BY <3>1, <3>2
  <2> QED
    BY <2>1, <2>2
<1>7. \E y \in Cleaning \cap stop : clean[c] = out[y]
  <2> HIDE DEF stop, next, out, rank
  <2> QED
    BY <1>2, <1>5, <1>6, LoopEnds
<1> QED
  BY <1>7 DEF Cleaning

(***************************************************************************)
(* The walk                                                                *)
(***************************************************************************)
LEMMA PrefixOfReal ==
  ASSUME NEW dir \in Seq(Names), NEW k \in 0 .. Len(dir), IsRealDir(dir)
  PROVE  /\ SubSeq(dir, 1, k) \in Seq(Names) /\ Len(SubSeq(dir, 1, k)) = k
         /\ IsRealDir(SubSeq(dir, 1, k))
<1> DEFINE up == SubSeq(dir, 1, k)
<1>1. Len(dir) \in Nat /\ k \in Nat /\ k <= Len(dir)
  BY LenProperties
<1>2. up \in Seq(Names) /\ Len(up) = k
  <2>1. \A i \in 1 .. k : dir[i] \in Names
    BY <1>1, ElementOfSeq
  <2>2. up \in Seq(Names) /\ Len(up) = IF 1 <= k THEN k - 1 + 1 ELSE 0
    BY <1>1, <2>1, SubSeqProperties
  <2> HIDE DEF up
  <2> QED
    BY <1>1, <2>2
<1>3. ASSUME NEW n \in 1 .. k
      PROVE  SubSeq(up, 1, n) = SubSeq(dir, 1, n) /\ n \in 1 .. Len(dir)
  <2>1. k \in 1 .. Len(dir) /\ 1 \in 1 .. Len(dir) /\ n \in 1 .. (k - 1) + 1 /\ 1 \in 1 .. (k - 1) + 1
    BY <1>1
  <2>2. SubSeq(SubSeq(dir, 1, k), 1, n) = SubSeq(dir, 1 + 1 - 1, 1 + n - 1)
    BY <2>1, SubSeqOfSubSeq
  <2>3. 1 + 1 - 1 = 1 /\ 1 + n - 1 = n /\ n \in 1 .. Len(dir)
    BY <1>1
  <2> QED
    BY <2>2, <2>3
<1> HIDE DEF up
<1> QED
  BY <1>2, <1>3 DEF IsRealDir, up

LEMMA UpIsReal ==
  ASSUME NEW dir \in Seq(Names), NEW n \in Nat
  PROVE  Up(dir, n) \in Seq(Names) /\ (IsRealDir(dir) => IsRealDir(Up(dir, n)))
<1>1. Len(dir) \in Nat
  BY LenProperties
<1>2. CASE n <= Len(dir)
  <2>1. Len(dir) - n \in 0 .. Len(dir)
    BY <1>1, <1>2
  <2>2. \A i \in 1 .. Len(dir) - n : dir[i] \in Names
    BY <1>1, ElementOfSeq
  <2>3. Up(dir, n) \in Seq(Names)
    BY <1>1, <2>2, SubSeqProperties DEF Up
  <2> QED
    BY <2>1, <2>3, PrefixOfReal DEF Up
<1>3. CASE ~(n <= Len(dir))
  <2>1. Len(dir) - n < 1 /\ Len(dir) - n \in Int
    BY <1>1, <1>3
  <2>2. Up(dir, n) = <<>>
    BY <2>1, SubSeqEmpty DEF Up
  <2> QED
    BY <2>2, EmptySeq, RealDirs
<1> QED
  BY <1>2, <1>3

(* A path that exists and is no link: every element but the last is a          *)
(* directory.                                                                  *)
Standing(at) ==
    \A n \in 1 .. Len(at) :
        /\ SubSeq(at, 1, n) \in DOMAIN Tree
        /\ Tree[SubSeq(at, 1, n)].is # "link"
        /\ n < Len(at) => Tree[SubSeq(at, 1, n)].is = "dir"

(* What has been resolved is a real directory, or the walk is over and it is a *)
(* file in one.                                                                *)
OnRealDir(w) ==
    /\ Standing(Abs(Cwd, w))
    /\ w.rest # <<>> => IsRealDir(Abs(Cwd, w))

LEMMA RealStands ==
  ASSUME NEW dir \in Seq(Names)
  PROVE  /\ IsRealDir(dir) => Standing(dir)
         /\ Standing(dir) /\ dir \in DOMAIN Tree /\ Tree[dir].is = "dir" => IsRealDir(dir)
<1>1. SubSeq(dir, 1, Len(dir)) = dir
  BY SubSeqFull
<1>2. \A n \in 1 .. Len(dir) : n < Len(dir) \/ n = Len(dir)
  <2>1. Len(dir) \in Nat
    BY LenProperties
  <2> DEFINE k == Len(dir)
  <2> HIDE DEF k
  <2>2. k \in Nat
    BY <2>1 DEF k
  <2>3. \A n \in 1 .. k : n < k \/ n = k
    BY <2>2
  <2> QED
    BY <2>3 DEF k
<1> QED
  BY <1>1, <1>2 DEF IsRealDir, Standing

LEMMA AbsType ==
  ASSUME NEW w \in Walks, NEW wd \in Seq(Names)
  PROVE  Abs(wd, w) \in Seq(Names)
<1>1. w.down \in Seq(Names) /\ w.ups \in Nat
  BY DEF Walks
<1>2. Up(wd, w.ups) \in Seq(Names)
  BY <1>1, UpIsReal
<1> QED
  BY <1>1, <1>2, ConcatProperties DEF Abs

LEMMA AboveAppend ==
  ASSUME NEW d \in Seq(Names), NEW e \in Names
  PROVE  Above(Append(d, e)) = d
<1> DEFINE s == Append(d, e)
<1>1. s = d \o <<e>> /\ <<e>> \in Seq(Names) /\ s # <<>> /\ Len(s) = Len(d) + 1 /\ Len(d) \in Nat
  BY AppendIsConcat, AppendProperties, LenProperties
<1>2. Above(s) = SubSeq(s, 1, Len(s) - 1)
  BY <1>1 DEF Above, Front
<1> HIDE DEF s
<1>3. Len(s) - 1 = Len(d)
  BY <1>1
<1>4. CASE d = <<>>
  BY <1>1, <1>2, <1>3, <1>4, EmptySeq, SubSeqEmpty
<1>5. CASE d # <<>>
  <2>1. Len(d) \in 1 .. Len(d) /\ 1 \in 1 .. Len(d)
    BY <1>5, EmptySeq
  <2>2. SubSeq(d \o <<e>>, 1, Len(d)) = SubSeq(d, 1, Len(d))
    BY <1>1, <2>1, SubSeqOfConcat1
  <2>3. SubSeq(d, 1, Len(d)) = d
    BY SubSeqFull
  <2>4. Above(s) = SubSeq(s, 1, Len(d))
    BY <1>2, <1>3, Zenon
  <2>5. s = d \o <<e>>
    BY <1>1
  <2>6. Above(s) = d
    BY <2>2, <2>3, <2>4, <2>5, Zenon
  <2> QED
    BY <2>6 DEF s
<1> QED
  BY <1>4, <1>5 DEF s

LEMMA ConcatAppend ==
  ASSUME NEW s \in Seq(Names), NEW d \in Seq(Names), NEW e \in Names
  PROVE  s \o Append(d, e) = Append(s \o d, e) /\ s \o d \in Seq(Names)
<1>1. <<e>> \in Seq(Names)
  OBVIOUS
<1>2. s \o d \in Seq(Names)
  BY ConcatProperties
<1>3. Append(d, e) = d \o <<e>> /\ Append(s \o d, e) = (s \o d) \o <<e>>
  BY <1>2, AppendIsConcat
<1> QED
  BY <1>1, <1>2, <1>3, ConcatAssociative

LEMMA OneFurther ==
  ASSUME NEW dir \in Seq(Names), NEW e \in Names, IsRealDir(dir),
         Append(dir, e) \in DOMAIN Tree, Tree[Append(dir, e)].is # "link"
  PROVE  Standing(Append(dir, e))
<1> DEFINE to == Append(dir, e)
<1>1. to \in Seq(Names) /\ Len(to) = Len(dir) + 1 /\ Len(dir) \in Nat
  BY AppendProperties, LenProperties
<1>2. SubSeq(to, 1, Len(to)) = to
  BY <1>1, SubSeqFull
<1>3. \A n \in 1 .. Len(dir) : SubSeq(to, 1, n) = SubSeq(dir, 1, n)
  <2>1. to = dir \o <<e>> /\ <<e>> \in Seq(Names)
    BY AppendIsConcat
  <2> HIDE DEF to
  <2> QED
    BY <1>1, <2>1, SubSeqOfConcat1
<1> HIDE DEF to
<1>4. \A n \in 1 .. Len(to) : n = Len(to) \/ n \in 1 .. Len(dir)
  BY <1>1
<1>5. to \in DOMAIN Tree /\ Tree[to].is # "link"
  BY DEF to
<1>6. ASSUME NEW n \in 1 .. Len(dir)
      PROVE  /\ SubSeq(to, 1, n) \in DOMAIN Tree
             /\ Tree[SubSeq(to, 1, n)].is = "dir"
  BY <1>3 DEF IsRealDir
<1>7. ASSUME NEW n \in 1 .. Len(to)
      PROVE  /\ SubSeq(to, 1, n) \in DOMAIN Tree
             /\ Tree[SubSeq(to, 1, n)].is # "link"
             /\ n < Len(to) => Tree[SubSeq(to, 1, n)].is = "dir"
  <2>1. CASE n = Len(to)
    <3>1. ~(n < Len(to))
      BY <1>1, <2>1
    <3> QED
      BY <1>2, <1>5, <2>1, <3>1, Zenon
  <2>2. CASE n # Len(to)
    <3>1. Tree[SubSeq(to, 1, n)].is = "dir" /\ SubSeq(to, 1, n) \in DOMAIN Tree
      BY <1>4, <1>6, <2>2
    <3> QED
      BY <3>1
  <2> QED
    BY <2>1, <2>2
<1>8. Standing(to)
  BY <1>7, Zenon DEF Standing
<1> QED
  BY <1>8 DEF to

LEMMA BackOnward ==
  ASSUME NEW w \in Walks, w.rest # <<>>
  PROVE  /\ Back(w) \in Walks /\ Back(w).links = w.links /\ Back(w).rest = Tail(w.rest)
         /\ Back(w).abs = w.abs
         /\ IsRealDir(Abs(Cwd, w)) => IsRealDir(Abs(Cwd, Back(w)))
<1>1. /\ w.abs \in BOOLEAN /\ w.ups \in Nat /\ w.down \in Seq(Names)
      /\ w.rest \in Seq(Names) /\ w.links \in Nat
  BY DEF Walks
<1>2. Tail(w.rest) \in Seq(Names)
  BY <1>1, HeadTailProperties
<1>3. CASE w.abs \/ w.down # <<>>
  <2>1. Back(w) = [w EXCEPT !.down = Above(w.down), !.rest = Tail(w.rest)]
    BY <1>3 DEF Back
  <2>2. Above(w.down) \in Seq(Names)
    BY <1>1, RealDirs
  <2>3. /\ Back(w) \in Walks /\ Back(w).links = w.links /\ Back(w).rest = Tail(w.rest)
        /\ Back(w).abs = w.abs /\ Back(w).ups = w.ups /\ Back(w).down = Above(w.down)
    BY <1>2, <2>1, <2>2 DEF Walks
  <2>4. CASE w.abs
    <3>1. Abs(Cwd, w) = w.down /\ Abs(Cwd, Back(w)) = Above(w.down)
      BY <2>3, <2>4 DEF Abs
    <3> QED
      BY <1>1, <2>3, <3>1, RealDirs
  <2>5. CASE ~w.abs
    <3> DEFINE from == Up(Cwd, w.ups)
    <3>1. from \in Seq(Names) /\ w.down # <<>> /\ Len(from) \in Nat
      BY <1>1, <1>3, <2>5, CwdAssumption, UpIsReal, LenProperties
    <3>2. Abs(Cwd, w) = from \o w.down /\ Abs(Cwd, Back(w)) = from \o Above(w.down)
      BY <2>3, <2>5 DEF Abs
    <3> HIDE DEF from
    <3>3. PICK d \in Seq(Names), e \in Names : w.down = Append(d, e)
      BY <1>1, <3>1, SequenceEmptyOrAppend
    <3>4. Above(w.down) = d
      BY <3>3, AboveAppend
    <3>5. from \o w.down = Append(from \o d, e) /\ from \o d \in Seq(Names)
      BY <3>1, <3>3, ConcatAppend
    <3>6. Above(from \o w.down) = from \o d
      BY <3>5, AboveAppend
    <3>7. from \o w.down \in Seq(Names)
      BY <1>1, <3>1, ConcatProperties
    <3> QED
      BY <2>3, <3>2, <3>4, <3>6, <3>7, RealDirs
  <2> QED
    BY <2>4, <2>5
<1>4. CASE ~(w.abs \/ w.down # <<>>)
  <2>1. Back(w) = [w EXCEPT !.ups = w.ups + 1, !.rest = Tail(w.rest)]
    BY <1>4 DEF Back
  <2> DEFINE n == w.ups + 1
  <2>6. n \in Nat /\ Back(w) = [w EXCEPT !.ups = n, !.rest = Tail(w.rest)]
    BY <1>1, <2>1
  <2> HIDE DEF n
  <2>2. /\ Back(w) \in Walks /\ Back(w).links = w.links /\ Back(w).rest = Tail(w.rest)
        /\ Back(w).abs = w.abs /\ Back(w).ups = n /\ Back(w).down = <<>>
    BY <1>2, <1>4, <2>6 DEF Walks
  <2>3. Abs(Cwd, Back(w)) = Up(Cwd, n) \o <<>>
    BY <1>4, <2>2 DEF Abs
  <2>4. /\ Up(Cwd, n) \in Seq(Names) /\ IsRealDir(Up(Cwd, n))
    BY <2>6, CwdAssumption, UpIsReal
  <2>5. Abs(Cwd, Back(w)) = Up(Cwd, n)
    BY <2>3, <2>4, ConcatEmptySeq
  <2> QED
    BY <2>2, <2>4, <2>5
<1> QED
  BY <1>3, <1>4

LEMMA FollowOnward ==
  ASSUME NEW w \in Walks, w.rest # <<>>, w.links # 0, NEW to \in Paths
  PROVE  /\ Follow(w, to) \in Walks /\ Follow(w, to).links < w.links
         /\ w.abs => Follow(w, to).abs
         /\ IsRealDir(Abs(Cwd, w)) => IsRealDir(Abs(Cwd, Follow(w, to)))
<1>1. /\ w.abs \in BOOLEAN /\ w.ups \in Nat /\ w.down \in Seq(Names)
      /\ w.rest \in Seq(Names) /\ w.links \in Nat
  BY DEF Walks
<1>2. to.elems \o Tail(w.rest) \in Seq(Names)
  BY <1>1, HeadTailProperties, ConcatProperties DEF Paths
<1>3. w.links - 1 \in Nat /\ w.links - 1 < w.links
  BY <1>1
<1>4. CASE to.kind = "abs"
  <2> DEFINE v == [abs |-> TRUE, ups |-> 0, down |-> <<>>,
                   rest |-> to.elems \o Tail(w.rest), links |-> w.links - 1]
  <2>1. Follow(w, to) = v
    BY <1>4 DEF Follow
  <2>2. v \in Walks
    BY <1>2, <1>3, EmptySeq DEF Walks
  <2>3. v.links = w.links - 1 /\ v.abs /\ Abs(Cwd, v) = <<>>
    BY DEF Abs
  <2> HIDE DEF v
  <2> QED
    BY <1>3, <2>1, <2>2, <2>3, RealDirs
<1>5. CASE to.kind # "abs"
  <2>1. Follow(w, to) = [w EXCEPT !.rest = to.elems \o Tail(w.rest), !.links = w.links - 1]
    BY <1>5 DEF Follow
  <2>2. /\ Follow(w, to) \in Walks /\ Follow(w, to).links = w.links - 1
        /\ Follow(w, to).abs = w.abs
        /\ Follow(w, to).down = w.down /\ Follow(w, to).ups = w.ups
    BY <1>2, <1>3, <2>1 DEF Walks
  <2>3. Abs(Cwd, Follow(w, to)) = Abs(Cwd, w)
    BY <2>2 DEF Abs
  <2> QED
    BY <1>3, <2>2, <2>3
<1> QED
  BY <1>4, <1>5

LEMMA OnwardType ==
  ASSUME NEW w \in Walks, ~Stuck(w), w.rest # <<>>
  PROVE  /\ Onward(w) \in Walks
         /\ \/ Onward(w).links < w.links
            \/ Onward(w).links = w.links /\ Len(Onward(w).rest) < Len(w.rest)
         /\ w.abs => Onward(w).abs
         /\ OnRealDir(w) => OnRealDir(Onward(w))
<1>1. /\ w.abs \in BOOLEAN /\ w.ups \in Nat /\ w.down \in Seq(Names)
      /\ w.rest \in Seq(Names) /\ w.links \in Nat
  BY DEF Walks
<1>2. /\ Head(w.rest) \in Names /\ Tail(w.rest) \in Seq(Names)
      /\ Len(Tail(w.rest)) < Len(w.rest)
  BY <1>1, HeadTailProperties, LenProperties
<1>3. OnRealDir(w) => IsRealDir(Abs(Cwd, w))
  BY DEF OnRealDir
<1>4. ASSUME NEW v \in Walks, IsRealDir(Abs(Cwd, v))
      PROVE  OnRealDir(v)
  BY <1>4, AbsType, RealStands, CwdAssumption DEF OnRealDir
<1>5. CASE Head(w.rest) = ".."
  <2>1. Onward(w) = Back(w)
    BY <1>5 DEF Onward
  <2> QED
    BY <1>2, <1>3, <1>4, <2>1, BackOnward
<1>6. CASE Head(w.rest) # ".."
  <2>1. Abs(Cwd, w) \in Seq(Names) /\ Here(w) \in Seq(Names) /\ Here(w) \in DOMAIN Tree
    BY <1>2, <1>6, AbsType, CwdAssumption, AppendProperties DEF Stuck, Here
  <2>2. CASE Tree[Here(w)].is = "link"
    <3>1. Onward(w) = Follow(w, Tree[Here(w)].to)
      BY <1>6, <2>2 DEF Onward
    <3>2. Tree[Here(w)].to \in Paths /\ w.links # 0
      BY <1>6, <2>1, <2>2, TreeAssumption DEF Stuck
    <3> QED
      BY <1>3, <1>4, <3>1, <3>2, FollowOnward
  <2>3. CASE Tree[Here(w)].is # "link"
    <3>1. Onward(w) = [w EXCEPT !.down = Append(w.down, Head(w.rest)), !.rest = Tail(w.rest)]
      BY <1>6, <2>3 DEF Onward
    <3>2. Append(w.down, Head(w.rest)) \in Seq(Names)
      BY <1>1, <1>2, AppendProperties
    <3>3. /\ Onward(w) \in Walks /\ Onward(w).links = w.links
          /\ Onward(w).rest = Tail(w.rest) /\ Onward(w).abs = w.abs
          /\ Onward(w).ups = w.ups /\ Onward(w).down = Append(w.down, Head(w.rest))
      BY <1>2, <3>1, <3>2 DEF Walks
    <3>4. Abs(Cwd, Onward(w)) = Here(w)
      <4>1. CASE w.abs
        BY <3>3, <4>1 DEF Abs, Here
      <4>2. CASE ~w.abs
        <5>1. Up(Cwd, w.ups) \in Seq(Names)
          BY <1>1, CwdAssumption, UpIsReal
        <5>2. Up(Cwd, w.ups) \o Append(w.down, Head(w.rest))
                = Append(Up(Cwd, w.ups) \o w.down, Head(w.rest))
          BY <1>1, <1>2, <5>1, ConcatAppend
        <5> QED
          BY <3>3, <4>2, <5>2 DEF Abs, Here
      <4> QED
        BY <4>1, <4>2
    <3>5. OnRealDir(w) => OnRealDir(Onward(w))
      <4> SUFFICES ASSUME IsRealDir(Abs(Cwd, w))
                   PROVE  OnRealDir(Onward(w))
        BY <1>3
      <4>1. CASE Tree[Here(w)].is = "dir"
        <5>1. IsRealDir(Here(w))
          BY <1>2, <2>1, <4>1, RealDirs DEF Here
        <5> QED
          BY <1>4, <3>3, <3>4, <5>1
      <4>2. CASE Tree[Here(w)].is = "file"
        <5>1. Tail(w.rest) = <<>>
          BY <1>6, <4>2 DEF Stuck
        <5>2. Standing(Here(w))
          BY <1>2, <2>1, <2>3, OneFurther DEF Here
        <5> QED
          BY <3>3, <3>4, <5>1, <5>2 DEF OnRealDir
      <4>3. Tree[Here(w)].is \in {"dir", "file", "link"}
        BY <2>1, TreeAssumption
      <4> QED
        BY <2>3, <4>1, <4>2, <4>3
    <3> QED
      BY <1>2, <3>3, <3>5
  <2> QED
    BY <2>2, <2>3
<1> QED
  BY <1>5, <1>6

(* A walk ends: no further, in a state that every step keeps.                  *)
LEMMA WalkEnds ==
  ASSUME NEW I \in SUBSET Walks,
         \A x \in I : ~Stuck(x) /\ x.rest # <<>> => Onward(x) \in I,
         NEW w \in I
  PROVE  walk[w] \in I /\ (Stuck(walk[w]) \/ walk[w].rest = <<>>)
<1> DEFINE stop == {x \in Walks : Stuck(x) \/ x.rest = <<>>}
           next == [x \in Walks |-> IF x \in stop THEN x ELSE Onward(x)]
           out == [x \in Walks |-> x]
           rank == [x \in Walks |-> <<x.links, Len(x.rest)>>]
           body(f) == [x \in Walks |-> IF Stuck(x) \/ x.rest = <<>> THEN x
                                       ELSE f[Onward(x)]]
<1>1. next \in [Walks -> Walks] /\ stop \in SUBSET Walks
  BY OnwardType
<1>2. \E f : Computes(f, Walks, stop, next, out)
  <2> HIDE DEF stop, next, out
  <2> QED
    BY <1>1, LoopExists
<1>3. \A f : Computes(f, Walks, stop, next, out) <=> f = body(f)
  BY DEF Computes
<1>4. Computes(walk, Walks, stop, next, out)
  <2> HIDE DEF stop, next, out
  <2>1. walk = body(walk)
    BY <1>2, <1>3, Zenon DEF walk
  <2> QED
    BY <1>3, <2>1
<1>5. rank \in [Walks -> Nat \X Nat]
  BY LenProperties DEF Walks
<1>6. ASSUME NEW x \in I, x \notin stop
      PROVE  next[x] \in I /\ <<rank[next[x]], rank[x]>> \in Order
  <2>1. next[x] = Onward(x) /\ x \in Walks /\ Onward(x) \in I /\ Onward(x) \in Walks
    BY <1>6, OnwardType
  <2>2. /\ x.links \in Nat /\ Len(x.rest) \in Nat
        /\ Onward(x).links \in Nat /\ Len(Onward(x).rest) \in Nat
    BY <2>1, LenProperties DEF Walks
  <2>3. \/ Onward(x).links < x.links
        \/ Onward(x).links = x.links /\ Len(Onward(x).rest) < Len(x.rest)
    BY <1>6, OnwardType
  <2>4. <<<<Onward(x).links, Len(Onward(x).rest)>>, <<x.links, Len(x.rest)>>>> \in Order
    BY <2>2, <2>3, OrderFalls
  <2> QED
    BY <2>1, <2>4
<1>7. PICK y \in I \cap stop : walk[w] = out[y]
  <2> HIDE DEF stop, next, out, rank
  <2>1. \A x \in I \ stop : next[x] \in I /\ <<rank[next[x]], rank[x]>> \in Order
    BY <1>6
  <2>2. \A x \in I : \E y \in I \cap stop : walk[x] = out[y]
    <3>1. I \in SUBSET Walks
      OBVIOUS
    <3> QED
      BY <1>1, <1>4, <1>5, <2>1, <3>1, LoopEnds, SMTT(30)
  <2> QED
    BY <2>2
<1> QED
  BY <1>7

(***************************************************************************)
(* Rel                                                                     *)
(***************************************************************************)
LEMMA GreatestExists ==
  ASSUME NEW n \in Nat, NEW S \in SUBSET (0 .. n), S # {}
  PROVE  Max(S) \in S /\ \A m \in S : m <= Max(S)
<1> DEFINE T == {n - m : m \in S}
<1>1. T \subseteq Nat /\ T # {}
  <2>1. \A m \in S : n - m \in Nat
    OBVIOUS
  <2> QED
    BY <2>1
<1>2. PICK t \in T : \A y \in T : <<y, t>> \notin OpToRel(<, Nat)
  <2> HIDE DEF T
  <2> QED
    BY <1>1, NatLessThanWellFounded, WFMin
<1>3. PICK x \in S : t = n - x
  OBVIOUS
<1>4. \A m \in S : m <= x
  <2> SUFFICES ASSUME NEW m \in S
               PROVE  m <= x
    OBVIOUS
  <2>1. n - m \in T /\ n - m \in Nat /\ t \in Nat
    BY <1>1
  <2>2. ~(n - m < t)
    BY <1>2, <2>1 DEF OpToRel
  <2> QED
    BY <1>3, <2>2
<1>5. x >= 0 /\ \A m \in S : x >= m
  BY <1>4
<1> QED
  BY <1>5 DEF Max

LEMMA Repeated ==
  ASSUME NEW S, NEW e \in S, NEW k \in Nat
  PROVE  /\ [i \in 1 .. k |-> e] \in Seq(S)
         /\ Len([i \in 1 .. k |-> e]) = k
         /\ k >= 1 => [i \in 1 .. k |-> e][1] = e
  OBVIOUS

(* What isInside lets through has the root in front.                           *)
LEMMA InsideHasPrefix ==
  ASSUME NEW root \in Seq(Names), NEW target \in Seq(Names), isInside(root, target)
  PROVE  IsPrefix(root, target)
<1> DEFINE S == {m \in 0 .. Len(root) : IsPrefix(SubSeq(root, 1, m), target)}
           n == Max(S)
           ups == [i \in 1 .. Len(root) - n |-> ".."]
           tail == SubSeq(target, n + 1, Len(target))
<1>1. Len(root) \in Nat /\ Len(target) \in Nat
  BY LenProperties
<1>2. 0 \in S
  <2>1. SubSeq(root, 1, 0) = <<>> /\ SubSeq(target, 1, 0) = <<>>
    BY SubSeqEmpty
  <2> QED
    BY <1>1, <2>1, EmptySeq DEF IsPrefix
<1>3. n \in S
  <2>1. S \in SUBSET (0 .. Len(root)) /\ S # {}
    BY <1>2
  <2> HIDE DEF S
  <2> QED
    BY <1>1, <2>1, GreatestExists
<1>4. Rel(root, target) = ups \o tail
  BY DEF Rel
<1>5. CASE n = Len(root)
  BY <1>3, <1>5, SubSeqFull
<1>6. CASE n # Len(root)
  <2> HIDE DEF n
  <2>1. n \in Nat /\ Len(root) - n \in Nat /\ Len(root) - n >= 1
    BY <1>1, <1>3, <1>6
  <2> DEFINE T == Names \cup {".."}
  <2>2. ups \in Seq(T) /\ Len(ups) = Len(root) - n /\ ups[1] = ".."
    BY <2>1, Repeated
  <2>3. tail \in Seq(T)
    <3>1. \A i \in n + 1 .. Len(target) : target[i] \in T
      BY <1>1, <2>1, ElementOfSeq
    <3> HIDE DEF T
    <3> QED
      BY <1>1, <2>1, <3>1, SubSeqProperties
  <2>4. (ups \o tail)[1] = ".." /\ ups \o tail # <<>>
    <3> HIDE DEF ups, tail, T
    <3> QED
      BY <2>1, <2>2, <2>3, ConcatProperties, EmptySeq
  <2> QED
    BY <1>4, <2>4 DEF isInside
<1> QED
  BY <1>5, <1>6

LEMMA PrefixIsReal ==
  ASSUME NEW root \in Seq(Names), NEW dir \in Seq(Names),
         IsPrefix(root, dir), IsRealDir(dir)
  PROVE  IsRealDir(root)
<1>1. /\ Len(root) \in Nat /\ Len(dir) \in Nat /\ Len(root) <= Len(dir)
      /\ SubSeq(root, 1, Len(root)) = SubSeq(dir, 1, Len(root))
  BY LenProperties DEF IsPrefix
<1>2. root = SubSeq(dir, 1, Len(root))
  BY <1>1, SubSeqFull
<1>3. Len(root) \in 0 .. Len(dir)
  BY <1>1
<1>4. IsRealDir(SubSeq(dir, 1, Len(root)))
  BY <1>3, PrefixOfReal
<1> QED
  BY <1>2, <1>4, Zenon

(***************************************************************************)
(* ResolveDir                                                              *)
(***************************************************************************)
LEMMA ExpandType ==
  ASSUME NEW p \in Paths
  PROVE  /\ expandHome(p) \in Paths
         /\ expandHome(p).kind = "rel" => p.kind = "rel"
         /\ p.kind # "empty" => expandHome(p).kind # "empty"
<1>1. CASE p.kind = "home"
  <2> DEFINE c == [at |-> <<>>, rest |-> Home \o p.elems]
  <2>1. Home \o p.elems \in Seq(Names) /\ <<>> \in Seq(Names)
    BY HomeAssumption, ConcatProperties, EmptySeq DEF Paths
  <2>2. c \in Cleaning
    BY <2>1 DEF Cleaning
  <2> HIDE DEF c
  <2>3. clean[c] \in Seq(Names)
    BY <2>2, CleanType
  <2>4. expandHome(p) = [kind |-> "abs", elems |-> clean[c]]
    BY <1>1 DEF expandHome, Path, c
  <2> QED
    BY <2>3, <2>4 DEF Paths
<1>2. CASE p.kind # "home"
  BY <1>2 DEF expandHome
<1> QED
  BY <1>1, <1>2

LEMMA RealEnds ==
  ASSUME NEW p \in Paths, NEW wd \in Seq(Names), Real(wd, p) # NoPath
  PROVE  /\ Real(wd, p) \in Seq(Names)
         /\ p.kind # "rel" => Real(wd, p) = Real(Cwd, p)
         /\ Standing(Real(Cwd, p))
<1> DEFINE w == [abs |-> p.kind # "rel", ups |-> 0, down |-> <<>>,
                 rest |-> p.elems, links |-> MaxLinks]
           end == walk[w]
           I == {x \in Walks : OnRealDir(x)}
           J == {x \in Walks : x.abs}
<1>1. w \in Walks /\ (w.abs <=> p.kind # "rel")
  <2>1. <<>> \in Seq(Names) /\ p.elems \in Seq(Names) /\ (p.kind # "rel") \in BOOLEAN
    BY EmptySeq DEF Paths
  <2> QED
    BY <2>1, MaxLinksAssumption DEF Walks
<1>2. w \in I
  <2>1. Abs(Cwd, w) = IF w.abs THEN <<>> ELSE Up(Cwd, 0) \o <<>>
    BY DEF Abs
  <2>2. Up(Cwd, 0) \in Seq(Names) /\ IsRealDir(Up(Cwd, 0))
    BY CwdAssumption, UpIsReal
  <2>3. Abs(Cwd, w) \in Seq(Names) /\ IsRealDir(Abs(Cwd, w))
    BY <2>1, <2>2, ConcatEmptySeq, EmptySeq, RealDirs
  <2> HIDE DEF w
  <2> QED
    BY <1>1, <2>3, RealStands DEF OnRealDir
<1>3. EvalSymlinks(p) = end
  BY DEF EvalSymlinks
<1>4. ~Stuck(end) /\ Real(wd, p) = Abs(wd, end) /\ Real(Cwd, p) = Abs(Cwd, end)
  BY <1>3, Zenon DEF Real
<1> HIDE DEF w, end
<1>5. end \in Walks /\ OnRealDir(end)
  <2>1. I \in SUBSET Walks /\ \A x \in I : ~Stuck(x) /\ x.rest # <<>> => Onward(x) \in I
    BY OnwardType
  <2> HIDE DEF I
  <2>2. end \in I
    BY <1>2, <2>1, WalkEnds DEF end
  <2> QED
    BY <2>2 DEF I
<1>6. ASSUME p.kind # "rel"
      PROVE  end.abs
  <2>1. J \in SUBSET Walks /\ \A x \in J : ~Stuck(x) /\ x.rest # <<>> => Onward(x) \in J
    BY OnwardType
  <2>2. w \in J
    BY <1>1, <1>6
  <2> HIDE DEF J
  <2>3. end \in J
    BY <2>1, <2>2, WalkEnds DEF end
  <2> QED
    BY <2>3 DEF J
<1>7. end.abs => Abs(wd, end) = Abs(Cwd, end)
  BY DEF Abs
<1> QED
  BY <1>4, <1>5, <1>6, <1>7, AbsType DEF OnRealDir

LEMMA OneAtATime ==
  ASSUME NEW d \in Seq(Names), NEW rest \in Seq(Names), rest # <<>>
  PROVE  /\ Head(rest) \in Names /\ Tail(rest) \in Seq(Names)
         /\ Append(d, Head(rest)) \in Seq(Names)
         /\ Len(Append(d, Head(rest))) = Len(d) + 1
         /\ Append(d, Head(rest))[Len(d) + 1] = Head(rest)
         /\ Append(d, Head(rest)) \o Tail(rest) = d \o rest
<1>1. Head(rest) \in Names /\ Tail(rest) \in Seq(Names)
  BY HeadTailProperties
<1>2. <<Head(rest)>> \in Seq(Names) /\ <<Head(rest)>> \o Tail(rest) = rest
  OBVIOUS
<1>3. Append(d, Head(rest)) = d \o <<Head(rest)>>
  BY <1>1, AppendIsConcat
<1>4. (d \o <<Head(rest)>>) \o Tail(rest) = d \o (<<Head(rest)>> \o Tail(rest))
  BY <1>1, <1>2, ConcatAssociative
<1>5. Append(d, Head(rest)) \o Tail(rest) = d \o rest
  BY <1>2, <1>3, <1>4, Zenon
<1> QED
  BY <1>1, <1>5, AppendProperties

(* A path without a link in it leads to itself.                                *)
LEMMA StandsStill ==
  ASSUME NEW at \in Seq(Names), Standing(at)
  PROVE  Reached(at) = at
<1> DEFINE w == [abs |-> TRUE, ups |-> 0, down |-> <<>>, rest |-> at, links |-> MaxLinks]
           I == {x \in Walks : x.abs /\ x.down \o x.rest = at}
<1>1. w \in Walks
  BY EmptySeq, MaxLinksAssumption DEF Walks
<1>2. w \in I
  BY <1>1, ConcatEmptySeq
<1>3. ASSUME NEW x \in I, x.rest # <<>>
      PROVE  ~Stuck(x) /\ Onward(x) \in I
  <2> DEFINE e == Head(x.rest)
             n == Len(x.down) + 1
  <2>1. x \in Walks /\ x.abs /\ x.down \o x.rest = at
    BY <1>3
  <2>2. /\ x.down \in Seq(Names) /\ x.rest \in Seq(Names)
        /\ Len(x.down) \in Nat /\ Len(x.rest) \in Nat \ {0}
    BY <1>3, <2>1, EmptySeq, LenProperties DEF Walks
  <2>3. /\ e \in Names /\ Tail(x.rest) \in Seq(Names)
        /\ Append(x.down, e) \in Seq(Names) /\ Len(Append(x.down, e)) = n
        /\ Append(x.down, e)[n] = e
    BY <1>3, <2>2, OneAtATime
  <2>4. Append(x.down, e) \o Tail(x.rest) = at
    BY <1>3, <2>1, <2>2, OneAtATime, Zenon
  <2> DEFINE tail == Tail(x.rest)
  <2> HIDE DEF e, tail
  <2>5. n \in 1 .. Len(at) /\ (n < Len(at) <=> tail # <<>>)
    <3>1. Len(at) = n + Len(tail) /\ n \in Nat \ {0}
      <4> DEFINE done == Append(x.down, e)
      <4>1. done \in Seq(Names) /\ tail \in Seq(Names) /\ done \o tail = at /\ Len(done) = n
        BY <2>3, <2>4 DEF tail
      <4> HIDE DEF done
      <4>2. Len(done \o tail) = Len(done) + Len(tail)
        BY <4>1, ConcatProperties
      <4>3. n \in Nat \ {0}
        BY <2>2
      <4> HIDE DEF n
      <4> QED
        BY <4>1, <4>2, <4>3
    <3>2. tail = <<>> \/ Len(tail) \in Nat \ {0}
      BY <2>3, EmptySeq DEF tail
    <3>3. tail = <<>> => Len(tail) = 0
      BY EmptySeq
    <3> QED
      BY <3>1, <3>2, <3>3
  <2>6. SubSeq(at, 1, n) = Append(x.down, e)
    <3>1. n \in 1 .. n /\ 1 \in 1 .. n
      BY <2>2
    <3> HIDE DEF n
    <3>2. SubSeq(Append(x.down, e) \o Tail(x.rest), 1, n) = SubSeq(Append(x.down, e), 1, n)
      BY <2>3, <2>4, <3>1, SubSeqOfConcat1
    <3>3. SubSeq(Append(x.down, e), 1, n) = Append(x.down, e)
      <4>1. SubSeq(Append(x.down, e), 1, Len(Append(x.down, e))) = Append(x.down, e)
        BY <2>3, SubSeqFull
      <4>2. Len(Append(x.down, e)) = n
        BY <2>3 DEF n
      <4> QED
        BY <4>1, <4>2, Zenon
    <3> QED
      BY <2>4, <3>2, <3>3
  <2>7. Here(x) = Append(x.down, e)
    BY <2>1 DEF Here, Abs, e
  <2>8. /\ Here(x) \in DOMAIN Tree /\ Tree[Here(x)].is # "link"
        /\ Tail(x.rest) # <<>> => Tree[Here(x)].is = "dir"
    BY <2>5, <2>6, <2>7 DEF Standing, tail
  <2>9. e # ".."
    <3>1. Append(x.down, e)[n] = e
      BY <2>3
    <3>2. n \in DOMAIN Append(x.down, e)
      BY <2>2, <2>3, LenProperties
    <3>3. Append(x.down, e)[n] # ".."
      BY <2>7, <2>8, <3>2, TreeAssumption
    <3> QED
      BY <3>1, <3>3
  <2>10. ~Stuck(x)
    BY <2>8 DEF Stuck
  <2>11. Onward(x) = [x EXCEPT !.down = Append(x.down, e), !.rest = Tail(x.rest)]
    BY <2>8, <2>9 DEF Onward, e
  <2>12. /\ Onward(x).abs /\ Onward(x).down = Append(x.down, e)
         /\ Onward(x).rest = Tail(x.rest)
    BY <2>1, <2>11 DEF Walks
  <2>13. Onward(x) \in Walks
    BY <1>3, <2>1, <2>10, OnwardType
  <2> QED
    BY <2>4, <2>10, <2>12, <2>13
<1>4. EvalSymlinks(Path("abs", at)) = walk[w]
  BY DEF EvalSymlinks, Path
<1>5. walk[w] \in I /\ walk[w].rest = <<>>
  <2>1. I \in SUBSET Walks /\ \A x \in I : ~Stuck(x) /\ x.rest # <<>> => Onward(x) \in I
    BY <1>3
  <2> HIDE DEF w, I
  <2>2. walk[w] \in I /\ (Stuck(walk[w]) \/ walk[w].rest = <<>>)
    BY <1>2, <2>1, WalkEnds
  <2> QED
    BY <1>3, <2>2
<1> HIDE DEF w
<1>6. walk[w].abs /\ walk[w].down = at
  <2>1. walk[w].down \in Seq(Names) /\ walk[w].down \o <<>> = at /\ walk[w].abs
    BY <1>5 DEF Walks
  <2> QED
    BY <2>1, ConcatEmptySeq
<1>7. ~Stuck(walk[w])
  BY <1>5 DEF Stuck
<1> QED
  BY <1>4, <1>6, <1>7 DEF Reached, Real, Abs

(* Where an absolute path leads: nowhere, to a file or to a real directory.    *)
LEMMA ReachedIsReal ==
  ASSUME NEW at \in Seq(Names), Reached(at) \in DOMAIN Tree, Tree[Reached(at)].is = "dir"
  PROVE  IsRealDir(Reached(at))
<1>1. Path("abs", at) \in Paths /\ Reached(at) # NoPath
  BY TreeAssumption DEF Path, Paths
<1>2. Reached(at) \in Seq(Names) /\ Standing(Reached(at))
  BY <1>1, CwdAssumption, RealEnds DEF Reached
<1> QED
  BY <1>2, RealStands

LEMMA MinExists ==
  ASSUME NEW S \in SUBSET Nat, S # {}
  PROVE  Min(S) \in S /\ \A y \in S : Min(S) =< y
<1>1. PICK t \in S : \A y \in S : <<y, t>> \notin OpToRel(<, Nat)
  BY NatLessThanWellFounded, WFMin
<1>2. \A y \in S : t =< y
  <2> SUFFICES ASSUME NEW y \in S
               PROVE  t =< y
    OBVIOUS
  <2>1. ~(y < t) /\ y \in Nat /\ t \in Nat
    BY <1>1 DEF OpToRel
  <2> QED
    BY <2>1
<1> QED
  BY <1>2 DEF Min

LEMMA RootsType ==
  /\ \A i \in DOMAIN AllowedRoots : AllowedRoots[i] \in Paths /\ AllowedRoots[i].kind # "empty"
  /\ DOMAIN AllowedRoots # {} => Min(DOMAIN AllowedRoots) \in DOMAIN AllowedRoots
<1> DEFINE S == {j \in DOMAIN RawRoots : RawRoots[j].kind # "empty"}
<1>1. DOMAIN RawRoots \subseteq Nat /\ \A i \in DOMAIN RawRoots : RawRoots[i] \in Paths
  BY RawRootsAssumption
<1>2. AllowedRoots = [i \in S |-> expandHome(RawRoots[i])]
  BY DEF AllowedRoots, roots
<1>3. S \subseteq Nat /\ \A i \in S : RawRoots[i] \in Paths /\ RawRoots[i].kind # "empty"
  BY <1>1
<1> HIDE DEF S
<1>4. S # {} => Min(S) \in S
  BY <1>3, MinExists
<1>5. \A i \in S : expandHome(RawRoots[i]) \in Paths /\ expandHome(RawRoots[i]).kind # "empty"
  BY <1>3, ExpandType
<1> QED
  BY <1>2, <1>4, <1>5

(* A directory that is let through exists, and it is below an allowed root, if *)
(* the working directory goes by its real name or nothing is relative to it.   *)
LEMMA ResolvedIsAllowed ==
  ASSUME NEW pwd \in Pwds, NEW dir \in Paths, ResolveDir(pwd, dir) # NoPath
  PROVE  /\ IsRealDir(Reached(ResolveDir(pwd, dir)))
         /\ \/ pwd # Cwd /\ \/ dir.kind = "rel"
                            \/ \E i \in DOMAIN AllowedRoots : AllowedRoots[i].kind = "rel"
            \/ DOMAIN AllowedRoots = {}
            \/ \E i \in DOMAIN AllowedRoots :
                  /\ IsRealDir(Real(Cwd, AllowedRoots[i]))
                  /\ IsPrefix(Real(Cwd, AllowedRoots[i]), Reached(ResolveDir(pwd, dir)))
<1> DEFINE asked == IF dir.kind = "empty" /\ DOMAIN AllowedRoots # {}
                    THEN AllowedRoots[Min(DOMAIN AllowedRoots)] ELSE dir
           p == expandHome(asked)
           real == Real(pwd, p)
           found == real # NoPath /\ Reached(real) \in DOMAIN Tree /\ Tree[Reached(real)].is = "dir"
           allowed == \/ DOMAIN AllowedRoots = {}
                      \/ \E i \in DOMAIN AllowedRoots :
                            /\ Real(pwd, AllowedRoots[i]) # NoPath
                            /\ isInside(Real(pwd, AllowedRoots[i]), real)
<1>1. /\ asked \in Paths /\ (asked.kind = "empty" => DOMAIN AllowedRoots = {})
      /\ \/ asked.kind = dir.kind
         \/ \E i \in DOMAIN AllowedRoots : asked.kind = AllowedRoots[i].kind
  BY RootsType
<1>2. ResolveDir(pwd, dir) = IF asked.kind = "empty" THEN pwd
                             ELSE IF found /\ allowed THEN real ELSE NoPath
  BY DEF ResolveDir
<1>3. pwd \in Seq(Names) /\ Reached(pwd) = Cwd
  BY DEF Pwds
<1> HIDE DEF asked
<1>4. CASE asked.kind = "empty"
  BY <1>1, <1>2, <1>3, <1>4, CwdAssumption
<1>5. CASE asked.kind # "empty"
  <2>1. p \in Paths /\ (p.kind = "rel" => asked.kind = "rel")
    BY <1>1, ExpandType
  <2> HIDE DEF p
  <2>2. ResolveDir(pwd, dir) = real /\ found /\ allowed
    BY <1>2, <1>5
  <2>3. real # NoPath
    BY <2>2
  <2>4. real \in Seq(Names) /\ IsRealDir(Reached(real))
    BY <1>3, <2>1, <2>2, <2>3, RealEnds, ReachedIsReal
  <2>5. ASSUME pwd = Cwd \/ /\ dir.kind # "rel"
                            /\ \A i \in DOMAIN AllowedRoots : AllowedRoots[i].kind # "rel"
        PROVE  \/ DOMAIN AllowedRoots = {}
               \/ \E i \in DOMAIN AllowedRoots :
                     /\ IsRealDir(Real(Cwd, AllowedRoots[i]))
                     /\ IsPrefix(Real(Cwd, AllowedRoots[i]), Reached(real))
    <3>1. real = Real(Cwd, p)
      <4>1. pwd = Cwd \/ p.kind # "rel"
        BY <1>1, <2>1, <2>5
      <4> QED
        BY <1>3, <2>1, <2>3, <4>1, RealEnds
    <3>2. Reached(real) = real
      <4>1. Standing(real)
        BY <1>3, <2>1, <2>3, <3>1, RealEnds
      <4> QED
        BY <2>4, <4>1, StandsStill
    <3> HIDE DEF real
    <3>3. ASSUME NEW i \in DOMAIN AllowedRoots, Real(pwd, AllowedRoots[i]) # NoPath,
                 isInside(Real(pwd, AllowedRoots[i]), real)
          PROVE  /\ IsRealDir(Real(Cwd, AllowedRoots[i]))
                 /\ IsPrefix(Real(Cwd, AllowedRoots[i]), Reached(real))
      <4>1. AllowedRoots[i] \in Paths
        BY RootsType
      <4>2. /\ Real(pwd, AllowedRoots[i]) = Real(Cwd, AllowedRoots[i])
            /\ Real(pwd, AllowedRoots[i]) \in Seq(Names)
        <5>1. pwd = Cwd \/ AllowedRoots[i].kind # "rel"
          BY <2>5
        <5> QED
          BY <1>3, <3>3, <4>1, <5>1, RealEnds
      <4>3. IsPrefix(Real(Cwd, AllowedRoots[i]), real)
        BY <2>4, <3>3, <4>2, InsideHasPrefix
      <4> QED
        BY <2>4, <3>2, <4>2, <4>3, PrefixIsReal
    <3> QED
      BY <2>2, <3>3 DEF allowed
  <2> QED
    BY <2>2, <2>4, <2>5
<1> QED
  BY <1>4, <1>5
=============================================================================
