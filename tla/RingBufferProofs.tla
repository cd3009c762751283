-------------------------- MODULE RingBufferProofs --------------------------
(***************************************************************************)
(* The scroll buffer keeps the latest bytes, for any size of the buffer    *)
(* and any lengths of the writes.                                          *)
(***************************************************************************)
EXTENDS RingBuffer, TLAPS

(* Until the first lap the bytes lie from the start of the array to pos; then *)
(* the oldest byte is at pos and the latest just before it.                   *)
Layout ==
    IF full
    THEN /\ total >= Size
         /\ \A i \in Index : buf[i] = IF i >= pos
                                      THEN total - Size + (i - pos) + 1
                                      ELSE total - pos + i + 1
    ELSE /\ pos = total
         /\ \A i \in Index : i < pos => buf[i] = i + 1

Inv == TypeOK /\ Layout

(* The size of the array is positive whatever was asked for. *)
LEMMA SizePositive == Size \in Nat /\ Size > 0
  BY RequestedAssumption DEF Size

(* An empty buffer is laid out. *)
LEMMA LayoutInit == Init => Inv
<1> SUFFICES ASSUME Init
             PROVE  Inv
  OBVIOUS
<1>1. Size \in Nat /\ Size > 0
  BY SizePositive
<1>2. TypeOK
  <2>1. buf \in [Index -> Nat]
    BY DEF Init
  <2>2. pos \in Index
    BY <1>1 DEF Init, Index
  <2> QED
    BY <2>1, <2>2 DEF Init, TypeOK
<1>3. pos = 0 /\ total = 0 /\ ~full /\ \A i \in Index : ~(i < 0)
  BY <1>1 DEF Init, Index
<1>4. Layout
  BY <1>3 DEF Layout
<1> QED
  BY <1>2, <1>4 DEF Inv

(* A write that replaces everything. *)
LEMMA WriteAllKeeps ==
  ASSUME Inv, NEW n \in Nat, WriteAll(n), total' = total + n
  PROVE  Inv'
<1>1. Size \in Nat /\ Size > 0 /\ total \in Nat /\ n >= Size
  BY SizePositive DEF Inv, TypeOK, WriteAll
<1>2. \A i \in Index : i \in Nat /\ total + n - Size + i + 1 \in Nat
  BY <1>1 DEF Index
<1>3. buf' = [i \in Index |-> total + n - Size + i + 1] /\ pos' = 0 /\ full'
  BY DEF WriteAll
<1>4. TypeOK'
  BY <1>1, <1>2, <1>3 DEF TypeOK, Index, WriteAll
<1> QED
  BY <1>1, <1>2, <1>3, <1>4 DEF Inv, Layout, Index

(* A write that stays before the end of the array or reaches it. *)
LEMMA WriteInPlaceKeeps ==
  ASSUME Inv, NEW n \in Nat \ {0}, WriteInPlace(n), total' = total + n
  PROVE  Inv'
<1>1. /\ Size \in Nat /\ Size > 0 /\ total \in Nat /\ pos \in Index
      /\ n < Size /\ pos + n <= Size /\ full \in BOOLEAN
      /\ pos \in Nat /\ pos < Size
  BY SizePositive DEF Inv, TypeOK, WriteInPlace, Fits, Index
<1>2. /\ buf' = [i \in Index |-> IF pos <= i /\ i < pos + n
                                 THEN total + (i - pos) + 1 ELSE buf[i]]
      /\ pos' = (IF pos + n = Size THEN 0 ELSE pos + n)
      /\ full' = (full \/ pos + n = Size)
  BY DEF WriteInPlace, Lap
<1>3. \A i \in Index : i \in Nat /\ i < Size /\ buf[i] \in Nat
  BY <1>1 DEF Index, Inv, TypeOK
<1>4. TypeOK'
  <2>1. buf' \in [Index -> Nat]
    BY <1>1, <1>2, <1>3
  <2>2. pos' \in Index
    BY <1>1, <1>2 DEF Index
  <2> QED
    BY <1>1, <1>2, <2>1, <2>2 DEF TypeOK
<1>5. \A i \in Index : buf'[i] = IF pos <= i /\ i < pos + n
                                 THEN total + (i - pos) + 1 ELSE buf[i]
  BY <1>2
<1>6. CASE full
  <2>1. /\ total >= Size
        /\ \A i \in Index : buf[i] = IF i >= pos
                                     THEN total - Size + (i - pos) + 1
                                     ELSE total - pos + i + 1
    BY <1>6 DEF Inv, Layout
  <2>2. \A i \in Index : buf'[i] = IF i >= pos'
                                   THEN total' - Size + (i - pos') + 1
                                   ELSE total' - pos' + i + 1
    BY <1>1, <1>2, <1>3, <1>5, <2>1
  <2>3. full' = TRUE
    BY <1>2, <1>6, Zenon
  <2>4. total' >= Size
    BY <1>1, <2>1
  <2>5. Layout'
    BY <2>2, <2>3, <2>4 DEF Layout
  <2> QED
    BY <1>4, <2>5 DEF Inv
<1>7. CASE ~full
  <2>1. pos = total /\ \A i \in Index : i < pos => buf[i] = i + 1
    BY <1>7 DEF Inv, Layout
  <2>2. \A i \in Index : i < pos + n => buf'[i] = i + 1
    BY <1>1, <1>3, <1>5, <2>1
  <2>3. CASE pos + n = Size
    <3>1. full' /\ pos' = 0 /\ total' = Size
      BY <1>1, <1>2, <2>1, <2>3
    <3>2. \A i \in Index : /\ i >= pos'
                           /\ buf'[i] = total' - Size + (i - pos') + 1
      BY <1>1, <1>3, <2>2, <2>3, <3>1
    <3>3. Layout'
      BY <1>1, <3>1, <3>2 DEF Layout
    <3> QED
      BY <1>4, <3>3 DEF Inv
  <2>4. CASE pos + n # Size
    <3>1. ~full' /\ pos' = total' /\ pos' = pos + n
      BY <1>1, <1>2, <1>7, <2>1, <2>4
    <3>2. Layout'
      BY <2>2, <3>1 DEF Layout
    <3> QED
      BY <1>4, <3>2 DEF Inv
  <2> QED
    BY <2>3, <2>4
<1> QED
  BY <1>6, <1>7

(* A write that goes on at the start of the array. *)
LEMMA WriteAroundKeeps ==
  ASSUME Inv, NEW n \in Nat \ {0}, WriteAround(n), total' = total + n
  PROVE  Inv'
<1>1. /\ Size \in Nat /\ Size > 0 /\ total \in Nat /\ pos \in Index
      /\ n < Size /\ pos + n > Size
      /\ pos \in Nat /\ pos < Size
  BY SizePositive DEF Inv, TypeOK, WriteAround, Index
<1>2. /\ pos' = pos + n - Size /\ full' = TRUE
      /\ buf' = [i \in Index |->
                    CASE i >= pos -> total + (i - pos) + 1
                      [] i < pos + n - Size -> total + (Size - pos) + i + 1
                      [] pos + n - Size <= i /\ i < pos -> buf[i]]
  BY DEF WriteAround
<1>3. \A i \in Index : i \in Nat /\ i < Size /\ buf[i] \in Nat
  BY <1>1 DEF Index, Inv, TypeOK
<1>4. \A i \in Index :
         /\ i >= pos => buf'[i] = total + (i - pos) + 1
         /\ i < pos + n - Size => buf'[i] = total + (Size - pos) + i + 1
         /\ pos + n - Size <= i /\ i < pos => buf'[i] = buf[i]
  BY <1>1, <1>2, <1>3
<1>5. TypeOK'
  <2>1. \A i \in Index : buf'[i] \in Nat
    BY <1>1, <1>3, <1>4
  <2>2. buf' \in [Index -> Nat]
    BY <1>2, <2>1
  <2>3. pos' \in Index /\ full' \in BOOLEAN /\ total' \in Nat
    BY <1>1, <1>2 DEF Index
  <2> QED
    BY <2>2, <2>3 DEF TypeOK
<1>6. total >= pos
  BY <1>1 DEF Inv, Layout
<1>7. \A i \in Index : i < pos => buf[i] = total - pos + i + 1
  BY <1>1, <1>3 DEF Inv, Layout
<1>8. \A i \in Index : buf'[i] = IF i >= pos'
                                 THEN total' - Size + (i - pos') + 1
                                 ELSE total' - pos' + i + 1
  BY <1>1, <1>2, <1>3, <1>4, <1>7
<1>9. full' /\ total' >= Size
  BY <1>1, <1>2, <1>6
<1>10. Layout'
  BY <1>8, <1>9 DEF Layout
<1> QED
  BY <1>5, <1>10 DEF Inv

(* The layout is kept by every write. *)
THEOREM LayoutInvariance == Spec => []Inv
<1>1. Inv /\ [Next]_vars => Inv'
  <2> SUFFICES ASSUME Inv, [Next]_vars
               PROVE  Inv'
    OBVIOUS
  <2>1. ASSUME NEW n \in 1..MaxWrite, Write(n)
        PROVE  Inv'
    <3>1. n \in Nat \ {0} /\ total' = total + n
      BY <2>1, BoundsAssumption DEF Write
    <3> QED
      BY <2>1, <3>1, WriteAllKeeps, WriteInPlaceKeeps, WriteAroundKeeps
         DEF Write
  <2>2. CASE UNCHANGED vars
    BY <2>2 DEF vars, Inv, TypeOK, Layout
  <2> QED
    BY <2>1, <2>2 DEF Next
<1> QED
  BY <1>1, LayoutInit, PTL DEF Spec

(* Whatever the lengths of the writes, the buffer holds the latest bytes, all  *)
(* that fit, in the order they were written (ring.go write, bytes).            *)
THEOREM LatestHeld == Spec => []HoldsLatest
<1>1. Inv => HoldsLatest
  <2> SUFFICES ASSUME Inv
               PROVE  HoldsLatest
    OBVIOUS
  <2>1. /\ Size \in Nat /\ Size > 0 /\ total \in Nat
        /\ pos \in Nat /\ pos < Size /\ full \in BOOLEAN
    BY SizePositive DEF Inv, TypeOK, Index
  <2>2. CASE full
    <3>1. Kept = Size
      BY <2>1, <2>2 DEF Inv, Layout, Kept
    <3>2. \A j \in 1..Size :
             /\ j <= Size - pos => buf[pos + j - 1] = total - Size + j
             /\ ~(j <= Size - pos) => buf[j - 1 - (Size - pos)] = total - Size + j
      BY <2>1, <2>2 DEF Inv, Layout, Index
    <3> QED
      BY <2>1, <2>2, <3>1, <3>2 DEF HoldsLatest, Bytes
  <2>3. CASE ~full
    <3>1. pos = total /\ Kept = total
      BY <2>1, <2>3 DEF Inv, Layout, Kept
    <3>2. \A j \in 1..pos : buf[j - 1] = j
      BY <2>1, <2>3 DEF Inv, Layout, Index
    <3> QED
      BY <2>1, <2>3, <3>1, <3>2 DEF HoldsLatest, Bytes
  <2> QED
    BY <2>2, <2>3
<1> QED
  BY <1>1, LayoutInvariance, PTL
=============================================================================
