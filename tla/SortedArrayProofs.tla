------------------------- MODULE SortedArrayProofs -------------------------
(***************************************************************************)
(* Theorems about SortedArray for arrays of any length and any set of      *)
(* integers as keys: arrays stay sorted, and every search answers right.   *)
(***************************************************************************)
EXTENDS SortedArray, SequenceTheorems, TLAPS

(* What lies left of the bounds of the search is too small, what lies      *)
(* right of them too large, and the probe is between them.                 *)
Narrowed ==
  pc = "search" =>
    /\ i0 <= i1 /\ i1 <= Len(arr) /\ i = Middle(i0, i1) /\ r # 0
    /\ \A p \in 1..i0 : arr[p] < key
    /\ \A p \in (i1 + 1)..Len(arr) : arr[p] > key

(* What the search has found out when it is over *)
Found ==
  pc = "found" =>
    /\ i <= Len(arr)
    /\ r = 0 => i < Len(arr) /\ At(i) = key
    /\ r # 0 => /\ \A p \in 1..i : arr[p] < key
                /\ \A p \in (i + 1)..Len(arr) : arr[p] > key

Inv == TypeOK /\ StrictlySorted /\ Narrowed /\ Found

-----------------------------------------------------------------------------
LEMMA MiddleBetween ==
  ASSUME NEW lo \in Nat, NEW hi \in Nat, lo <= hi
  PROVE  /\ Middle(lo, hi) \in Nat
         /\ lo <= Middle(lo, hi) /\ Middle(lo, hi) <= hi
         /\ lo < hi => Middle(lo, hi) < hi
BY DEF Middle

LEMMA ArrayElements ==
  ASSUME TypeOK
  PROVE  /\ Len(arr) \in Nat /\ DOMAIN arr = 1..Len(arr)
         /\ \A p \in 1..Len(arr) : arr[p] \in Keys /\ arr[p] \in Int
BY KeysAssumption, LenProperties, ElementOfSeq DEF TypeOK

(* An array with a key inserted where it belongs *)
LEMMA InsertedElements ==
  ASSUME NEW s \in Seq(Keys), NEW p \in 0..Len(s), NEW x \in Keys
  PROVE  /\ Inserted(s, p, x) \in Seq(Keys)
         /\ Len(Inserted(s, p, x)) = Len(s) + 1
         /\ \A j \in 1..(Len(s) + 1) :
              Inserted(s, p, x)[j] =
                IF j <= p THEN s[j] ELSE IF j = p + 1 THEN x ELSE s[j - 1]
<1>1. Len(s) \in Nat
  BY LenProperties
<1>2. \A j \in 1..(Len(s) + 1) :
         (IF j <= p THEN s[j] ELSE IF j = p + 1 THEN x ELSE s[j - 1]) \in Keys
  <2> TAKE j \in 1..(Len(s) + 1)
  <2>1. CASE j <= p
    <3>1. j \in 1..Len(s)
      BY <1>1, <2>1
    <3>2. QED
      BY <2>1, <3>1, ElementOfSeq
  <2>2. CASE j > p + 1
    <3>1. j - 1 \in 1..Len(s)
      BY <1>1, <2>2
    <3>2. QED
      BY <2>2, <3>1, ElementOfSeq
  <2>3. CASE j = p + 1
    BY <2>3
  <2>4. QED
    BY <1>1, <2>1, <2>2, <2>3
<1>3. Inserted(s, p, x) \in [1..(Len(s) + 1) -> Keys]
  BY <1>2 DEF Inserted
<1>4. QED
  <2>1. Inserted(s, p, x) \in Seq(Keys) /\ Len(Inserted(s, p, x)) = Len(s) + 1
    BY <1>1, <1>3, IsASeq, LenProperties
  <2>2. QED
    BY <2>1 DEF Inserted

LEMMA InsertedSorted ==
  ASSUME Inv, FinishInsert
  PROVE  TypeOK' /\ StrictlySorted'
<1>1. key \in Keys /\ key \in Int /\ i \in 0..Len(arr) /\ r # 0 /\ arr \in Seq(Keys)
  <2>1. Len(arr) \in Nat /\ i \in Nat /\ arr \in Seq(Keys)
    BY ArrayElements DEF Inv, TypeOK
  <2>2. pc = "found" /\ r # 0
    BY DEF FinishInsert, Inserts
  <2>3. key \in Keys /\ key \in Int
    BY <2>2, KeysAssumption DEF Inv, TypeOK
  <2>4. QED
    BY <2>1, <2>2, <2>3 DEF Inv, Found
<1>2. /\ arr' \in Seq(Keys)
      /\ Len(arr') = Len(arr) + 1
      /\ \A j \in 1..(Len(arr) + 1) :
           arr'[j] = IF j <= i THEN arr[j] ELSE IF j = i + 1 THEN key ELSE arr[j - 1]
  BY <1>1, InsertedElements DEF FinishInsert
<1>3. TypeOK'
  BY <1>2 DEF Inv, TypeOK, FinishInsert, search
<1>4. StrictlySorted'
  <2> SUFFICES ASSUME NEW p \in 1..Len(arr'), NEW q \in 1..Len(arr'), p < q
               PROVE  arr'[p] < arr'[q]
    BY DEF StrictlySorted
  <2>1. Len(arr) \in Nat /\ p \in 1..(Len(arr) + 1) /\ q \in 1..(Len(arr) + 1)
    BY <1>2, ArrayElements DEF Inv
  <2>2. /\ \A j \in 1..i : arr[j] < key
        /\ \A j \in (i + 1)..Len(arr) : arr[j] > key
        /\ \A j \in 1..Len(arr) : arr[j] \in Int
        /\ \A j, k \in 1..Len(arr) : j < k => arr[j] < arr[k]
    BY <1>1, ArrayElements DEF Inv, Found, FinishInsert, StrictlySorted
  <2>3. CASE q <= i
    BY <1>1, <1>2, <2>1, <2>2, <2>3
  <2>4. CASE q = i + 1
    BY <1>1, <1>2, <2>1, <2>2, <2>4
  <2>5. CASE p > i + 1
    <3>1. p - 1 \in 1..Len(arr) /\ q - 1 \in 1..Len(arr) /\ p - 1 < q - 1
      BY <1>1, <2>1, <2>5
    <3>2. arr'[p] = arr[p - 1] /\ arr'[q] = arr[q - 1]
      BY <1>1, <1>2, <2>1, <2>5
    <3>3. QED
      BY <2>2, <3>1, <3>2
  <2>6. CASE p <= i + 1 /\ q > i + 1
    <3>1. q - 1 \in (i + 1)..Len(arr) /\ q - 1 \in 1..Len(arr)
      BY <1>1, <2>1, <2>6
    <3>2. arr'[q] = arr[q - 1] /\ arr[q - 1] > key /\ arr[q - 1] \in Int
      BY <1>1, <1>2, <2>1, <2>2, <2>6, <3>1
    <3>3. CASE p = i + 1
      BY <1>1, <1>2, <2>1, <3>2, <3>3
    <3>4. CASE p <= i
      <4>1. arr'[p] = arr[p] /\ arr[p] < key /\ arr[p] \in Int
        BY <1>1, <1>2, <2>1, <2>2, <3>4
      <4>2. QED
        BY <1>1, <3>2, <4>1
    <3>5. QED
      BY <1>1, <2>1, <2>6, <3>3, <3>4
  <2>7. QED
    BY <1>1, <2>1, <2>3, <2>4, <2>5, <2>6
<1>5. QED
  BY <1>3, <1>4

(* A probe leaves out only what cannot be the key.                         *)
LEMMA ProbeNarrows ==
  ASSUME Inv, ProbeAbove \/ ProbeBelow
  PROVE  TypeOK' /\ Narrowed'
<1>1. /\ i0 \in Nat /\ i1 \in Nat /\ i \in Nat /\ key \in Int /\ Len(arr) \in Nat
      /\ i0 < i1 /\ i1 <= Len(arr) /\ i0 <= i /\ i < i1
      /\ \A p \in 1..Len(arr) : arr[p] \in Int
      /\ \A p \in 1..i0 : arr[p] < key
      /\ \A p \in (i1 + 1)..Len(arr) : arr[p] > key
      /\ \A p, q \in 1..Len(arr) : p < q => arr[p] < arr[q]
  <2>1. pc = "search" /\ i0 \in Nat /\ i1 \in Nat /\ i0 < i1 /\ i = Middle(i0, i1)
    BY DEF ProbeAbove, ProbeBelow, Probing, Inv, TypeOK, Narrowed
  <2>2. i0 <= i /\ i < i1
    BY <2>1, MiddleBetween
  <2>3. QED
    BY <2>1, <2>2, KeysAssumption, ArrayElements
       DEF Inv, TypeOK, Narrowed, StrictlySorted
<1>2. CASE ProbeAbove
  <2>1. Middle(i0', i1') \in Nat
    BY <1>1, <1>2, MiddleBetween DEF ProbeAbove
  <2>2. \A p \in 1..(i + 1) : arr[p] < key
    BY <1>1, <1>2 DEF ProbeAbove, At
  <2>3. TypeOK'
    BY <1>1, <1>2, <2>1 DEF Inv, TypeOK, ProbeAbove
  <2>4. Narrowed'
    BY <1>1, <1>2, <2>2 DEF Narrowed, ProbeAbove
  <2>5. QED
    BY <2>3, <2>4
<1>3. CASE ProbeBelow
  <2>1. Middle(i0', i1') \in Nat
    BY <1>1, <1>3, MiddleBetween DEF ProbeBelow
  <2>2. \A p \in (i + 1)..Len(arr) : arr[p] > key
    BY <1>1, <1>3 DEF ProbeBelow, At
  <2>3. TypeOK'
    BY <1>1, <1>3, <2>1 DEF Inv, TypeOK, ProbeBelow
  <2>4. Narrowed'
    BY <1>1, <1>3, <2>2 DEF Narrowed, ProbeBelow
  <2>5. QED
    BY <2>3, <2>4
<1>4. QED
  BY <1>2, <1>3

(* The search is over when it has met the key or ruled everything out.     *)
LEMMA SearchFinds ==
  ASSUME Inv, ProbeEqual \/ SearchOver
  PROVE  TypeOK' /\ Found'
<1>1. /\ i0 \in Nat /\ i1 \in Nat /\ i \in Nat /\ Len(arr) \in Nat
      /\ i0 <= i1 /\ i1 <= Len(arr) /\ i0 <= i /\ i <= i1 /\ r # 0
      /\ i0 < i1 => i < i1
      /\ \A p \in 1..i0 : arr[p] < key
      /\ \A p \in (i1 + 1)..Len(arr) : arr[p] > key
  BY ArrayElements, MiddleBetween DEF Inv, TypeOK, Narrowed, ProbeEqual, SearchOver, Probing
<1>2. CASE ProbeEqual
  BY <1>1, <1>2 DEF ProbeEqual, Probing, Inv, TypeOK, Found, At
<1>3. CASE SearchOver
  <2>1. i0 = i1 /\ i = i0
    BY <1>1, <1>3 DEF SearchOver
  <2>2. QED
    BY <1>1, <1>3, <2>1 DEF SearchOver, Inv, TypeOK, Found, search
<1>4. QED
  BY <1>2, <1>3

-----------------------------------------------------------------------------
(* The empty array satisfies Inv, and no step breaks it.                   *)
LEMMA InitialInv == Init => Inv
<1> SUFFICES ASSUME Init PROVE Inv
  OBVIOUS
<1>1. arr \in Seq(Keys) /\ Len(arr) = 0
  BY DEF Init
<1>2. QED
  BY <1>1 DEF Init, Inv, TypeOK, Operation, StrictlySorted, Narrowed, Found

LEMMA InvStep == Inv /\ [Next]_vars => Inv'
<1> SUFFICES ASSUME Inv, [Next]_vars PROVE Inv'
  OBVIOUS
<1>1. ASSUME NEW c \in Calls, NEW x \in Keys, Begin(c, x)
      PROVE  Inv'
  <2>1. Len(arr) \in Nat /\ Len(arr) \div 2 \in Nat
    BY ArrayElements DEF Inv
  <2>2. TypeOK'
    BY <1>1, <2>1, CallsAssumption DEF Begin, Inv, TypeOK
  <2>3. Narrowed'
    BY <1>1, <2>1 DEF Begin, Narrowed, Middle
  <2>4. QED
    BY <1>1, <2>2, <2>3 DEF Begin, Inv, StrictlySorted, Found
<1>2. CASE ProbeAbove \/ ProbeBelow
  BY <1>2, ProbeNarrows DEF ProbeAbove, ProbeBelow, Probing, Inv, StrictlySorted, Found
<1>3. CASE ProbeEqual \/ SearchOver
  BY <1>3, SearchFinds DEF ProbeEqual, SearchOver, Inv, StrictlySorted, Narrowed
<1>4. CASE FinishInsert
  BY <1>4, InsertedSorted DEF FinishInsert, Inv, Narrowed, Found
<1>5. CASE FinishLookup
  BY <1>5 DEF FinishLookup, Inv, TypeOK, StrictlySorted, Narrowed, Found, search
<1>6. CASE UNCHANGED vars
  BY <1>6 DEF vars, Inv, TypeOK, StrictlySorted, Narrowed, Found, At
<1>7. QED
  BY <1>1, <1>2, <1>3, <1>4, <1>5, <1>6 DEF Next

(* The bounds and probes of the search stay in range.                      *)
THEOREM SearchTyped == Spec => []TypeOK
<1>1. Inv => TypeOK
  BY DEF Inv
<1>2. QED
  BY <1>1, InitialInv, InvStep, PTL DEF Spec

(* fatso_set_insert keeps an array sorted and without duplicates, however  *)
(* long it gets.                                                           *)
THEOREM ArraysStaySorted == Spec => []StrictlySorted
<1>1. Inv => StrictlySorted
  BY DEF Inv
<1>2. QED
  BY <1>1, InitialInv, InvStep, PTL DEF Spec

(* Every search of a sorted array finds the key if it is there, and where  *)
(* it belongs if it is not (fatso_lower_bound_cmp).                        *)
THEOREM SearchAnswers == Spec => []AnswerIsRight
<1>1. Inv => AnswerIsRight
  <2> SUFFICES ASSUME Inv, pc = "found"
               PROVE  AnswerIsRight
    BY DEF AnswerIsRight
  <2>1. /\ Len(arr) \in Nat /\ i \in 0..Len(arr) /\ key \in Int
        /\ \A p \in 1..Len(arr) : arr[p] \in Int
    <3>1. Len(arr) \in Nat /\ \A p \in 1..Len(arr) : arr[p] \in Int
      BY ArrayElements DEF Inv
    <3>2. i \in Nat /\ key \in Int
      BY KeysAssumption DEF Inv, TypeOK
    <3>3. QED
      BY <3>1, <3>2 DEF Inv, Found
  <2>2. CASE r = 0
    <3>1. i < Len(arr) /\ arr[i + 1] = key
      BY <2>2 DEF Inv, Found, At
    <3>2. i + 1 \in 1..Len(arr) /\ \E p \in 1..Len(arr) : arr[p] = key
      BY <2>1, <3>1
    <3>3. QED
      BY <2>1, <2>2, <3>1, <3>2 DEF AnswerIsRight, BsearchResult, At
  <2>3. CASE r # 0
    <3>1. \A p \in 1..Len(arr) : IF p <= i THEN arr[p] < key ELSE arr[p] > key
      BY <2>1, <2>3 DEF Inv, Found
    <3>2. ~\E p \in 1..Len(arr) : arr[p] = key
      BY <2>1, <3>1
    <3>3. QED
      BY <2>1, <2>3, <3>1, <3>2 DEF AnswerIsRight, BsearchResult
  <2>4. QED
    BY <2>2, <2>3
<1>2. QED
  BY <1>1, InitialInv, InvStep, PTL DEF Spec
=============================================================================
