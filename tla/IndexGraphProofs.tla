-------------------------- MODULE IndexGraphProofs --------------------------
(***************************************************************************)
(* Theorems about IndexGraph for every set of names, packages and          *)
(* dependencies: types, the order of the array, and that the arrays of     *)
(* indices implement the graph of names of NameGraph.                      *)
(***************************************************************************)
EXTENDS IndexGraph, SequenceTheorems, TLAPS

(* Adding to the facts checked that resolve holds one index at most.       *)
Inv == IndicesInRange /\ SortedByName /\ \A i, j \in held : i = j

-----------------------------------------------------------------------------
(* The array, one element inserted where it belongs.                       *)

LEMMA InsertedElements ==
  ASSUME NEW s \in Seq(Element), NEW x \in Element, NEW at \in 1..(Len(s) + 1)
  PROVE  /\ InsertedAt(s, at, x) \in Seq(Element)
         /\ DOMAIN InsertedAt(s, at, x) = 1..(Len(s) + 1)
         /\ InsertedAt(s, at, x)[at] = x
         /\ \A i \in DOMAIN s : /\ Moved(i, at) \in DOMAIN InsertedAt(s, at, x)
                                /\ Moved(i, at) # at
                                /\ InsertedAt(s, at, x)[Moved(i, at)] = s[i]
         /\ \A j \in DOMAIN InsertedAt(s, at, x) :
              j = at \/ \E i \in DOMAIN s : j = Moved(i, at)
<1> DEFINE t == InsertedAt(s, at, x)
<1>1. Len(s) \in Nat /\ DOMAIN s = 1..Len(s)
  BY LenProperties
<1>2. DOMAIN t = 1..(Len(s) + 1)
  BY DEF InsertedAt
<1>3. \A j \in 1..(Len(s) + 1) : t[j] \in Element
  <2> TAKE j \in 1..(Len(s) + 1)
  <2>1. CASE j < at
    <3>1. j \in 1..Len(s)
      BY <1>1, <2>1
    <3>2. t[j] = s[j]
      BY <2>1 DEF InsertedAt
    <3>3. QED
      BY <3>1, <3>2, ElementOfSeq
  <2>2. CASE j = at
    BY <2>2 DEF InsertedAt
  <2>3. CASE j > at
    <3>1. j - 1 \in 1..Len(s)
      BY <1>1, <2>3
    <3>2. t[j] = s[j - 1]
      BY <2>3 DEF InsertedAt
    <3>3. QED
      BY <3>1, <3>2, ElementOfSeq
  <2>4. QED
    BY <1>1, <2>1, <2>2, <2>3
<1>4. t \in Seq(Element)
  <2>1. t \in [1..(Len(s) + 1) -> Element]
    BY <1>3 DEF InsertedAt
  <2>2. QED
    BY <1>1, <2>1, IsASeq
<1>5. t[at] = x
  BY <1>1 DEF InsertedAt
<1>6. \A i \in DOMAIN s : /\ Moved(i, at) \in DOMAIN t
                          /\ Moved(i, at) # at
                          /\ t[Moved(i, at)] = s[i]
  <2> TAKE i \in DOMAIN s
  <2>1. CASE i >= at
    <3>1. Moved(i, at) = i + 1 /\ i + 1 \in 1..(Len(s) + 1) /\ i + 1 > at /\ i + 1 # at
      BY <1>1, <2>1 DEF Moved
    <3>2. t[i + 1] = s[(i + 1) - 1]
      BY <1>1, <3>1 DEF InsertedAt
    <3>3. (i + 1) - 1 = i
      BY <1>1
    <3>4. QED
      BY <1>2, <3>1, <3>2, <3>3
  <2>2. CASE ~(i >= at)
    BY <1>1, <1>2, <2>2 DEF Moved, InsertedAt
  <2>3. QED
    BY <2>1, <2>2
<1>7. \A j \in DOMAIN t : j = at \/ \E i \in DOMAIN s : j = Moved(i, at)
  <2> SUFFICES ASSUME NEW j \in DOMAIN t, j # at
               PROVE  \E i \in DOMAIN s : j = Moved(i, at)
    OBVIOUS
  <2>1. CASE j < at
    BY <1>1, <1>2, <2>1 DEF Moved
  <2>2. CASE j > at
    <3>1. j - 1 \in DOMAIN s /\ j - 1 >= at /\ (j - 1) + 1 = j
      BY <1>1, <1>2, <2>2
    <3>2. QED
      BY <3>1 DEF Moved
  <2>3. QED
    BY <1>1, <1>2, <2>1, <2>2
<1>8. QED
  BY <1>2, <1>4, <1>5, <1>6, <1>7

LEMMA MovedKeepsOrder ==
  ASSUME NEW i \in Nat, NEW j \in Nat, NEW at \in Nat
  PROVE  /\ Moved(i, at) < Moved(j, at) <=> i < j
         /\ Moved(i, at) < at <=> i < at
         /\ Moved(i, at) # at
  BY DEF Moved

LEMMA InsertedInOrder ==
  ASSUME NEW s \in Seq(Element), NEW x \in Element, NEW at \in 1..(Len(s) + 1),
         Ordered(s), BelongsAt(s, x.name, at)
  PROVE  Ordered(InsertedAt(s, at, x))
<1> DEFINE t == InsertedAt(s, at, x)
<1>1. /\ DOMAIN t \subseteq Nat /\ DOMAIN s \subseteq Nat /\ at \in Nat
      /\ t[at].name = x.name
      /\ \A l \in DOMAIN s : t[Moved(l, at)].name = s[l].name
      /\ \A j \in DOMAIN t : j = at \/ \E l \in DOMAIN s : j = Moved(l, at)
  BY InsertedElements, LenProperties
<1>2. x.name \in Nat /\ \A l \in DOMAIN s : s[l].name \in Nat
  <2>1. \A l \in DOMAIN s : s[l] \in Element
    BY ElementOfSeq, LenProperties
  <2>2. QED
    BY <2>1, NamesAssumption DEF Element
<1> HIDE DEF t
<1>3. SUFFICES ASSUME NEW i \in DOMAIN t, NEW j \in DOMAIN t, i < j
               PROVE  t[i].name < t[j].name
  BY DEF Ordered, t
<1>4. CASE i = at
  <2>1. j # at
    BY <1>1, <1>3, <1>4
  <2>2. PICK l \in DOMAIN s : j = Moved(l, at)
    BY <1>1, <2>1
  <2>3. ~(l < at)
    BY <1>1, <1>3, <1>4, <2>2, MovedKeepsOrder
  <2>4. s[l].name > x.name
    BY <2>3 DEF BelongsAt
  <2>5. QED
    BY <1>1, <1>2, <1>4, <2>2, <2>4
<1>5. CASE j = at
  <2>1. i # at
    BY <1>1, <1>3, <1>5
  <2>2. PICK l \in DOMAIN s : i = Moved(l, at)
    BY <1>1, <2>1
  <2>3. l < at
    BY <1>1, <1>3, <1>5, <2>2, MovedKeepsOrder
  <2>4. s[l].name < x.name
    BY <2>3 DEF BelongsAt
  <2>5. QED
    BY <1>1, <1>2, <1>5, <2>2, <2>4
<1>6. CASE i # at /\ j # at
  <2>1. PICK l \in DOMAIN s : i = Moved(l, at)
    BY <1>1, <1>6
  <2>2. PICK m \in DOMAIN s : j = Moved(m, at)
    BY <1>1, <1>6
  <2>3. l < m
    BY <1>1, <1>3, <2>1, <2>2, MovedKeepsOrder
  <2>4. s[l].name < s[m].name
    BY <2>3 DEF Ordered
  <2>5. QED
    BY <1>1, <2>1, <2>2, <2>4
<1>7. QED
  BY <1>4, <1>5, <1>6

-----------------------------------------------------------------------------
(* What the arrays say of a name.                                          *)

(* A name is at one index, and its constraints and packages are those at   *)
(* that index.                                                             *)
LEMMA ReadAtIndex ==
  ASSUME NEW s \in Seq(Element), Ordered(s), NEW b, NEW i \in DOMAIN s
  PROVE  /\ \A j \in DOMAIN s : s[j].name = s[i].name => j = i
         /\ ConstraintsIn(s, s[i].name) = s[i].cons
         /\ RequiredIn(s, b, s[i].name) = b[i]
<1>1. DOMAIN s \subseteq Nat
  BY LenProperties
<1>2. \A l \in DOMAIN s : s[l].name \in Nat
  <2>1. \A l \in DOMAIN s : s[l] \in Element
    BY ElementOfSeq, LenProperties
  <2>2. QED
    BY <2>1, NamesAssumption DEF Element
<1>3. ASSUME NEW j \in DOMAIN s, s[j].name = s[i].name
      PROVE  j = i
  <2>1. ~(i < j) /\ ~(j < i)
    BY <1>2, <1>3 DEF Ordered
  <2>2. QED
    BY <1>1, <2>1
<1>4. (CHOOSE j \in DOMAIN s : s[j].name = s[i].name) = i
  BY <1>3
<1>5. ConstraintsIn(s, s[i].name) = s[i].cons
  BY <1>4 DEF ConstraintsIn, NamesIn
<1>6. {j \in DOMAIN s : s[j].name = s[i].name} = {i}
  BY <1>3
<1>7. RequiredIn(s, b, s[i].name) = b[i]
  BY <1>6 DEF RequiredIn
<1>8. QED
  BY <1>3, <1>5, <1>7

LEMMA ReadAbsent ==
  ASSUME NEW s, NEW b, NEW n, n \notin NamesIn(s, DOMAIN s)
  PROVE  ConstraintsIn(s, n) = <<>> /\ RequiredIn(s, b, n) = {}
<1>1. {j \in DOMAIN s : s[j].name = n} = {}
  BY DEF NamesIn
<1>2. QED
  BY <1>1 DEF ConstraintsIn, RequiredIn

-----------------------------------------------------------------------------
(* Inserting a dependency, seen by name.                                   *)

LEMMA ShiftedPackages ==
  ASSUME NEW m \in Nat, NEW b, DOMAIN b = 1..m, NEW at \in 1..(m + 1), NEW p
  PROVE  LET c == RegisterAt(ShiftKeys(b, at), at, p)
         IN  /\ DOMAIN c = 1..(m + 1)
             /\ c[at] = {p}
             /\ \A i \in 1..m : c[Moved(i, at)] = b[i]
<1> DEFINE k == ShiftKeys(b, at)
           c == RegisterAt(k, at, p)
<1>1. DOMAIN k = (1..(m + 1)) \ {at}
  <2>1. DOMAIN k = {Moved(j, at) : j \in 1..m}
    BY DEF ShiftKeys
  <2>2. ASSUME NEW j \in 1..m
        PROVE  Moved(j, at) \in (1..(m + 1)) \ {at}
    BY DEF Moved
  <2>3. ASSUME NEW i \in (1..(m + 1)) \ {at}
        PROVE  \E j \in 1..m : i = Moved(j, at)
    <3>1. CASE i < at
      BY <2>3, <3>1 DEF Moved
    <3>2. CASE i > at
      <4>1. i - 1 \in 1..m /\ i - 1 >= at /\ (i - 1) + 1 = i
        BY <2>3, <3>2
      <4>2. QED
        BY <4>1 DEF Moved
    <3>3. QED
      BY <2>3, <3>1, <3>2
  <2>4. QED
    BY <2>1, <2>2, <2>3
<1>2. \A i \in 1..m : Moved(i, at) \in DOMAIN k /\ k[Moved(i, at)] = b[i]
  <2> TAKE i \in 1..m
  <2>1. Moved(i, at) \in {Moved(j, at) : j \in DOMAIN b}
    OBVIOUS
  <2>2. k[Moved(i, at)] = IF Moved(i, at) > at THEN b[Moved(i, at) - 1] ELSE b[Moved(i, at)]
    BY <2>1 DEF ShiftKeys
  <2>3. IF Moved(i, at) > at THEN Moved(i, at) - 1 = i ELSE Moved(i, at) = i
    BY DEF Moved
  <2>4. k[Moved(i, at)] = b[i]
    BY <2>2, <2>3
  <2>5. QED
    BY <2>1, <2>4 DEF ShiftKeys
<1> HIDE DEF k
<1>3. DOMAIN c = 1..(m + 1)
  BY <1>1 DEF RegisterAt
<1>4. c[at] = {p}
  BY <1>1 DEF RegisterAt
<1>5. \A i \in 1..m : c[Moved(i, at)] = b[i]
  <2> TAKE i \in 1..m
  <2>1. Moved(i, at) \in DOMAIN k /\ Moved(i, at) # at /\ k[Moved(i, at)] = b[i]
    BY <1>1, <1>2
  <2>2. QED
    BY <2>1 DEF RegisterAt
<1>6. QED
  BY <1>3, <1>4, <1>5 DEF k

LEMMA InsertedByName ==
  ASSUME NEW s \in Seq(Element), Ordered(s), NEW b, DOMAIN b = DOMAIN s,
         NEW x \in Element, NEW at \in 1..(Len(s) + 1), BelongsAt(s, x.name, at),
         NEW p, NEW t, t = InsertedAt(s, at, x),
         NEW c, c = RegisterAt(ShiftKeys(b, at), at, p)
  PROVE  /\ x.name \notin NamesIn(s, DOMAIN s)
         /\ t[at].name = x.name
         /\ \A S \in SUBSET DOMAIN s :
              Shift(S, at) \subseteq DOMAIN t /\ NamesIn(t, Shift(S, at)) = NamesIn(s, S)
         /\ ConstraintsIn(t, x.name) = x.cons
         /\ RequiredIn(t, c, x.name) = c[at]
         /\ \A n : n # x.name =>
              /\ ConstraintsIn(t, n) = ConstraintsIn(s, n)
              /\ RequiredIn(t, c, n) = RequiredIn(s, b, n)
<1>1. /\ t \in Seq(Element) /\ at \in DOMAIN t /\ t[at] = x
      /\ \A i \in DOMAIN s : Moved(i, at) \in DOMAIN t /\ t[Moved(i, at)] = s[i]
      /\ \A j \in DOMAIN t : j = at \/ \E i \in DOMAIN s : j = Moved(i, at)
  BY InsertedElements
<1>2. Ordered(t)
  BY InsertedInOrder
<1>3. c[at] = {p} /\ \A i \in DOMAIN s : c[Moved(i, at)] = b[i]
  <2>1. Len(s) \in Nat /\ DOMAIN s = 1..Len(s)
    BY LenProperties
  <2>2. QED
    BY <2>1, ShiftedPackages
<1>4. x.name \notin NamesIn(s, DOMAIN s)
  <2>1. x.name \in Nat
    BY NamesAssumption DEF Element
  <2>2. ASSUME NEW i \in DOMAIN s, s[i].name = x.name
        PROVE  FALSE
    <3>1. s[i].name < x.name \/ s[i].name > x.name
      BY DEF BelongsAt
    <3>2. QED
      BY <2>1, <2>2, <3>1
  <2>3. QED
    BY <2>2 DEF NamesIn
<1>5. ASSUME NEW S \in SUBSET DOMAIN s
      PROVE  Shift(S, at) \subseteq DOMAIN t /\ NamesIn(t, Shift(S, at)) = NamesIn(s, S)
  BY <1>1 DEF Shift, NamesIn
<1>6. ConstraintsIn(t, x.name) = x.cons /\ RequiredIn(t, c, x.name) = c[at]
  <2>1. /\ ConstraintsIn(t, t[at].name) = t[at].cons
        /\ RequiredIn(t, c, t[at].name) = c[at]
    BY <1>1, <1>2, ReadAtIndex
  <2>2. QED
    BY <1>1, <1>3, <2>1
<1>7. ASSUME NEW n, n # x.name
      PROVE  /\ ConstraintsIn(t, n) = ConstraintsIn(s, n)
             /\ RequiredIn(t, c, n) = RequiredIn(s, b, n)
  <2>1. CASE n \in NamesIn(s, DOMAIN s)
    <3>1. PICK i \in DOMAIN s : s[i].name = n
      BY <2>1 DEF NamesIn
    <3>2. Moved(i, at) \in DOMAIN t /\ t[Moved(i, at)] = s[i] /\ c[Moved(i, at)] = b[i]
      BY <1>1, <1>3
    <3>3. ConstraintsIn(s, n) = s[i].cons /\ RequiredIn(s, b, n) = b[i]
      BY <3>1, ReadAtIndex
    <3>4. /\ ConstraintsIn(t, n) = t[Moved(i, at)].cons
          /\ RequiredIn(t, c, n) = c[Moved(i, at)]
      BY <1>1, <1>2, <3>1, <3>2, ReadAtIndex
    <3>5. QED
      BY <3>2, <3>3, <3>4
  <2>2. CASE n \notin NamesIn(s, DOMAIN s)
    <3>1. n \notin NamesIn(t, DOMAIN t)
      BY <1>1, <1>7, <2>2 DEF NamesIn
    <3>2. QED
      BY <2>2, <3>1, ReadAbsent
  <2>3. QED
    BY <2>1, <2>2
<1>8. QED
  BY <1>1, <1>4, <1>5, <1>6, <1>7

With(S, e) == S \cup {e}
Constrain(s, i, con) == [s EXCEPT ![i].cons = Append(@, con)]

(* A constraint more at an index that is there.                            *)
LEMMA AppendedByName ==
  ASSUME NEW s \in Seq(Element), Ordered(s), Constrained(s), NEW i \in DOMAIN s,
         NEW con \in Constraint
  PROVE  LET t == Constrain(s, i, con)
         IN  /\ t \in Seq(Element) /\ Ordered(t) /\ Constrained(t)
             /\ DOMAIN t = DOMAIN s
             /\ \A j \in DOMAIN s : t[j].name = s[j].name
             /\ ConstraintsIn(t, s[i].name) = Append(s[i].cons, con)
             /\ \A n : n # s[i].name => ConstraintsIn(t, n) = ConstraintsIn(s, n)
<1> DEFINE t == Constrain(s, i, con)
<1>1. s[i] \in Element /\ s[i].cons \in Seq(Constraint)
  <2>1. s[i] \in Element
    BY ElementOfSeq, LenProperties
  <2>2. QED
    BY <2>1 DEF Element
<1>2. /\ Append(s[i].cons, con) \in Seq(Constraint)
      /\ Append(s[i].cons, con) # <<>>
  BY <1>1, AppendProperties
<1>3. /\ DOMAIN t = DOMAIN s
      /\ \A j \in DOMAIN s : j # i => t[j] = s[j]
      /\ t[i] = [s[i] EXCEPT !.cons = Append(s[i].cons, con)]
  BY DEF Constrain
<1>4. t[i] \in Element /\ t[i].name = s[i].name /\ t[i].cons = Append(s[i].cons, con)
  BY <1>1, <1>2, <1>3 DEF Element
<1>5. t \in Seq(Element)
  <2>1. t = [s EXCEPT ![i] = [s[i] EXCEPT !.cons = Append(s[i].cons, con)]]
    BY DEF Constrain
  <2>2. QED
    BY <1>3, <1>4, <2>1, ExceptSeq
<1> HIDE DEF t
<1>6. \A j \in DOMAIN s : t[j].name = s[j].name
  BY <1>3, <1>4
<1>7. Ordered(t) /\ Constrained(t)
  BY <1>2, <1>3, <1>4, <1>6 DEF Ordered, Constrained
<1>8. ConstraintsIn(t, s[i].name) = Append(s[i].cons, con)
  <2>1. ConstraintsIn(t, t[i].name) = t[i].cons
    BY <1>3, <1>5, <1>7, ReadAtIndex
  <2>2. QED
    BY <1>4, <2>1
<1>9. ASSUME NEW n, n # s[i].name
      PROVE  ConstraintsIn(t, n) = ConstraintsIn(s, n)
  <2>1. CASE n \in NamesIn(s, DOMAIN s)
    <3>1. PICK j \in DOMAIN s : s[j].name = n
      BY <2>1 DEF NamesIn
    <3>2. j # i /\ t[j] = s[j]
      BY <1>3, <1>9, <3>1
    <3>3. ConstraintsIn(s, s[j].name) = s[j].cons
      BY ReadAtIndex
    <3>4. ConstraintsIn(t, t[j].name) = t[j].cons
      BY <1>3, <1>5, <1>7, ReadAtIndex
    <3>5. QED
      BY <3>1, <3>2, <3>3, <3>4
  <2>2. CASE n \notin NamesIn(s, DOMAIN s)
    <3>1. n \notin NamesIn(t, DOMAIN t)
      BY <1>3, <1>6, <2>2 DEF NamesIn
    <3>2. QED
      BY <2>2, <3>1, ReadAbsent
  <2>3. QED
    BY <2>1, <2>2
<1>10. QED
  BY <1>3, <1>5, <1>6, <1>7, <1>8, <1>9 DEF t

(* A package registered at an index that is there.                         *)
LEMMA RegisteredByName ==
  ASSUME NEW s \in Seq(Element), Ordered(s), NEW b, DOMAIN b = DOMAIN s,
         NEW i \in DOMAIN s, NEW p
  PROVE  LET c == RegisterAt(b, i, p)
         IN  /\ DOMAIN c = DOMAIN s
             /\ RequiredIn(s, c, s[i].name) = With(RequiredIn(s, b, s[i].name), p)
             /\ \A n : n # s[i].name => RequiredIn(s, c, n) = RequiredIn(s, b, n)
<1> DEFINE c == RegisterAt(b, i, p)
<1>1. /\ DOMAIN c = DOMAIN s /\ c[i] = b[i] \cup {p}
      /\ \A j \in DOMAIN s : j # i => c[j] = b[j]
  BY DEF RegisterAt
<1> HIDE DEF c
<1>2. RequiredIn(s, c, s[i].name) = RequiredIn(s, b, s[i].name) \cup {p}
  <2>1. RequiredIn(s, c, s[i].name) = c[i] /\ RequiredIn(s, b, s[i].name) = b[i]
    BY ReadAtIndex
  <2>2. QED
    BY <1>1, <2>1
<1>3. ASSUME NEW n, n # s[i].name
      PROVE  RequiredIn(s, c, n) = RequiredIn(s, b, n)
  <2>1. \A j \in {l \in DOMAIN s : s[l].name = n} : c[j] = b[j]
    BY <1>1, <1>3
  <2>2. QED
    BY <2>1 DEF RequiredIn
<1>4. QED
  BY <1>1, <1>2, <1>3 DEF c, With

(* What is read of a name depends on the names in the array only.          *)
LEMMA ReadNamesOnly ==
  ASSUME NEW s, NEW t, DOMAIN t = DOMAIN s, \A j \in DOMAIN s : t[j].name = s[j].name
  PROVE  /\ \A S \in SUBSET DOMAIN s : NamesIn(t, S) = NamesIn(s, S)
         /\ \A b, n : RequiredIn(t, b, n) = RequiredIn(s, b, n)
<1>1. \A S \in SUBSET DOMAIN s : NamesIn(t, S) = NamesIn(s, S)
  BY DEF NamesIn
<1>2. ASSUME NEW b, NEW n
      PROVE  RequiredIn(t, b, n) = RequiredIn(s, b, n)
  <2>1. {j \in DOMAIN t : t[j].name = n} = {j \in DOMAIN s : s[j].name = n}
    OBVIOUS
  <2>2. QED
    BY <2>1 DEF RequiredIn
<1>3. QED
  BY <1>1, <1>2

-----------------------------------------------------------------------------
(* The operations on graphs, field by field.                               *)

GraphOf(c, o, w, b, x, u) ==
  [closed |-> c, open |-> o, own |-> w, by |-> b, conflicts |-> x, unknown |-> u]

PutOne(w, m, con) == [w EXCEPT ![m] = <<con>>]
PutMore(w, m, con) == [w EXCEPT ![m] = Append(@, con)]
Joined(b, m, p) == [b EXCEPT ![m] = @ \cup {p}]
Opened(q, m, con) == [q EXCEPT !.own[m] = <<con>>, !.open = @ \cup {m}]
Settled(c, p) == [c EXCEPT ![p.name] = IF @ = None THEN p ELSE @]

LEMMA OpenNewFields ==
  ASSUME NEW c, NEW o, NEW w, NEW b, NEW x, NEW u, NEW m, NEW con
  PROVE  Opened(GraphOf(c, o, w, b, x, u), m, con) =
           GraphOf(c, With(o, m), PutOne(w, m, con), b, x, u)
<1> DEFINE q == GraphOf(c, o, w, b, x, u)
           v == PutOne(w, m, con)
           t == [q EXCEPT !.own[m] = <<con>>]
<1>1. t = GraphOf(c, o, v, b, x, u) /\ q.open = o
  BY DEF GraphOf, PutOne
<1>2. [GraphOf(c, o, v, b, x, u) EXCEPT !.open = o \cup {m}] =
        GraphOf(c, o \cup {m}, v, b, x, u)
  <2> HIDE DEF v
  <2>1. QED
    BY DEF GraphOf
<1>3. [t EXCEPT !.open = q.open \cup {m}] = GraphOf(c, o \cup {m}, v, b, x, u)
  <2> HIDE DEF v, t
  <2>1. QED
    BY <1>1, <1>2
<1>4. QED
  BY <1>3 DEF Opened, With

LEMMA DependencyFields ==
  ASSUME NEW c, NEW o, NEW w, NEW b, NEW x, NEW u, NEW d, NEW p
  PROVE  LET h == GraphOf(c, o, w, b, x, u)
             r == Joined(b, d.name, p)
         IN  /\ Register(h, d, p) = GraphOf(c, o, w, r, x, u)
             /\ OpenNew(h, d, p) =
                  GraphOf(c, With(o, d.name), PutOne(w, d.name, d.con), r, x, u)
             /\ AddConstraint(h, d, p) =
                  GraphOf(c, o, PutMore(w, d.name, d.con), r, x, u)
<1> DEFINE h == GraphOf(c, o, w, b, x, u)
           r == Joined(b, d.name, p)
<1>1. Register(h, d, p) = GraphOf(c, o, w, r, x, u)
  BY DEF GraphOf, Register, Joined
<1>2. OpenNew(h, d, p) = GraphOf(c, With(o, d.name), PutOne(w, d.name, d.con), r, x, u)
  <2> HIDE DEF h, r
  <2>1. OpenNew(h, d, p) = Opened(GraphOf(c, o, w, r, x, u), d.name, d.con)
    BY <1>1 DEF OpenNew, Opened
  <2>2. QED
    BY <2>1, OpenNewFields
<1>3. AddConstraint(h, d, p) = GraphOf(c, o, PutMore(w, d.name, d.con), r, x, u)
  <2> HIDE DEF h, r
  <2>1. AddConstraint(h, d, p) =
          [GraphOf(c, o, w, r, x, u) EXCEPT !.own[d.name] = Append(@, d.con)]
    BY <1>1 DEF AddConstraint
  <2>2. QED
    BY <2>1 DEF GraphOf, PutMore
<1>4. QED
  BY <1>1, <1>2, <1>3

LEMMA FailureFields ==
  ASSUME NEW c, NEW o, NEW w, NEW b, NEW x, NEW u, NEW n
  PROVE  LET h == GraphOf(c, o, w, b, x, u)
         IN  /\ AddConflict(h, n) = GraphOf(c, o, w, b, With(x, n), u)
             /\ AddUnknown(h, n) = GraphOf(c, o, w, b, x, With(u, n))
BY DEF GraphOf, AddConflict, AddUnknown, With

LEMMA SettledFields ==
  ASSUME NEW c, NEW o, NEW w, NEW b, NEW x, NEW u, NEW p
  PROVE  AddClosed(GraphOf(c, o, w, b, x, u), p) = GraphOf(Settled(c, p), o, w, b, x, u)
BY DEF GraphOf, AddClosed, Settled

Less(o, n) == o \ {n}
TakenOff(h, n) == [h EXCEPT !.open = @ \ {n}]

LEMMA PoppedFields ==
  ASSUME NEW c, NEW o, NEW w, NEW b, NEW x, NEW u, NEW n
  PROVE  TakenOff(GraphOf(c, o, w, b, x, u), n) = GraphOf(c, Less(o, n), w, b, x, u)
BY DEF TakenOff, GraphOf, Less

(* The operations of NameGraph are those of GraphOps.                      *)
LEMMA SameOperations ==
  ASSUME NEW h, NEW d, NEW p, NEW n
  PROVE  /\ NG!ClosedSet(h) = ClosedSet(h) /\ NG!LastOpen(h) = LastOpen(h)
         /\ NG!Register(h, d, p) = Register(h, d, p)
         /\ NG!OpenNew(h, d, p) = OpenNew(h, d, p)
         /\ NG!AddConstraint(h, d, p) = AddConstraint(h, d, p)
         /\ NG!AddConflict(h, n) = AddConflict(h, n)
         /\ NG!AddUnknown(h, n) = AddUnknown(h, n)
         /\ NG!AddClosed(h, p) = AddClosed(h, p)
         /\ NG!EmptyGraph = EmptyGraph
         /\ NG!PinnedAgrees(h, d) = PinnedAgrees(h, d)
<1>1. NG!ClosedSet(h) = ClosedSet(h) /\ NG!LastOpen(h) = LastOpen(h)
  BY DEF NG!ClosedSet, ClosedSet, NG!LastOpen, LastOpen
<1>2. NG!Register(h, d, p) = Register(h, d, p)
  BY DEF NG!Register, Register
<1>3. NG!OpenNew(h, d, p) = OpenNew(h, d, p)
  BY <1>2 DEF NG!OpenNew, OpenNew
<1>4. NG!AddConstraint(h, d, p) = AddConstraint(h, d, p)
  BY <1>2 DEF NG!AddConstraint, AddConstraint
<1>5. /\ NG!AddConflict(h, n) = AddConflict(h, n)
      /\ NG!AddUnknown(h, n) = AddUnknown(h, n)
      /\ NG!AddClosed(h, p) = AddClosed(h, p)
      /\ NG!EmptyGraph = EmptyGraph
  BY DEF NG!AddConflict, AddConflict, NG!AddUnknown, AddUnknown,
         NG!AddClosed, AddClosed, NG!EmptyGraph, EmptyGraph
<1>6. NG!PinnedAgrees(h, d) = PinnedAgrees(h, d)
  BY DEF NG!PinnedAgrees, PinnedAgrees, NG!MatchesConstraints, MatchesConstraints,
         NG!Meets, Meets, NG!Compare, Compare, NG!CompareN, CompareN,
         NG!ComponentBelow, ComponentBelow, NG!SmallerOf, SmallerOf, NG!Numeric, Numeric,
         NG!Alpha, Alpha
<1>7. QED
  BY <1>1, <1>2, <1>3, <1>4, <1>5, <1>6

-----------------------------------------------------------------------------
(* Each operation keeps the invariant and is the operation of NameGraph.   *)

LEMMA GraphFacts ==
  /\ AbsGraph = GraphOf(closed, NamesIn(own, open), [n \in Names |-> ConstraintsIn(own, n)],
                        [n \in Names |-> RequiredIn(own, by, n)],
                        NamesIn(own, conflicts), NamesIn(own, unknown))
  /\ \A d \in Dependencies : d.name \in Names /\ d.con \in Constraint
  /\ \A p \in Packages : p # None /\ p.name \in Names
<1>1. AbsGraph = GraphOf(closed, NamesIn(own, open), [n \in Names |-> ConstraintsIn(own, n)],
                         [n \in Names |-> RequiredIn(own, by, n)],
                         NamesIn(own, conflicts), NamesIn(own, unknown))
  BY DEF AbsGraph, GraphOf
<1>2. \A d \in Dependencies : d.name \in Names /\ d.con \in Constraint
  BY DependenciesAssumption DEF Dependency
<1>3. \A p \in Packages : p # None /\ p.name \in Names
  BY PackagesAssumption, NoneAssumption DEF Package
<1>4. QED
  BY <1>1, <1>2, <1>3

(* A package of the closed set may add a dependency.                       *)
LEMMA AddsByName ==
  ASSUME Inv, NEW d \in Dependencies, NEW p \in Packages, Adds(p), UNCHANGED held
  PROVE  NG!Adds(d, p)
<1>1. /\ AbsGraph.closed = closed
      /\ AbsGraph.conflicts = NamesIn(own, conflicts)
      /\ AbsGraph.unknown = NamesIn(own, unknown)
  BY DEF AbsGraph
<1>2. /\ NamesIn(own, held) = {} /\ NamesIn(own', held') = {}
      /\ NamesIn(own, conflicts) = {} /\ NamesIn(own, unknown) = {}
  BY DEF Adds, NamesIn
<1>3. p \in ClosedSet(AbsGraph)
  BY <1>1, GraphFacts DEF Adds, ClosedSet
<1>4. p \in NG!ClosedSet(AbsGraph)
  BY <1>3, SameOperations
<1>5. QED
  BY <1>1, <1>2, <1>4 DEF NG!Adds

LEMMA AddNewStep ==
  ASSUME Inv, NEW d \in Dependencies, NEW p \in Packages, AddNew(d, p)
  PROVE  Inv' /\ NG!AddNew(d, p)
<1> USE DEF Inv, SortedByName
<1> DEFINE x == [name |-> d.name, cons |-> <<d.con>>]
<1>1. PICK at \in 1..(Len(own) + 1) :
        /\ BelongsAt(own, d.name, at)
        /\ own' = InsertedAt(own, at, x)
        /\ open' = Shift(open, at) \cup {at}
        /\ conflicts' = Shift(conflicts, at)
        /\ unknown' = Shift(unknown, at)
        /\ by' = RegisterAt(ShiftKeys(by, at), at, p)
  BY DEF AddNew
<1>2. /\ own \in Seq(Element) /\ DOMAIN by = DOMAIN own
      /\ open \in SUBSET DOMAIN own /\ conflicts \in SUBSET DOMAIN own
      /\ unknown \in SUBSET DOMAIN own
  BY DEF IndicesInRange
<1>3. x \in Element /\ x.name = d.name /\ x.cons = <<d.con>> /\ x.cons # <<>>
  BY GraphFacts DEF Element
<1> HIDE DEF x
<1>4. /\ own' \in Seq(Element) /\ at \in DOMAIN own' /\ own'[at] = x
      /\ DOMAIN own' = 1..(Len(own) + 1)
      /\ \A i \in DOMAIN own : own'[Moved(i, at)] = own[i]
      /\ \A j \in DOMAIN own' : j = at \/ \E i \in DOMAIN own : j = Moved(i, at)
  BY <1>1, <1>2, <1>3, InsertedElements
<1>5. Ordered(own')
  BY <1>1, <1>2, <1>3, InsertedInOrder
<1>6. /\ d.name \notin NamesIn(own, DOMAIN own)
      /\ \A S \in SUBSET DOMAIN own :
           Shift(S, at) \subseteq DOMAIN own' /\ NamesIn(own', Shift(S, at)) = NamesIn(own, S)
      /\ ConstraintsIn(own', d.name) = <<d.con>>
      /\ RequiredIn(own', by', d.name) = {p}
      /\ \A n : n # d.name => /\ ConstraintsIn(own', n) = ConstraintsIn(own, n)
                              /\ RequiredIn(own', by', n) = RequiredIn(own, by, n)
  <2> DEFINE t == InsertedAt(own, at, x)
             c == RegisterAt(ShiftKeys(by, at), at, p)
  <2>1. t = InsertedAt(own, at, x) /\ c = RegisterAt(ShiftKeys(by, at), at, p)
    OBVIOUS
  <2>2. own' = t /\ by' = c /\ BelongsAt(own, x.name, at)
    BY <1>1, <1>3
  <2> HIDE DEF t, c
  <2>3. DOMAIN by = DOMAIN own /\ Ordered(own) /\ x \in Element /\ own \in Seq(Element)
    BY <1>2, <1>3
  <2>4. /\ x.name \notin NamesIn(own, DOMAIN own)
        /\ \A S \in SUBSET DOMAIN own :
             Shift(S, at) \subseteq DOMAIN t /\ NamesIn(t, Shift(S, at)) = NamesIn(own, S)
        /\ ConstraintsIn(t, x.name) = x.cons
        /\ RequiredIn(t, c, x.name) = c[at]
        /\ \A n : n # x.name => /\ ConstraintsIn(t, n) = ConstraintsIn(own, n)
                                /\ RequiredIn(t, c, n) = RequiredIn(own, by, n)
    BY <2>1, <2>2, <2>3, InsertedByName
  <2>5. c[at] = {p}
    <3>1. Len(own) \in Nat /\ DOMAIN own = 1..Len(own)
      BY <1>2, LenProperties
    <3>2. QED
      BY <1>2, <2>1, <3>1, ShiftedPackages
  <2>6. QED
    BY <1>3, <2>2, <2>4, <2>5
<1>7. held = {} /\ UNCHANGED <<closed, held>> /\ Adds(p)
  BY DEF AddNew, Adds
<1>8. by' \in [DOMAIN own' -> SUBSET Packages]
  <2>1. Len(own) \in Nat /\ DOMAIN own = 1..Len(own)
    BY <1>2, LenProperties
  <2>2. /\ DOMAIN by' = 1..(Len(own) + 1) /\ by'[at] = {p}
        /\ \A i \in DOMAIN own : by'[Moved(i, at)] = by[i]
    BY <1>1, <1>2, <2>1, ShiftedPackages
  <2>3. \A j \in DOMAIN own' : by'[j] \in SUBSET Packages
    BY <1>4, <2>2 DEF IndicesInRange
  <2>4. by' = [j \in DOMAIN by' |-> by'[j]]
    BY <1>1 DEF RegisterAt
  <2>5. QED
    BY <1>4, <2>2, <2>3, <2>4
<1>9. IndicesInRange'
  BY <1>1, <1>2, <1>4, <1>6, <1>7, <1>8 DEF IndicesInRange
<1>10. Constrained(own')
  BY <1>3, <1>4 DEF Constrained
<1>11. NamesIn(own', open') = NamesIn(own, open) \cup {d.name}
  <2>1. NamesIn(own', open') = NamesIn(own', Shift(open, at)) \cup {own'[at].name}
    BY <1>1 DEF NamesIn
  <2>2. QED
    BY <1>2, <1>3, <1>4, <1>6, <2>1
<1>12. AbsGraph' = OpenNew(AbsGraph, d, p)
  <2>1. [n \in Names |-> ConstraintsIn(own', n)] =
          [[n \in Names |-> ConstraintsIn(own, n)] EXCEPT ![d.name] = <<d.con>>]
    BY <1>6
  <2>2. RequiredIn(own, by, d.name) = {}
    BY <1>6, ReadAbsent
  <2>3. [n \in Names |-> RequiredIn(own', by', n)] =
          [[n \in Names |-> RequiredIn(own, by, n)] EXCEPT ![d.name] = @ \cup {p}]
    BY <1>6, <2>2, GraphFacts
  <2>4. NamesIn(own', conflicts') = NamesIn(own, conflicts)
    BY <1>1, <1>2, <1>6
  <2>5. NamesIn(own', unknown') = NamesIn(own, unknown)
    BY <1>1, <1>2, <1>6
  <2>6. AbsGraph' =
          GraphOf(closed, NamesIn(own, open) \cup {d.name},
                  [[n \in Names |-> ConstraintsIn(own, n)] EXCEPT ![d.name] = <<d.con>>],
                  [[n \in Names |-> RequiredIn(own, by, n)] EXCEPT ![d.name] = @ \cup {p}],
                  NamesIn(own, conflicts), NamesIn(own, unknown))
    BY <1>7, <1>11, <2>1, <2>3, <2>4, <2>5 DEF AbsGraph, GraphOf
  <2>7. OpenNew(AbsGraph, d, p) =
          GraphOf(closed, NamesIn(own, open) \cup {d.name},
                  [[n \in Names |-> ConstraintsIn(own, n)] EXCEPT ![d.name] = <<d.con>>],
                  [[n \in Names |-> RequiredIn(own, by, n)] EXCEPT ![d.name] = @ \cup {p}],
                  NamesIn(own, conflicts), NamesIn(own, unknown))
    <3> DEFINE b == [n \in Names |-> RequiredIn(own, by, n)]
               w == [n \in Names |-> ConstraintsIn(own, n)]
    <3>1. AbsGraph = GraphOf(closed, NamesIn(own, open), w, b, NamesIn(own, conflicts),
                             NamesIn(own, unknown))
      BY GraphFacts
    <3> HIDE DEF b, w
    <3>2. OpenNew(AbsGraph, d, p) =
            GraphOf(closed, With(NamesIn(own, open), d.name), PutOne(w, d.name, d.con),
                    Joined(b, d.name, p), NamesIn(own, conflicts), NamesIn(own, unknown))
      BY <3>1, DependencyFields
    <3>3. QED
      BY <3>2 DEF b, w, PutOne, Joined, With
  <2>8. QED
    BY <2>6, <2>7
<1>13. AbsGraph.own[d.name] = <<>>
  BY <1>6, ReadAbsent, GraphFacts DEF AbsGraph
<1>14. NG!AddNew(d, p)
  BY <1>7, <1>12, <1>13, AddsByName, SameOperations DEF NG!AddNew
<1>15. QED
  BY <1>5, <1>7, <1>9, <1>10, <1>14

LEMMA AppendStep ==
  ASSUME Inv, NEW d \in Dependencies, NEW p \in Packages, AppendTo(d, p)
  PROVE  Inv' /\ NG!AppendTo(d, p)
<1> USE DEF Inv, SortedByName
<1> DEFINE w == [n \in Names |-> ConstraintsIn(own, n)]
           b == [n \in Names |-> RequiredIn(own, by, n)]
<1>1. PICK i \in DOMAIN own :
        /\ own[i].name = d.name /\ Len(own[i].cons) < MaxConstraints
        /\ by' = RegisterAt(by, i, p)
        /\ own' = [own EXCEPT ![i].cons = Append(@, d.con)]
  BY DEF AppendTo
<1>2. /\ own \in Seq(Element) /\ DOMAIN by = DOMAIN own /\ d.con \in Constraint
      /\ open \in SUBSET DOMAIN own /\ conflicts \in SUBSET DOMAIN own
      /\ unknown \in SUBSET DOMAIN own /\ d.name \in Names
  BY GraphFacts DEF IndicesInRange
<1>3. /\ own' \in Seq(Element) /\ Ordered(own') /\ Constrained(own')
      /\ DOMAIN own' = DOMAIN own
      /\ \A j \in DOMAIN own : own'[j].name = own[j].name
      /\ ConstraintsIn(own', d.name) = Append(own[i].cons, d.con)
      /\ \A n : n # d.name => ConstraintsIn(own', n) = ConstraintsIn(own, n)
  <2> DEFINE t == Constrain(own, i, d.con)
  <2>1. /\ t \in Seq(Element) /\ Ordered(t) /\ Constrained(t)
        /\ DOMAIN t = DOMAIN own
        /\ \A j \in DOMAIN own : t[j].name = own[j].name
        /\ ConstraintsIn(t, own[i].name) = Append(own[i].cons, d.con)
        /\ \A n : n # own[i].name => ConstraintsIn(t, n) = ConstraintsIn(own, n)
    BY <1>2, AppendedByName
  <2>2. own' = t
    BY <1>1 DEF Constrain
  <2> HIDE DEF t
  <2>3. QED
    BY <1>1, <2>1, <2>2
<1>4. /\ DOMAIN by' = DOMAIN own
      /\ RequiredIn(own, by', d.name) = RequiredIn(own, by, d.name) \cup {p}
      /\ \A n : n # d.name => RequiredIn(own, by', n) = RequiredIn(own, by, n)
  <2> DEFINE c == RegisterAt(by, i, p)
  <2>1. /\ DOMAIN c = DOMAIN own
        /\ RequiredIn(own, c, own[i].name) = With(RequiredIn(own, by, own[i].name), p)
        /\ \A n : n # own[i].name => RequiredIn(own, c, n) = RequiredIn(own, by, n)
    BY <1>2, RegisteredByName
  <2>2. by' = c
    BY <1>1
  <2> HIDE DEF c
  <2>3. QED
    BY <1>1, <2>1, <2>2 DEF With
<1>5. /\ \A S \in SUBSET DOMAIN own : NamesIn(own', S) = NamesIn(own, S)
      /\ \A n : RequiredIn(own', by', n) = RequiredIn(own, by', n)
  BY <1>3, ReadNamesOnly
<1>6. by' \in [DOMAIN own' -> SUBSET Packages]
  <2>1. by \in [DOMAIN own -> SUBSET Packages]
    BY DEF IndicesInRange
  <2>2. QED
    BY <1>1, <1>2, <1>3, <1>4, <2>1 DEF RegisterAt
<1>7. UNCHANGED <<closed, open, conflicts, unknown, held>> /\ Adds(p) /\ held = {}
  BY DEF AppendTo, Adds
<1>8. IndicesInRange'
  BY <1>2, <1>3, <1>6, <1>7 DEF IndicesInRange
<1>9. own[i].cons = ConstraintsIn(own, d.name) /\ own[i].cons # <<>>
  <2>1. ConstraintsIn(own, own[i].name) = own[i].cons
    BY <1>2, ReadAtIndex
  <2>2. QED
    BY <1>1, <2>1 DEF Constrained
<1>10. AbsGraph' = GraphOf(closed, NamesIn(own, open), PutMore(w, d.name, d.con),
                           Joined(b, d.name, p), NamesIn(own, conflicts), NamesIn(own, unknown))
  <2>1. [n \in Names |-> ConstraintsIn(own', n)] = PutMore(w, d.name, d.con)
    BY <1>2, <1>3, <1>9 DEF PutMore
  <2>2. [n \in Names |-> RequiredIn(own', by', n)] = Joined(b, d.name, p)
    BY <1>2, <1>4, <1>5 DEF Joined
  <2>3. /\ NamesIn(own', open') = NamesIn(own, open)
        /\ NamesIn(own', conflicts') = NamesIn(own, conflicts)
        /\ NamesIn(own', unknown') = NamesIn(own, unknown)
    BY <1>2, <1>5, <1>7
  <2>4. QED
    BY <1>7, <2>1, <2>2, <2>3 DEF AbsGraph, GraphOf
<1>11. AbsGraph.own[d.name] = own[i].cons /\ AbsGraph.closed = closed
  BY <1>2, <1>9 DEF AbsGraph
<1>12. AbsGraph' = AddConstraint(AbsGraph, d, p)
  <2>1. AbsGraph = GraphOf(closed, NamesIn(own, open), w, b, NamesIn(own, conflicts),
                           NamesIn(own, unknown))
    BY GraphFacts
  <2> HIDE DEF w, b
  <2>2. QED
    BY <1>10, <2>1, DependencyFields
<1>13. closed[d.name] = None
  BY DEF AppendTo
<1>14. NG!AppendTo(d, p)
  BY <1>1, <1>7, <1>9, <1>11, <1>12, <1>13, AddsByName, SameOperations DEF NG!AppendTo
<1>15. QED
  BY <1>3, <1>7, <1>8, <1>14

LEMMA PinnedStep ==
  ASSUME Inv, NEW d \in Dependencies, NEW p \in Packages, Pinned(d, p)
  PROVE  Inv' /\ NG!Pinned(d, p)
<1> USE DEF Inv, SortedByName
<1> DEFINE w == [n \in Names |-> ConstraintsIn(own, n)]
           b == [n \in Names |-> RequiredIn(own, by, n)]
           x == IF PinnedAgrees(AbsGraph, d)
                THEN NamesIn(own, conflicts) ELSE With(NamesIn(own, conflicts), d.name)
<1>1. PICK i \in DOMAIN own :
        /\ own[i].name = d.name
        /\ by' = RegisterAt(by, i, p)
        /\ conflicts' = IF MatchesConstraints(closed[d.name].version, <<d.con>>)
                        THEN conflicts ELSE conflicts \cup {i}
  BY DEF Pinned
<1>2. /\ own \in Seq(Element) /\ DOMAIN by = DOMAIN own /\ d.name \in Names
      /\ AbsGraph.closed = closed
  BY GraphFacts DEF IndicesInRange, AbsGraph
<1>3. UNCHANGED <<closed, own, open, unknown, held>> /\ Adds(p) /\ held = {}
  BY DEF Pinned, Adds
<1>4. /\ DOMAIN by' = DOMAIN own
      /\ RequiredIn(own, by', d.name) = RequiredIn(own, by, d.name) \cup {p}
      /\ \A n : n # d.name => RequiredIn(own, by', n) = RequiredIn(own, by, n)
  <2> DEFINE c == RegisterAt(by, i, p)
  <2>1. /\ DOMAIN c = DOMAIN own
        /\ RequiredIn(own, c, own[i].name) = With(RequiredIn(own, by, own[i].name), p)
        /\ \A n : n # own[i].name => RequiredIn(own, c, n) = RequiredIn(own, by, n)
    BY <1>2, RegisteredByName
  <2>2. by' = c
    BY <1>1
  <2> HIDE DEF c
  <2>3. QED
    BY <1>1, <2>1, <2>2 DEF With
<1>5. by' \in [DOMAIN own -> SUBSET Packages]
  <2>1. by \in [DOMAIN own -> SUBSET Packages]
    BY DEF IndicesInRange
  <2>2. QED
    BY <1>1, <1>2, <1>4, <2>1 DEF RegisterAt
<1>6. IndicesInRange'
  BY <1>1, <1>3, <1>5 DEF IndicesInRange
<1>7. PinnedAgrees(AbsGraph, d) <=> MatchesConstraints(closed[d.name].version, <<d.con>>)
  BY <1>2 DEF PinnedAgrees
<1>8. AbsGraph' = GraphOf(closed, NamesIn(own, open), w, Joined(b, d.name, p), x,
                          NamesIn(own, unknown))
  <2>1. [n \in Names |-> RequiredIn(own', by', n)] = Joined(b, d.name, p)
    BY <1>2, <1>3, <1>4 DEF Joined
  <2>2. NamesIn(own', conflicts') = x
    BY <1>1, <1>3, <1>7 DEF NamesIn, With
  <2>3. QED
    BY <1>3, <2>1, <2>2 DEF AbsGraph, GraphOf
<1>9. AbsGraph' = IF PinnedAgrees(AbsGraph, d) THEN Register(AbsGraph, d, p)
                  ELSE AddConflict(Register(AbsGraph, d, p), d.name)
  <2>1. AbsGraph = GraphOf(closed, NamesIn(own, open), w, b, NamesIn(own, conflicts),
                           NamesIn(own, unknown))
    BY GraphFacts
  <2> HIDE DEF w, b
  <2>2. Register(AbsGraph, d, p) =
          GraphOf(closed, NamesIn(own, open), w, Joined(b, d.name, p),
                  NamesIn(own, conflicts), NamesIn(own, unknown))
    BY <2>1, DependencyFields
  <2>3. AddConflict(Register(AbsGraph, d, p), d.name) =
          GraphOf(closed, NamesIn(own, open), w, Joined(b, d.name, p),
                  With(NamesIn(own, conflicts), d.name), NamesIn(own, unknown))
    BY <2>2, FailureFields
  <2>4. QED
    BY <1>8, <2>2, <2>3
<1>10. AbsGraph.own[d.name] # <<>>
  <2>1. ConstraintsIn(own, own[i].name) = own[i].cons
    BY <1>2, ReadAtIndex
  <2>2. QED
    BY <1>1, <1>2, <2>1 DEF Constrained, AbsGraph
<1>11. closed[d.name] # None
  BY DEF Pinned
<1>12. NG!Pinned(d, p)
  BY <1>2, <1>3, <1>9, <1>10, <1>11, AddsByName, SameOperations DEF NG!Pinned
<1>13. QED
  BY <1>3, <1>6, <1>12

LEMMA PopStep ==
  ASSUME Inv, Pop
  PROVE  Inv' /\ NG!Pop
<1> USE DEF Inv, SortedByName
<1>1. PICK i \in open : /\ \A j \in open : j <= i
                        /\ held' = {i}
                        /\ open' = open \ {i}
  BY DEF Pop
<1>2. /\ own \in Seq(Element) /\ open \subseteq DOMAIN own /\ i \in DOMAIN own
      /\ \A j \in DOMAIN own : own[j].name \in Names /\ own[j].name \in Nat
  <2>1. own \in Seq(Element) /\ open \subseteq DOMAIN own
    BY DEF IndicesInRange
  <2>2. \A j \in DOMAIN own : own[j] \in Element
    BY <2>1, ElementOfSeq, LenProperties
  <2>3. QED
    BY <1>1, <2>1, <2>2, NamesAssumption DEF Element
<1>3. UNCHANGED <<closed, own, conflicts, unknown, by>> /\ held = {} /\ conflicts = {}
  BY DEF Pop
<1>4. IndicesInRange'
  BY <1>1, <1>2, <1>3 DEF IndicesInRange
<1>5. \A j \in open : own[j].name <= own[i].name
  <2> TAKE j \in open
  <2>1. j = i \/ j < i
    BY <1>1, <1>2, LenProperties
  <2>2. QED
    BY <1>2, <2>1 DEF Ordered
<1>6. own[i].name \in LastOpen(AbsGraph)
  BY <1>1, <1>2, <1>5 DEF LastOpen, AbsGraph, NamesIn
<1>7. NamesIn(own', open') = NamesIn(own, open) \ {own[i].name}
  <2>1. \A j \in open : own[j].name = own[i].name => j = i
    BY <1>2, ReadAtIndex
  <2>2. QED
    BY <1>1, <1>3, <2>1 DEF NamesIn
<1>8. AbsGraph' = [AbsGraph EXCEPT !.open = @ \ {own[i].name}]
  <2> DEFINE w == [n \in Names |-> ConstraintsIn(own, n)]
             b == [n \in Names |-> RequiredIn(own, by, n)]
             o == NamesIn(own, open)
             x == NamesIn(own, conflicts)
             u == NamesIn(own, unknown)
  <2>1. AbsGraph = GraphOf(closed, o, w, b, x, u)
    BY GraphFacts
  <2>2. AbsGraph' = GraphOf(closed, o \ {own[i].name}, w, b, x, u)
    BY <1>3, <1>7 DEF AbsGraph, GraphOf
  <2> HIDE DEF w, b, o, x, u
  <2>3. AbsGraph' = TakenOff(AbsGraph, own[i].name)
    BY <2>1, <2>2, PoppedFields DEF Less
  <2>4. QED
    BY <2>3 DEF TakenOff
<1>9. /\ NamesIn(own, held) = {} /\ NamesIn(own', held') = {own[i].name}
      /\ AbsGraph.conflicts = {}
  BY <1>1, <1>3 DEF NamesIn, AbsGraph
<1>10. own[i].name \in NG!LastOpen(AbsGraph)
  BY <1>6, SameOperations
<1>11. NG!Pop
  BY <1>8, <1>9, <1>10 DEF NG!Pop
<1>12. \A k, l \in held' : k = l
  BY <1>1
<1>13. QED
  BY <1>3, <1>4, <1>11, <1>12

LEMMA SettleStep ==
  ASSUME Inv, NEW p \in Packages, Settle(p)
  PROVE  Inv' /\ NG!Settle(p)
<1> USE DEF Inv, SortedByName
<1>1. PICK i \in held : own[i].name = p.name
  BY DEF Settle
<1>2. /\ UNCHANGED <<own, open, conflicts, unknown, by>>
      /\ held' = {} /\ closed' = Settled(closed, p)
  BY DEF Settle, Settled
<1>3. IndicesInRange'
  <2>1. closed' \in [Names -> Packages \cup {None}]
    BY <1>2 DEF IndicesInRange, Settled
  <2>2. QED
    BY <1>2, <2>1 DEF IndicesInRange
<1>4. AbsGraph' = AddClosed(AbsGraph, p)
  <2> DEFINE w == [n \in Names |-> ConstraintsIn(own, n)]
             b == [n \in Names |-> RequiredIn(own, by, n)]
  <2>1. AbsGraph = GraphOf(closed, NamesIn(own, open), w, b, NamesIn(own, conflicts),
                           NamesIn(own, unknown))
    BY GraphFacts
  <2>2. AbsGraph' = GraphOf(Settled(closed, p), NamesIn(own, open), w, b,
                            NamesIn(own, conflicts), NamesIn(own, unknown))
    BY <1>2 DEF AbsGraph, GraphOf
  <2> HIDE DEF w, b
  <2>3. QED
    BY <2>1, <2>2, SettledFields
<1>5. NamesIn(own, held) = {p.name} /\ NamesIn(own', held') = {}
  BY <1>1, <1>2 DEF NamesIn
<1>6. NG!Settle(p)
  BY <1>4, <1>5, SameOperations DEF NG!Settle
<1>7. QED
  BY <1>2, <1>3, <1>6

LEMMA FailStep ==
  ASSUME Inv, Fail
  PROVE  Inv' /\ NG!Fail
<1> USE DEF Inv, SortedByName
<1> DEFINE w == [n \in Names |-> ConstraintsIn(own, n)]
           b == [n \in Names |-> RequiredIn(own, by, n)]
<1>1. PICK i \in held : held = {i}
  BY DEF Fail
<1>2. /\ UNCHANGED <<closed, own, open, by>> /\ held' = {}
      /\ \/ unknown' = unknown \cup {i} /\ UNCHANGED conflicts
         \/ conflicts' = conflicts \cup {i} /\ UNCHANGED unknown
  BY <1>1 DEF Fail
<1>3. IndicesInRange'
  BY <1>1, <1>2 DEF IndicesInRange
<1>4. NamesIn(own, held) = {own[i].name} /\ NamesIn(own', held') = {}
  BY <1>1, <1>2 DEF NamesIn
<1>5. AbsGraph = GraphOf(closed, NamesIn(own, open), w, b, NamesIn(own, conflicts),
                         NamesIn(own, unknown))
  BY GraphFacts
<1>6. CASE unknown' = unknown \cup {i} /\ UNCHANGED conflicts
  <2>1. NamesIn(own', unknown') = With(NamesIn(own, unknown), own[i].name)
    BY <1>2, <1>6 DEF NamesIn, With
  <2>2. AbsGraph' = GraphOf(closed, NamesIn(own, open), w, b, NamesIn(own, conflicts),
                            With(NamesIn(own, unknown), own[i].name))
    BY <1>2, <1>6, <2>1 DEF AbsGraph, GraphOf
  <2> HIDE DEF w, b
  <2>3. AbsGraph' = AddUnknown(AbsGraph, own[i].name)
    BY <1>5, <2>2, FailureFields
  <2>4. NG!Fail
    BY <1>4, <2>3, SameOperations DEF NG!Fail
  <2>5. QED
    BY <1>2, <1>3, <2>4
<1>7. CASE conflicts' = conflicts \cup {i} /\ UNCHANGED unknown
  <2>1. NamesIn(own', conflicts') = With(NamesIn(own, conflicts), own[i].name)
    BY <1>2, <1>7 DEF NamesIn, With
  <2>2. AbsGraph' = GraphOf(closed, NamesIn(own, open), w, b,
                            With(NamesIn(own, conflicts), own[i].name), NamesIn(own, unknown))
    BY <1>2, <1>7, <2>1 DEF AbsGraph, GraphOf
  <2> HIDE DEF w, b
  <2>3. AbsGraph' = AddConflict(AbsGraph, own[i].name)
    BY <1>5, <2>2, FailureFields
  <2>4. NG!Fail
    BY <1>4, <2>3, SameOperations DEF NG!Fail
  <2>5. QED
    BY <1>2, <1>3, <2>4
<1>8. QED
  BY <1>2, <1>6, <1>7

LEMMA InitialGraph ==
  ASSUME Init
  PROVE  Inv /\ NG!Init
<1>1. PICK p \in Packages :
        p.name \in Names /\ closed = [n \in Names |-> IF n = p.name THEN p ELSE None]
  BY DEF Init
<1>2. own = <<>> /\ open = {} /\ conflicts = {} /\ unknown = {} /\ by = <<>> /\ held = {}
  BY DEF Init
<1>3. IndicesInRange
  <2>1. own \in Seq(Element) /\ DOMAIN own = {}
    BY <1>2, EmptySeq
  <2>2. by \in [DOMAIN own -> SUBSET Packages]
    BY <1>2
  <2>3. QED
    BY <1>1, <1>2, <2>1, <2>2 DEF IndicesInRange
<1>4. SortedByName /\ \A i, j \in held : i = j
  BY <1>2 DEF SortedByName, Ordered, Constrained
<1>5. AbsGraph = AddClosed(EmptyGraph, p)
  <2>1. \A n : ConstraintsIn(own, n) = <<>> /\ RequiredIn(own, by, n) = {}
    <3>1. \A n : n \notin NamesIn(own, DOMAIN own)
      BY <1>2 DEF NamesIn
    <3>2. QED
      BY <3>1, ReadAbsent
  <2>2. NamesIn(own, {}) = {}
    BY DEF NamesIn
  <2>3. QED
    <3> DEFINE none == [n \in Names |-> None]
               c == [n \in Names |-> IF n = p.name THEN p ELSE None]
               w == [n \in Names |-> <<>>]
               b == [n \in Names |-> {}]
    <3>1. EmptyGraph = GraphOf(none, {}, w, b, {}, {})
      BY DEF EmptyGraph, GraphOf
    <3>2. Settled(none, p) = c
      BY <1>1 DEF Settled
    <3>3. AbsGraph = GraphOf(c, {}, w, b, {}, {})
      BY <1>1, <1>2, <2>1, <2>2 DEF AbsGraph, GraphOf
    <3> HIDE DEF none, c, w, b
    <3>4. QED
      BY <3>1, <3>2, <3>3, SettledFields
<1>6. NamesIn(own, held) = {}
  BY <1>2 DEF NamesIn
<1>7. NG!Init
  BY <1>1, <1>5, <1>6, SameOperations DEF NG!Init
<1>8. QED
  BY <1>3, <1>4, <1>7 DEF Inv

LEMMA EveryStep ==
  ASSUME Inv, [Next]_vars
  PROVE  Inv' /\ [NG!Next]_NG!vars
<1>1. ASSUME NEW d \in Dependencies, NEW p \in Packages, AddNew(d, p)
      PROVE  Inv' /\ NG!Next
  BY <1>1, AddNewStep DEF NG!Next
<1>2. ASSUME NEW d \in Dependencies, NEW p \in Packages, AppendTo(d, p)
      PROVE  Inv' /\ NG!Next
  BY <1>2, AppendStep DEF NG!Next
<1>3. ASSUME NEW d \in Dependencies, NEW p \in Packages, Pinned(d, p)
      PROVE  Inv' /\ NG!Next
  BY <1>3, PinnedStep DEF NG!Next
<1>4. CASE Pop
  BY <1>4, PopStep DEF NG!Next
<1>5. ASSUME NEW p \in Packages, Settle(p)
      PROVE  Inv' /\ NG!Next
  BY <1>5, SettleStep DEF NG!Next
<1>6. CASE Fail
  BY <1>6, FailStep DEF NG!Next
<1>7. CASE UNCHANGED vars
  BY <1>7 DEF vars, Inv, IndicesInRange, SortedByName, NG!vars, AbsGraph, NamesIn, ConstraintsIn,
              RequiredIn
<1>8. QED
  BY <1>1, <1>2, <1>3, <1>4, <1>5, <1>6, <1>7 DEF Next

-----------------------------------------------------------------------------
(* The invariant holds of every graph built by these operations.           *)
LEMMA AlwaysInv == Spec => []Inv
<1>1. Init => Inv
  BY InitialGraph
<1>2. Inv /\ [Next]_vars => Inv'
  BY EveryStep
<1>3. QED
  BY <1>1, <1>2, PTL DEF Spec

(* Every index the graph stores is one of the array, and depended_on_by    *)
(* has an entry for every dependency and no other: increment_indices_from  *)
(* reaches all that an insertion moves.                                    *)
THEOREM IndicesValid == Spec => []IndicesInRange
<1>1. Spec => []Inv
  BY AlwaysInv
<1>2. Inv => IndicesInRange
  BY DEF Inv
<1>3. QED
  BY <1>1, <1>2, PTL

(* own_dependencies stays sorted by name without duplicates, so the binary *)
(* search finds every name and the open set is popped in the order of      *)
(* names.                                                                  *)
THEOREM StaysSorted == Spec => []SortedByName
<1>1. Spec => []Inv
  BY AlwaysInv
<1>2. Inv => SortedByName
  BY DEF Inv
<1>3. QED
  BY <1>1, <1>2, PTL

(* The arrays of indices of dependency.c implement the graph of names the  *)
(* resolver is modelled and proved about with.                             *)
THEOREM GraphRefined == Spec => ImplementsNameGraph
<1>1. Init => Inv /\ NG!Init
  BY InitialGraph
<1>2. Inv /\ [Next]_vars => Inv' /\ [NG!Next]_NG!vars
  BY EveryStep
<1>3. QED
  BY <1>1, <1>2, PTL DEF Spec, ImplementsNameGraph, NG!Spec
=============================================================================
