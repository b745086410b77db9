-------------------------- MODULE RepositoryProofs --------------------------
(***************************************************************************)
(* That fatso_version_from_string finds the runs of any text, and that the *)
(* repository, which reads files and texts as it is asked, answers as if   *)
(* it knew the whole packages directory (Catalog).                         *)
(***************************************************************************)
EXTENDS Repository, SequenceTheorems, FiniteSetTheorems, WellFoundedInduction, TLAPS

Components == {found[i] : i \in DOMAIN found}
RunsBefore(t, n) == {r \in RunsOf(t) : r[2] < n}

(* While a text is read the components are its runs up to component_start, *)
(* and between there and p is one kind of character, another than before.  *)
ScanInv ==
  /\ ScannerTypeOK
  /\ InOrder(found)
  /\ p = 0 => start = 1 /\ Components = RunsOf(text)
  /\ p > 0 =>
       /\ start <= p
       /\ start < p => /\ state # "INITIAL"
                       /\ start > 1 => Class(text[start - 1]) # state
       /\ start = p /\ p > 1 => Class(text[p - 1]) = "other"
       /\ \A q \in start..(p - 1) : Class(text[q]) = state
       /\ Components = RunsBefore(text, start)

(* A character is of one of three classes.                                 *)
LEMMA Classes ==
  ASSUME NEW c \in Int
  PROVE  Class(c) \in {"NUMERIC", "ALPHA", "other"}
BY DEF Class

(* No run ends at a separator.                                             *)
LEMMA NoRun ==
  ASSUME NEW t \in Seq(Int), NEW n \in 1..Len(t), Class(t[n]) = "other"
  PROVE  RunsBefore(t, n + 1) = RunsBefore(t, n)
<1>1. ASSUME NEW r \in RunsOf(t)
      PROVE  r[2] # n /\ r[2] \in Int
  BY <1>1 DEF RunsOf, Pure
<1>2. QED  BY <1>1 DEF RunsBefore

(* Where one kind of character begins and ends is a run, and the next one  *)
(* to the right of those before it.                                        *)
LEMMA NewRun ==
  ASSUME NEW t \in Seq(Int), NEW a \in 1..Len(t), NEW b \in 1..Len(t), a <= b,
         NEW kind, kind # "other", \A q \in a..b : Class(t[q]) = kind,
         a > 1 => Class(t[a - 1]) # kind,
         b < Len(t) => Class(t[b + 1]) # kind
  PROVE  RunsBefore(t, b + 1) = RunsBefore(t, a) \cup {<<a, b>>}
<1> DEFINE ab == <<a, b>>
<1>0. ab \in (1..Len(t)) \X (1..Len(t)) /\ ab[1] = a /\ ab[2] = b
  OBVIOUS
<1>1. ab \in RunsOf(t)
  <2>1. Class(t[a]) = kind
    OBVIOUS
  <2>2. Pure(t, a, b)
    BY <2>1 DEF Pure
  <2>3. a = 1 \/ Class(t[a - 1]) # Class(t[a])
    BY <2>1
  <2>4. b = Len(t) \/ Class(t[b + 1]) # Class(t[a])
    BY <2>1
  <2> HIDE DEF ab
  <2>5. QED  BY <1>0, <2>2, <2>3, <2>4 DEF RunsOf
<1>2. ASSUME NEW r \in RunsOf(t), r[2] >= a, r[2] <= b
      PROVE  r = <<a, b>>
  <2>1. /\ r \in (1..Len(t)) \X (1..Len(t))
        /\ r[1] <= r[2]
        /\ \A q \in r[1]..r[2] : Class(t[q]) = Class(t[r[1]])
        /\ r[1] = 1 \/ Class(t[r[1] - 1]) # Class(t[r[1]])
        /\ r[2] = Len(t) \/ Class(t[r[2] + 1]) # Class(t[r[1]])
    BY DEF RunsOf, Pure
  <2>2. Class(t[r[1]]) = kind
    BY <1>2, <2>1
  <2>3. ~(r[2] < b)
    <3>1. SUFFICES ASSUME r[2] < b PROVE FALSE
      OBVIOUS
    <3>2. r[2] + 1 \in a..b /\ r[2] # Len(t)
      BY <1>2, <2>1, <3>1
    <3>3. QED  BY <2>1, <2>2, <3>2
  <2>4. ~(r[1] < a)
    <3>1. SUFFICES ASSUME r[1] < a PROVE FALSE
      OBVIOUS
    <3>2. a > 1 /\ a - 1 \in Int /\ r[1] \in Int /\ r[2] \in Int
      BY <2>1, <3>1
    <3>3. r[1] <= a - 1 /\ a - 1 <= r[2]
      BY <1>2, <3>1, <3>2
    <3>4. a - 1 \in r[1]..r[2]
      BY <3>2, <3>3
    <3>5. QED  BY <2>1, <2>2, <3>2, <3>4
  <2>5. ~(r[1] > a)
    <3>1. SUFFICES ASSUME r[1] > a PROVE FALSE
      OBVIOUS
    <3>2. r[1] - 1 \in a..b /\ r[1] # 1
      BY <1>2, <2>1, <3>1
    <3>3. QED  BY <2>1, <2>2, <3>2
  <2>6. QED  BY <1>2, <2>1, <2>3, <2>4, <2>5
<1>3. \A r \in RunsOf(t) : r[2] \in Int
  BY DEF RunsOf
<1>4. ASSUME NEW r \in RunsBefore(t, b + 1)
      PROVE  r \in RunsBefore(t, a) \cup {ab}
  <2>1. r \in RunsOf(t) /\ r[2] \in Int /\ r[2] < b + 1
    BY <1>3 DEF RunsBefore
  <2>2. r[2] < a \/ (r[2] >= a /\ r[2] <= b)
    BY <2>1
  <2>3. CASE r[2] < a
    BY <2>1, <2>3 DEF RunsBefore
  <2>4. CASE r[2] >= a /\ r[2] <= b
    BY <1>2, <2>1, <2>4
  <2>5. QED  BY <2>2, <2>3, <2>4
<1>5. ASSUME NEW r \in RunsBefore(t, a) \cup {ab}
      PROVE  r \in RunsBefore(t, b + 1)
  <2> HIDE DEF ab
  <2>1. CASE r = ab
    BY <1>0, <1>1, <2>1 DEF RunsBefore
  <2>2. CASE r # ab
    BY <1>3, <2>2 DEF RunsBefore
  <2>3. QED  BY <2>1, <2>2
<1>6. QED  BY <1>4, <1>5

(* At the end no run is left out.                                          *)
LEMMA AllRuns ==
  ASSUME NEW t \in Seq(Int)
  PROVE  RunsBefore(t, Len(t) + 1) = RunsOf(t)
BY DEF RunsBefore, RunsOf

(* What is appended at p is the run that ends there, if any.               *)
LEMMA AppendedRun ==
  ASSUME ScanInv, p > 0, p <= Len(text) => Class(text[p]) # state
  PROVE  /\ Appended \in Seq(Nat \X Nat)
         /\ InOrder(Appended)
         /\ {Appended[i] : i \in DOMAIN Appended} = RunsBefore(text, p)
<1> USE DEF ScanInv, ScannerTypeOK
<1>1. CASE start = p
  BY <1>1 DEF Appended, Components
<1>2. CASE start < p
  <2> DEFINE new == <<start, p - 1>>
  <2>0. start # p
    BY <1>2
  <2>1. Appended = Append(found, new)
    BY <2>0 DEF Appended
  <2>2. new \in Nat \X Nat
    <3>1. start \in Nat /\ p \in Nat /\ start < p
      BY <1>2
    <3>2. p - 1 \in Nat
      BY <3>1
    <3>3. QED  BY <3>1, <3>2
  <2>3. Appended \in Seq(Nat \X Nat)
    BY <2>1, <2>2
  <2>4. \A i \in DOMAIN found : found[i] \in RunsBefore(text, start)
    BY DEF Components
  <2>5. \A i \in DOMAIN found : found[i][2] < start
    BY <2>4 DEF RunsBefore
  <2>6. /\ DOMAIN Appended = 1..(Len(found) + 1) /\ DOMAIN found = 1..Len(found)
        /\ Len(found) \in Nat
        /\ \A i \in 1..Len(found) : Appended[i] = found[i]
        /\ Appended[Len(found) + 1] = new
    <3>1. found \in Seq(Nat \X Nat)
      OBVIOUS
    <3> HIDE DEF new, ScanInv, ScannerTypeOK
    <3>2. QED  BY <2>1, <2>2, <3>1
  <2>7. InOrder(Appended)
    <3>1. SUFFICES ASSUME NEW i \in DOMAIN Appended, NEW j \in DOMAIN Appended, i < j
                   PROVE  Appended[i][2] < Appended[j][1]
      BY DEF InOrder
    <3>0. InOrder(found) /\ new[1] = start
      OBVIOUS
    <3> HIDE DEF new, ScanInv, ScannerTypeOK
    <3>2. CASE j = Len(found) + 1
      BY <2>5, <2>6, <3>0, <3>1, <3>2
    <3>3. CASE j # Len(found) + 1
      <4>1. i \in 1..Len(found) /\ j \in 1..Len(found)
        BY <2>6, <3>1, <3>3
      <4>2. found[i][2] < found[j][1]
        BY <2>6, <3>0, <3>1, <4>1 DEF InOrder
      <4>3. QED  BY <2>6, <4>1, <4>2
    <3>4. QED  BY <3>2, <3>3
  <2>8. {Appended[i] : i \in DOMAIN Appended} = Components \cup {new}
    <3> HIDE DEF new, ScanInv, ScannerTypeOK
    <3>1. ASSUME NEW i \in DOMAIN Appended
          PROVE  Appended[i] \in Components \cup {new}
      <4>1. i \in 1..Len(found) \/ i = Len(found) + 1
        BY <2>6
      <4>2. QED  BY <2>6, <4>1 DEF Components
    <3>2. \A i \in DOMAIN found : i \in DOMAIN Appended /\ Appended[i] = found[i]
      BY <2>6
    <3>3. Len(found) + 1 \in DOMAIN Appended
      BY <2>6
    <3>4. QED  BY <2>6, <3>1, <3>2, <3>3 DEF Components
  <2>9. start \in 1..Len(text) /\ p - 1 \in 1..Len(text) /\ start <= p - 1
    BY <1>2
  <2>10. state # "other" /\ (start > 1 => Class(text[start - 1]) # state)
    BY <1>2
  <2>11. \A q \in start..(p - 1) : Class(text[q]) = state
    OBVIOUS
  <2>12. p - 1 < Len(text) => Class(text[p - 1 + 1]) # state
    <3>1. p - 1 + 1 = p /\ Len(text) \in Nat
      OBVIOUS
    <3>2. QED  BY <3>1
  <2>13. RunsBefore(text, p - 1 + 1) = RunsBefore(text, start) \cup {new}
    BY <2>9, <2>10, <2>11, <2>12, NewRun
  <2>14. p - 1 + 1 = p
    OBVIOUS
  <2>15. QED  BY <2>3, <2>7, <2>8, <2>13, <2>14
<1>3. QED  BY <1>1, <1>2

-----------------------------------------------------------------------------
LEMMA ScanInvInit == ScanInit => ScanInv
<1>1. RunsOf(<<>>) = {}
  BY DEF RunsOf
<1>2. QED  BY <1>1 DEF ScanInit, ScanInv, ScannerTypeOK, InOrder, Components

LEMMA ScanInvNext ==
  ASSUME ScanInv, [ScanStep \/ \E t \in Texts : Begin(t)]_svars
  PROVE  ScanInv'
<1>0. ASSUME p > 0, p <= Len(text) => Class(text[p]) # state
      PROVE  /\ Appended \in Seq(Nat \X Nat)
             /\ InOrder(Appended)
             /\ {Appended[i] : i \in DOMAIN Appended} = RunsBefore(text, p)
  BY <1>0, AppendedRun
<1> USE DEF ScanInv, ScannerTypeOK
<1>1. ASSUME NEW t \in Texts, Begin(t)
      PROVE  ScanInv'
  <2>1. t \in Seq(Int)
    BY TextsAssumption
  <2>2. RunsBefore(t, 1) = {}
    BY <2>1 DEF RunsBefore, RunsOf
  <2>3. QED  BY <1>1, <2>1, <2>2 DEF Begin, InOrder, Components
<1>2. CASE Alphanumeric
  <2>1. /\ p \in 1..Len(text) /\ p' = p + 1 /\ text' = text
        /\ state' = Class(text[p]) /\ state' \in {"NUMERIC", "ALPHA"}
    BY <1>2, Classes DEF Alphanumeric
  <2>2. CASE state \in {"INITIAL", Class(text[p])}
    <3>1. start' = start /\ found' = found
      BY <1>2, <2>2 DEF Alphanumeric
    <3>2. ScannerTypeOK' /\ InOrder(found)'
      BY <2>1, <3>1 DEF InOrder
    <3>3. \A q \in start..(p - 1) : Class(text[q]) = state'
      BY <2>1, <2>2
    <3>4. \A q \in start'..(p' - 1) : Class(text'[q]) = state'
      BY <2>1, <3>1, <3>3
    <3>5. start' < p' /\ state' # "INITIAL"
      BY <2>1, <3>1
    <3>6. start > 1 => Class(text[start - 1]) # state'
      <4>1. CASE start < p
        BY <2>1, <2>2, <4>1
      <4>2. CASE start = p
        BY <2>1, <4>2
      <4>3. QED  BY <2>1, <4>1, <4>2
    <3>7. Components' = RunsBefore(text, start)'
      BY <2>1, <3>1 DEF Components
    <3>8. QED  BY <2>1, <3>1, <3>2, <3>4, <3>5, <3>6, <3>7
  <2>3. CASE state \notin {"INITIAL", Class(text[p])}
    <3>1. start' = p /\ found' = Appended
      BY <1>2, <2>3 DEF Alphanumeric
    <3>2. /\ Appended \in Seq(Nat \X Nat) /\ InOrder(Appended)
          /\ {Appended[i] : i \in DOMAIN Appended} = RunsBefore(text, p)
      BY <1>0, <2>1, <2>3
    <3>3. ScannerTypeOK' /\ InOrder(found')
      BY <2>1, <3>1, <3>2
    <3>4. Components' = RunsBefore(text', start')
      BY <2>1, <3>1, <3>2 DEF Components
    <3>5. p > 1 => Class(text[p - 1]) # state'
      BY <2>1, <2>3
    <3>6. \A q \in start'..(p' - 1) : Class(text'[q]) = state'
      BY <2>1, <3>1
    <3>7. QED  BY <2>1, <3>1, <3>3, <3>4, <3>5, <3>6
  <2>4. QED  BY <2>2, <2>3
<1>3. CASE Separator
  <2>1. /\ p \in 1..Len(text) /\ p' = p + 1 /\ text' = text /\ state' = state
        /\ start' = p + 1 /\ found' = Appended /\ Class(text[p]) = "other"
    BY <1>3 DEF Separator
  <2>2. /\ Appended \in Seq(Nat \X Nat) /\ InOrder(Appended)
        /\ {Appended[i] : i \in DOMAIN Appended} = RunsBefore(text, p)
    <3>1. p > 0 /\ (p <= Len(text) => Class(text[p]) # state)
      BY <2>1
    <3>2. QED  BY <1>0, <3>1
  <2>3. RunsBefore(text, p + 1) = RunsBefore(text, p)
    BY <2>1, NoRun
  <2>4. Components' = RunsBefore(text', start')
    BY <2>1, <2>2, <2>3 DEF Components
  <2>5. QED  BY <2>1, <2>2, <2>4
<1>4. CASE EndOfText
  <2>1. /\ p = Len(text) + 1 /\ p' = 0 /\ text' = text /\ state' = "INITIAL"
        /\ start' = 1 /\ found' = Appended
    BY <1>4 DEF EndOfText
  <2>2. /\ Appended \in Seq(Nat \X Nat) /\ InOrder(Appended)
        /\ {Appended[i] : i \in DOMAIN Appended} = RunsBefore(text, p)
    <3>1. p > 0 /\ (p <= Len(text) => Class(text[p]) # state)
      BY <2>1
    <3>2. QED  BY <1>0, <3>1
  <2>3. Components' = RunsOf(text')
    BY <2>1, <2>2, AllRuns DEF Components
  <2>4. QED  BY <2>1, <2>2, <2>3
<1>5. CASE UNCHANGED svars
  BY <1>5 DEF svars, InOrder, Components
<1>6. QED  BY <1>1, <1>2, <1>3, <1>4, <1>5 DEF ScanStep

(* fatso_version_from_string reads a text of any length, of any characters *)
(* in any order, as its longest stretches of digits and of letters.        *)
THEOREM TextIsRead == ScanSpec => []ComponentsAreRuns
<1>1. ScanInv => ComponentsAreRuns
  BY DEF ScanInv, ComponentsAreRuns, Components
<1>2. QED  BY ScanInvInit, ScanInvNext, <1>1, PTL DEF ScanSpec

-----------------------------------------------------------------------------
(* The comparison of versions is a total order.                            *)

LEMMA Least ==
  ASSUME NEW S \in SUBSET Nat, S # {}
  PROVE  \E m \in S : \A j \in S : m <= j
<1>1. PICK m \in S : \A j \in S : ~(<<j, m>> \in OpToRel(<, Nat))
  BY NatLessThanWellFounded, WFMin
<1>2. ASSUME NEW j \in S PROVE m <= j
  <2>1. j \in Nat /\ m \in Nat
    OBVIOUS
  <2>2. ~(j < m)
    BY <1>1, <2>1 DEF OpToRel
  <2>3. QED  BY <2>1, <2>2
<1>3. QED  BY <1>2

(* The position i settles that a is before b.                              *)
Settles(a, b, i) ==
  /\ \A j \in 1..(i - 1) : a[j] = b[j]
  /\ i <= Len(b)
  /\ IF i = Len(a) + 1 THEN TRUE ELSE i <= Len(a) /\ ComponentBelow(a[i], b[i])

Precedes(a, b) == \E i \in 1..(Len(a) + 1) : Settles(a, b, i)

LEMMA VersionElements ==
  ASSUME NEW a \in Version
  PROVE  /\ Len(a) \in Nat /\ DOMAIN a = 1..Len(a)
         /\ \A i \in 1..Len(a) : a[i][1] \in {0, 1} /\ a[i][2] \in Nat
                                 /\ a[i] = <<a[i][1], a[i][2]>>
<1>1. a \in Seq({0, 1} \X Nat)
  BY DEF Version, Numeric, Alpha
<1>2. Len(a) \in Nat /\ DOMAIN a = 1..Len(a)
  BY <1>1
<1>3. ASSUME NEW i \in 1..Len(a)
      PROVE  a[i] \in {0, 1} \X Nat
  BY <1>1, <1>2
<1>4. ASSUME NEW i \in 1..Len(a)
      PROVE  a[i][1] \in {0, 1} /\ a[i][2] \in Nat /\ a[i] = <<a[i][1], a[i][2]>>
  <2>1. a[i] \in {0, 1} \X Nat
    BY <1>3
  <2>2. QED  BY <2>1
<1>5. QED  BY <1>2, <1>4

(* Either two versions agree or one of them is before the other.           *)
LEMMA Trichotomy ==
  ASSUME NEW a \in Version, NEW b \in Version
  PROVE  a = b \/ Precedes(a, b) \/ Precedes(b, a)
<1>1. /\ Len(a) \in Nat /\ DOMAIN a = 1..Len(a)
      /\ Len(b) \in Nat /\ DOMAIN b = 1..Len(b)
      /\ \A i \in 1..Len(a) : a[i][1] \in {0, 1} /\ a[i][2] \in Nat
                              /\ a[i] = <<a[i][1], a[i][2]>>
      /\ \A i \in 1..Len(b) : b[i][1] \in {0, 1} /\ b[i][2] \in Nat
                              /\ b[i] = <<b[i][1], b[i][2]>>
  BY VersionElements
<1> DEFINE D == {i \in 1..Len(a) : i <= Len(b) /\ a[i] # b[i]}
<1>2. CASE D = {}
  <2>1. \A i \in 1..Len(a) : i <= Len(b) => a[i] = b[i]
    BY <1>2
  <2>2. CASE Len(a) = Len(b)
    <3>1. a \in Seq({Numeric, Alpha} \X Nat) /\ b \in Seq({Numeric, Alpha} \X Nat)
      BY DEF Version
    <3>2. \A i \in 1..Len(a) : a[i] = b[i]
      BY <1>1, <2>1, <2>2
    <3>3. a = b
      BY <2>2, <3>1, <3>2
    <3>4. QED  BY <3>3
  <2>3. CASE Len(a) < Len(b)
    <3>1. Len(a) + 1 \in 1..(Len(a) + 1) /\ Len(a) + 1 <= Len(b)
      BY <1>1, <2>3
    <3>2. \A j \in 1..(Len(a) + 1 - 1) : a[j] = b[j]
      BY <1>1, <2>1, <2>3
    <3>3. QED  BY <3>1, <3>2 DEF Precedes, Settles
  <2>4. CASE Len(b) < Len(a)
    <3>1. Len(b) + 1 \in 1..(Len(b) + 1) /\ Len(b) + 1 <= Len(a)
      BY <1>1, <2>4
    <3>2. \A j \in 1..(Len(b) + 1 - 1) : b[j] = a[j]
      BY <1>1, <2>1, <2>4
    <3>3. QED  BY <3>1, <3>2 DEF Precedes, Settles
  <2>5. Len(a) = Len(b) \/ Len(a) < Len(b) \/ Len(b) < Len(a)
    <3>1. Len(a) \in Int /\ Len(b) \in Int
      BY <1>1
    <3>2. \A x, y \in Int : x = y \/ x < y \/ y < x
      OBVIOUS
    <3>3. QED  BY <3>1, <3>2
  <2> HIDE DEF D
  <2>6. QED  BY <2>2, <2>3, <2>4, <2>5
<1>3. CASE D # {}
  <2>1. D \in SUBSET Nat
    BY <1>1
  <2>2. PICK i \in D : \A j \in D : i <= j
    BY <1>3, <2>1, Least
  <2>3. i \in 1..Len(a) /\ i \in 1..Len(b) /\ a[i] # b[i]
    BY <1>1, <2>2
  <2>4. \A j \in 1..(i - 1) : a[j] = b[j]
    <3>1. SUFFICES ASSUME NEW j \in 1..(i - 1), a[j] # b[j] PROVE FALSE
      OBVIOUS
    <3>2. j \in 1..Len(a) /\ j <= Len(b) /\ ~(i <= j)
      BY <1>1, <2>3, <3>1
    <3>3. QED  BY <2>2, <3>1, <3>2
  <2>5. ComponentBelow(a[i], b[i]) \/ ComponentBelow(b[i], a[i])
    <3>1. /\ a[i][1] \in {0, 1} /\ a[i][2] \in Nat /\ a[i] = <<a[i][1], a[i][2]>>
          /\ b[i][1] \in {0, 1} /\ b[i][2] \in Nat /\ b[i] = <<b[i][1], b[i][2]>>
      BY <1>1, <2>3
    <3>2. a[i][1] # b[i][1] \/ a[i][2] # b[i][2]
      BY <2>3, <3>1
    <3>3. QED  BY <3>1, <3>2 DEF ComponentBelow
  <2>6. i # Len(a) + 1 /\ i # Len(b) + 1 /\ i <= Len(a) /\ i <= Len(b)
        /\ i \in 1..(Len(a) + 1) /\ i \in 1..(Len(b) + 1)
    BY <1>1, <2>3
  <2>7. CASE ComponentBelow(a[i], b[i])
    BY <2>4, <2>6, <2>7 DEF Precedes, Settles
  <2>8. CASE ComponentBelow(b[i], a[i])
    BY <2>4, <2>6, <2>8 DEF Precedes, Settles
  <2>9. QED  BY <2>5, <2>7, <2>8
<1>4. QED  BY <1>2, <1>3

LEMMA PrecedesOrder ==
  ASSUME NEW a \in Version, NEW b \in Version, Precedes(a, b)
  PROVE  /\ ~Precedes(b, a)
         /\ \A c \in Version : Precedes(b, c) => Precedes(a, c)
<1>1. /\ Len(a) \in Nat
      /\ Len(b) \in Nat
      /\ \A i \in 1..Len(a) : a[i][1] \in {0, 1} /\ a[i][2] \in Nat
      /\ \A i \in 1..Len(b) : b[i][1] \in {0, 1} /\ b[i][2] \in Nat
  BY VersionElements
<1>2. PICK i \in 1..(Len(a) + 1) : Settles(a, b, i)
  BY DEF Precedes
<1>3. ASSUME Precedes(b, a) PROVE FALSE
  <2>1. PICK k \in 1..(Len(b) + 1) : Settles(b, a, k)
    BY <1>3 DEF Precedes
  <2>2. CASE i = k
    <3>1. i \in 1..Len(a) /\ i \in 1..Len(b)
      BY <1>1, <1>2, <2>1, <2>2 DEF Settles
    <3>2. ComponentBelow(a[i], b[i]) /\ ComponentBelow(b[i], a[i])
      BY <1>1, <1>2, <2>1, <2>2, <3>1 DEF Settles
    <3>3. QED  BY <1>1, <3>1, <3>2 DEF ComponentBelow
  <2>3. CASE i < k
    <3>1. i \in 1..(k - 1) /\ i # Len(a) + 1 /\ i \in 1..Len(a)
      BY <1>1, <1>2, <2>1, <2>3 DEF Settles
    <3>2. ComponentBelow(a[i], b[i]) /\ b[i] = a[i]
      BY <1>2, <2>1, <3>1 DEF Settles
    <3>3. QED  BY <1>1, <3>1, <3>2 DEF ComponentBelow
  <2>4. CASE k < i
    <3>1. k \in 1..(i - 1) /\ k # Len(b) + 1 /\ k \in 1..Len(b)
      BY <1>1, <1>2, <2>1, <2>4 DEF Settles
    <3>2. ComponentBelow(b[k], a[k]) /\ a[k] = b[k]
      BY <1>2, <2>1, <3>1 DEF Settles
    <3>3. QED  BY <1>1, <3>1, <3>2 DEF ComponentBelow
  <2>5. QED  BY <2>2, <2>3, <2>4
<1>4. ASSUME NEW c \in Version, Precedes(b, c) PROVE Precedes(a, c)
  <2>1. PICK k \in 1..(Len(b) + 1) : Settles(b, c, k)
    BY <1>4 DEF Precedes
  <2>2. /\ Len(c) \in Nat
        /\ \A j \in 1..Len(c) : c[j][1] \in {0, 1} /\ c[j][2] \in Nat
    BY VersionElements
  <2>3. CASE i <= k
    <3>1. \A j \in 1..(i - 1) : a[j] = c[j]
      <4>1. ASSUME NEW j \in 1..(i - 1) PROVE a[j] = c[j]
        <5>1. j \in 1..(k - 1)
          BY <2>3
        <5>2. QED  BY <1>2, <2>1, <5>1 DEF Settles
      <4>2. QED  BY <4>1
    <3>2. i <= Len(c)
      BY <1>1, <2>1, <2>2, <2>3 DEF Settles
    <3>3. CASE i = Len(a) + 1
      <4>1. Settles(a, c, i)
        BY <3>1, <3>2, <3>3 DEF Settles
      <4>2. QED  BY <4>1 DEF Precedes
    <3>4. CASE i # Len(a) + 1
      <4>1. /\ i \in 1..Len(a) /\ i \in 1..Len(b) /\ i \in 1..Len(c)
            /\ ComponentBelow(a[i], b[i])
        BY <1>1, <1>2, <2>2, <3>2, <3>4 DEF Settles
      <4>2. b[i] = c[i] \/ ComponentBelow(b[i], c[i])
        <5>1. CASE i = k
          <6>1. k # Len(b) + 1
            BY <1>1, <4>1, <5>1
          <6>2. QED  BY <2>1, <5>1, <6>1 DEF Settles
        <5>2. CASE i # k
          <6>1. i \in 1..(k - 1)
            BY <2>3, <5>2
          <6>2. QED  BY <2>1, <6>1 DEF Settles
        <5>3. QED  BY <5>1, <5>2
      <4>3. ComponentBelow(a[i], c[i])
        <5>1. ComponentBelow(a[i], b[i])
          BY <4>1
        <5>2. CASE b[i] = c[i]
          BY <5>1, <5>2
        <5>3. CASE ComponentBelow(b[i], c[i])
          <6>1. /\ a[i][1] \in Int /\ b[i][1] \in Int /\ c[i][1] \in Int
                /\ a[i][2] \in Int /\ b[i][2] \in Int /\ c[i][2] \in Int
            BY <1>1, <2>2, <4>1
          <6>2. QED  BY <5>1, <5>3, <6>1 DEF ComponentBelow
        <5>4. QED  BY <4>2, <5>2, <5>3
      <4>4. i <= Len(a)
        BY <1>1, <4>1
      <4>5. Settles(a, c, i)
        BY <3>1, <3>2, <3>4, <4>3, <4>4 DEF Settles
      <4>6. QED  BY <4>5 DEF Precedes
    <3>5. QED  BY <3>3, <3>4
  <2>4. CASE k < i
    <3>1. \A j \in 1..(k - 1) : a[j] = c[j]
      <4>1. ASSUME NEW j \in 1..(k - 1) PROVE a[j] = c[j]
        <5>1. j \in 1..(i - 1)
          BY <2>4
        <5>2. QED  BY <1>2, <2>1, <5>1 DEF Settles
      <4>2. QED  BY <4>1
    <3>2. k \in 1..(i - 1) /\ k # Len(b) + 1 /\ k # Len(a) + 1 /\ k <= Len(a)
          /\ k \in 1..(Len(a) + 1)
      BY <1>1, <1>2, <2>4 DEF Settles
    <3>3. a[k] = b[k]
      BY <1>2, <3>2 DEF Settles
    <3>4. k <= Len(c) /\ ComponentBelow(b[k], c[k])
      BY <2>1, <3>2 DEF Settles
    <3>5. Settles(a, c, k)
      BY <3>1, <3>2, <3>3, <3>4 DEF Settles
    <3>6. QED  BY <3>2, <3>5 DEF Precedes
  <2>5. QED  BY <2>3, <2>4
<1>5. QED  BY <1>3, <1>4

LEMMA CompareDecides ==
  ASSUME NEW a \in Version, NEW b \in Version
  PROVE  /\ Compare(a, b) \in Int
         /\ Compare(a, b) < 0 <=> Precedes(a, b)
         /\ Compare(a, b) > 0 <=> Precedes(b, a)
         /\ Compare(a, b) = 0 <=> a = b
<1> DEFINE n == SmallerOf(Len(a), Len(b))
           below(x, y) == \E i \in 1..n : /\ \A j \in 1..(i - 1) : a[j] = b[j]
                                          /\ ComponentBelow(x[i], y[i])
<1>1. Len(a) \in Nat /\ Len(b) \in Nat
  BY VersionElements
<1>2. n \in Nat /\ n <= Len(a) /\ n <= Len(b) /\ (n = Len(a) \/ n = Len(b))
  BY <1>1 DEF SmallerOf
<1>3. SmallerOf(n, SmallerOf(Len(a), Len(b))) = n
  BY <1>2 DEF SmallerOf
<1>4. Precedes(a, b) <=> below(a, b) \/ (Len(a) < Len(b) /\ \A j \in 1..n : a[j] = b[j])
  <2>1. ASSUME Precedes(a, b), ~below(a, b)
        PROVE  Len(a) < Len(b) /\ \A j \in 1..n : a[j] = b[j]
    <3>1. PICK i \in 1..(Len(a) + 1) : Settles(a, b, i)
      BY <2>1 DEF Precedes
    <3>2. i = Len(a) + 1
      <4>1. SUFFICES ASSUME i # Len(a) + 1 PROVE FALSE
        OBVIOUS
      <4>2. i \in 1..n
        BY <1>1, <1>2, <3>1, <4>1 DEF Settles
      <4>3. (\A j \in 1..(i - 1) : a[j] = b[j]) /\ ComponentBelow(a[i], b[i])
        BY <3>1, <4>1 DEF Settles
      <4>4. QED  BY <2>1, <4>2, <4>3
    <3>3. Len(a) < Len(b) /\ n = Len(a)
      BY <1>1, <1>2, <3>1, <3>2 DEF Settles
    <3>4. \A j \in 1..(Len(a) + 1 - 1) : a[j] = b[j]
      BY <3>1, <3>2 DEF Settles
    <3>5. QED  BY <1>1, <3>3, <3>4
  <2>2. ASSUME below(a, b) PROVE Precedes(a, b)
    <3>1. PICK i \in 1..n : (\A j \in 1..(i - 1) : a[j] = b[j]) /\ ComponentBelow(a[i], b[i])
      BY <2>2
    <3>2. i \in 1..(Len(a) + 1) /\ i <= Len(b) /\ i <= Len(a) /\ i # Len(a) + 1
      BY <1>1, <1>2
    <3>3. QED  BY <3>1, <3>2 DEF Precedes, Settles
  <2>3. ASSUME Len(a) < Len(b), \A j \in 1..n : a[j] = b[j] PROVE Precedes(a, b)
    <3>1. n = Len(a) /\ Len(a) + 1 \in 1..(Len(a) + 1) /\ Len(a) + 1 <= Len(b)
          /\ 1..(Len(a) + 1 - 1) = 1..Len(a)
      BY <1>1, <1>2, <2>3
    <3>2. QED  BY <2>3, <3>1 DEF Precedes, Settles
  <2>4. QED  BY <2>1, <2>2, <2>3
<1>5. Precedes(b, a) <=> below(b, a) \/ (Len(b) < Len(a) /\ \A j \in 1..n : a[j] = b[j])
  <2>1. ASSUME Precedes(b, a), ~below(b, a)
        PROVE  Len(b) < Len(a) /\ \A j \in 1..n : a[j] = b[j]
    <3>1. PICK i \in 1..(Len(b) + 1) : Settles(b, a, i)
      BY <2>1 DEF Precedes
    <3>2. i = Len(b) + 1
      <4>1. SUFFICES ASSUME i # Len(b) + 1 PROVE FALSE
        OBVIOUS
      <4>2. i \in 1..n
        BY <1>1, <1>2, <3>1, <4>1 DEF Settles
      <4>3. (\A j \in 1..(i - 1) : b[j] = a[j]) /\ ComponentBelow(b[i], a[i])
        BY <3>1, <4>1 DEF Settles
      <4>4. QED  BY <2>1, <4>2, <4>3
    <3>3. Len(b) < Len(a) /\ n = Len(b)
      BY <1>1, <1>2, <3>1, <3>2 DEF Settles
    <3>4. \A j \in 1..(Len(b) + 1 - 1) : b[j] = a[j]
      BY <3>1, <3>2 DEF Settles
    <3>5. QED  BY <1>1, <3>3, <3>4
  <2>2. ASSUME below(b, a) PROVE Precedes(b, a)
    <3>1. PICK i \in 1..n : (\A j \in 1..(i - 1) : a[j] = b[j]) /\ ComponentBelow(b[i], a[i])
      BY <2>2
    <3>2. i \in 1..(Len(b) + 1) /\ i <= Len(b) /\ i <= Len(a) /\ i # Len(b) + 1
      BY <1>1, <1>2
    <3>3. QED  BY <3>1, <3>2 DEF Precedes, Settles
  <2>3. ASSUME Len(b) < Len(a), \A j \in 1..n : a[j] = b[j] PROVE Precedes(b, a)
    <3>1. n = Len(b) /\ Len(b) + 1 \in 1..(Len(b) + 1) /\ Len(b) + 1 <= Len(a)
          /\ 1..(Len(b) + 1 - 1) = 1..Len(b)
      BY <1>1, <1>2, <2>3
    <3>2. QED  BY <2>3, <3>1 DEF Precedes, Settles
  <2>4. QED  BY <2>1, <2>2, <2>3
<1>6. CompareN(a, b, n) =
        CASE below(a, b) -> -1 [] below(b, a) -> 1 [] OTHER -> 0
  BY <1>3 DEF CompareN
<1>7. ~(Precedes(a, b) /\ Precedes(b, a)) /\ (Precedes(a, b) => a # b)
      /\ (Precedes(b, a) => a # b) /\ (a = b \/ Precedes(a, b) \/ Precedes(b, a))
  BY PrecedesOrder, Trichotomy
<1>8. a = b => Len(a) = Len(b)
  OBVIOUS
<1>9. ~(below(a, b) /\ below(b, a))
  BY <1>4, <1>5, <1>7
<1> DEFINE ab == below(a, b)
           ba == below(b, a)
           eq == \A j \in 1..n : a[j] = b[j]
<1>10. Precedes(a, b) <=> ab \/ (Len(a) < Len(b) /\ eq)
  BY <1>4
<1>11. Precedes(b, a) <=> ba \/ (Len(b) < Len(a) /\ eq)
  BY <1>5
<1>12. CompareN(a, b, n) = IF ab THEN -1 ELSE IF ba THEN 1 ELSE 0
  BY <1>6, <1>9
<1>13. Compare(a, b) = IF ab THEN -1 ELSE IF ba THEN 1 ELSE Len(a) - Len(b)
  <2> HIDE DEF ab, ba
  <2>1. QED  BY <1>12 DEF Compare
<1> HIDE DEF ab, ba, eq
<1>14. QED  BY <1>1, <1>7, <1>8, <1>10, <1>11, <1>13

(* Versions are in a total order, as qsort takes for granted and the       *)
(* search of a sorted list needs: no two are equal that read differently,  *)
(* and what is before a smaller one is before the greater.                 *)
THEOREM CompareOrder ==
  /\ \A a, b \in Version :
       /\ Compare(a, b) \in Int
       /\ Compare(a, b) = 0 <=> a = b
       /\ Compare(a, b) < 0 <=> Compare(b, a) > 0
  /\ \A a, b, c \in Version :
       Compare(a, b) <= 0 /\ Compare(b, c) < 0 => Compare(a, c) < 0
<1>1. ASSUME NEW a \in Version, NEW b \in Version, NEW c \in Version,
             Compare(a, b) <= 0, Compare(b, c) < 0
      PROVE  Compare(a, c) < 0
  <2>1. Compare(a, b) < 0 \/ Compare(a, b) = 0
    BY <1>1, CompareDecides
  <2>2. a = b \/ Precedes(a, b)
    BY <2>1, CompareDecides
  <2>3. Precedes(b, c)
    BY <1>1, CompareDecides
  <2>4. Precedes(a, c)
    BY <2>2, <2>3, PrecedesOrder
  <2>5. QED  BY <2>4, CompareDecides
<1>2. QED  BY <1>1, CompareDecides

-----------------------------------------------------------------------------
(* What is read from the runs of a text is a version.                      *)

LEMMA ProductType ==
  ASSUME NEW x \in Nat, NEW y \in Nat PROVE x * y \in Nat
OBVIOUS

LEMMA NextDigit ==
  ASSUME NEW x \in Nat, NEW y \in Nat, NEW z \in Nat PROVE x * y + z \in Nat
BY ProductType

LEMMA DigitsType ==
  ASSUME NEW n \in Nat, NEW ds, DOMAIN ds = 1..n, Len(ds) = n,
         \A i \in 1..n : ds[i] \in Nat, NEW base \in Nat
  PROVE  Digits(ds, base) \in Nat
<1> DEFINE Next1(g, i) == IF i = 0 THEN 0 ELSE base * g[i - 1] + ds[i]
           Upto(k) == \E g \in [0..k -> Nat] : \A i \in 0..k : g[i] = Next1(g, i)
           Wrong == {k \in 0..n : ~Upto(k)}
<1>1. Upto(0)
  <2>1. [i \in 0..0 |-> 0] \in [0..0 -> Nat]
    OBVIOUS
  <2>2. \A i \in 0..0 : [j \in 0..0 |-> 0][i] = Next1([j \in 0..0 |-> 0], i)
    OBVIOUS
  <2>3. QED  BY <2>1, <2>2
<1>2. ASSUME NEW k \in 1..n, Upto(k - 1) PROVE Upto(k)
  <2>1. PICK g \in [0..(k - 1) -> Nat] : \A i \in 0..(k - 1) : g[i] = Next1(g, i)
    BY <1>2
  <2> DEFINE h == [i \in 0..k |-> IF i = k THEN base * g[k - 1] + ds[k] ELSE g[i]]
  <2>2. g[k - 1] \in Nat /\ ds[k] \in Nat
    OBVIOUS
  <2>3. base * g[k - 1] + ds[k] \in Nat
    BY <2>2, NextDigit
  <2>4. h \in [0..k -> Nat]
    BY <2>3
  <2>5. ASSUME NEW i \in 0..k PROVE h[i] = Next1(h, i)
    <3>1. CASE i = k
      <4>1. h[k - 1] = g[k - 1] /\ k # 0
        OBVIOUS
      <4>2. QED  BY <3>1, <4>1
    <3>2. CASE i # k
      <4>1. i \in 0..(k - 1)
        BY <3>2
      <4>2. i # 0 => i - 1 \in 0..k /\ i - 1 # k
        BY <4>1
      <4>3. h[i] = g[i] /\ (i # 0 => h[i - 1] = g[i - 1])
        BY <3>2, <4>2
      <4>4. g[i] = Next1(g, i)
        BY <2>1, <4>1
      <4> HIDE DEF h
      <4>5. QED  BY <4>3, <4>4
    <3>3. QED  BY <3>1, <3>2
  <2> HIDE DEF h
  <2>6. QED  BY <2>4, <2>5
<1>3. Upto(n)
  <2>1. SUFFICES ASSUME ~Upto(n) PROVE FALSE
    OBVIOUS
  <2>2. Wrong \in SUBSET Nat /\ Wrong # {}
    <3> HIDE DEF Upto
    <3>1. QED  BY <2>1
  <2>3. PICK k \in Wrong : \A j \in Wrong : k <= j
    <3> HIDE DEF Wrong
    <3>1. QED  BY <2>2, Least
  <2> HIDE DEF Upto
  <2>4. k \in 1..n
    BY <1>1, <2>3
  <2>5. k - 1 \in 0..n /\ k - 1 \notin Wrong
    BY <2>3, <2>4
  <2>6. QED  BY <1>2, <2>3, <2>4, <2>5
<1> DEFINE value == CHOOSE f : f = [i \in 0..n |-> Next1(f, i)]
<1>4. value = [i \in 0..n |-> Next1(value, i)]
  <2>1. PICK g \in [0..n -> Nat] : \A i \in 0..n : g[i] = Next1(g, i)
    BY <1>3
  <2>2. g = [i \in 0..n |-> Next1(g, i)]
    BY <2>1
  <2>3. QED  BY <2>2
<1> HIDE DEF value
<1>5. \A i \in 0..n : value[i] \in Nat
  <2> DEFINE Bad == {i \in 0..n : value[i] \notin Nat}
  <2>1. SUFFICES ASSUME Bad # {} PROVE FALSE
    OBVIOUS
  <2>2. Bad \in SUBSET Nat
    OBVIOUS
  <2>3. PICK k \in Bad : \A j \in Bad : k <= j
    <3> HIDE DEF Bad
    <3>1. QED  BY <2>1, <2>2, Least
  <2>4. value[k] = Next1(value, k) /\ k \in 0..n
    BY <1>4
  <2>5. k # 0
    BY <2>3, <2>4
  <2>6. k - 1 \in 0..n /\ k - 1 \notin Bad /\ k \in 1..n
    BY <2>3, <2>4, <2>5
  <2>7. value[k - 1] \in Nat /\ ds[k] \in Nat
    BY <2>6
  <2>8. base * value[k - 1] + ds[k] \in Nat
    BY <2>7, NextDigit
  <2>9. QED  BY <2>3, <2>4, <2>5, <2>8
<1>6. Digits(ds, base) = value[n]
  BY DEF Digits, value
<1>7. QED  BY <1>5, <1>6

LEMMA ComponentType ==
  ASSUME NEW t \in Seq(Int), NEW r \in RunsOf(t)
  PROVE  Component(SubSeq(t, r[1], r[2])) \in {Numeric, Alpha} \X Nat
<1> DEFINE part == SubSeq(t, r[1], r[2])
           n == r[2] - r[1] + 1
<1>1. /\ r[1] \in 1..Len(t) /\ r[2] \in 1..Len(t) /\ Len(t) \in Nat
      /\ Pure(t, r[1], r[2])
  BY DEF RunsOf
<1>2. r[1] <= r[2] /\ n \in Nat /\ n >= 1
  BY <1>1 DEF Pure
<1>3. \A i \in r[1]..r[2] : t[i] \in Int
  BY <1>1
<1>4. /\ part \in Seq(Int) /\ Len(part) = n
      /\ \A i \in 1..n : part[i] = t[r[1] + i - 1]
  <2>1. r[1] \in Int /\ r[2] \in Int
    BY <1>1
  <2>2. /\ part \in Seq(Int)
        /\ Len(part) = IF r[1] <= r[2] THEN r[2] - r[1] + 1 ELSE 0
        /\ \A i \in 1..(r[2] - r[1] + 1) : part[i] = t[r[1] + i - 1]
    BY <1>3, <2>1, SubSeqProperties
  <2>3. QED  BY <1>2, <2>2
<1>5. DOMAIN part = 1..n
  BY <1>4
<1> HIDE DEF part
<1>6. \A i \in 1..n : part[i] \in Int /\ Class(part[i]) = Class(t[r[1]])
  <2>1. ASSUME NEW i \in 1..n
        PROVE  part[i] \in Int /\ Class(part[i]) = Class(t[r[1]])
    <3>1. r[1] + i - 1 \in r[1]..r[2]
      BY <1>1, <1>2
    <3>2. QED  BY <1>1, <1>3, <1>4, <3>1 DEF Pure
  <2>2. QED  BY <2>1
<1>7. Class(t[r[1]]) # "other" /\ Class(part[1]) = Class(t[r[1]])
  BY <1>1, <1>2, <1>6 DEF Pure
<1> HIDE DEF n
<1>8. CASE Class(part[1]) = "NUMERIC"
  <2>1. ASSUME NEW i \in 1..n PROVE part[i] \in Nat
    <3>1. Class(part[i]) = "NUMERIC" /\ part[i] \in Int
      BY <1>6, <1>7, <1>8
    <3>2. QED  BY <3>1 DEF Class
  <2>2. Digits(part, 10) \in Nat
    BY <1>2, <1>4, <1>5, <2>1, DigitsType
  <2>3. QED  BY <1>8, <2>2 DEF Component, Number, Numeric, Alpha, part
<1>9. CASE Class(part[1]) # "NUMERIC"
  <2> DEFINE ds == [i \in 1..MaxText |-> IF i <= Len(part) THEN part[i] - 9 ELSE 0]
  <2>1. MaxText \in Nat /\ LastLetter - 8 \in Nat
    BY BoundsAssumption
  <2>2. ASSUME NEW i \in 1..MaxText PROVE ds[i] \in Nat
    <3>1. CASE i <= n
      <4>1. i \in 1..n
        BY <1>2, <2>1, <3>1
      <4>2. part[i] \in Int /\ Class(part[i]) # "NUMERIC" /\ Class(part[i]) # "other"
        BY <1>6, <1>7, <1>9, <4>1
      <4>3. part[i] > 9
        BY <4>2 DEF Class
      <4>4. part[i] - 9 \in Nat
        BY <4>2, <4>3
      <4>5. QED  BY <1>4, <3>1, <4>4
    <3>2. CASE ~(i <= n)
      BY <1>4, <3>2
    <3>3. QED  BY <3>1, <3>2
  <2>3. ds \in Seq(Nat) /\ DOMAIN ds = 1..MaxText
    <3>1. ds \in [1..MaxText -> Nat]
      BY <2>2
    <3> HIDE DEF ds
    <3>2. QED  BY <2>1, <3>1, IsASeq
  <2>4. Len(ds) = MaxText
    <3> HIDE DEF ds
    <3>1. QED  BY <2>1, <2>3, LenProperties
  <2>5. Digits(ds, LastLetter - 8) \in Nat
    <3> HIDE DEF ds
    <3>1. QED  BY <2>1, <2>2, <2>3, <2>4, DigitsType
  <2>6. QED  BY <1>9, <2>5 DEF Component, Word, Numeric, Alpha, part
<1>10. QED  BY <1>8, <1>9

LEMMA VersionOfType ==
  ASSUME NEW t \in Seq(Int), NEW n \in Nat, NEW s, DOMAIN s = 1..n,
         \A i \in 1..n : s[i] \in RunsOf(t)
  PROVE  VersionOf(t, s) \in Version
<1>1. ASSUME NEW i \in 1..n
      PROVE  Component(SubSeq(t, s[i][1], s[i][2])) \in {Numeric, Alpha} \X Nat
  BY ComponentType
<1>2. VersionOf(t, s) \in [1..n -> {Numeric, Alpha} \X Nat]
  BY <1>1 DEF VersionOf
<1>3. QED  BY <1>2, IsASeq DEF Version

(* There is one list of the runs from left to right.                       *)
LEMMA OneOrder ==
  ASSUME NEW t \in Seq(Int), NEW n \in Nat,
         NEW s \in [1..n -> RunsOf(t)], NEW u \in [1..n -> RunsOf(t)],
         InOrder(s), InOrder(u),
         \A r \in RunsOf(t) : \E i \in 1..n : s[i] = r,
         \A r \in RunsOf(t) : \E i \in 1..n : u[i] = r
  PROVE  s = u
<1> DEFINE D == {i \in 1..n : s[i] # u[i]}
<1>0. D = {} => s = u
  <2>1. ASSUME D = {} PROVE s = u
    <3>1. \A i \in 1..n : s[i] = u[i]
      BY <2>1
    <3>2. QED  BY <3>1
  <2>2. QED  BY <2>1
<1>1. SUFFICES ASSUME D # {} PROVE FALSE
  BY <1>0
<1>2. PICK i \in D : \A j \in D : i <= j
  <2>1. D \in SUBSET Nat
    OBVIOUS
  <2> HIDE DEF D
  <2>2. QED  BY <1>1, <2>1, Least
<1>3. i \in 1..n /\ s[i] # u[i] /\ \A j \in 1..n : j < i => s[j] = u[j]
  BY <1>2
<1> HIDE DEF D
<1>4. \A r \in RunsOf(t) : r[1] \in Nat /\ r[2] \in Nat /\ r[1] <= r[2]
  BY DEF RunsOf, Pure
<1>5. s[i][2] < u[i][1]
  <2>1. PICK k \in 1..n : s[k] = u[i]
    BY <1>3
  <2>2. ~(k < i)
    <3>1. SUFFICES ASSUME k < i PROVE FALSE
      OBVIOUS
    <3>2. u[k] = u[i]
      BY <1>3, <2>1, <3>1
    <3>3. u[i][2] < u[i][1]
      BY <1>3, <3>1, <3>2 DEF InOrder
    <3>4. u[i][1] \in Nat /\ u[i][2] \in Nat /\ u[i][1] <= u[i][2]
      BY <1>3, <1>4
    <3>5. \A x, y \in Nat : x <= y => ~(y < x)
      OBVIOUS
    <3>6. QED  BY <3>3, <3>4, <3>5, Zenon
  <2>3. k # i
    BY <1>3, <2>1
  <2>4. i < k
    BY <1>3, <2>2, <2>3
  <2>5. s[i][2] < s[k][1]
    BY <1>3, <2>4 DEF InOrder
  <2>6. QED  BY <2>1, <2>5
<1>6. u[i][2] < s[i][1]
  <2>1. PICK k \in 1..n : u[k] = s[i]
    BY <1>3
  <2>2. ~(k < i)
    <3>1. SUFFICES ASSUME k < i PROVE FALSE
      OBVIOUS
    <3>2. s[k] = s[i]
      BY <1>3, <2>1, <3>1
    <3>3. s[i][2] < s[i][1]
      BY <1>3, <3>1, <3>2 DEF InOrder
    <3>4. s[i][1] \in Nat /\ s[i][2] \in Nat /\ s[i][1] <= s[i][2]
      BY <1>3, <1>4
    <3>5. \A x, y \in Nat : x <= y => ~(y < x)
      OBVIOUS
    <3>6. QED  BY <3>3, <3>4, <3>5, Zenon
  <2>3. k # i
    BY <1>3, <2>1
  <2>4. i < k
    BY <1>3, <2>2, <2>3
  <2>5. u[i][2] < u[k][1]
    BY <1>3, <2>4 DEF InOrder
  <2>6. QED  BY <2>1, <2>5
<1>7. /\ s[i][1] \in Nat /\ s[i][2] \in Nat /\ s[i][1] <= s[i][2]
      /\ u[i][1] \in Nat /\ u[i][2] \in Nat /\ u[i][1] <= u[i][2]
  BY <1>3, <1>4
<1>8. \A a, b, c, d \in Nat : a <= b /\ c <= d /\ b < c => ~(d < a)
  OBVIOUS
<1>9. QED  BY <1>5, <1>6, <1>7, <1>8, Zenon

LEMMA EnumeratesAll ==
  ASSUME NEW S, IsFiniteSet(S), NEW s \in SetToSeqs(S)
  PROVE  /\ Cardinality(S) \in Nat
         /\ s \in [1..Cardinality(S) -> S]
         /\ Len(s) = Cardinality(S)
         /\ ToSet(s) = S
<1>1. Cardinality(S) \in Nat
  BY FS_CardinalityType
<1>2. /\ s \in [1..Cardinality(S) -> S]
      /\ \A i, j \in 1..Cardinality(S) : i # j => s[i] # s[j]
  BY DEF SetToSeqs
<1>3. s \in Seq(S) /\ Len(s) = Cardinality(S)
  BY <1>1, <1>2, IsASeq, LenProperties
<1>4. s \in Injection(1..Cardinality(S), S)
  BY <1>2 DEF Injection, IsInjective
<1>5. Cardinality(1..Cardinality(S)) = Cardinality(S)
  BY <1>1, FS_Interval
<1>6. s \in Surjection(1..Cardinality(S), S)
  BY <1>4, <1>5, FS_Injection
<1>7. \A x \in S : \E i \in 1..Cardinality(S) : s[i] = x
  BY <1>6 DEF Surjection
<1>8. QED  BY <1>1, <1>2, <1>3, <1>7 DEF ToSet

(* What the scanner has found at the end of a text is what the text means. *)
LEMMA ReadingIsFound ==
  ASSUME NEW t \in Seq(Int), NEW s \in Seq(Nat \X Nat), InOrder(s),
         {s[i] : i \in DOMAIN s} = RunsOf(t)
  PROVE  VersionOf(t, s) = Reading(t) /\ Reading(t) \in Version
<1> DEFINE n == Len(s)
           R == RunsOf(t)
<1>1. n \in Nat /\ DOMAIN s = 1..n
  BY LenProperties
<1>2. /\ s \in [1..n -> R]
      /\ \A r \in R : \E i \in 1..n : s[i] = r
  BY <1>1
<1>3. \A r \in R : r[1] \in Nat /\ r[2] \in Nat /\ r[1] <= r[2]
  BY DEF RunsOf, Pure
<1>4. \A i, j \in 1..n : i # j => s[i] # s[j]
  <2> HIDE DEF R
  <2>1. ASSUME NEW i \in 1..n, NEW j \in 1..n, i < j, s[i] = s[j] PROVE FALSE
    <3>1. s[i][2] < s[j][1] /\ s[i] \in R
      BY <1>1, <1>2, <2>1 DEF InOrder
    <3>2. s[i][1] \in Nat /\ s[i][2] \in Nat /\ s[i][1] <= s[i][2]
      BY <1>3, <3>1
    <3>3. s[i][2] < s[i][1]
      BY <2>1, <3>1
    <3>4. QED  BY <3>2, <3>3
  <2> HIDE DEF n
  <2>2. ASSUME NEW i \in 1..n, NEW j \in 1..n, i # j PROVE s[i] # s[j]
    <3>1. i < j \/ j < i
      BY <1>1, <2>2
    <3>2. QED  BY <2>1, <3>1
  <2>3. QED  BY <2>2
<1> HIDE DEF n, R
<1>5. s \in Bijection(1..n, R)
  BY <1>2, <1>4 DEF Bijection, Injection, Surjection, IsInjective
<1>6. IsFiniteSet(1..n) /\ Cardinality(1..n) = n
  BY <1>1, FS_Interval
<1>7. IsFiniteSet(R) /\ Cardinality(R) = n
  BY <1>5, <1>6, FS_Bijection DEF ExistsBijection
<1>8. s \in SetToSeqs(R)
  BY <1>2, <1>4, <1>7 DEF SetToSeqs
<1> DEFINE u == CHOOSE x \in SetToSeqs(R) : InOrder(x)
<1>9. u \in SetToSeqs(R) /\ InOrder(u)
  BY <1>8
<1> HIDE DEF u
<1>10. u \in [1..n -> R] /\ \A r \in R : \E i \in 1..n : u[i] = r
  <2>1. u \in [1..n -> R] /\ ToSet(u) = R
    BY <1>7, <1>9, EnumeratesAll
  <2>2. QED  BY <2>1 DEF ToSet
<1>11. s = u
  BY <1>1, <1>2, <1>9, <1>10, OneOrder DEF R
<1>12. VersionOf(t, s) = Reading(t)
  BY <1>11 DEF Reading, u, R
<1>13. VersionOf(t, s) \in Version
  BY <1>1, <1>2, VersionOfType DEF R
<1>14. QED  BY <1>12, <1>13

-----------------------------------------------------------------------------
(* The invariant of the repository.                                        *)

Good(files) == {file \in files : Judged(file, "ok")}
Meant(file) == [title |-> file.title, version |-> Reading(NumberIn(file))]
MeantBy(files) == {Meant(file) : file \in files}
Request ==
  [name : Names, mark : Marks, text : Texts, older : BOOLEAN, less : Version]

(* What was asked is remembered until it is answered, and the constraint   *)
(* is what it says from the moment it is read.                             *)
AskInv ==
  /\ world \in Worlds
  /\ pc \in {"idle", "constraint", "find", "read", "version", "search", "stopped"}
  /\ p > 0 => pc \in {"constraint", "version"}
  /\ reply = Catalog!Pending <=> pc \notin {"idle", "stopped"}
  /\ pc = "idle" => reply.answer \in {"none", "OK", "NO_MATCHING_VERSION"}
  /\ pc = "stopped" => reply.answer \in {"UNKNOWN", "aborted"}
  /\ \/ request \in Request
     \/ pc = "idle" /\ request = Catalog!NotAsked /\ reply = Catalog!Answered("none")
  /\ constraint \in Constraint
  /\ pc = "constraint" => text = request.text
  /\ pc \in {"find", "read", "version", "search"} \/ reply.answer = "OK" =>
       constraint = [req |-> RequirementOf(request.mark), version |-> Reading(request.text)]

(* Of the files looked at those that parse are in packages, the last one   *)
(* perhaps without its version yet; none of them was a reason to abort.    *)
ReadInv ==
  /\ packages \in Seq(Package)
  /\ pc \in {"read", "version", "search"} => request.name \in cached
  /\ pc \in {"read", "version"} =>
       /\ Here.there /\ Here.files # {}
       /\ left \subseteq Here.files
       /\ \A file \in Here.files \ left : ~Judged(file, "abort")
  /\ pc = "read" => ToSet(packages) = MeantBy(Good(Here.files \ left))
  /\ pc = "version" =>
       \E file \in Good(Here.files \ left) :
         /\ packages # <<>>
         /\ packages[Len(packages)].title = file.title
         /\ text = NumberIn(file)
         /\ {packages[i] : i \in 1..(Len(packages) - 1)} =
              MeantBy(Good(Here.files \ left) \ {file})

TrueTo(list, files) ==
  /\ Len(list) = Cardinality(Good(files))
  /\ ToSet(list) = MeantBy(Good(files))
  /\ Sorted(list)

(* A complete list is what is on disk, and while the program goes on it is *)
(* of a directory that is there and in which nothing is a reason to abort. *)
ListInv ==
  /\ cached \subseteq Names
  /\ cache \in [Names -> Seq(Package)]
  /\ \A n \in Names \ cached : cache[n] = <<>>
  /\ \A n \in Listed :
       /\ TrueTo(cache[n], world.dirs[n].files)
       /\ \A file \in world.dirs[n].files : ~Judged(file, "abort")
       /\ pc # "stopped" => world.dirs[n].there /\ world.dirs[n].files # {}

RepositoryInv == ScanInv /\ AskInv /\ ReadInv /\ ListInv

LEMMA TrueLists == CacheIsTrue <=> \A n \in Listed : TrueTo(cache[n], world.dirs[n].files)
BY DEF CacheIsTrue, TrueTo, Good, MeantBy, Meant

(* What is assumed of a packages directory                                 *)
LEMMA WorldFacts ==
  ASSUME NEW w \in Worlds
  PROVE  /\ \A n \in Names :
              /\ IsFiniteSet(w.dirs[n].files)
              /\ w.dirs[n].files # {} => w.dirs[n].there
              /\ \A f, g \in w.dirs[n].files : f.title = g.title => f = g
              /\ \A f \in w.dirs[n].files : f.title \in Texts
              /\ \A f \in Good(w.dirs[n].files) : NumberIn(f) \in Texts
         /\ \A query \in w.queries :
              query.name \in Names /\ query.mark \in Marks /\ query.text \in Texts
BY WorldsAssumption DEF Good

LEMMA RequirementType ==
  ASSUME NEW mark \in Marks PROVE RequirementOf(mark) \in Requirement
BY DEF RequirementOf, Marks, Requirement

LEMMA InitInv == Init => RepositoryInv
<1> SUFFICES ASSUME Init PROVE RepositoryInv
  OBVIOUS
<1>1. ScanInv
  BY ScanInvInit DEF Init
<1>2. <<>> \in Version /\ <<>> \in Seq(Package) /\ "ANY" \in Requirement
  BY DEF Version, Requirement
<1>3. AskInv
  <2>1. /\ world \in Worlds /\ pc = "idle" /\ p = 0
        /\ request = Catalog!NotAsked /\ reply = Catalog!Answered("none")
    BY DEF Init, ScanInit
  <2>2. reply # Catalog!Pending /\ reply.answer = "none"
    BY <2>1 DEF Catalog!Pending, Catalog!Answered
  <2>3. constraint \in Constraint
    BY <1>2 DEF Init, Constraint
  <2>4. QED  BY <2>1, <2>2, <2>3 DEF AskInv
<1>4. ReadInv
  BY <1>2 DEF Init, ReadInv
<1>5. ListInv
  BY <1>2 DEF Init, ListInv, Listed
<1>6. QED  BY <1>1, <1>3, <1>4, <1>5 DEF RepositoryInv

-----------------------------------------------------------------------------
(* The steps of the scanner in the repository are steps of the scanner; a  *)
(* text that has been read is put away.                                    *)
LEMMA NextScanInv ==
  ASSUME RepositoryInv, Next PROVE ScanInv'
<1>0. ScanInv
  BY DEF RepositoryInv
<1>1. ASSUME svars' = svars PROVE ScanInv'
  BY <1>0, <1>1, ScanInvNext
<1>2. ASSUME NEW t \in Texts, Begin(t) PROVE ScanInv'
  BY <1>0, <1>2, ScanInvNext
<1>3. ASSUME p = 0, text' = <<>>, found' = <<>>, UNCHANGED <<p, state, start>> PROVE ScanInv'
  <2>1. RunsOf(<<>>) = {}
    BY DEF RunsOf
  <2>2. p' = 0 /\ start' = 1 /\ state' \in {"INITIAL", "ALPHA", "NUMERIC"}
    BY <1>0, <1>3 DEF ScanInv, ScannerTypeOK
  <2>3. QED  BY <1>3, <2>1, <2>2 DEF ScanInv, ScannerTypeOK, InOrder, Components
<1>4. ASSUME ScanStep PROVE ScanInv'
  BY <1>0, <1>4, ScanInvNext
<1>5. world \in Worlds /\ (pc = "read" => request.name \in Names /\ left \subseteq Here.files)
  BY DEF RepositoryInv, AskInv, ReadInv, ListInv
<1>6. CASE Ask \/ AskOlder
  <2>1. PICK query \in world.queries : Begin(query.text)
    BY <1>6 DEF Ask, AskOlder
  <2>2. query.text \in Texts
    BY <1>5, WorldFacts
  <2>3. QED  BY <1>2, <2>1, <2>2
<1>7. CASE ReadFile
  <2>1. PICK file \in left : Opens(file) /\ Judged(file, "ok") /\ Begin(NumberIn(file))
    BY <1>7 DEF ReadFile
  <2>2. pc = "read" /\ file \in Good(world.dirs[request.name].files)
    BY <1>5, <2>1 DEF Opens, Good, Here
  <2>3. NumberIn(file) \in Texts
    BY <1>5, <2>2, WorldFacts
  <2>4. QED  BY <1>2, <2>1, <2>3
<1>8. CASE TakeConstraint  BY <1>3, <1>8 DEF TakeConstraint
<1>9. CASE TakeVersion  BY <1>3, <1>9 DEF TakeVersion
<1>10. CASE Scan  BY <1>4, <1>10 DEF Scan
<1>12. CASE FindCached  BY <1>1, <1>12 DEF FindCached
<1>13. CASE FindUnknown  BY <1>1, <1>13 DEF FindUnknown
<1>14. CASE FindFiles  BY <1>1, <1>14 DEF FindFiles
<1>15. CASE SkipFile  BY <1>1, <1>15 DEF SkipFile
<1>16. CASE RejectFile  BY <1>1, <1>16 DEF RejectFile
<1>17. CASE AbortOnFile  BY <1>1, <1>17 DEF AbortOnFile
<1>18. CASE SortVersions  BY <1>1, <1>18 DEF SortVersions
<1>19. CASE Search  BY <1>1, <1>19 DEF Search
<1>20. QED
  BY <1>6, <1>7, <1>8, <1>9, <1>10, <1>12, <1>13, <1>14, <1>15, <1>16, <1>17,
     <1>18, <1>19 DEF Next, Work

LEMMA Replies ==
  /\ Catalog!Pending.answer = "pending"
  /\ \A a : Catalog!Answered(a).answer = a
  /\ \A t : Catalog!Found(t).answer = "OK" /\ Catalog!Found(t).title = t
BY DEF Catalog!Pending, Catalog!Answered, Catalog!Found

LEMMA PackageFields ==
  ASSUME NEW s \in Seq(Package), NEW i \in DOMAIN s
  PROVE  s[i].title \in Texts /\ s[i].version \in Version
         /\ s[i] = [title |-> s[i].title, version |-> s[i].version]
<1>1. s[i] \in Package
  BY ElementOfSeq, LenProperties
<1>2. QED  BY <1>1 DEF Package

(* A name that no list has been made for has an empty one.                 *)
LEMMA ListOf ==
  ASSUME ListInv, NEW n \in Names, NEW i \in DOMAIN cache[n]
  PROVE  n \in cached /\ cache[n] \in Seq(Package)
BY DEF ListInv

LEMMA NextAskInv ==
  ASSUME RepositoryInv, Next PROVE AskInv'
<1>0. AskInv /\ ScanInv /\ ReadInv /\ ListInv
  BY DEF RepositoryInv
<1>a. /\ world \in Worlds
      /\ pc \in {"idle", "constraint", "find", "read", "version", "search", "stopped"}
      /\ p > 0 => pc \in {"constraint", "version"}
      /\ reply = Catalog!Pending <=> pc \notin {"idle", "stopped"}
      /\ pc # "idle" => request \in Request
      /\ constraint \in Constraint
  BY <1>0 DEF AskInv
<1>b. p \in Nat
  BY <1>0 DEF ScanInv, ScannerTypeOK
<1> USE Replies
<1>1. ASSUME UNCHANGED <<world, request, reply, pc, constraint, svars>> PROVE AskInv'
  BY <1>0, <1>1 DEF AskInv, svars
<1>2. ASSUME UNCHANGED <<world, request, reply, constraint>>, pc \in {"find", "read", "version"},
             pc' \in {"read", "version", "search"}, p' > 0 => pc' = "version"
      PROVE  AskInv'
  BY <1>0, <1>2 DEF AskInv
<1>3. CASE Ask
  <2>1. PICK query \in world.queries : request' = Catalog!Asked(query) /\ Begin(query.text)
    BY <1>3 DEF Ask
  <2>2. query.name \in Names /\ query.mark \in Marks /\ query.text \in Texts
    BY <1>a, WorldFacts
  <2>3. request' \in Request /\ request'.text = query.text
    <3>1. <<>> \in Version
      BY DEF Version
    <3>2. QED  BY <2>1, <2>2, <3>1 DEF Catalog!Asked, Request
  <2>4. pc' = "constraint" /\ reply' = Catalog!Pending /\ UNCHANGED <<world, constraint>>
    BY <1>3 DEF Ask
  <2>5. text' = query.text
    BY <2>1 DEF Begin
  <2>6. QED  BY <1>a, <2>3, <2>4, <2>5 DEF AskInv
<1>4. CASE TakeConstraint
  <2>1. /\ pc = "constraint" /\ p = 0 /\ pc' = "find" /\ p' = 0
        /\ constraint' = [req |-> RequirementOf(request.mark),
                          version |-> VersionOf(text, found)]
        /\ UNCHANGED <<world, request, reply>>
    BY <1>4 DEF TakeConstraint
  <2>2. VersionOf(text, found) = Reading(text) /\ Reading(text) \in Version
    <3>1. /\ text \in Seq(Int) /\ found \in Seq(Nat \X Nat) /\ InOrder(found)
          /\ {found[i] : i \in DOMAIN found} = RunsOf(text)
      BY <1>0, <2>1 DEF ScanInv, ScannerTypeOK, Components
    <3>2. QED  BY <3>1, ReadingIsFound
  <2>3. text = request.text /\ request.mark \in Marks
    BY <1>0, <1>a, <2>1 DEF AskInv, Request
  <2>4. constraint' \in Constraint
    BY <2>1, <2>2, <2>3, RequirementType DEF Constraint
  <2>5. QED  BY <1>a, <2>1, <2>2, <2>3, <2>4 DEF AskInv
<1>5. CASE AskOlder
  <2>0. PICK query \in world.queries :
          \E i \in DOMAIN cache[query.name] :
            /\ request' = [Catalog!Asked(query) EXCEPT !.older = TRUE,
                                                      !.less = cache[query.name][i].version]
            /\ Begin(query.text)
    BY <1>5 DEF AskOlder
  <2>1. PICK i \in DOMAIN cache[query.name] :
          /\ request' = [Catalog!Asked(query) EXCEPT !.older = TRUE,
                                                    !.less = cache[query.name][i].version]
          /\ Begin(query.text)
    BY <2>0
  <2>2. query.name \in Names /\ query.mark \in Marks /\ query.text \in Texts
    BY <1>a, WorldFacts
  <2>3. cache[query.name][i].version \in Version
    BY <1>0, <2>2, ListOf, PackageFields
  <2>4. request' \in Request /\ request'.text = query.text
    BY <2>1, <2>2, <2>3 DEF Catalog!Asked, Request
  <2>5. pc' = "constraint" /\ reply' = Catalog!Pending /\ UNCHANGED <<world, constraint>>
    BY <1>5 DEF AskOlder
  <2>6. text' = query.text
    BY <2>1 DEF Begin
  <2>7. QED  BY <1>a, <2>4, <2>5, <2>6 DEF AskInv
<1>6. CASE FindCached
  <2>1. p' = p
    BY <1>6 DEF FindCached, svars
  <2>2. QED  BY <1>2, <1>6, <1>a, <2>1 DEF FindCached
<1>7. CASE FindUnknown
  <2>1. /\ pc = "find" /\ pc' = "stopped" /\ reply' = Catalog!Answered("UNKNOWN")
        /\ UNCHANGED <<world, request, constraint, p>>
    BY <1>7 DEF FindUnknown, Afterwards, svars
  <2>2. QED  BY <1>a, <2>1 DEF AskInv
<1>8. CASE FindFiles
  <2>1. p' = p
    BY <1>8 DEF FindFiles, svars
  <2>2. QED  BY <1>2, <1>8, <1>a, <2>1 DEF FindFiles
<1>9. CASE SkipFile  BY <1>1, <1>9 DEF SkipFile
<1>10. CASE RejectFile  BY <1>1, <1>10 DEF RejectFile
<1>11. CASE AbortOnFile
  <2>1. /\ pc = "read" /\ pc' = "stopped" /\ reply' = Catalog!Answered("aborted")
        /\ UNCHANGED <<world, request, constraint, p>>
    BY <1>11 DEF AbortOnFile, Opens, svars
  <2>2. QED  BY <1>a, <2>1 DEF AskInv
<1>12. CASE ReadFile
  BY <1>2, <1>12 DEF ReadFile, Opens
<1>13. CASE TakeVersion
  <2>1. p' = 0
    BY <1>13 DEF TakeVersion
  <2>2. QED  BY <1>2, <1>13, <2>1 DEF TakeVersion
<1>14. CASE SortVersions
  <2>1. p' = p
    BY <1>14 DEF SortVersions, svars
  <2>2. QED  BY <1>2, <1>14, <1>a, <2>1 DEF SortVersions
<1>15. CASE Search
  <2>1. /\ pc = "search" /\ pc' = "idle"
        /\ UNCHANGED <<world, request, constraint, p>>
    BY <1>15 DEF Search, svars
  <2>2. reply' = Catalog!Answered("NO_MATCHING_VERSION")
        \/ \E t : reply' = Catalog!Found(t)
    BY <1>15 DEF Search
  <2>3. reply'.answer \in {"OK", "NO_MATCHING_VERSION"}
    BY <2>2
  <2>4. constraint = [req |-> RequirementOf(request.mark), version |-> Reading(request.text)]
    BY <1>0, <2>1 DEF AskInv
  <2>5. QED  BY <1>a, <2>1, <2>3, <2>4 DEF AskInv
<1>16. CASE Scan
  <2>1. UNCHANGED <<world, request, reply, pc, constraint>>
    BY <1>16 DEF Scan
  <2>2. text' = text /\ p > 0
    <3>1. text' = text
      BY <1>16 DEF Scan, ScanStep, Alphanumeric, Separator, EndOfText
    <3>2. text \in Seq(Int)
      BY <1>0 DEF ScanInv, ScannerTypeOK
    <3>3. p \in 1..Len(text) \/ p = Len(text) + 1
      BY <1>16 DEF Scan, ScanStep, Alphanumeric, Separator, EndOfText
    <3>4. QED  BY <3>1, <3>2, <3>3, LenProperties
  <2>3. pc \in {"constraint", "version"}
    BY <1>a, <2>2
  <2>4. QED  BY <1>0, <2>1, <2>2, <2>3 DEF AskInv
<1>17. QED
  BY <1>3, <1>4, <1>5, <1>6, <1>7, <1>8, <1>9, <1>10, <1>11, <1>12, <1>13, <1>14,
     <1>15, <1>16 DEF Next, Work

-----------------------------------------------------------------------------
(* Packages while a directory is read.                                     *)

LEMMA Verdicts ==
  ASSUME NEW file
  PROVE  /\ file.kind # "file" => \A v : ~Judged(file, v)
         /\ \A v, w : Judged(file, v) /\ Judged(file, w) => v = w
BY DEF Judged

LEMMA PassedOver ==
  ASSUME NEW files, NEW l \in SUBSET files, NEW file \in l,
         ~Judged(file, "ok"), ~Judged(file, "abort"),
         \A f \in files \ l : ~Judged(f, "abort")
  PROVE  /\ Good(files \ (l \ {file})) = Good(files \ l)
         /\ \A f \in files \ (l \ {file}) : ~Judged(f, "abort")
BY DEF Good

LEMMA EmptyParts ==
  MeantBy(Good({})) = {} /\ \A S : <<>> \in Seq(S) /\ Len(<<>>) = 0 /\ ToSet(<<>>) = {}
BY DEF MeantBy, Good, ToSet

LEMMA NextReadInv ==
  ASSUME RepositoryInv, Next PROVE ReadInv'
<1>0. AskInv /\ ScanInv /\ ReadInv /\ ListInv
  BY DEF RepositoryInv
<1>a. /\ world \in Worlds
      /\ pc # "idle" => request.name \in Names
      /\ packages \in Seq(Package)
      /\ pc \in {"read", "version", "search"} => request.name \in cached
      /\ pc \in {"read", "version"} =>
           /\ Here.there /\ Here.files # {} /\ left \subseteq Here.files
           /\ \A file \in Here.files \ left : ~Judged(file, "abort")
  BY <1>0 DEF AskInv, ReadInv, Request
<1>1. ASSUME packages' = packages, pc' \notin {"read", "version"},
             pc' = "search" => request'.name \in cached'
      PROVE  ReadInv'
  BY <1>a, <1>1 DEF ReadInv
<1>2. ASSUME NEW file \in left, Opens(file), ~Judged(file, "ok"), ~Judged(file, "abort"),
             UNCHANGED <<world, request, pc, cached, packages>>
      PROVE  ReadInv'
  <2>1. pc = "read" /\ left' = left \ {file} /\ Here' = Here
    BY <1>2 DEF Opens, Here
  <2>2. /\ Good(Here.files \ left') = Good(Here.files \ left)
        /\ \A f \in Here.files \ left' : ~Judged(f, "abort")
        /\ left' \subseteq Here.files
    BY <1>2, <1>a, <2>1, PassedOver
  <2>3. ToSet(packages) = MeantBy(Good(Here.files \ left))
    BY <1>0, <2>1 DEF ReadInv
  <2>4. QED  BY <1>2, <1>a, <2>1, <2>2, <2>3 DEF ReadInv
<1>3. CASE Ask  BY <1>1, <1>3 DEF Ask
<1>4. CASE TakeConstraint  BY <1>1, <1>4 DEF TakeConstraint
<1>5. CASE AskOlder  BY <1>1, <1>5 DEF AskOlder
<1>6. CASE FindCached  BY <1>1, <1>6 DEF FindCached
<1>7. CASE FindUnknown  BY <1>1, <1>7 DEF FindUnknown, Afterwards
<1>8. CASE FindFiles
  <2>1. /\ pc' = "read" /\ left' = Here.files /\ packages' = <<>>
        /\ Here.there /\ Here.files # {}
        /\ cached' = cached \cup {request.name} /\ UNCHANGED <<world, request>>
    BY <1>8 DEF FindFiles
  <2>2. Here' = Here /\ Here.files \ left' = {}
    BY <2>1 DEF Here
  <2>3. ToSet(packages') = MeantBy(Good(Here'.files \ left'))
    BY <2>1, <2>2, EmptyParts
  <2>4. packages' \in Seq(Package)
    BY <2>1
  <2>5. QED  BY <2>1, <2>2, <2>3, <2>4 DEF ReadInv
<1>9. CASE SkipFile
  <2>1. PICK file \in left : Opens(file) /\ file.kind # "file"
    BY <1>9 DEF SkipFile
  <2>2. UNCHANGED <<world, request, pc, cached, packages>>
    BY <1>9 DEF SkipFile
  <2>3. QED  BY <1>2, <2>1, <2>2, Verdicts
<1>10. CASE RejectFile
  <2>1. PICK file \in left : Opens(file) /\ Judged(file, "bad")
    BY <1>10 DEF RejectFile
  <2>2. UNCHANGED <<world, request, pc, cached, packages>>
    BY <1>10 DEF RejectFile
  <2>3. ~Judged(file, "ok") /\ ~Judged(file, "abort")
    <3>1. "bad" # "ok" /\ "bad" # "abort"
      OBVIOUS
    <3>2. QED  BY <2>1, <3>1, Verdicts
  <2>4. QED  BY <1>2, <2>1, <2>2, <2>3
<1>11. CASE AbortOnFile  BY <1>1, <1>11 DEF AbortOnFile
<1>12. CASE ReadFile
  <2>1. PICK file \in left :
          /\ Opens(file) /\ Judged(file, "ok")
          /\ packages' = Append(packages, [title |-> file.title, version |-> <<>>])
          /\ Begin(NumberIn(file))
    BY <1>12 DEF ReadFile
  <2>2. /\ pc = "read" /\ left' = left \ {file} /\ pc' = "version" /\ text' = NumberIn(file)
        /\ UNCHANGED <<world, request, cached>>
    BY <1>12, <2>1 DEF ReadFile, Opens, Begin
  <2>3. Here' = Here /\ file \in Here.files /\ left \subseteq Here.files
    BY <1>a, <2>2 DEF Here
  <2>4. /\ file \in Good(Here.files \ left')
        /\ Good(Here.files \ left') \ {file} = Good(Here.files \ left)
        /\ left' \subseteq Here.files
        /\ \A f \in Here.files \ left' : ~Judged(f, "abort")
    <3>1. ~Judged(file, "abort")
      <4>1. "ok" # "abort"
        OBVIOUS
      <4>2. QED  BY <2>1, <4>1, Verdicts
    <3>2. QED  BY <1>a, <2>1, <2>2, <2>3, <3>1 DEF Good
  <2> DEFINE new == [title |-> file.title, version |-> <<>>]
             n == Len(packages)
  <2>5. new \in Package
    <3>1. file.title \in Texts
      BY <1>a, <2>2, <2>3, WorldFacts DEF Here
    <3>2. <<>> \in Version
      BY DEF Version
    <3>3. QED  BY <3>1, <3>2 DEF Package
  <2>6. /\ packages' \in Seq(Package) /\ packages' # <<>> /\ Len(packages') = n + 1 /\ n \in Nat
        /\ \A i \in 1..n : packages'[i] = packages[i]
        /\ packages'[n + 1] = new
    <3> HIDE DEF new
    <3>1. packages' = Append(packages, new) /\ packages \in Seq(Package)
      BY <1>a, <2>1 DEF new
    <3>2. QED  BY <2>5, <3>1, AppendProperties, LenProperties
  <2>7. packages'[Len(packages')].title = file.title
    BY <2>6
  <2>8. {packages'[i] : i \in 1..(Len(packages') - 1)} = MeantBy(Good(Here'.files \ left') \ {file})
    <3>1. ToSet(packages) = MeantBy(Good(Here.files \ left))
      BY <1>0, <2>2 DEF ReadInv
    <3>2. DOMAIN packages = 1..n
      BY <1>a, LenProperties
    <3> HIDE DEF n
    <3>3. Len(packages') - 1 = n
      BY <2>6
    <3>4. {packages'[i] : i \in 1..n} = {packages[i] : i \in 1..n}
      BY <2>6
    <3>5. QED  BY <2>3, <2>4, <3>1, <3>2, <3>3, <3>4 DEF ToSet
  <2> HIDE DEF new, n
  <2>9. file \in Good(Here'.files \ left')
    BY <2>3, <2>4
  <2>10. text' = NumberIn(file) /\ packages' # <<>>
    BY <2>2, <2>6
  <2>11. \E f \in Good(Here'.files \ left') :
           /\ packages' # <<>>
           /\ packages'[Len(packages')].title = f.title
           /\ text' = NumberIn(f)
           /\ {packages'[i] : i \in 1..(Len(packages') - 1)} =
                MeantBy(Good(Here'.files \ left') \ {f})
    BY <2>7, <2>8, <2>9, <2>10
  <2>12. /\ packages' \in Seq(Package) /\ request'.name \in cached' /\ pc' = "version"
         /\ Here'.there /\ Here'.files # {} /\ left' \subseteq Here'.files
         /\ \A f \in Here'.files \ left' : ~Judged(f, "abort")
    BY <1>a, <2>2, <2>3, <2>4, <2>6
  <2>13. pc' # "read"
    BY <2>12
  <2>14. QED  BY <2>11, <2>12, <2>13 DEF ReadInv
<1>13. CASE TakeVersion
  <2>1. /\ pc = "version" /\ p = 0 /\ pc' = "read"
        /\ packages' = [packages EXCEPT ![Len(packages)].version = VersionOf(text, found)]
        /\ UNCHANGED <<world, request, cached, left>>
    BY <1>13 DEF TakeVersion
  <2>2. Here' = Here
    BY <2>1 DEF Here
  <2>3. PICK file \in Good(Here.files \ left) :
          /\ packages # <<>>
          /\ packages[Len(packages)].title = file.title
          /\ text = NumberIn(file)
          /\ {packages[i] : i \in 1..(Len(packages) - 1)} =
               MeantBy(Good(Here.files \ left) \ {file})
    BY <1>0, <2>1 DEF ReadInv
  <2>4. VersionOf(text, found) = Reading(text) /\ Reading(text) \in Version
    <3>1. /\ text \in Seq(Int) /\ found \in Seq(Nat \X Nat) /\ InOrder(found)
          /\ {found[i] : i \in DOMAIN found} = RunsOf(text)
      BY <1>0, <2>1 DEF ScanInv, ScannerTypeOK, Components
    <3>2. QED  BY <3>1, ReadingIsFound
  <2> DEFINE n == Len(packages)
  <2>5. n \in Nat /\ n >= 1 /\ DOMAIN packages = 1..n /\ n \in 1..n
    BY <1>a, <2>3, LenProperties
  <2>6. packages[n] = [title |-> file.title, version |-> packages[n].version]
        /\ file.title \in Texts
    BY <1>a, <2>3, <2>5, PackageFields
  <2>7. Meant(file) \in Package
        /\ Meant(file) = [packages[n] EXCEPT !.version = VersionOf(text, found)]
    BY <2>3, <2>4, <2>6 DEF Meant, Package
  <2>8. packages' = [packages EXCEPT ![n] = Meant(file)]
    BY <2>1, <2>5, <2>7
  <2>9. packages' \in Seq(Package) /\ Len(packages') = n
    <3> HIDE DEF n
    <3>1. packages \in Seq(Package) /\ n = Len(packages) /\ n \in 1..Len(packages)
      BY <1>a, <2>5 DEF n
    <3>2. QED  BY <2>7, <2>8, <3>1, ExceptSeq
  <2> HIDE DEF n
  <2>10. DOMAIN packages' = 1..n /\ packages'[n] = Meant(file)
         /\ \A i \in 1..(n - 1) : packages'[i] = packages[i]
    BY <2>5, <2>8
  <2>11. ToSet(packages') = {packages[i] : i \in 1..(n - 1)} \cup {Meant(file)}
    <3>1. 1..n = (1..(n - 1)) \cup {n}
      BY <2>5
    <3>2. QED  BY <2>10, <3>1 DEF ToSet
  <2>12. MeantBy(Good(Here.files \ left)) =
           MeantBy(Good(Here.files \ left) \ {file}) \cup {Meant(file)}
    BY DEF MeantBy
  <2>13. ToSet(packages') = MeantBy(Good(Here'.files \ left'))
    BY <2>1, <2>2, <2>3, <2>11, <2>12 DEF n
  <2>14. QED  BY <1>a, <2>1, <2>2, <2>9, <2>13 DEF ReadInv
<1>14. CASE SortVersions
  <2>1. /\ pc = "read" /\ pc' = "search" /\ packages' = <<>> /\ UNCHANGED <<request, cached>>
    BY <1>14 DEF SortVersions
  <2>2. packages' \in Seq(Package)
    BY <2>1
  <2>3. QED  BY <1>a, <2>1, <2>2 DEF ReadInv
<1>15. CASE Search  BY <1>1, <1>15 DEF Search
<1>16. CASE Scan
  <2>1. UNCHANGED <<world, request, pc, cached, left, packages>> /\ text' = text
    BY <1>16 DEF Scan, ScanStep, Alphanumeric, Separator, EndOfText
  <2>2. ReadInv' = ReadInv
    BY <2>1 DEF ReadInv, Here
  <2>3. QED  BY <1>0, <2>2
<1>17. QED
  BY <1>3, <1>4, <1>5, <1>6, <1>7, <1>8, <1>9, <1>10, <1>11, <1>12, <1>13, <1>14,
     <1>15, <1>16 DEF Next, Work

-----------------------------------------------------------------------------
(* Lists.                                                                  *)

(* Files with different names are different packages.                      *)
LEMMA AsManyPackages ==
  ASSUME NEW files, IsFiniteSet(files), \A f, g \in files : f.title = g.title => f = g
  PROVE  IsFiniteSet(MeantBy(Good(files)))
         /\ Cardinality(MeantBy(Good(files))) = Cardinality(Good(files))
<1> DEFINE F == Good(files)
           m == [f \in F |-> Meant(f)]
<1>1. F \subseteq files /\ IsFiniteSet(F)
  <2>1. F \subseteq files
    BY DEF Good
  <2>2. QED  BY <2>1, FS_Subset
<1>2. m \in [F -> MeantBy(F)] /\ \A x \in MeantBy(F) : \E f \in F : m[f] = x
  BY DEF MeantBy
<1>3. \A f, g \in F : m[f] = m[g] => f = g
  <2>1. ASSUME NEW f \in F, NEW g \in F, m[f] = m[g] PROVE f = g
    <3>1. Meant(f).title = f.title /\ Meant(g).title = g.title
      BY DEF Meant
    <3>2. f.title = g.title /\ f \in files /\ g \in files
      BY <1>1, <2>1, <3>1
    <3>3. QED  BY <3>2
  <2>2. QED  BY <2>1
<1> HIDE DEF F, m
<1>4. m \in Bijection(F, MeantBy(F))
  BY <1>2, <1>3 DEF Bijection, Injection, Surjection, IsInjective
<1>5. QED  BY <1>1, <1>4, FS_Bijection DEF ExistsBijection, F

LEMMA KeepsLists ==
  ASSUME ListInv, world' = world, cache' = cache, cached \subseteq cached',
         cached' \subseteq Names, Listed' \subseteq Listed, pc # "stopped"
  PROVE  ListInv'
<1>1. \A n \in Listed' :
        /\ TrueTo(cache'[n], world'.dirs[n].files)
        /\ \A file \in world'.dirs[n].files : ~Judged(file, "abort")
        /\ world'.dirs[n].there /\ world'.dirs[n].files # {}
  BY DEF ListInv
<1>2. QED  BY <1>1 DEF ListInv

LEMMA AllListed ==
  ASSUME AskInv, pc \notin {"read", "version", "stopped"} PROVE Listed = cached
<1>1. reply.answer # "aborted"
  <2>1. CASE pc = "idle"
    BY <2>1 DEF AskInv
  <2>2. CASE pc # "idle"
    BY <2>2, Replies DEF AskInv
  <2>3. QED  BY <2>1, <2>2
<1>2. QED  BY <1>1 DEF Listed

LEMMA OthersListed ==
  ASSUME pc \in {"read", "version"} , AskInv PROVE Listed = cached \ {request.name}
<1>1. reply.answer # "aborted"
  BY Replies DEF AskInv
<1>2. QED  BY <1>1 DEF Listed

(* What a step does to the complete lists: only sorting adds one, and only *)
(* who is told that there is no package has another name in the cache.     *)
LEMMA NextListed ==
  ASSUME RepositoryInv, Next
  PROVE  /\ pc # "stopped" /\ world' = world
         /\ Listed \subseteq Listed'
         /\ \A n \in Listed : cache'[n] = cache[n]
         /\ ~FindUnknown /\ ~SortVersions =>
              /\ cache' = cache /\ cached \subseteq cached' /\ cached' \subseteq Names
              /\ Listed' \subseteq Listed
<1>0. AskInv /\ ReadInv /\ ListInv
  BY DEF RepositoryInv
<1>a. /\ Listed \subseteq cached /\ Listed' \subseteq cached' /\ cached \subseteq Names
      /\ pc # "idle" => request.name \in Names
  BY <1>0 DEF Listed, ListInv, AskInv, Request
<1> USE Replies
<1>1. ASSUME pc \notin {"read", "version", "stopped"}, cached' = cached, cache' = cache,
             world' = world, pc' \notin {"read", "version"}, reply'.answer # "aborted"
      PROVE  /\ pc # "stopped" /\ world' = world
             /\ Listed \subseteq Listed'
             /\ \A n \in Listed : cache'[n] = cache[n]
             /\ cache' = cache /\ cached \subseteq cached' /\ cached' \subseteq Names
             /\ Listed' \subseteq Listed
  <2>1. Listed = cached
    BY <1>0, <1>1, AllListed
  <2>2. Listed' = cached'
    BY <1>1 DEF Listed
  <2>3. QED  BY <1>1, <1>a, <2>1, <2>2
<1>2. ASSUME pc \in {"read", "version"}, cached' = cached, cache' = cache,
             world' = world, request' = request,
             pc' \in {"read", "version"} \/ reply'.answer = "aborted",
             reply' = reply \/ reply'.answer = "aborted"
      PROVE  /\ pc # "stopped" /\ world' = world
             /\ Listed \subseteq Listed'
             /\ \A n \in Listed : cache'[n] = cache[n]
             /\ cache' = cache /\ cached \subseteq cached' /\ cached' \subseteq Names
             /\ Listed' \subseteq Listed
  <2>1. Listed = cached \ {request.name}
    BY <1>0, <1>2, OthersListed
  <2>2. Listed' = cached \ {request.name}
    BY <1>2 DEF Listed
  <2>3. QED  BY <1>2, <1>a, <2>1, <2>2
<1>3. CASE Ask  BY <1>1, <1>3 DEF Ask
<1>4. CASE TakeConstraint
  <2>1. reply = Catalog!Pending
    BY <1>0, <1>4 DEF TakeConstraint, AskInv
  <2>2. reply' = reply
    BY <1>4 DEF TakeConstraint
  <2>3. QED  BY <1>1, <1>4, <2>1, <2>2 DEF TakeConstraint
<1>5. CASE AskOlder  BY <1>1, <1>5 DEF AskOlder
<1>6. CASE FindCached
  <2>1. reply = Catalog!Pending
    BY <1>0, <1>6 DEF FindCached, AskInv
  <2>2. reply' = reply
    BY <1>6 DEF FindCached
  <2>3. QED  BY <1>1, <1>6, <2>1, <2>2 DEF FindCached
<1>7. CASE FindUnknown
  <2>1. /\ pc = "find" /\ pc' = "stopped" /\ reply'.answer = "UNKNOWN"
        /\ cached' = cached \cup {request.name} /\ UNCHANGED <<world, cache>>
    BY <1>7 DEF FindUnknown, Afterwards
  <2>2. Listed' = cached'
    BY <2>1 DEF Listed
  <2>3. QED  BY <1>7, <1>a, <2>1, <2>2
<1>8. CASE FindFiles
  <2>1. /\ pc = "find" /\ pc' = "read" /\ request.name \notin cached
        /\ cached' = cached \cup {request.name} /\ UNCHANGED <<world, cache, request>>
        /\ reply' = reply
    BY <1>8 DEF FindFiles
  <2>2. Listed = cached
    BY <1>0, <2>1, AllListed
  <2>3. reply'.answer = "pending"
    BY <1>0, <2>1 DEF AskInv
  <2>4. Listed' = cached
    BY <2>1, <2>3 DEF Listed
  <2>5. QED  BY <1>a, <2>1, <2>2, <2>4
<1>9. CASE SkipFile
  BY <1>2, <1>9 DEF SkipFile, Opens
<1>10. CASE RejectFile
  BY <1>2, <1>10 DEF RejectFile, Opens
<1>11. CASE AbortOnFile
  BY <1>2, <1>11 DEF AbortOnFile, Opens
<1>12. CASE ReadFile
  BY <1>2, <1>12 DEF ReadFile, Opens
<1>13. CASE TakeVersion
  BY <1>2, <1>13 DEF TakeVersion
<1>14. CASE SortVersions
  <2>1. /\ pc = "read" /\ pc' = "search" /\ UNCHANGED <<world, cached, request, reply>>
    BY <1>14 DEF SortVersions
  <2>2. PICK list : cache' = [cache EXCEPT ![request.name] = list]
    BY <1>14 DEF SortVersions
  <2>3. Listed = cached \ {request.name}
    BY <1>0, <2>1, OthersListed
  <2>4. reply'.answer = "pending"
    BY <1>0, <2>1 DEF AskInv
  <2>5. Listed' = cached
    BY <2>1, <2>4 DEF Listed
  <2>6. cache \in [Names -> Seq(Package)]
    BY <1>0 DEF ListInv
  <2>7. \A n \in Listed : cache'[n] = cache[n]
    BY <1>a, <2>2, <2>3, <2>6
  <2>8. QED  BY <1>14, <2>1, <2>3, <2>5, <2>7
<1>15. CASE Search
  <2>1. /\ pc = "search" /\ pc' = "idle" /\ UNCHANGED <<world, cached, cache>>
    BY <1>15 DEF Search
  <2>2. reply' = Catalog!Answered("NO_MATCHING_VERSION")
        \/ \E t : reply' = Catalog!Found(t)
    BY <1>15 DEF Search
  <2>3. reply'.answer # "aborted"
    BY <2>2
  <2>4. QED  BY <1>1, <2>1, <2>3
<1>16. CASE Scan
  <2>1. UNCHANGED <<world, request, reply, pc, cached, cache>>
    BY <1>16 DEF Scan
  <2>2. p > 0
    <3>1. p \in 1..Len(text) \/ p = Len(text) + 1
      BY <1>16 DEF Scan, ScanStep, Alphanumeric, Separator, EndOfText
    <3>2. text \in Seq(Int)
      BY DEF RepositoryInv, ScanInv, ScannerTypeOK
    <3>3. QED  BY <3>1, <3>2, LenProperties
  <2>3. pc \in {"constraint", "version"}
    BY <1>0, <2>2 DEF AskInv
  <2>4. CASE pc = "constraint"
    <3>1. reply = Catalog!Pending
      BY <1>0, <2>4 DEF AskInv
    <3>2. QED  BY <1>1, <2>1, <2>4, <3>1
  <2>5. CASE pc = "version"
    BY <1>2, <2>1, <2>5
  <2>6. QED  BY <2>3, <2>4, <2>5
<1>17. QED
  BY <1>3, <1>4, <1>5, <1>6, <1>7, <1>8, <1>9, <1>10, <1>11, <1>12, <1>13, <1>14,
     <1>15, <1>16 DEF Next, Work

LEMMA NextListInv ==
  ASSUME RepositoryInv, Next PROVE ListInv'
<1>0. AskInv /\ ReadInv /\ ListInv
  BY DEF RepositoryInv
<1>a. /\ cached \subseteq Names /\ cache \in [Names -> Seq(Package)]
      /\ \A n \in Names \ cached : cache[n] = <<>>
      /\ world \in Worlds
      /\ pc # "idle" => request.name \in Names
  BY <1>0 DEF ListInv, AskInv, Request
<1>1. CASE ~FindUnknown /\ ~SortVersions
  BY <1>0, <1>1, NextListed, KeepsLists
<1>2. CASE FindUnknown
  <2>1. /\ pc = "find" /\ pc' = "stopped" /\ request.name \notin cached
        /\ ~Here.there \/ Here.files = {}
        /\ cached' = cached \cup {request.name} /\ UNCHANGED <<world, cache>>
    BY <1>2 DEF FindUnknown, Afterwards
  <2>2. request.name \in Names /\ cache[request.name] = <<>>
    BY <1>a, <2>1
  <2>3. Here = world.dirs[request.name]
    BY DEF Here
  <2>4. Here.files = {}
    BY <1>a, <2>1, <2>2, <2>3, WorldFacts
  <2>5. TrueTo(<<>>, {})
    <3>1. Good({}) = {} /\ Cardinality({}) = 0
      BY FS_EmptySet DEF Good
    <3>2. Len(<<>>) = Cardinality(Good({}))
      BY <3>1
    <3>3. ToSet(<<>>) = MeantBy(Good({}))
      BY EmptyParts
    <3>4. Sorted(<<>>)
      BY DEF Sorted
    <3>5. QED  BY <3>2, <3>3, <3>4 DEF TrueTo
  <2>6. Listed = cached
    BY <1>0, <2>1, AllListed
  <2>7. Listed' \subseteq cached \cup {request.name}
    BY <2>1 DEF Listed
  <2>8. ASSUME NEW n \in Listed'
        PROVE  /\ TrueTo(cache'[n], world'.dirs[n].files)
               /\ \A file \in world'.dirs[n].files : ~Judged(file, "abort")
    <3>1. CASE n \in Listed
      BY <1>0, <2>1, <3>1 DEF ListInv
    <3>2. CASE n \notin Listed
      <4>1. n = request.name
        BY <2>6, <2>7, <2>8, <3>2
      <4>2. cache'[n] = <<>> /\ world'.dirs[n].files = {}
        BY <2>1, <2>2, <2>3, <2>4, <4>1
      <4>3. QED  BY <2>5, <4>2
    <3>3. QED  BY <3>1, <3>2
  <2>9. cached' \subseteq Names /\ cache' \in [Names -> Seq(Package)]
        /\ \A n \in Names \ cached' : cache'[n] = <<>>
    BY <1>a, <2>1, <2>2
  <2>10. QED  BY <2>1, <2>8, <2>9 DEF ListInv
<1>3. CASE SortVersions
  <2>1. /\ pc = "read" /\ pc' = "search" /\ left = {} /\ UNCHANGED <<world, cached, request, reply>>
    BY <1>3 DEF SortVersions
  <2>2. PICK list \in SetToSeqs(ToSet(packages)) :
          Sorted(list) /\ cache' = [cache EXCEPT ![request.name] = list]
    BY <1>3 DEF SortVersions
  <2> DEFINE files == world.dirs[request.name].files
  <2>3. Here.files = files /\ Here.files \ left = files
    BY <2>1 DEF Here
  <2>4. /\ ToSet(packages) = MeantBy(Good(files))
        /\ \A f \in files : ~Judged(f, "abort")
        /\ world.dirs[request.name].there /\ files # {}
        /\ request.name \in cached /\ request.name \in Names
    BY <1>0, <1>a, <2>1, <2>3 DEF ReadInv, Here
  <2>5. /\ IsFiniteSet(files)
        /\ \A f, g \in files : f.title = g.title => f = g
    BY <1>a, <2>4, WorldFacts
  <2> HIDE DEF files
  <2>6. /\ IsFiniteSet(ToSet(packages))
        /\ Cardinality(ToSet(packages)) = Cardinality(Good(files))
    BY <2>4, <2>5, AsManyPackages
  <2>7. /\ Cardinality(ToSet(packages)) \in Nat
        /\ list \in [1..Cardinality(ToSet(packages)) -> ToSet(packages)]
        /\ Len(list) = Cardinality(Good(files))
        /\ ToSet(list) = MeantBy(Good(files))
    BY <2>2, <2>4, <2>6, EnumeratesAll
  <2>8. ToSet(packages) \subseteq Package
    <3>1. packages \in Seq(Package)
      BY <1>0 DEF ReadInv
    <3>2. QED  BY <3>1, LenProperties, ElementOfSeq DEF ToSet
  <2>9. list \in Seq(Package)
    BY <2>7, <2>8, IsASeq
  <2>10. TrueTo(list, files)
    BY <2>2, <2>7 DEF TrueTo
  <2>11. cache' \in [Names -> Seq(Package)] /\ cache'[request.name] = list
         /\ \A n \in Names : n # request.name => cache'[n] = cache[n]
    BY <1>a, <2>2, <2>4, <2>9
  <2>12. Listed = cached \ {request.name} /\ Listed' \subseteq cached
    BY <1>0, <2>1, OthersListed DEF Listed
  <2>13. ASSUME NEW n \in Listed'
         PROVE  /\ TrueTo(cache'[n], world'.dirs[n].files)
                /\ \A file \in world'.dirs[n].files : ~Judged(file, "abort")
                /\ world'.dirs[n].there /\ world'.dirs[n].files # {}
    <3>1. CASE n = request.name
      BY <2>1, <2>4, <2>10, <2>11, <3>1 DEF files
    <3>2. CASE n # request.name
      <4>1. n \in Listed /\ n \in Names /\ cache'[n] = cache[n]
        BY <1>a, <2>11, <2>12, <3>2
      <4>2. QED  BY <1>0, <2>1, <4>1 DEF ListInv
    <3>3. QED  BY <3>1, <3>2
  <2>14. cached' \subseteq Names /\ \A n \in Names \ cached' : cache'[n] = <<>>
    BY <1>a, <2>1, <2>4, <2>11
  <2>15. QED  BY <2>11, <2>13, <2>14 DEF ListInv
<1>4. QED  BY <1>1, <1>2, <1>3

LEMMA NextInv ==
  ASSUME RepositoryInv, [Next]_vars PROVE RepositoryInv'
<1>1. CASE Next
  BY <1>1, NextScanInv, NextAskInv, NextReadInv, NextListInv DEF RepositoryInv
<1>2. CASE UNCHANGED vars
  <2>1. ScanInv'
    BY <1>2, ScanInvNext DEF vars, RepositoryInv
  <2>2. AskInv' = AskInv
    BY <1>2 DEF vars, svars, AskInv
  <2>3. ReadInv' = ReadInv
    BY <1>2 DEF vars, svars, ReadInv, Here
  <2>4. ListInv' = ListInv
    BY <1>2 DEF vars, svars, ListInv, Listed
  <2>5. QED  BY <2>1, <2>2, <2>3, <2>4 DEF RepositoryInv
<1>3. QED  BY <1>1, <1>2

LEMMA Invariance == Spec => []RepositoryInv
<1>1. RepositoryInv /\ [Next]_vars => RepositoryInv'
  BY NextInv
<1>2. QED  BY InitInv, <1>1, PTL DEF Spec

(* Every state of the repository is well-typed, for any directories.       *)
THEOREM RepositoryTyped == Spec => []RepositoryTypeOK
<1>1. ASSUME RepositoryInv PROVE RepositoryTypeOK
  <2>1. ScannerTypeOK /\ AskInv /\ ReadInv /\ ListInv
    BY <1>1 DEF RepositoryInv, ScanInv
  <2>2. (reply = Catalog!Pending) = (pc \notin {"idle", "stopped"})
    BY <2>1 DEF AskInv
  <2>3. pc = "version" => packages # <<>>
    BY <2>1 DEF ReadInv
  <2>4. pc \in {"read", "version"} => left \subseteq world.dirs[request.name].files
    BY <2>1 DEF ReadInv, Here
  <2>5. /\ cached \subseteq Names /\ cache \in [Names -> Seq(Package)]
        /\ \A n \in Names \ cached : cache[n] = <<>>
    BY <2>1 DEF ListInv
  <2>6. /\ pc \in {"idle", "constraint", "find", "read", "version", "search", "stopped"}
        /\ p > 0 => pc \in {"constraint", "version"}
        /\ constraint \in Constraint
    BY <2>1 DEF AskInv
  <2>7. packages \in Seq(Package)
    BY <2>1 DEF ReadInv
  <2>8. QED  BY <2>1, <2>2, <2>3, <2>4, <2>5, <2>6, <2>7 DEF RepositoryTypeOK
<1>2. QED  BY Invariance, <1>1, PTL

(* Every version number and every constraint that the repository reads is  *)
(* read as its longest stretches of digits and of letters.                 *)
THEOREM RepositoryReadsRuns == Spec => []ComponentsAreRuns
<1>1. RepositoryInv => ComponentsAreRuns
  BY DEF RepositoryInv, ScanInv, ComponentsAreRuns, Components
<1>2. QED  BY Invariance, <1>1, PTL

(* A complete list is what is on disk, whatever order the files were read  *)
(* in, whichever do not parse and whatever else was asked for.             *)
THEOREM CacheTrue == Spec => []CacheIsTrue
<1>1. RepositoryInv => CacheIsTrue
  BY TrueLists DEF RepositoryInv, ListInv
<1>2. QED  BY Invariance, <1>1, PTL

(* A package that was handed out is never read again.                      *)
THEOREM HandedOut == Spec => HandedOutStays
<1>1. ASSUME RepositoryInv, [Next]_vars
      PROVE  [\A n \in Listed : n \in Listed' /\ cache'[n] = cache[n]]_vars
  <2>1. CASE Next
    BY <1>1, <2>1, NextListed
  <2>2. CASE UNCHANGED vars
    BY <2>2
  <2>3. QED  BY <1>1, <2>1, <2>2
<1>2. QED  BY Invariance, <1>1, PTL DEF Spec, HandedOutStays

-----------------------------------------------------------------------------
(* The search of a list.                                                   *)

LEMMA LastIsMax ==
  ASSUME NEW n \in Nat, NEW S \in SUBSET (1..n)
  PROVE  /\ S = {} => Last1(S) = 0
         /\ S # {} => Last1(S) \in S /\ \A j \in S : j <= Last1(S)
<1> DEFINE T == S \cup {0}
           D == {i \in Nat : \E j \in T : i = n - j}
<1>1. \A j \in T : j \in Nat /\ j <= n
  OBVIOUS
<1>2. D \in SUBSET Nat /\ D # {}
  <2>1. 0 \in T /\ n = n - 0
    OBVIOUS
  <2>2. n \in D
    BY <2>1
  <2>3. QED  BY <2>2
<1>3. PICK x \in D : \A i \in D : x <= i
  <2> HIDE DEF D
  <2>1. QED  BY <1>2, Least
<1>4. PICK m \in T : x = n - m
  BY <1>3
<1>5. ASSUME NEW j \in T PROVE m >= j
  <2>1. j \in Nat /\ j <= n /\ m \in Nat /\ m <= n
    BY <1>1, <1>4
  <2>2. n - j \in D
    BY <2>1
  <2>3. x <= n - j
    BY <1>3, <2>2
  <2>4. QED  BY <1>4, <2>1, <2>3
<1> HIDE DEF D
<1>6. Max(T) \in T /\ \A j \in T : Max(T) >= j
  BY <1>4, <1>5 DEF Max
<1>7. Last1(S) = Max(T)
  BY DEF Last1
<1>8. CASE S = {}
  BY <1>6, <1>7, <1>8
<1>9. CASE S # {}
  <2>1. PICK j \in S : TRUE
    BY <1>9
  <2>2. Max(T) \in Nat /\ j \in 1..n /\ Max(T) >= j
    BY <1>1, <1>6
  <2>3. Max(T) # 0
    BY <2>2
  <2>4. ASSUME NEW k \in S PROVE k <= Max(T)
    <3>1. k \in Nat /\ Max(T) >= k
      BY <1>6
    <3>2. QED  BY <2>2, <3>1
  <2>5. QED  BY <1>6, <1>7, <2>3, <2>4
<1>10. QED  BY <1>8, <1>9

LEMMA OneConstraint ==
  ASSUME NEW v, NEW c
  PROVE  MatchesConstraints(v, <<c>>) <=> Meets(v, c)
<1>1. DOMAIN <<c>> = {1} /\ <<c>>[1] = c
  OBVIOUS
<1>2. 1..(1 - 1) = {}
  OBVIOUS
<1>3. QED  BY <1>1, <1>2 DEF MatchesConstraints

(* The search ends at the newest of the files that fit.                    *)
LEMMA SearchFindsNewest ==
  ASSUME RepositoryInv, pc = "search", NEW list, list = cache[request.name]
  PROVE  IF FirstMatch(list) = 0
           THEN Catalog!Newest = {}
           ELSE \E file \in Catalog!Newest : file.title = list[FirstMatch(list)].title
<1> DEFINE files == world.dirs[request.name].files
           n == Len(list)
           A == {i \in DOMAIN list :
                   request.older => Compare(list[i].version, request.less) < 0}
           F == Last1(A)
           B == {i \in 1..F : MatchesConstraints(list[i].version, <<constraint>>)}
           M == Last1(B)
<1>1. AskInv /\ ReadInv /\ ListInv
  BY DEF RepositoryInv
<1>2. /\ request \in Request /\ request.name \in Names /\ request.name \in cached
      /\ request.less \in Version
      /\ constraint = [req |-> RequirementOf(request.mark),
                       version |-> Reading(request.text)]
  BY <1>1 DEF AskInv, ReadInv, Request
<1>3. list \in Seq(Package) /\ TrueTo(list, files)
  <2>1. request.name \in Listed
    BY <1>1, <1>2, AllListed
  <2>2. QED  BY <1>1, <1>2, <2>1 DEF ListInv
<1>4. n \in Nat /\ DOMAIN list = 1..n /\ \A i \in 1..n : list[i].version \in Version
  BY <1>3, LenProperties, PackageFields
<1>5. /\ \A f \in Good(files) : \E i \in 1..n : list[i] = Meant(f)
      /\ \A i \in 1..n : \E f \in Good(files) : list[i] = Meant(f)
  <2>1. ToSet(list) = MeantBy(Good(files))
    BY <1>3 DEF TrueTo
  <2>2. QED  BY <1>4, <2>1 DEF ToSet, MeantBy
<1>6. \A i, j \in 1..n : i < j => Compare(list[i].version, list[j].version) <= 0
  BY <1>3, <1>4 DEF TrueTo, Sorted
<1>7. Catalog!Readable = Good(files)
  BY DEF Catalog!Readable, Catalog!Directory, Good
<1> HIDE DEF files, n
<1>8. /\ A \in SUBSET (1..n)
      /\ A = {} => F = 0
      /\ A # {} => F \in A /\ \A j \in A : j <= F
  <2>1. A \in SUBSET (1..n)
    BY <1>4
  <2> HIDE DEF A
  <2>2. QED  BY <1>4, <2>1, LastIsMax
<1>9. \A i \in 1..n : i <= F <=> i \in A
  <2>1. ASSUME NEW i \in 1..n, i <= F PROVE i \in A
    <3>1. F \in A /\ F \in 1..n
      BY <1>4, <1>8, <2>1
    <3>2. CASE i = F
      BY <3>1, <3>2
    <3>3. CASE i # F
      <4>1. i < F
        BY <1>4, <2>1, <3>1, <3>3
      <4>2. Compare(list[i].version, list[F].version) <= 0
        BY <1>6, <3>1, <4>1
      <4>3. ASSUME request.older PROVE Compare(list[i].version, request.less) < 0
        <5>1. Compare(list[F].version, request.less) < 0
          BY <3>1, <4>3
        <5>2. /\ list[i].version \in Version /\ list[F].version \in Version
              /\ request.less \in Version
          BY <1>2, <1>4, <3>1
        <5>3. QED  BY <4>2, <5>1, <5>2, CompareOrder
      <4>4. QED  BY <1>4, <4>3
    <3>4. QED  BY <3>2, <3>3
  <2>2. ASSUME NEW i \in A PROVE i <= F
    BY <1>8
  <2> HIDE DEF A, F
  <2>3. QED  BY <2>1, <2>2
<1>10. F \in Nat /\ F <= n
  BY <1>4, <1>8
<1>11. /\ B \in SUBSET (1..n)
       /\ B = {} => M = 0
       /\ B # {} => M \in B /\ \A j \in B : j <= M
  <2>1. B \in SUBSET (1..n)
    <3> HIDE DEF A, F
    <3>1. B \in SUBSET (1..F)
      OBVIOUS
    <3>2. 1..F \subseteq 1..n
      BY <1>4, <1>10
    <3>3. QED  BY <3>1, <3>2
  <2> HIDE DEF B
  <2>2. QED  BY <1>4, <2>1, LastIsMax
<1>12. ASSUME NEW f \in Good(files), NEW i \in 1..n, list[i] = Meant(f)
       PROVE  f \in Catalog!Fitting <=> i \in B
  <2>1. list[i].version = Reading(NumberIn(f))
    BY <1>12 DEF Meant
  <2>2. Catalog!InReach(list[i].version) <=> i \in A
    BY <1>4 DEF Catalog!InReach
  <2>3. i \in 1..F <=> i \in A
    <3> HIDE DEF A, F
    <3>1. i \in 1..F <=> i <= F
      BY <1>4, <1>10
    <3>2. QED  BY <1>9, <3>1
  <2>4. Meets(list[i].version, constraint)
          <=> MatchesConstraints(list[i].version, <<constraint>>)
    BY OneConstraint
  <2> HIDE DEF A, F
  <2>5. i \in B <=> Catalog!InReach(list[i].version) /\ Meets(list[i].version, constraint)
    BY <2>2, <2>3, <2>4
  <2>6. f \in Catalog!Fitting <=>
          Catalog!InReach(list[i].version) /\ Meets(list[i].version, constraint)
    BY <1>2, <1>7, <2>1, <1>12 DEF Catalog!Fitting
  <2>7. QED  BY <2>5, <2>6
<1>13. FirstMatch(list) = M
  BY <1>10 DEF FirstMatch, From
<1>14. Catalog!Fitting \subseteq Good(files)
  BY <1>7 DEF Catalog!Fitting
<1> HIDE DEF A, F, B, M
<1>15. CASE M = 0
  <2>1. B = {}
    BY <1>4, <1>11, <1>15
  <2>2. Catalog!Fitting = {}
    BY <1>5, <1>12, <1>14, <2>1
  <2>3. QED  BY <1>13, <1>15, <2>2 DEF Catalog!Newest
<1>16. CASE M # 0
  <2>1. M \in B /\ M \in 1..n /\ \A j \in B : j <= M
    BY <1>11, <1>16
  <2>2. PICK f \in Good(files) : list[M] = Meant(f)
    BY <1>5, <2>1
  <2>3. f \in Catalog!Fitting
    BY <1>12, <2>1, <2>2
  <2>4. list[M].version = Reading(NumberIn(f)) /\ list[M].title = f.title
    BY <2>2 DEF Meant
  <2>5. ASSUME NEW g \in Catalog!Fitting
        PROVE  Compare(Reading(NumberIn(g)), Reading(NumberIn(f))) <= 0
    <3>1. PICK j \in 1..n : list[j] = Meant(g)
      BY <1>5, <1>14
    <3>2. j \in B /\ list[j].version = Reading(NumberIn(g))
      BY <1>12, <1>14, <3>1 DEF Meant
    <3>3. j <= M
      BY <2>1, <3>2
    <3>4. CASE j = M
      <4>1. Compare(list[M].version, list[M].version) = 0
        BY <1>4, <2>1, CompareOrder
      <4>2. QED  BY <2>4, <3>2, <3>4, <4>1
    <3>5. CASE j # M
      <4>1. j < M
        BY <1>4, <2>1, <3>3, <3>5
      <4>2. QED  BY <1>6, <2>1, <2>4, <3>2, <4>1
    <3>6. QED  BY <3>4, <3>5
  <2>6. f \in Catalog!Newest
    BY <2>3, <2>5 DEF Catalog!Newest
  <2>7. QED  BY <1>13, <1>16, <2>4, <2>6
<1>17. QED  BY <1>15, <1>16

-----------------------------------------------------------------------------
(* The repository and the packages directory.                              *)

LEMMA Simulates ==
  ASSUME RepositoryInv, Next
  PROVE  [Catalog!CatalogNext]_(Catalog!catalogVars)
<1>0. AskInv /\ ReadInv /\ ListInv
  BY DEF RepositoryInv
<1>1. ASSUME UNCHANGED <<world, request, reply>>
      PROVE  UNCHANGED Catalog!catalogVars
  BY <1>1 DEF Catalog!catalogVars
<1>2. Here = Catalog!Directory
  BY DEF Here, Catalog!Directory
<1>3. CASE Ask
  <2>1. reply.answer \in {"none", "OK", "NO_MATCHING_VERSION"}
    BY <1>0, <1>3 DEF Ask, AskInv
  <2>2. Catalog!Ask
    BY <1>3, <2>1 DEF Ask, Catalog!Ask
  <2>3. QED  BY <2>2 DEF Catalog!CatalogNext
<1>4. CASE AskOlder
  <2>1. /\ pc = "idle" /\ reply' = Catalog!Pending /\ UNCHANGED world
        /\ reply.answer \in {"none", "OK", "NO_MATCHING_VERSION"}
    BY <1>0, <1>4 DEF AskOlder, AskInv
  <2>a. PICK query \in world.queries :
          \E i \in DOMAIN cache[query.name] :
            request' = [Catalog!Asked(query) EXCEPT !.older = TRUE,
                                                   !.less = cache[query.name][i].version]
    BY <1>4 DEF AskOlder
  <2>2. PICK i \in DOMAIN cache[query.name] :
          request' = [Catalog!Asked(query) EXCEPT !.older = TRUE,
                                                 !.less = cache[query.name][i].version]
    BY <2>a
  <2> DEFINE list == cache[query.name]
             files == world.dirs[query.name].files
  <2>3. query.name \in Names
    BY <1>0, WorldFacts DEF AskInv
  <2>4. query.name \in cached
    BY <1>0, <2>3, ListOf
  <2>5. query.name \in Listed
    BY <1>0, <2>1, <2>4, AllListed
  <2>6. ToSet(list) = MeantBy(Good(files))
    BY <1>0, <2>5 DEF ListInv, TrueTo
  <2>7. PICK file \in Good(files) : list[i] = Meant(file)
    BY <2>2, <2>6 DEF ToSet, MeantBy
  <2>8. file \in files /\ Judged(file, "ok")
    BY <2>7 DEF Good
  <2>9. list[i].version = Reading(NumberIn(file))
    BY <2>7 DEF Meant
  <2>10. request' = [Catalog!Asked(query) EXCEPT !.older = TRUE,
                                               !.less = Reading(NumberIn(file))]
    BY <2>2, <2>9
  <2>11. Catalog!AskOlder
    BY <2>1, <2>8, <2>10 DEF Catalog!AskOlder
  <2>12. QED  BY <2>11 DEF Catalog!CatalogNext
<1>5. CASE FindUnknown
  <2>1. /\ pc = "find" /\ (~Here.there \/ Here.files = {})
        /\ reply' = Catalog!Answered("UNKNOWN") /\ UNCHANGED <<world, request>>
    BY <1>5 DEF FindUnknown
  <2>2. reply = Catalog!Pending
    BY <1>0, <2>1 DEF AskInv
  <2>3. ~Catalog!Directory.there \/ Catalog!Directory.files = {}
    BY <1>2, <2>1
  <2>4. Catalog!Reply
    BY <2>1, <2>2, <2>3 DEF Catalog!Reply
  <2>5. QED  BY <2>4 DEF Catalog!CatalogNext
<1>6. CASE AbortOnFile
  <2>1. PICK file \in left : Opens(file) /\ Judged(file, "abort")
    BY <1>6 DEF AbortOnFile
  <2>2. pc = "read" /\ reply' = Catalog!Answered("aborted") /\ UNCHANGED <<world, request>>
    BY <1>6, <2>1 DEF AbortOnFile, Opens
  <2>3. reply = Catalog!Pending
    BY <1>0, <2>2 DEF AskInv
  <2>4. Here.there /\ file \in Here.files
    BY <1>0, <2>2 DEF ReadInv
  <2>5. /\ Catalog!Directory.there /\ Catalog!Directory.files # {}
        /\ \E f \in Catalog!Directory.files : Judged(f, "abort")
    BY <1>2, <2>1, <2>4
  <2>6. Catalog!Reply
    BY <2>2, <2>3, <2>5 DEF Catalog!Reply
  <2>7. QED  BY <2>6 DEF Catalog!CatalogNext
<1>7. CASE Search
  <2> DEFINE list == cache[request.name]
  <2>1. /\ pc = "search" /\ UNCHANGED <<world, request>>
        /\ reply' = IF FirstMatch(list) = 0
                      THEN Catalog!Answered("NO_MATCHING_VERSION")
                      ELSE Catalog!Found(list[FirstMatch(list)].title)
    BY <1>7 DEF Search
  <2>2. reply = Catalog!Pending
    BY <1>0, <2>1 DEF AskInv
  <2>3. request.name \in Listed
    BY <1>0, <2>1, AllListed DEF ReadInv
  <2>4. /\ Catalog!Directory.there /\ Catalog!Directory.files # {}
        /\ ~\E f \in Catalog!Directory.files : Judged(f, "abort")
    BY <1>0, <2>1, <2>3 DEF ListInv, Catalog!Directory
  <2>5. IF FirstMatch(list) = 0
          THEN Catalog!Newest = {}
          ELSE \E file \in Catalog!Newest : file.title = list[FirstMatch(list)].title
    BY <2>1, SearchFindsNewest
  <2> HIDE DEF list
  <2>6. \/ Catalog!Newest = {} /\ reply' = Catalog!Answered("NO_MATCHING_VERSION")
        \/ \E file \in Catalog!Newest : reply' = Catalog!Found(file.title)
    BY <2>1, <2>5
  <2>7. Catalog!Reply
    BY <2>1, <2>2, <2>4, <2>6 DEF Catalog!Reply
  <2>8. QED  BY <2>7 DEF Catalog!CatalogNext
<1>8. CASE TakeConstraint  BY <1>1, <1>8 DEF TakeConstraint
<1>9. CASE FindCached  BY <1>1, <1>9 DEF FindCached
<1>10. CASE FindFiles  BY <1>1, <1>10 DEF FindFiles
<1>11. CASE SkipFile  BY <1>1, <1>11 DEF SkipFile
<1>12. CASE RejectFile  BY <1>1, <1>12 DEF RejectFile
<1>13. CASE ReadFile  BY <1>1, <1>13 DEF ReadFile
<1>14. CASE TakeVersion  BY <1>1, <1>14 DEF TakeVersion
<1>15. CASE SortVersions  BY <1>1, <1>15 DEF SortVersions
<1>16. CASE Scan  BY <1>1, <1>16 DEF Scan
<1>17. QED
  BY <1>3, <1>4, <1>5, <1>6, <1>7, <1>8, <1>9, <1>10, <1>11, <1>12, <1>13, <1>14,
     <1>15, <1>16 DEF Next, Work

(* The cache, the order in which files are read, the files passed over and *)
(* the texts read one character at a time do not show: whatever it has     *)
(* been asked before, the repository answers from what is on disk, with    *)
(* the newest package that fits.                                           *)
THEOREM AnswersLikeCatalog == Spec => ImplementsCatalog
<1>1. Init => Catalog!CatalogInit
  BY DEF Init, Catalog!CatalogInit
<1>2. ASSUME RepositoryInv, [Next]_vars
      PROVE  [Catalog!CatalogNext]_(Catalog!catalogVars)
  <2>1. CASE Next
    BY <1>2, <2>1, Simulates
  <2>2. CASE UNCHANGED vars
    BY <2>2 DEF vars, Catalog!catalogVars
  <2>3. QED  BY <1>2, <2>1, <2>2
<1>3. QED
  BY Invariance, <1>1, <1>2, PTL DEF Spec, ImplementsCatalog, Catalog!CatalogSpec
=============================================================================
