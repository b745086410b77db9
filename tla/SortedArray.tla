---------------------------- MODULE SortedArray ----------------------------
(***************************************************************************)
(* The sorted arrays of util.c every set, cache and dictionary of the      *)
(* program is kept in: the binary search fatso_lower_bound_cmp one probe   *)
(* at a time, and what lower_bound, bsearch and set_insert do with its     *)
(* answer.  As in C, positions count from 0.  (fatso_multiset_insert, which*)
(* the program never calls, is left out.)                                  *)
(***************************************************************************)
EXTENDS Integers, Sequences

CONSTANTS Keys,    \* what the comparison function tells apart
          Calls,   \* the operations the callers of the array use
          MaxLen   \* bound: no insertion into an array this long

Operation == {"lower_bound", "bsearch", "set_insert"}

ASSUME KeysAssumption == Keys \subseteq Int
ASSUME CallsAssumption == Calls \subseteq Operation
ASSUME MaxLenAssumption == MaxLen \in Nat

VARIABLES
  arr,         \* the array
  pc,          \* "idle" between calls, "search" or "found" in one
  call, key,   \* the operation called and its key
  i0, i1, i,   \* the bounds of the search and its probe
  r            \* the last comparison

vars == <<arr, pc, call, key, i0, i1, i, r>>
search == <<i0, i1, i, r>>

At(p) == arr[p + 1]

TypeOK ==
  /\ arr \in Seq(Keys)
  /\ pc \in {"idle", "search", "found"}
  /\ call \in Operation
  /\ pc # "idle" => key \in Keys /\ call \in Calls
  /\ i0 \in Nat /\ i1 \in Nat /\ i \in Nat
  /\ r \in {-1, 0, 1}

Init ==
  /\ arr = <<>>
  /\ pc = "idle"
  /\ call = "bsearch"
  /\ key = 0
  /\ i0 = 0 /\ i1 = 0 /\ i = 0 /\ r = 1

(* Mutated Begin: the upper bound is the last position.                    *)
BeginAtLast(c, x) ==
  /\ pc = "idle"
  /\ c = "set_insert" => Len(arr) < MaxLen
  /\ pc' = "search"
  /\ call' = c /\ key' = x
  /\ i0' = 0 /\ i1' = Len(arr) - 1 /\ i' = (Len(arr) - 1) \div 2 /\ r' = 1
  /\ UNCHANGED arr

(* r = 1 is the answer for an empty array.                                 *)
Begin(c, x) ==
  /\ pc = "idle"
  /\ c = "set_insert" => Len(arr) < MaxLen
  /\ pc' = "search"
  /\ call' = c /\ key' = x
  /\ i0' = 0 /\ i1' = Len(arr) /\ i' = Len(arr) \div 2 /\ r' = 1
  /\ UNCHANGED arr

Middle(lo, hi) == lo + (hi - lo) \div 2

Probing == pc = "search" /\ i0 < i1

(* Mutated ProbeAbove: the probe stays in; ProbeBelow: one more goes.      *)
ProbeAboveStays ==
  /\ Probing
  /\ key > At(i)
  /\ i0' = i
  /\ i' = Middle(i, i1)
  /\ r' = 1
  /\ UNCHANGED <<arr, pc, call, key, i1>>

ProbeBelowSkips ==
  /\ Probing
  /\ key < At(i)
  /\ i1' = i - 1
  /\ i' = Middle(i0, i - 1)
  /\ r' = -1
  /\ UNCHANGED <<arr, pc, call, key, i0>>

ProbeAbove ==
  /\ Probing
  /\ key > At(i)
  /\ i0' = i + 1
  /\ i' = Middle(i + 1, i1)
  /\ r' = 1
  /\ UNCHANGED <<arr, pc, call, key, i1>>

ProbeBelow ==
  /\ Probing
  /\ key < At(i)
  /\ i1' = i
  /\ i' = Middle(i0, i)
  /\ r' = -1
  /\ UNCHANGED <<arr, pc, call, key, i0>>

ProbeEqual ==
  /\ Probing
  /\ key = At(i)
  /\ r' = 0
  /\ pc' = "found"
  /\ UNCHANGED <<arr, call, key, i0, i1, i>>

SearchOver ==
  /\ pc = "search"
  /\ i0 >= i1
  /\ pc' = "found"
  /\ UNCHANGED <<arr, call, key, search>>

(* Shift what is at position p and after it right, put x there.            *)
Inserted(s, p, x) ==
  [j \in 1..(Len(s) + 1) |->
     IF j <= p THEN s[j] ELSE IF j = p + 1 THEN x ELSE s[j - 1]]

(* Mutated Inserts: set_insert inserts what it finds once more.            *)
InsertsAlways == call = "set_insert"

(* set_insert leaves an array that has the key alone; the two lookups only *)
(* return a pointer.                                                       *)
Inserts == call = "set_insert" /\ r # 0

FinishInsert ==
  /\ pc = "found"
  /\ Inserts
  /\ arr' = Inserted(arr, i, key)
  /\ pc' = "idle"
  /\ UNCHANGED <<call, key, search>>

FinishLookup ==
  /\ pc = "found"
  /\ ~Inserts
  /\ pc' = "idle"
  /\ UNCHANGED <<arr, call, key, search>>

Next == \/ \E c \in Calls, x \in Keys : Begin(c, x)
        \/ ProbeAbove \/ ProbeBelow \/ ProbeEqual \/ SearchOver
        \/ FinishInsert \/ FinishLookup

(* A call runs to its end; nothing says that another one follows.          *)
Fairness == /\ WF_vars(ProbeAbove \/ ProbeBelow \/ ProbeEqual \/ SearchOver)
            /\ WF_vars(FinishInsert \/ FinishLookup)

Spec == Init /\ [][Next]_vars /\ Fairness

(* The pointer fatso_bsearch returns, -1 for NULL.                         *)
BsearchResult == IF i < Len(arr) /\ r = 0 THEN i ELSE -1

-----------------------------------------------------------------------------
(* Whatever sequence of set insertions made the array, it is strictly      *)
(* sorted: no key is in it twice.                                          *)
StrictlySorted == \A p, q \in 1..Len(arr) : p < q => arr[p] < arr[q]

(* The answer of the search is right: equal exactly when the array has the *)
(* key, and then at its position; otherwise the position it belongs at.    *)
AnswerIsRight ==
  pc = "found" =>
    /\ i \in 0..Len(arr)
    /\ IF \E p \in 1..Len(arr) : arr[p] = key
       THEN r = 0 /\ BsearchResult = i /\ At(i) = key
       ELSE /\ r # 0 /\ BsearchResult = -1
            /\ \A p \in 1..Len(arr) : IF p <= i THEN arr[p] < key ELSE arr[p] > key

(* Every call returns.                                                     *)
CallsReturn == pc = "search" ~> pc = "idle"
=============================================================================
