----------------------------- MODULE IndexGraph -----------------------------
(***************************************************************************)
(* The dependency graph as dependency.c stores it: own_dependencies is an  *)
(* array sorted by name, and open_set, conflicts, unknown and              *)
(* depended_on_by refer to its elements by index.  Inserting an element    *)
(* moves those behind it, so every index stored has to move along.  Arrays *)
(* sorted by index or name are sets and functions here (SortedArray shows  *)
(* that they are), and indices count from 1.                               *)
(***************************************************************************)
EXTENDS GraphOps

CONSTANTS Dependencies, Packages, MaxConstraints  \* as in NameGraph

ASSUME DependenciesAssumption == Dependencies \subseteq Dependency
ASSUME PackagesAssumption == Packages \subseteq Package

VARIABLES
  closed,     \* closed_set
  own,        \* own_dependencies
  open, conflicts, unknown,  \* indices of own
  by,         \* depended_on_by: packages by index of own
  held        \* dep_idx, the index resolve popped, if any

vars == <<closed, own, open, conflicts, unknown, by, held>>

Element == [name : Names, cons : Seq(Constraint)]

IndicesInRange ==
  /\ closed \in [Names -> Packages \cup {None}]
  /\ own \in Seq(Element)
  /\ open \subseteq DOMAIN own
  /\ conflicts \subseteq DOMAIN own
  /\ unknown \subseteq DOMAIN own
  /\ by \in [DOMAIN own -> SUBSET Packages]
  /\ held \subseteq DOMAIN own

Init ==
  /\ \E p \in Packages :
       p.name \in Names /\ closed = [n \in Names |-> IF n = p.name THEN p ELSE None]
  /\ own = <<>>
  /\ open = {} /\ conflicts = {} /\ unknown = {}
  /\ by = <<>>
  /\ held = {}

(* Where fatso_set_insert puts a name that is not in the array s.          *)
BelongsAt(s, n, at) ==
  \A i \in DOMAIN s : IF i < at THEN s[i].name < n ELSE s[i].name > n

(* Mutated InsertedAt: the new element goes to the end.                    *)
InsertedLast(s, at, x) == Append(s, x)

InsertedAt(s, at, x) ==
  [j \in 1..(Len(s) + 1) |->
     IF j < at THEN s[j] ELSE IF j = at THEN x ELSE s[j - 1]]

(* increment_indices_from, on a set of indices and on the keys of by.      *)
Moved(i, at) == IF i >= at THEN i + 1 ELSE i

(* Mutated Shift and ShiftKeys: these indices are left as they are.        *)
ShiftForgotten(S, at) == S
ShiftKeysForgotten(b, at) == b

Shift(S, at) == {Moved(i, at) : i \in S}

ShiftKeys(b, at) ==
  [i \in {Moved(j, at) : j \in DOMAIN b} |-> IF i > at THEN b[i - 1] ELSE b[i]]

(* fatso_dependency_graph_register_dependency                              *)
RegisterAt(b, i, p) ==
  [j \in DOMAIN b \cup {i} |->
     IF j # i THEN b[j] ELSE IF i \in DOMAIN b THEN b[i] \cup {p} ELSE {p}]

-----------------------------------------------------------------------------
(* The resolver adds dependencies between two pops, and none to a graph    *)
(* with a conflict or an unknown package.                                  *)
Adds(p) ==
  /\ held = {} /\ conflicts = {} /\ unknown = {}
  /\ \E n \in Names : closed[n] = p

AddNew(d, p) ==
  /\ Adds(p)
  /\ \E at \in 1..(Len(own) + 1) :
       /\ BelongsAt(own, d.name, at)
       /\ own' = InsertedAt(own, at, [name |-> d.name, cons |-> <<d.con>>])
       /\ open' = Shift(open, at) \cup {at}
       /\ conflicts' = Shift(conflicts, at)
       /\ unknown' = Shift(unknown, at)
       /\ by' = RegisterAt(ShiftKeys(by, at), at, p)
  /\ UNCHANGED <<closed, held>>

AppendTo(d, p) ==
  /\ Adds(p)
  /\ \E i \in DOMAIN own :
       /\ own[i].name = d.name /\ Len(own[i].cons) < MaxConstraints
       /\ by' = RegisterAt(by, i, p)
       /\ own' = [own EXCEPT ![i].cons = Append(@, d.con)]
  /\ closed[d.name] = None
  /\ UNCHANGED <<closed, open, conflicts, unknown, held>>

Pinned(d, p) ==
  /\ Adds(p)
  /\ closed[d.name] # None
  /\ \E i \in DOMAIN own :
       /\ own[i].name = d.name
       /\ by' = RegisterAt(by, i, p)
       /\ conflicts' = IF MatchesConstraints(closed[d.name].version, <<d.con>>)
                       THEN conflicts ELSE conflicts \cup {i}
  /\ UNCHANGED <<closed, own, open, unknown, held>>

(* The open set is popped at its end, the greatest index.                  *)
Pop ==
  /\ held = {} /\ conflicts = {}
  /\ \E i \in open : /\ \A j \in open : j <= i
                     /\ held' = {i}
                     /\ open' = open \ {i}
  /\ UNCHANGED <<closed, own, conflicts, unknown, by>>

Settle(p) ==
  /\ \E i \in held : own[i].name = p.name
  /\ held' = {}
  /\ closed' = [closed EXCEPT ![p.name] = IF @ = None THEN p ELSE @]
  /\ UNCHANGED <<own, open, conflicts, unknown, by>>

Fail ==
  /\ held # {} /\ held' = {}
  /\ \/ unknown' = unknown \cup held /\ UNCHANGED conflicts
     \/ conflicts' = conflicts \cup held /\ UNCHANGED unknown
  /\ UNCHANGED <<closed, own, open, by>>

Next ==
  \/ \E d \in Dependencies, p \in Packages :
       AddNew(d, p) \/ AppendTo(d, p) \/ Pinned(d, p)
  \/ Pop \/ (\E p \in Packages : Settle(p)) \/ Fail

Spec == Init /\ [][Next]_vars

-----------------------------------------------------------------------------
(* The graph of names the arrays stand for.                                *)
NamesIn(s, S) == {s[i].name : i \in S}
ConstraintsIn(s, n) ==
  IF n \in NamesIn(s, DOMAIN s)
  THEN s[CHOOSE i \in DOMAIN s : s[i].name = n].cons
  ELSE <<>>
RequiredIn(s, b, n) == UNION {b[i] : i \in {j \in DOMAIN s : s[j].name = n}}

AbsGraph ==
  [closed |-> closed, open |-> NamesIn(own, open),
   own |-> [n \in Names |-> ConstraintsIn(own, n)],
   by |-> [n \in Names |-> RequiredIn(own, by, n)],
   conflicts |-> NamesIn(own, conflicts), unknown |-> NamesIn(own, unknown)]

NG == INSTANCE NameGraph WITH h <- AbsGraph, popped <- NamesIn(own, held)

(* The array stays sorted by name, no name in it twice, so the greatest    *)
(* index is the last name, and every dependency has a constraint.          *)
Ordered(s) == \A i, j \in DOMAIN s : i < j => s[i].name < s[j].name
Constrained(s) == \A i \in DOMAIN s : s[i].cons # <<>>

SortedByName == Ordered(own) /\ Constrained(own)

(* Through every insertion each index keeps meaning the name it was stored *)
(* for: the arrays behave as the graph of names the resolver relies on.    *)
ImplementsNameGraph == NG!Spec
=============================================================================
