---------------------------- MODULE InstallOrder ----------------------------
(***************************************************************************)
(* The order packages are installed in: topological_sort and its recursive *)
(* toposort_dependencies_r (dependency.c), run over the closed set of a    *)
(* resolved graph.  The recursion is the sequence stack of the packages    *)
(* being visited, each with the index of its next dependency.  Names are   *)
(* numbered in strcmp order, the order of the closed set.                  *)
(***************************************************************************)
EXTENDS Integers, Sequences

CONSTANTS Names, ResolvedGraphs

(* What the sort reads of a resolved graph: the packages chosen, the       *)
(* project among them, and the names each package depends on, those of the *)
(* other configurations after those of the base one.                       *)
SortableGraph == [closed : SUBSET Names, root : Names, deps : [Names -> Seq(Names)]]

ASSUME NamesAssumption == Names \subseteq Nat
ASSUME GraphsAssumption ==
  ResolvedGraphs \subseteq {h \in SortableGraph : h.root \in h.closed}

VARIABLES
  graph,  \* the resolved graph, never written
  todo,   \* what the loop over the closed set has not come to
  stack,  \* the packages being visited
  seen,   \* names visited
  list    \* install_order so far

vars == <<graph, todo, stack, seen, list>>

Visit == [pkg : Names, next : Nat \ {0}]

TypeOK ==
  /\ graph \in {h \in SortableGraph : h.root \in h.closed}
  /\ todo \subseteq graph.closed
  /\ stack \in Seq(Visit)
  /\ \A i \in DOMAIN stack : stack[i].pkg \in graph.closed
  /\ seen \subseteq graph.closed
  /\ list \in Seq(graph.closed \ {graph.root})

Top == stack[Len(stack)]
Popped == SubSeq(stack, 1, Len(stack) - 1)
DepsOf(p) == {graph.deps[p][i] : i \in DOMAIN graph.deps[p]} \cap graph.closed

Init ==
  /\ graph \in ResolvedGraphs
  /\ todo = graph.closed
  /\ stack = <<>>
  /\ seen = {}
  /\ list = <<>>

(* toposort_dependencies_r called for p over the visits s: nothing happens *)
(* for a name already seen.                                                *)
Call(p, s) ==
  \/ /\ p \notin seen
     /\ seen' = seen \cup {p}
     /\ stack' = Append(s, [pkg |-> p, next |-> 1])
  \/ /\ p \in seen
     /\ seen' = seen
     /\ stack' = s

(* Mutated NextOfClosedSet: the loop visits what a visit has been to.      *)
NextOfClosedSetAgain ==
  /\ stack = <<>>
  /\ \E p \in todo : /\ \A q \in todo : p <= q
                     /\ todo' = todo \ {p}
                     /\ stack' = <<[pkg |-> p, next |-> 1]>>
                     /\ seen' = seen \cup {p}
  /\ UNCHANGED <<graph, list>>

(* The loop over the closed set, in the order of its names.                *)
NextOfClosedSet ==
  /\ stack = <<>>
  /\ \E p \in todo : /\ \A q \in todo : p <= q
                     /\ todo' = todo \ {p}
                     /\ Call(p, stack)
  /\ UNCHANGED <<graph, list>>

(* Mutated Advanced: the index is not counted up.                          *)
NotAdvanced == stack

(* The next dependency of the package being visited; one that is not in    *)
(* the closed set is passed over.                                          *)
Advanced == [stack EXCEPT ![Len(stack)].next = @ + 1]

NextDependency ==
  /\ stack # <<>>
  /\ Top.next <= Len(graph.deps[Top.pkg])
  /\ LET d == graph.deps[Top.pkg][Top.next]
     IN  \/ d \in graph.closed /\ Call(d, Advanced)
         \/ d \notin graph.closed /\ stack' = Advanced /\ UNCHANGED seen
  /\ UNCHANGED <<graph, todo, list>>

(* Mutated Listed: at the front of the list.                               *)
ListedFirst(p) == IF p = graph.root THEN list ELSE <<p>> \o list

(* All dependencies visited: the package is listed, unless it is the       *)
(* project.                                                                *)
Listed(p) == IF p = graph.root THEN list ELSE Append(list, p)

FinishVisit ==
  /\ stack # <<>>
  /\ Top.next > Len(graph.deps[Top.pkg])
  /\ list' = Listed(Top.pkg)
  /\ stack' = Popped
  /\ UNCHANGED <<graph, todo, seen>>

Next == NextOfClosedSet \/ NextDependency \/ FinishVisit

Spec == Init /\ [][Next]_vars /\ WF_vars(Next)

Sorted == todo = {} /\ stack = <<>>

-----------------------------------------------------------------------------
(* q is p or one of the packages p needs, directly or not: every set that  *)
(* holds p and the dependencies of its members holds q.                    *)
Needs(p, q) ==
  \A S \in SUBSET graph.closed :
    p \in S /\ (\A r \in S : DepsOf(r) \subseteq S) => q \in S

(* A package is listed before one of its dependencies only when the two    *)
(* need each other; whatever else is circular, all other pairs are in      *)
(* order.  A dependency not yet listed is listed later.                    *)
OnlyCyclesOutOfOrder ==
  \A i \in DOMAIN list : \A d \in DepsOf(list[i]) \ {graph.root} :
    \/ \E j \in 1..(i - 1) : list[j] = d
    \/ Needs(d, list[i])

(* The list holds every chosen package except the project, once.           *)
ListsEachOnce ==
  /\ \A i, j \in DOMAIN list : list[i] = list[j] => i = j
  /\ Sorted => {list[i] : i \in DOMAIN list} = graph.closed \ {graph.root}
=============================================================================
