------------------------------ MODULE Resolver ------------------------------
(***************************************************************************)
(* The dependency resolver (dependency.c) and the repository lookup it     *)
(* drives (repository.c): fatso_dependency_graph_for_package, the          *)
(* recursive backtracking search fatso_dependency_graph_resolve, and the   *)
(* reports fatso_generate_dependency_graph makes of its answer.            *)
(*                                                                         *)
(* The C recursion is the explicit sequence stack, one frame per active    *)
(* call of resolve.  A graph is keyed by name here (GraphOps); that the C  *)
(* arrays of indices are such a graph is the subject of IndexGraph.        *)
(***************************************************************************)
EXTENDS GraphOps

CONSTANT Worlds  \* the projects and repositories to resolve

(* A project and the repository under it: known are the names with a       *)
(* directory of package files, repo the versions that parsed.              *)
World == [root : Package, known : SUBSET Names, repo : [Names -> SUBSET Package]]

ASSUME WorldsAssumption == Worlds \subseteq World

(* The locals of one call of resolve: its graph after the pop, the name    *)
(* popped, and the package variable, the last version tried.               *)
Frame == [graph : Graph, name : Names, tried : Package \cup {None}]

Answer == {"SUCCESS", "CONFLICT", "UNKNOWN"}

VARIABLES
  world,   \* what is on disk, never written
  pc,      \* where the innermost call is
  stack,   \* the calls of resolve in progress
  g,       \* the graph in hand: argument, candidate or return value
  pkg,     \* the package whose dependencies are being added
  k,       \* index of the next of them
  status   \* *out_status, uninitialized at first

vars == <<world, pc, stack, g, pkg, k, status>>

Top == stack[Len(stack)]
Popped == SubSeq(stack, 1, Len(stack) - 1)

TypeOK ==
  /\ world \in World
  /\ pc \in {"add", "resolve", "search", "return", "done"}
  /\ stack \in Seq(Frame)
  /\ g \in Graph \/ (g = None /\ pc = "search")
  /\ pkg \in Package \cup {None} /\ (pc = "add" => pkg # None)
  /\ k \in Nat \ {0}
  /\ status \in Answer \cup {"Unset"}
  /\ pc = "search" => stack # <<>>

-----------------------------------------------------------------------------
(* Mutated Eligible: not the last version again, but a newer one may come; *)
(* and without less_than_version.                                          *)
EligibleOther(f) ==
  {p \in world.repo[f.name] :
     /\ f.tried = None \/ Compare(p.version, f.tried.version) # 0
     /\ MatchesConstraints(p.version, f.graph.own[f.name])}

EligibleAgain(f) ==
  {p \in world.repo[f.name] : MatchesConstraints(p.version, f.graph.own[f.name])}

(* fatso_repository_find_package_matching_dependency: the versions it may  *)
(* return are those below the last one tried that meet the constraints,    *)
(* the newest of them first.                                               *)
Eligible(f) ==
  {p \in world.repo[f.name] :
     /\ f.tried = None \/ Compare(p.version, f.tried.version) < 0
     /\ MatchesConstraints(p.version, f.graph.own[f.name])}

(* Mutated NewestOf: the list of versions read from its other end.         *)
OldestOf(S) == {p \in S : \A q \in S : Compare(p.version, q.version) <= 0}

NewestOf(S) == {p \in S : \A q \in S : Compare(q.version, p.version) <= 0}

-----------------------------------------------------------------------------
Init ==
  /\ world \in Worlds
  /\ pc = "add"
  /\ stack = <<>>
  /\ g = AddClosed(EmptyGraph, world.root)
  /\ pkg = world.root
  /\ k = 1
  /\ status = "Unset"

(* fatso_dependency_graph_add_dependencies_from_package: one step of the   *)
(* loop per dependency, four ways through add_open_set.                    *)
Dep == AllDeps(pkg)[k]
Adding == pc = "add" /\ k <= Len(AllDeps(pkg))

Added(h) == /\ g' = h
            /\ k' = k + 1
            /\ UNCHANGED <<world, pc, stack, pkg, status>>

AddNewDependency ==
  /\ Adding
  /\ g.own[Dep.name] = <<>>
  /\ Added(OpenNew(g, Dep, pkg))

AppendConstraints ==
  /\ Adding
  /\ g.own[Dep.name] # <<>>
  /\ g.closed[Dep.name] = None
  /\ Added(AddConstraint(g, Dep, pkg))

PinnedMatches ==
  /\ Adding
  /\ g.own[Dep.name] # <<>>
  /\ g.closed[Dep.name] # None
  /\ PinnedAgrees(g, Dep)
  /\ Added(Register(g, Dep, pkg))

(* BLOCKED: resolve keeps the candidate and tries the next version;        *)
(* for_package returns the graph with *out_status never written.           *)
PinnedConflicts ==
  /\ Adding
  /\ g.own[Dep.name] # <<>>
  /\ g.closed[Dep.name] # None
  /\ ~PinnedAgrees(g, Dep)
  /\ g' = AddConflict(Register(g, Dep, pkg), Dep.name)
  /\ pkg' = None
  /\ \/ /\ stack # <<>>
        /\ pc' = "search"
        /\ UNCHANGED status
     \/ /\ stack = <<>>
        /\ pc' = "done"
        /\ status' \in Answer \cup {"Unset"}
  /\ UNCHANGED <<world, stack, k>>

DepsAdded ==
  /\ pc = "add"
  /\ k > Len(AllDeps(pkg))
  /\ pc' = "resolve"
  /\ pkg' = None
  /\ UNCHANGED <<world, stack, g, k, status>>

(* fatso_dependency_graph_resolve: an empty open set is success, otherwise *)
(* the last name of the open set is popped and its versions are tried.     *)
ResolveEmpty ==
  /\ pc = "resolve"
  /\ g.open = {}
  /\ status' = "SUCCESS"
  /\ pc' = "return"
  /\ UNCHANGED <<world, stack, g, pkg, k>>

ResolvePop ==
  /\ pc = "resolve"
  /\ \E n \in LastOpen(g) :
       stack' = Append(stack, [graph |-> [g EXCEPT !.open = @ \ {n}],
                               name |-> n, tried |-> None])
  /\ g' = None
  /\ pc' = "search"
  /\ UNCHANGED <<world, pkg, k, status>>

ReturnWith(h, answer) ==
  /\ g' = h
  /\ status' = answer
  /\ pc' = "return"
  /\ stack' = Popped
  /\ UNCHANGED <<world, pkg, k>>

FindUnknown ==
  /\ pc = "search"
  /\ Top.name \notin world.known
  /\ ReturnWith(AddUnknown(Top.graph, Top.name), "UNKNOWN")

(* Mutated FindNoMatch: the last candidate blames this name as well.       *)
FindNoMatchBlames ==
  /\ pc = "search"
  /\ Top.name \in world.known
  /\ Eligible(Top) = {}
  /\ \/ g # None /\ ReturnWith(AddConflict(g, Top.name), "CONFLICT")
     \/ g = None /\ ReturnWith(AddConflict(Top.graph, Top.name), "CONFLICT")

(* No version is left: the last candidate is returned, or the graph itself *)
(* with the name in conflict when no version was ever tried.               *)
FindNoMatch ==
  /\ pc = "search"
  /\ Top.name \in world.known
  /\ Eligible(Top) = {}
  /\ \/ g # None /\ ReturnWith(g, "CONFLICT")
     \/ g = None /\ ReturnWith(AddConflict(Top.graph, Top.name), "CONFLICT")

FindOK ==
  /\ pc = "search"
  /\ Top.name \in world.known
  /\ \E p \in NewestOf(Eligible(Top)) :
       /\ stack' = [stack EXCEPT ![Len(stack)].tried = p]
       /\ g' = AddClosed(Top.graph, p)
       /\ pkg' = p
  /\ k' = 1
  /\ pc' = "add"
  /\ UNCHANGED <<world, status>>

(* The call of resolve returned: to for_package, to a frame that passes a  *)
(* success or an unknown package on, or to one that tries an older version.*)
ReturnToCaller ==
  /\ pc = "return"
  /\ stack = <<>>
  /\ pc' = "done"
  /\ UNCHANGED <<world, stack, g, pkg, k, status>>

PassAnswerOn ==
  /\ pc = "return"
  /\ stack # <<>>
  /\ status # "CONFLICT"
  /\ stack' = Popped
  /\ UNCHANGED <<world, pc, g, pkg, k, status>>

(* Mutated TryOlder: a conflict is passed on like any other answer; and    *)
(* for_package, too, starts over.                                          *)
TryOlderGivesUp ==
  /\ pc = "return"
  /\ stack # <<>>
  /\ status = "CONFLICT"
  /\ stack' = Popped
  /\ UNCHANGED <<world, pc, g, pkg, k, status>>

TryOlderAtTop ==
  /\ pc = "return"
  /\ status = "CONFLICT"
  /\ pc' = "search"
  /\ UNCHANGED <<world, stack, g, pkg, k, status>>

TryOlder ==
  /\ pc = "return"
  /\ stack # <<>>
  /\ status = "CONFLICT"
  /\ pc' = "search"
  /\ UNCHANGED <<world, stack, g, pkg, k, status>>

Next == \/ AddNewDependency \/ AppendConstraints \/ PinnedMatches
        \/ PinnedConflicts \/ DepsAdded \/ ResolveEmpty \/ ResolvePop
        \/ FindUnknown \/ FindNoMatch \/ FindOK
        \/ ReturnToCaller \/ PassAnswerOn \/ TryOlder

(* The resolver is one sequential computation: it takes its next step.     *)
Spec == Init /\ [][Next]_vars /\ WF_vars(Next)

-----------------------------------------------------------------------------
(* What fatso_generate_dependency_graph prints of the answer.  The reports *)
(* look at the base configuration only.                                    *)
RequestedBy(p, n) ==
  LET at == {i \in DOMAIN p.deps : p.deps[i].name = n}
  IN  {p.deps[i] : i \in {j \in at : \A l \in at : j <= l}}

ConflictReport(h) ==
  UNION {UNION {{p} \X RequestedBy(p, n) : p \in h.by[n]} : n \in h.conflicts}

-----------------------------------------------------------------------------
(* Reference definitions: what a solution of a world is.                   *)
IsSolution(S) ==
  /\ world.root \in S
  /\ \A p, q \in S : p.name = q.name => p = q
  /\ \A p \in S : \A i \in DOMAIN AllDeps(p) :
       LET d == AllDeps(p)[i]
       IN  \E q \in S : q.name = d.name /\ Meets(q.version, d.con)

Solutions ==
  {S \cup {world.root} : S \in SUBSET (UNION {world.repo[n] : n \in world.known})}

Answered(answer) == pc = "done" /\ status = answer

(* A success is sound: the packages chosen are one version per name, and   *)
(* every dependency of every one of them, whatever order they were found   *)
(* in, is met by the version chosen for its name.                          *)
SuccessIsSound == Answered("SUCCESS") => IsSolution(ClosedSet(g))

(* A conflict is complete: backtracking gives up only when no choice of    *)
(* versions in the repository would have met every dependency.             *)
ConflictIsComplete ==
  Answered("CONFLICT") => \A S \in Solutions : ~IsSolution(S)

(* The newest versions win: no solution has, for every name chosen, a      *)
(* version at least as new and for one of them a newer one.                *)
SuccessIsNewest ==
  Answered("SUCCESS") =>
    \A S \in Solutions : ~ /\ IsSolution(S)
                           /\ \A p \in ClosedSet(g) : \E q \in S :
                                q.name = p.name /\ Compare(q.version, p.version) >= 0
                           /\ \E p \in ClosedSet(g), q \in S :
                                q.name = p.name /\ Compare(q.version, p.version) > 0

(* A graph reports at most one name, and the report of the answer is       *)
(* genuine: an unknown name has no directory; a name in conflict either    *)
(* has no version for the constraints gathered, or is pinned at a version  *)
(* that one of the packages registered with it refuses.                    *)
ReportIsGenuine ==
  pc = "done" =>
    /\ Cardinality(g.conflicts \cup g.unknown) <= 1
    /\ g.unknown \cap world.known = {}
    /\ g.conflicts = {} => (status = "UNKNOWN" <=> g.unknown # {})
    /\ \A n \in g.conflicts :
         IF g.closed[n] = None
         THEN \A p \in world.repo[n] : ~MatchesConstraints(p.version, g.own[n])
         ELSE \E p \in g.by[n] : \E i \in DOMAIN AllDeps(p) :
                /\ AllDeps(p)[i].name = n
                /\ ~Meets(g.closed[n].version, AllDeps(p)[i].con)

(* Every version is tried at most once: while a call of resolve is active  *)
(* the versions it takes up get strictly older.                            *)
OnlyOlder ==
  \A i \in DOMAIN stack \cap DOMAIN stack' :
    stack'[i].tried # stack[i].tried =>
      \/ stack[i].tried = None
      \/ Compare(stack'[i].tried.version, stack[i].tried.version) < 0

TriedGetsOlder == [][OnlyOlder]_vars

(* The search ends on every repository, with circular dependencies too.    *)
Terminates == <>(pc = "done")

-----------------------------------------------------------------------------
(* What the code says of itself and does not do.                           *)

(* "The following dependencies could not be simultaneously met"            *)
(* (project.c:139).  No version in the repository meets all dependencies   *)
(* listed under a name in conflict.                                        *)
ConflictReportIsTrue ==
  Answered("CONFLICT") =>
    \A n \in g.conflicts : \A p \in world.repo[n] :
      \E r \in ConflictReport(g) : r[2].name = n /\ ~Meets(p.version, r[2].con)
=============================================================================
