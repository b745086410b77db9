------------------------------ MODULE GraphOps ------------------------------
(***************************************************************************)
(* The dependency graph the resolver works on (struct                      *)
(* fatso_dependency_graph) and the operations of dependency.c that change  *)
(* one, as functions on values: a graph keyed by package name.  Names are  *)
(* numbered in strcmp order.                                               *)
(***************************************************************************)
EXTENDS Version, FiniteSets

CONSTANTS Names,  \* package names, numbered in strcmp order
          None    \* the NULL package or graph

Dependency == [name : Names, con : Constraint]

(* deps are those of the base configuration, more those of the others.     *)
Package == [name : Names, version : Version,
            deps : Seq(Dependency), more : Seq(Dependency)]

ASSUME NamesAssumption == Names \subseteq Nat

Graph == [closed    : [Names -> Package \cup {None}],  \* chosen packages
          open      : SUBSET Names,                    \* names still to resolve
          own       : [Names -> Seq(Constraint)],      \* empty: not a dependency
          by        : [Names -> SUBSET Package],       \* depended_on_by
          conflicts : SUBSET Names,
          unknown   : SUBSET Names]

ASSUME NoneAssumption == None \notin Package /\ None \notin Graph

AllDeps(p) == p.deps \o p.more
ClosedSet(h) == {h.closed[n] : n \in Names} \ {None}

(* fatso_set_insert into the closed set: a name that is in it stays as it  *)
(* was.                                                                    *)
AddClosed(h, p) ==
  [h EXCEPT !.closed[p.name] = IF @ = None THEN p ELSE @]

EmptyGraph ==
  [closed |-> [n \in Names |-> None], open |-> {},
   own |-> [n \in Names |-> <<>>], by |-> [n \in Names |-> {}],
   conflicts |-> {}, unknown |-> {}]

(* The four ways through fatso_dependency_graph_add_open_set, for the      *)
(* dependency d of the package of.                                         *)
Register(h, d, of) == [h EXCEPT !.by[d.name] = @ \cup {of}]

OpenNew(h, d, of) ==
  [Register(h, d, of) EXCEPT !.own[d.name] = <<d.con>>, !.open = @ \cup {d.name}]

(* Mutated AddConstraint: the constraint of a known name is forgotten.     *)
AddConstraintForgets(h, d, of) == Register(h, d, of)

AddConstraint(h, d, of) ==
  [Register(h, d, of) EXCEPT !.own[d.name] = Append(@, d.con)]

AddConflict(h, n) == [h EXCEPT !.conflicts = @ \cup {n}]
AddUnknown(h, n) == [h EXCEPT !.unknown = @ \cup {n}]

(* Mutated PinnedAgrees: a package once chosen suits everybody.            *)
PinnedAgreesAlways(h, d) == TRUE

PinnedAgrees(h, d) == MatchesConstraints(h.closed[d.name].version, <<d.con>>)

(* The open set is sorted; resolve pops the last of it.                    *)
LastOpen(h) == {n \in h.open : \A m \in h.open : m <= n}
=============================================================================
