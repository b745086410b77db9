----------------------------- MODULE NameGraph -----------------------------
(***************************************************************************)
(* What the resolver expects of a dependency graph: any sequence of the    *)
(* operations it performs on one, on a graph keyed by package name.  After *)
(* a conflict or an unknown package is recorded the graph is reported or   *)
(* thrown away, and nothing more happens to it.                            *)
(***************************************************************************)
EXTENDS GraphOps

CONSTANTS Dependencies,   \* the dependencies package files declare
          Packages,       \* the packages, the project among them
          MaxConstraints  \* bound: constraints gathered for one name

VARIABLES
  h,      \* the graph
  popped  \* the name resolve took off the open set, if any

vars == <<h, popped>>

Init ==
  /\ \E p \in Packages : p.name \in Names /\ h = AddClosed(EmptyGraph, p)
  /\ popped = {}

(* A package of the closed set adds a dependency: add_open_set.            *)
Adds(d, p) ==
  /\ popped = {} /\ h.conflicts = {} /\ h.unknown = {}
  /\ p \in ClosedSet(h)
  /\ UNCHANGED popped

AddNew(d, p) ==
  /\ Adds(d, p)
  /\ h.own[d.name] = <<>>
  /\ h' = OpenNew(h, d, p)

AppendTo(d, p) ==
  /\ Adds(d, p)
  /\ h.own[d.name] # <<>> /\ Len(h.own[d.name]) < MaxConstraints
  /\ h.closed[d.name] = None
  /\ h' = AddConstraint(h, d, p)

Pinned(d, p) ==
  /\ Adds(d, p)
  /\ h.own[d.name] # <<>> /\ h.closed[d.name] # None
  /\ h' = IF PinnedAgrees(h, d) THEN Register(h, d, p)
                                ELSE AddConflict(Register(h, d, p), d.name)

(* resolve takes the last name off the open set, and then settles on a     *)
(* version of it or records why there is none.                             *)
Pop ==
  /\ popped = {} /\ h.conflicts = {}
  /\ \E n \in LastOpen(h) : /\ popped' = {n}
                            /\ h' = [h EXCEPT !.open = @ \ {n}]

Settle(p) ==
  /\ popped = {p.name}
  /\ popped' = {}
  /\ h' = AddClosed(h, p)

Fail ==
  /\ popped' = {}
  /\ \E n \in popped : h' = AddUnknown(h, n) \/ h' = AddConflict(h, n)

Next ==
  \/ \E d \in Dependencies, p \in Packages :
       AddNew(d, p) \/ AppendTo(d, p) \/ Pinned(d, p)
  \/ Pop \/ (\E p \in Packages : Settle(p)) \/ Fail

Spec == Init /\ [][Next]_vars
=============================================================================
