----------------------------- MODULE ResolverInv -----------------------------
(***************************************************************************)
(* The inductive invariants behind the answers of the search, and the      *)
(* worlds they hold in: that a success is sound; that a conflict leaves no *)
(* solution out, a success no newer one; and that a report is genuine.     *)
(***************************************************************************)
EXTENDS Resolver

Packages(w) == {w.root} \cup UNION {w.repo[n] : n \in Names}
DepsOf(p) == {AllDeps(p)[i] : i \in DOMAIN AllDeps(p)}

(* The names some package asks for without a version.                      *)
WildNames(w) ==
  {n \in Names : \E p \in Packages(w) : \E d \in DepsOf(p) :
     d.name = n /\ d.con.req = "ANY"}

(* What the search relies on and nothing in the code checks: a package     *)
(* file declares the name of its directory, no package depends on one      *)
(* named like the project, and a name is asked for either always without   *)
(* a version or always with one.                                           *)
Plain(w) ==
  LET wild == WildNames(w)
  IN  /\ \A n \in Names : \A p \in w.repo[n] : p.name = n
      /\ \A p \in Packages(w) : \A d \in DepsOf(p) :
           /\ d.name # w.root.name
           /\ d.con.req = "ANY" <=> d.name \in wild

(* A dependency is accounted for in graph h: its constraint waits with its *)
(* name, or the version chosen for its name meets it.                      *)
Accounted(h, d) ==
  IF h.closed[d.name] = None
  THEN \E j \in DOMAIN h.own[d.name] : h.own[d.name][j] = d.con
  ELSE Meets(h.closed[d.name].version, d.con)

(* The bookkeeping of a graph, where the names pending are those of an     *)
(* active call: every name that is a dependency is either still to resolve *)
(* or chosen, never both.                                                  *)
Bookkept(h, pending) ==
  LET chosen == Packages(world)
      wild == WildNames(world)
  IN
  /\ h.closed[world.root.name] = world.root
  /\ \A n \in Names :
       /\ h.closed[n] # None => h.closed[n] \in chosen /\ h.closed[n].name = n
       /\ n \in h.open \cup pending => h.closed[n] = None /\ h.own[n] # <<>>
       /\ h.own[n] # <<>> => h.closed[n] # None \/ n \in h.open \cup pending
       /\ h.closed[n] # None /\ n # world.root.name => h.own[n] # <<>>
       /\ \A j \in DOMAIN h.own[n] : h.own[n][j].req = "ANY" <=> n \in wild

(* Every dependency of every chosen package is accounted for; of package p *)
(* only those before index i, the others are still being added.            *)
AllAccounted(h, p, i) ==
  \A n \in Names : h.closed[n] # None =>
    \A j \in DOMAIN AllDeps(h.closed[n]) :
      (h.closed[n] = p => j < i) => Accounted(h, AllDeps(h.closed[n])[j])

FrameSound(f) ==
  /\ Bookkept(f.graph, {f.name})
  /\ AllAccounted(f.graph, None, 0)
  /\ f.name \notin f.graph.open

HandSound ==
  /\ pc = "add" =>
       /\ Bookkept(g, {})
       /\ AllAccounted(g, pkg, k)
       /\ pkg \in Packages(world)
       /\ stack = <<>> => \A n \in Names \ {world.root.name} : g.closed[n] = None
  /\ pc = "resolve" => Bookkept(g, {}) /\ AllAccounted(g, None, 0)
  /\ pc \in {"return", "done"} /\ status = "SUCCESS" =>
       Bookkept(g, {}) /\ AllAccounted(g, None, 0) /\ g.open = {}

FramesSound == \A i \in DOMAIN stack : FrameSound(stack[i])

SoundnessInv == TypeOK /\ HandSound /\ FramesSound

(* The inductive invariant, in the worlds where it holds.  Backtracking    *)
(* forgets nothing: the graph of every active call, not only the one in    *)
(* hand, still accounts for every dependency of every package in it.       *)
SearchStaysSound == Plain(world) => SoundnessInv

(* A success is sound in these worlds: what was chosen is a solution.      *)
PlainSuccessIsSound == Plain(world) => SuccessIsSound

-----------------------------------------------------------------------------
(* What a complete search relies on: a package file declares the name of   *)
(* its directory, no two of a directory are of the same version (of those  *)
(* only one is tried), and no package depends on one named like the        *)
(* project.  Dependencies without a version do no harm here.               *)
Orderly(w) ==
  /\ \A n \in Names : \A p, q \in w.repo[n] :
       p.name = n /\ (Compare(p.version, q.version) = 0 => p = q)
  /\ \A p \in Packages(w) : \A d \in DepsOf(p) : d.name # w.root.name

(* A graph as the search keeps it, where the names pending are those of an *)
(* active call: it blames nobody yet, open names have no version, and each *)
(* constraint is that of a dependency of a chosen package.                 *)
Kept(h, pending) ==
  /\ h.conflicts = {} /\ h.unknown = {}
  /\ h.closed[world.root.name] = world.root
  /\ \A n \in Names :
       /\ h.closed[n] # None => h.closed[n] \in Packages(world) /\ h.closed[n].name = n
       /\ n \in h.open \cup pending => h.closed[n] = None /\ h.own[n] # <<>>
       /\ h.closed[n] # None /\ n # world.root.name => h.own[n] # <<>>
       /\ \A j \in DOMAIN h.own[n] : \E p \in ClosedSet(h) : \E d \in DepsOf(p) :
            d.name = n /\ d.con = h.own[n][j]

(* The solutions, and those that the choices made in a graph leave possible *)
Solving == {S \in Solutions : IsSolution(S)}
Solved(h) == {S \in Solving : ClosedSet(h) \subseteq S}

(* Every one of them has a version that is still to be tried.              *)
Untried(f) == \A S \in Solved(f.graph) : Eligible(f) \cap S # {}

UntriedOrTaken(f) ==
  \A S \in Solved(f.graph) : f.tried \in S \/ Eligible(f) \cap S # {}

(* A solution as new as a graph in every name chosen chooses the same.     *)
AsNew(S, h) ==
  \A p \in ClosedSet(h) : \E q \in S : q.name = p.name /\ Compare(q.version, p.version) >= 0

Newest(h) == \A S \in Solving : AsNew(S, h) => ClosedSet(h) \subseteq S

(* All that is chosen inside the call at i, of those in progress           *)
Chosen(i) == IF i = 0 THEN {world.root} ELSE ClosedSet(stack[i].graph) \cup {stack[i].tried}

FrameComplete(f, chosen) ==
  /\ Kept(f.graph, {f.name})
  /\ f.name \notin f.graph.open
  /\ f.tried # None => f.tried \in world.repo[f.name]
  /\ ClosedSet(f.graph) \subseteq chosen
  /\ UntriedOrTaken(f)
  /\ Newest(f.graph)

FramesComplete == \A i \in DOMAIN stack : FrameComplete(stack[i], Chosen(i - 1))

(* After a conflict nothing is left of what was tried last.                *)
NoneLeft ==
  IF stack = <<>> THEN Solving = {}
                  ELSE \A S \in Solved(Top.graph) : Top.tried \notin S

HandComplete ==
  /\ pc \in {"add", "resolve"} =>
       /\ Kept(g, {}) /\ Newest(g)
       /\ ClosedSet(g) \subseteq Chosen(Len(stack))
  /\ pc = "add" => pkg \in ClosedSet(g)
  /\ pc = "search" => Untried(Top)
  /\ pc \in {"return", "done"} /\ status = "CONFLICT" => NoneLeft
  /\ pc \in {"return", "done"} /\ status = "SUCCESS" => Newest(g)
  /\ pc = "done" => stack = <<>>

(* Why a name is in conflict                                               *)
Genuine(h, n) ==
  IF h.closed[n] = None
  THEN \A p \in world.repo[n] : ~MatchesConstraints(p.version, h.own[n])
  ELSE \E p \in h.by[n] : \E i \in DOMAIN AllDeps(p) :
         /\ AllDeps(p)[i].name = n
         /\ ~Meets(h.closed[n].version, AllDeps(p)[i].con)

InConflict ==
  \E n \in Names : g.conflicts = {n} /\ g.unknown = {} /\ Genuine(g, n)

(* What a graph that is handed back, or kept for want of a better one,     *)
(* blames for the answer                                                   *)
Blames ==
  /\ pc = "search" => IF g = None THEN Top.tried = None ELSE InConflict
  /\ pc \in {"return", "done"} =>
       \/ status = "SUCCESS" /\ g.conflicts = {} /\ g.unknown = {}
       \/ /\ status = "UNKNOWN" /\ g.conflicts = {}
          /\ \E n \in Names \ world.known : g.unknown = {n}
       \/ (status = "CONFLICT" \/ pc = "done") /\ InConflict

(* The inductive invariant: whatever the search has given up was part of   *)
(* no solution.                                                            *)
CompletenessInv == TypeOK /\ FramesComplete /\ HandComplete /\ Blames
==============================================================================
