----------------------------- MODULE MCResolver -----------------------------
(***************************************************************************)
(* Instances of Resolver for TLC: sets of worlds.  Name 0 is the project,  *)
(* 1 to 3 are library packages, versions are 1 and 2.                      *)
(***************************************************************************)
EXTENDS ResolverInv

MCNames == 0..3
Lib == 1..3
Releases == 1..2

V(n) == <<<<Numeric, n>>>>
On(m, req, n) == [name |-> m, con |-> [req |-> req, version |-> V(n)]]
Release(n, v, deps) ==
  [name |-> n, version |-> V(v), deps |-> deps, more |-> <<>>]

(* The world of a case: its project dependencies, its known directories   *)
(* and the dependencies deps[n][v] of each release v of package n.         *)
WorldOf(rootDeps, known, deps) ==
  [root  |-> Release(0, 1, rootDeps),
   known |-> known,
   repo  |-> [n \in MCNames |-> IF n \in known
                                THEN {Release(n, v, deps[n][v]) : v \in DOMAIN deps[n]}
                                ELSE {}]]

WorldsOf(cases) == {WorldOf(c[1], c[2], c[3]) : c \in cases}

-----------------------------------------------------------------------------
(* Search worlds: every release depends on at most one other package, at a *)
(* given version; release 1 of package 1 depends on nothing.  Projects ask *)
(* for two packages; the directory of package 1 may be missing.            *)
OneDep(n) == {<<>>} \cup {<<On(m, "EQ", v)>> : m \in Lib \ {n}, v \in Releases}

SearchDeps == {<<<<>>, d>> : d \in OneDep(1)}
              \X [Releases -> OneDep(2)] \X [Releases -> OneDep(3)]

SearchProjects ==
  {<<<<On(3, "GE", 1), On(2, "GE", 1)>>, Lib>>,
   <<<<On(3, "GE", 1), On(2, "GE", 1)>>, Lib \ {1}>>,
   <<<<On(1, "GE", 1), On(2, "LT", 2)>>, Lib>>}

SearchCases == {<<w[1], w[2], f>> : w \in SearchProjects, f \in SearchDeps}

(* Mixed worlds: two packages, dependencies without a version, repeated,   *)
(* circular or on the package itself, and a directory without versions.    *)
Wild(n) == On(n, "ANY", 1)

MixedDeps ==
  {<<>>} \cup {<<Wild(m)>> : m \in 1..2} \cup {<<On(m, "GT", 1)>> : m \in 1..2}
  \cup {<<On(m, "LE", 1), Wild(3 - m)>> : m \in 1..2}
  \cup {<<On(1, "APPROXIMATELY", 2), On(1, "LT", 2)>>}

(* The project depends on itself, at a version it does not have.           *)
SelfCase == <<<<On(0, "GE", 1), On(0, "LT", 1)>>, Lib,
              [n \in Lib |-> <<<<>>, <<>>>>]>>

MixedCases ==
  {SelfCase} \cup
  {<<r, Lib, <<f, h, <<>>>>>> :
     r \in {<<Wild(1), Wild(2)>>, <<Wild(2), On(2, "LT", 2), Wild(3)>>,
            <<On(2, "GE", 1)>>},
     f \in [Releases -> MixedDeps], h \in [Releases -> MixedDeps]}

(* The project needs package 2 in whichever version and package 3, which   *)
(* needs package 2 before version 2.  Package 3 is chosen first, so that   *)
(* nothing chosen is asked for again.                                      *)
ShadowedCases ==
  {<<<<Wild(2), On(3, "GE", 1)>>, Lib,
     [n \in Lib |-> [v \in Releases |-> IF n = 3 THEN <<On(2, "LT", 2)>> ELSE <<>>]]>>}

SearchWorlds == WorldsOf(SearchCases)

ShadowedWorlds == WorldsOf(ShadowedCases)

AllWorlds == WorldsOf(SearchCases \cup MixedCases)
=============================================================================
