--------------------------- MODULE CommandProofs ---------------------------
(***************************************************************************)
(* For any depth of directories and any projects in them: a command loads  *)
(* the nearest of those it looks for.  For any graph and any defines: the  *)
(* order of the packages is that of InstallOrder, both records of the      *)
(* defines agree, those of outer packages win, and what is built sees the  *)
(* defines of all it needs.                                                *)
(***************************************************************************)
EXTENDS Command, InstallOrderProofs, WellFoundedInduction

Projects ==
  {d \in 0..scenario.start : scenario.yml[d] # "none" /\ (d > 0 \/ scenario.start = 0)}

(* As long as none is found all projects are here or further up.           *)
NearestInv ==
  /\ scenario \in Scenario
  /\ pc = "find" => scenario.work = Nowhere
  /\ scenario.work = Nowhere =>
       /\ dir \in 0..scenario.start
       /\ dir = 0 => scenario.start = 0
       /\ \A d \in Projects : d <= dir
       /\ pc # "find" => IF Projects = {} THEN pc = "failed" ELSE dir \in Projects

(* The steps that neither look for a project nor load it                   *)
LEMMA OtherSteps ==
  ASSUME CommandNext, ~Found, ~Climb, ~NotFound
  PROVE  /\ pc \notin {"find", "failed"} /\ pc' # "find"
         /\ scenario' = scenario /\ dir' = dir
<1> USE DEF GoesTo, Otherwise, WithOrder
<1>1. CASE LoadProject  BY <1>1 DEF LoadProject
<1>2. CASE Resolve  BY <1>2 DEF Resolve
<1>3. CASE Sort  BY <1>3 DEF Sort
<1>4. CASE EnvPackage  BY <1>4 DEF EnvPackage
<1>5. CASE EnvProject  BY <1>5 DEF EnvProject
<1>6. CASE EnvWithoutProject  BY <1>6 DEF EnvWithoutProject
<1>7. CASE PrintOrExec  BY <1>7 DEF PrintOrExec
<1>8. CASE BuildProject  BY <1>8 DEF BuildProject
<1>9. CASE BuildPackage  BY <1>9 DEF BuildPackage
<1>10. CASE InstalledAll  BY <1>10 DEF InstalledAll
<1>11. CASE RunEnds  BY <1>11 DEF RunEnds
<1>12. QED
  BY <1>1, <1>2, <1>3, <1>4, <1>5, <1>6, <1>7, <1>8, <1>9, <1>10, <1>11 DEF CommandNext

LEMMA NearestInit == ASSUME CommandInit PROVE NearestInv
<1>1. scenario \in Scenario /\ scenario.start \in 0..Depth
  BY ScenariosAssumption DEF CommandInit, Scenario
<1>2. Depth \in Nat
  BY DepthAssumption
<1>3. CASE scenario.work = Nowhere
  <2>1. pc = "find" /\ dir = scenario.start
    BY <1>3 DEF CommandInit
  <2>2. \A d \in Projects : d <= dir
    BY <1>1, <1>2, <2>1 DEF Projects
  <2>3. QED  BY <1>1, <1>2, <1>3, <2>1, <2>2 DEF NearestInv
<1>4. CASE scenario.work # Nowhere
  <2>1. pc = "load"
    BY <1>4 DEF CommandInit
  <2>2. QED  BY <1>1, <1>4, <2>1 DEF NearestInv
<1>5. QED  BY <1>3, <1>4

LEMMA NearestNext ==
  ASSUME NearestInv, [CommandNext]_<<vars, cvars>>
  PROVE  NearestInv'
<1>0. scenario \in Scenario /\ scenario.start \in 0..Depth /\ Depth \in Nat
  BY DepthAssumption DEF NearestInv, Scenario
<1>1. CASE Found
  <2>1. /\ pc = "find" /\ pc' = "load" /\ scenario' = scenario /\ dir' = dir
        /\ scenario.yml[dir] # "none"
    BY <1>1 DEF Found, GoesTo, Yml
  <2>2. scenario.work = Nowhere /\ dir \in 0..scenario.start /\ (dir = 0 => scenario.start = 0)
    BY <2>1 DEF NearestInv
  <2>3. dir \in Projects
    BY <1>0, <2>1, <2>2 DEF Projects
  <2>4. QED  BY <2>1, <2>2, <2>3 DEF NearestInv, Projects
<1>2. CASE Climb
  <2>1. /\ pc = "find" /\ pc' = pc /\ scenario' = scenario /\ dir > 1 /\ dir' = dir - 1
        /\ scenario.yml[dir] = "none"
    BY <1>2 DEF Climb, Yml
  <2>2. scenario.work = Nowhere /\ dir \in 0..scenario.start
    BY <2>1 DEF NearestInv
  <2>3. dir' \in 0..scenario.start /\ dir' # 0
    BY <1>0, <2>1, <2>2
  <2>4. ASSUME NEW d \in Projects
        PROVE  d <= dir'
    <3>1. d <= dir /\ d # dir /\ d \in Int
      BY <1>0, <2>1, <2>2 DEF NearestInv, Projects
    <3>2. QED  BY <1>0, <2>1, <2>2, <3>1
  <2>5. Projects' = Projects
    BY <2>1 DEF Projects
  <2>6. QED  BY <1>0, <2>1, <2>2, <2>3, <2>4, <2>5 DEF NearestInv
<1>3. CASE NotFound
  <2>1. /\ pc = "find" /\ pc' = "failed" /\ scenario' = scenario /\ dir <= 1 /\ dir' = dir
        /\ scenario.yml[dir] = "none"
    BY <1>3 DEF NotFound, Yml, GoesTo
  <2>2. /\ scenario.work = Nowhere /\ dir \in 0..scenario.start /\ (dir = 0 => scenario.start = 0)
        /\ \A d \in Projects : d <= dir
    BY <2>1 DEF NearestInv
  <2>3. ASSUME NEW d \in Projects
        PROVE  FALSE
    <3>1. d \in 0..scenario.start /\ d <= dir /\ d # dir /\ (d > 0 \/ scenario.start = 0)
      BY <2>1, <2>2 DEF Projects
    <3>2. QED  BY <1>0, <2>1, <2>2, <3>1
  <2>4. Projects' = {}
    BY <2>1, <2>3 DEF Projects
  <2>5. QED  BY <1>0, <2>1, <2>2, <2>4 DEF NearestInv
<1>4. CASE CommandNext /\ ~Found /\ ~Climb /\ ~NotFound
  <2>1. /\ pc \notin {"find", "failed"} /\ pc' # "find"
        /\ scenario' = scenario /\ dir' = dir
    BY <1>4, OtherSteps
  <2>2. Projects' = Projects
    BY <2>1 DEF Projects
  <2>3. QED  BY <2>1, <2>2 DEF NearestInv
<1>5. CASE UNCHANGED <<vars, cvars>>
  BY <1>5 DEF cvars, NearestInv, Projects
<1>6. QED  BY <1>1, <1>2, <1>3, <1>4, <1>5

(* However deep the directory fatso is started in: it loads the nearest    *)
(* project on the way up that it looks for, and gives up only without one. *)
THEOREM NearestLoaded == CommandSpec => []ProjectIsNearest
<1>1. NearestInv => ProjectIsNearest
  BY DEF NearestInv, ProjectIsNearest, Projects
<1>2. QED  BY NearestInit, NearestNext, <1>1, PTL DEF CommandSpec

-----------------------------------------------------------------------------
(* A command's steps are steps of the sort, or leave the order alone: what *)
(* is proved of the sort holds of it in a command.                         *)

LEMMA SortStep ==
  ASSUME [CommandNext]_<<vars, cvars>>
  PROVE  [Next]_vars
<1> USE DEF GoesTo
<1>1. CASE Found  BY <1>1 DEF Found
<1>2. CASE Climb  BY <1>2 DEF Climb
<1>3. CASE NotFound  BY <1>3 DEF NotFound
<1>4. CASE LoadProject  BY <1>4 DEF LoadProject
<1>5. CASE Resolve  BY <1>5 DEF Resolve
<1>6. CASE Sort  BY <1>6 DEF Sort
<1>7. CASE EnvPackage  BY <1>7 DEF EnvPackage
<1>8. CASE EnvProject  BY <1>8 DEF EnvProject
<1>9. CASE EnvWithoutProject  BY <1>9 DEF EnvWithoutProject
<1>10. CASE PrintOrExec  BY <1>10 DEF PrintOrExec
<1>11. CASE BuildProject  BY <1>11 DEF BuildProject
<1>12. CASE BuildPackage  BY <1>12 DEF BuildPackage
<1>13. CASE InstalledAll  BY <1>13 DEF InstalledAll
<1>14. CASE RunEnds  BY <1>14 DEF RunEnds
<1>15. CASE UNCHANGED <<vars, cvars>>
  BY <1>15
<1>16. QED
  BY <1>1, <1>2, <1>3, <1>4, <1>5, <1>6, <1>7, <1>8, <1>9, <1>10, <1>11, <1>12, <1>13, <1>14,
     <1>15 DEF CommandNext

LEMMA CommandSorts == CommandSpec => []OrderInv
<1>1. CommandInit => Init
  BY DEF CommandInit
<1>2. OrderInv /\ [CommandNext]_<<vars, cvars>> => OrderInv'
  BY SortStep, NextOrder
<1>3. QED
  BY <1>1, <1>2, InitOrder, PTL DEF CommandSpec

(* In a command, too, a package is installed after what it needs.          *)
THEOREM CommandOrder == CommandSpec => []OnlyCyclesOutOfOrder
<1>1. OrderInv => OnlyCyclesOutOfOrder
  BY DEF OrderInv
<1>2. QED
  BY <1>1, CommandSorts, PTL

(* And every chosen package but the project is listed there, once.         *)
THEOREM CommandListsOnce == CommandSpec => []ListsEachOnce
  BY OrderListsOnce, CommandSorts, PTL

-----------------------------------------------------------------------------
(* Defines, and the last one of a key.                                     *)

LEMMA HasLast ==
  ASSUME NEW n \in Nat, NEW S \in SUBSET (1..n), S # {}
  PROVE  \E m \in S : \A j \in S : j <= m
<1> DEFINE T == {i \in Nat : \E j \in S : i = n - j}
<1>1. T # {}
  <2>1. PICK j \in S : TRUE
    OBVIOUS
  <2>2. j \in 1..n
    BY <2>1
  <2>3. n - j \in T
    BY <2>1, <2>2
  <2>4. QED
    BY <2>3
<1>2. PICK x \in T : \A y \in T : ~(<<y, x>> \in OpToRel(<, Nat))
  BY <1>1, NatLessThanWellFounded, WFMin
<1>3. PICK m \in S : x = n - m
  BY <1>2
<1>4. ASSUME NEW j \in S PROVE j <= m
  <2>1. j \in 1..n /\ m \in 1..n
    BY <1>3, <1>4
  <2>2. n - j \in T
    BY <1>4, <2>1
  <2>3. ~(n - j < x)
    BY <1>2, <2>2 DEF OpToRel
  <2>4. QED
    BY <1>3, <2>1, <2>3
<1>5. QED
  BY <1>3, <1>4

LEMMA LastIsLast ==
  ASSUME NEW s, NEW n \in Nat, DOMAIN s = 1..n, NEW k, Ats(s, k) # {}
  PROVE  /\ LastAt(s, k) \in Ats(s, k)
         /\ \A j \in Ats(s, k) : j <= LastAt(s, k)
<1>1. Ats(s, k) \in SUBSET (1..n)
  BY DEF Ats
<1>2. \E m \in Ats(s, k) : \A j \in Ats(s, k) : j <= m
  BY <1>1, HasLast
<1>3. QED
  BY <1>2 DEF LastAt

LEMMA LastIsUnique ==
  ASSUME NEW s, NEW n \in Nat, DOMAIN s = 1..n, NEW k,
         NEW m \in Ats(s, k), \A j \in Ats(s, k) : j <= m
  PROVE  LastAt(s, k) = m
<1>1. LastAt(s, k) \in Ats(s, k) /\ m <= LastAt(s, k) /\ LastAt(s, k) <= m
  BY LastIsLast
<1>2. LastAt(s, k) \in 1..n /\ m \in 1..n
  BY <1>1 DEF Ats
<1>3. QED
  BY <1>1, <1>2

LEMMA DefinesType ==
  ASSUME scenario \in Scenario, NEW q \in Names
  PROVE  /\ DefinesOf(q) \in Seq(Define)
         /\ Len(DefinesOf(q)) \in Nat /\ DOMAIN DefinesOf(q) = 1..Len(DefinesOf(q))
         /\ \A i \in DOMAIN DefinesOf(q) : DefinesOf(q)[i] \in Define
<1>1. scenario.config[q].base \in Seq(Define) /\ scenario.config[q].more \in Seq(Define)
  BY DEF Scenario, Configuration
<1>2. DefinesOf(q) \in Seq(Define)
  BY <1>1, ConcatProperties DEF DefinesOf
<1>3. QED
  BY <1>2, LenProperties, ElementOfSeq

Flag == [by : graph.closed, key : Keys, value : Nat]

LEMMA FlagsType ==
  ASSUME scenario \in Scenario, NEW q \in graph.closed, q \in Names
  PROVE  /\ Flags(q) \in Seq(Flag)
         /\ Len(Flags(q)) = Len(DefinesOf(q))
         /\ \A i \in DOMAIN DefinesOf(q) :
              /\ Flags(q)[i] \in Flag
              /\ Flags(q)[i].by = q
              /\ Flags(q)[i].key = DefinesOf(q)[i].key
              /\ Flags(q)[i].value = DefinesOf(q)[i].value
<1>1. /\ Len(DefinesOf(q)) \in Nat /\ DOMAIN DefinesOf(q) = 1..Len(DefinesOf(q))
      /\ \A i \in DOMAIN DefinesOf(q) : DefinesOf(q)[i] \in Define
  BY DefinesType
<1>2. ASSUME NEW i \in DOMAIN DefinesOf(q)
      PROVE  /\ Flags(q)[i] \in Flag
             /\ Flags(q)[i].by = q
             /\ Flags(q)[i].key = DefinesOf(q)[i].key
             /\ Flags(q)[i].value = DefinesOf(q)[i].value
  BY <1>1, <1>2 DEF Flags, Define, Flag
<1>3. Flags(q) \in [1..Len(DefinesOf(q)) -> Flag]
  BY <1>1, <1>2 DEF Flags
<1>4. Flags(q) \in Seq(Flag) /\ Len(Flags(q)) = Len(DefinesOf(q))
  BY <1>1, <1>3, IsASeq, LenProperties
<1>5. QED
  BY <1>2, <1>4

(* What a package is added to the environment with                         *)
LEMMA FlagsAppended ==
  ASSUME scenario \in Scenario, NEW q \in graph.closed, q \in Names,
         cflags \in Seq(Flag), AddPackage(q)
  PROVE  /\ cflags' \in Seq(Flag)
         /\ Len(cflags) \in Nat /\ Len(DefinesOf(q)) \in Nat
         /\ DOMAIN cflags = 1..Len(cflags)
         /\ DOMAIN DefinesOf(q) = 1..Len(DefinesOf(q))
         /\ DOMAIN cflags' = 1..(Len(cflags) + Len(DefinesOf(q)))
         /\ \A i \in 1..Len(cflags) : cflags'[i] = cflags[i]
         /\ \A i \in 1..Len(DefinesOf(q)) : cflags'[Len(cflags) + i] = Flags(q)[i]
<1>1. /\ Flags(q) \in Seq(Flag) /\ Len(Flags(q)) = Len(DefinesOf(q))
      /\ Len(DefinesOf(q)) \in Nat /\ DOMAIN DefinesOf(q) = 1..Len(DefinesOf(q))
  BY FlagsType, DefinesType
<1>2. cflags' = cflags \o Flags(q)
  BY DEF AddPackage
<1>3. /\ cflags' \in Seq(Flag)
      /\ Len(cflags') = Len(cflags) + Len(Flags(q))
      /\ \A i \in 1..(Len(cflags) + Len(Flags(q))) :
           cflags'[i] = IF i <= Len(cflags) THEN cflags[i] ELSE Flags(q)[i - Len(cflags)]
  BY <1>1, <1>2, ConcatProperties
<1>4. Len(cflags) \in Nat /\ DOMAIN cflags = 1..Len(cflags) /\ DOMAIN cflags' = 1..Len(cflags')
  BY <1>3, LenProperties
<1> DEFINE m == Len(cflags)
           n == Len(DefinesOf(q))
<1>5. m \in Nat /\ n \in Nat
  BY <1>1, <1>4
<1>6. \A i \in 1..(m + n) : cflags'[i] = IF i <= m THEN cflags[i] ELSE Flags(q)[i - m]
  BY <1>1, <1>3
<1> HIDE DEF m, n
<1>7. ASSUME NEW i \in 1..m PROVE cflags'[i] = cflags[i]
  BY <1>5, <1>6, <1>7
<1>8. ASSUME NEW i \in 1..n PROVE cflags'[m + i] = Flags(q)[i]
  <2>1. m + i \in 1..(m + n) /\ ~(m + i <= m) /\ m + i - m = i
    BY <1>5, <1>8
  <2>2. PICK x \in 1..(m + n) : x = m + i /\ ~(x <= m) /\ x - m = i
    BY <1>5, <1>8, <2>1
  <2>3. cflags'[x] = Flags(q)[x - m]
    BY <1>6, <2>2
  <2>4. QED
    BY <2>2, <2>3
<1>9. QED
  BY <1>1, <1>3, <1>4, <1>7, <1>8 DEF m, n

LEMMA AddingAgrees ==
  ASSUME scenario \in Scenario, NEW q \in graph.closed, q \in Names,
         cflags \in Seq(Flag), dict \in [Keys -> Nat], DefinesAgree, AddPackage(q)
  PROVE  dict' \in [Keys -> Nat] /\ DefinesAgree'
<1> DEFINE m == Len(cflags)
           n == Len(DefinesOf(q))
           s == DefinesOf(q)
<1>1. /\ m \in Nat /\ n \in Nat
      /\ DOMAIN cflags = 1..m /\ DOMAIN s = 1..n /\ DOMAIN cflags' = 1..(m + n)
      /\ \A i \in 1..m : cflags'[i] = cflags[i]
      /\ \A i \in 1..n : cflags'[m + i] = Flags(q)[i]
  BY FlagsAppended
<1>2. \A i \in 1..n : /\ s[i] \in Define
                      /\ Flags(q)[i].key = s[i].key /\ Flags(q)[i].value = s[i].value
  BY <1>1, FlagsType, DefinesType
<1> HIDE DEF m, n, s
<1>3. dict' = Merged(dict, s)
  BY DEF AddPackage, s
<1>4. ASSUME NEW k \in Keys
      PROVE  /\ dict'[k] \in Nat
             /\ dict'[k] = IF Ats(cflags', k) = {} THEN 0 ELSE cflags'[LastAt(cflags', k)].value
  <2>1. dict'[k] = IF Ats(s, k) = {} THEN dict[k] ELSE s[LastAt(s, k)].value
    BY <1>3 DEF Merged
  <2>2. \A i \in 1..n : m + i \in Ats(cflags', k) <=> i \in Ats(s, k)
    BY <1>1, <1>2 DEF Ats
  <2>3. \A i \in 1..m : i \in Ats(cflags', k) <=> i \in Ats(cflags, k)
    BY <1>1 DEF Ats
  <2>4. CASE Ats(s, k) = {}
    <3>1. ASSUME NEW i \in Ats(cflags', k) PROVE i \in Ats(cflags, k)
      <4>1. i \in 1..(m + n)
        BY <1>1, <3>1 DEF Ats
      <4>2. CASE i \in 1..m
        BY <2>3, <3>1, <4>2
      <4>3. CASE ~(i \in 1..m)
        <5>1. i - m \in 1..n /\ m + (i - m) = i
          BY <1>1, <4>1, <4>3
        <5>2. QED
          BY <2>2, <2>4, <3>1, <5>1
      <4>4. QED
        BY <4>2, <4>3
    <3>2. Ats(cflags', k) = Ats(cflags, k)
      BY <1>1, <2>3, <3>1 DEF Ats
    <3>3. dict'[k] = dict[k] /\ dict[k] \in Nat
      BY <2>1, <2>4
    <3>4. dict[k] = IF Ats(cflags, k) = {} THEN 0 ELSE cflags[LastAt(cflags, k)].value
      BY DEF DefinesAgree
    <3>5. CASE Ats(cflags, k) # {}
      <4>1. LastAt(cflags, k) \in Ats(cflags, k) /\ LastAt(cflags, k) \in 1..m
        BY <1>1, <3>5, LastIsLast DEF Ats
      <4>2. LastAt(cflags', k) = LastAt(cflags, k)
        BY <3>2 DEF LastAt
      <4>3. QED
        BY <1>1, <3>2, <3>3, <3>4, <3>5, <4>1, <4>2
    <3>6. QED
      BY <3>2, <3>3, <3>4, <3>5
  <2>5. CASE Ats(s, k) # {}
    <3>1. /\ LastAt(s, k) \in Ats(s, k) /\ LastAt(s, k) \in 1..n
          /\ \A j \in Ats(s, k) : j <= LastAt(s, k)
      BY <1>1, <2>5, LastIsLast DEF Ats
    <3>2. m + LastAt(s, k) \in Ats(cflags', k)
      BY <2>2, <3>1
    <3>3. ASSUME NEW j \in Ats(cflags', k) PROVE j <= m + LastAt(s, k)
      <4>1. j \in 1..(m + n)
        BY <1>1, <3>3 DEF Ats
      <4>2. CASE j <= m
        BY <1>1, <3>1, <4>1, <4>2
      <4>3. CASE ~(j <= m)
        <5>1. j - m \in 1..n /\ m + (j - m) = j
          BY <1>1, <4>1, <4>3
        <5>2. j - m \in Ats(s, k)
          BY <2>2, <3>3, <5>1
        <5>3. j - m <= LastAt(s, k)
          BY <3>1, <5>2
        <5>4. QED
          BY <1>1, <3>1, <4>1, <5>3
      <4>4. QED
        BY <4>2, <4>3
    <3>4. LastAt(cflags', k) = m + LastAt(s, k)
      BY <1>1, <3>2, <3>3, LastIsUnique
    <3>5. cflags'[LastAt(cflags', k)].value = s[LastAt(s, k)].value
      BY <1>1, <1>2, <3>1, <3>4
    <3>6. s[LastAt(s, k)].value \in Nat
      BY <1>2, <3>1 DEF Define
    <3>7. QED
      BY <2>1, <2>5, <3>2, <3>5, <3>6
  <2>6. QED
    BY <2>4, <2>5
<1>5. dict' \in [Keys -> Nat]
  BY <1>3, <1>4 DEF Merged
<1>6. QED
  BY <1>4, <1>5 DEF DefinesAgree, Ats, LastAt

-----------------------------------------------------------------------------
(* Where a command is, and what it has done by then.                       *)

Installs == scenario.command = "install"

StageInv ==
  /\ scenario \in Scenario /\ graph = scenario.graph
  /\ pc \in {"find", "load", "resolve", "sort", "environment", "ready", "packages",
             "run", "done", "failed", "crashed"}
  /\ dir \in 0..Depth
  /\ loaded \in BOOLEAN
  /\ at \in 0..Len(list)
  /\ pc \in {"find", "load", "resolve"} \/ ~loaded => todo = graph.closed /\ list = <<>>
  /\ pc \in {"find", "load", "resolve", "sort"} => at = 0 /\ cflags = <<>>
  /\ pc \in {"resolve", "sort", "packages"} => loaded
  /\ pc = "packages" => Installs
  /\ pc \in {"environment", "ready"} => ~Installs
  /\ pc = "run" /\ Installs => at > 0 /\ loaded
  /\ who = IF Installs /\ at > 0 THEN list[at] ELSE graph.root

LEMMA OrderTypes ==
  ASSUME OrderInv
  PROVE  /\ graph \in SortableGraph /\ graph.root \in graph.closed
         /\ graph.closed \subseteq Names
         /\ list \in Seq(graph.closed \ {graph.root})
         /\ Len(list) \in Nat /\ DOMAIN list = 1..Len(list)
         /\ \A i \in 1..Len(list) : list[i] \in graph.closed \ {graph.root}
<1>1. /\ graph \in SortableGraph /\ graph.root \in graph.closed
      /\ list \in Seq(graph.closed \ {graph.root})
  BY DEF OrderInv, TypeOK
<1>2. graph.closed \subseteq Names
  BY <1>1 DEF SortableGraph
<1>3. Len(list) \in Nat /\ DOMAIN list = 1..Len(list)
  BY <1>1, LenProperties
<1>4. \A i \in 1..Len(list) : list[i] \in graph.closed \ {graph.root}
  BY <1>1, <1>3, ElementOfSeq
<1>5. QED
  BY <1>1, <1>2, <1>3, <1>4

LEMMA StageInit == ASSUME CommandInit PROVE StageInv
<1>1. scenario \in Scenario /\ graph = scenario.graph /\ Init
  BY ScenariosAssumption DEF CommandInit
<1>2. scenario.start \in 0..Depth /\ (scenario.work = Nowhere \/ scenario.work \in 0..Depth)
  BY <1>1 DEF Scenario
<1>3. /\ pc \in {"find", "load"} /\ dir \in 0..Depth
      /\ loaded = FALSE /\ at = 0 /\ who = graph.root /\ cflags = <<>>
  BY <1>2 DEF CommandInit
<1>4. todo = graph.closed /\ list = <<>> /\ Len(list) = 0
  BY <1>1, EmptySeq DEF Init
<1>5. at \in 0..Len(list)
  BY <1>3, <1>4
<1>6. who = IF Installs /\ at > 0 THEN list[at] ELSE graph.root
  BY <1>3
<1>7. QED
  BY <1>1, <1>3, <1>4, <1>5, <1>6 DEF StageInv

LEMMA StageNext ==
  ASSUME OrderInv, StageInv, [CommandNext]_<<vars, cvars>>
  PROVE  StageInv'
<1> USE DEF GoesTo
<1>0. /\ Len(list) \in Nat /\ at \in 0..Len(list) /\ dir \in 0..Depth /\ Depth \in Nat
  BY OrderTypes, DepthAssumption DEF StageInv
<1>1. CASE Found
  BY <1>1 DEF Found, StageInv, vars, Installs
<1>2. CASE Climb
  <2>1. dir' \in 0..Depth
    BY <1>0, <1>2 DEF Climb
  <2>2. QED
    BY <1>2, <2>1 DEF Climb, StageInv, vars, Installs
<1>3. CASE NotFound
  BY <1>3 DEF NotFound, StageInv, vars, Installs
<1>4. CASE LoadProject
  <2>1. /\ pc = "load" /\ pc' \in {"resolve", "environment", "failed", "crashed"}
        /\ pc' = "environment" => ~Installs
        /\ pc' = "resolve" => loaded'
        /\ loaded' \in BOOLEAN
        /\ UNCHANGED <<vars, scenario, dir, at, who, cflags, dict>>
    BY <1>4 DEF LoadProject, Otherwise, Installs
  <2>2. QED
    BY <2>1 DEF StageInv, vars, Installs
<1>5. CASE Resolve
  <2>1. /\ pc = "resolve" /\ pc' \in {"sort", "environment", "packages", "failed"}
        /\ pc' = "environment" => ~Installs
        /\ pc' = "packages" => Installs
        /\ UNCHANGED <<vars, scenario, dir, loaded, at, who, cflags, dict>>
    BY <1>5 DEF Resolve, Otherwise, WithOrder, Installs
  <2>2. QED
    BY <2>1 DEF StageInv, vars, Installs
<1>6. CASE Sort
  <2>1. CASE Next /\ UNCHANGED <<scenario, pc>>
    <3>1. pc = "sort" /\ pc' = "sort" /\ UNCHANGED <<scenario, dir, loaded, at, who, cflags, dict>>
      BY <1>6, <2>1 DEF Sort
    <3>2. graph' = graph
      BY <2>1 DEF Next, NextOfClosedSet, NextDependency, FinishVisit
    <3>3. OrderInv'
      BY <2>1, NextOrder
    <3>4. Len(list') \in Nat
      BY <3>3, OrderTypes
    <3>5. at' = 0 /\ at' \in 0..Len(list')
      BY <3>1, <3>4 DEF StageInv
    <3>6. QED
      BY <3>1, <3>2, <3>5 DEF StageInv, Installs
  <2>2. CASE Sorted /\ GoesTo(WithOrder)
    <3>1. /\ pc = "sort" /\ pc' \in {"environment", "packages"}
          /\ pc' = "environment" => ~Installs
          /\ pc' = "packages" => Installs
          /\ UNCHANGED <<vars, scenario, dir, loaded, at, who, cflags, dict>>
      BY <1>6, <2>2 DEF Sort, WithOrder, Installs
    <3>2. QED
      BY <3>1 DEF StageInv, vars, Installs
  <2>3. QED
    BY <1>6, <2>1, <2>2 DEF Sort
<1>7. CASE EnvPackage
  <2>1. /\ pc = "environment" /\ pc' = pc /\ at < Len(list) /\ at' = at + 1
        /\ UNCHANGED <<vars, scenario, dir, loaded, who>>
    BY <1>7 DEF EnvPackage
  <2>2. at' \in 0..Len(list)
    BY <1>0, <2>1
  <2>3. QED
    BY <2>1, <2>2 DEF StageInv, vars, Installs
<1>8. CASE EnvProject
  BY <1>8 DEF EnvProject, StageInv, vars, Installs
<1>9. CASE EnvWithoutProject
  BY <1>9 DEF EnvWithoutProject, StageInv, vars, Installs
<1>10. CASE PrintOrExec
  <2>1. /\ pc = "ready" /\ pc' \in {"done", "run"}
        /\ UNCHANGED <<vars, scenario, dir, loaded, at, who, cflags, dict>>
    BY <1>10 DEF PrintOrExec
  <2>2. QED
    BY <2>1 DEF StageInv, vars, Installs
<1>11. CASE BuildProject
  <2>1. /\ pc = "ready" /\ pc' \in {"failed", "run"}
        /\ UNCHANGED <<vars, scenario, dir, loaded, at, who>>
    BY <1>11 DEF BuildProject
  <2>2. QED
    BY <2>1 DEF StageInv, vars, Installs
<1>12. CASE BuildPackage
  <2>1. /\ pc = "packages" /\ at < Len(list) /\ UNCHANGED <<vars, scenario, dir, loaded>>
        /\ \/ pc' = "failed" /\ UNCHANGED <<at, who, cflags, dict>>
           \/ pc' = "run" /\ at' = at + 1 /\ who' = list[at + 1]
    BY <1>12 DEF BuildPackage, NextInOrder
  <2>2. at + 1 \in 0..Len(list) /\ at + 1 > 0
    BY <1>0, <2>1
  <2>3. QED
    BY <2>1, <2>2 DEF StageInv, vars, Installs
<1>13. CASE InstalledAll
  BY <1>13 DEF InstalledAll, StageInv, vars, Installs
<1>14. CASE RunEnds
  <2>1. /\ pc = "run" /\ pc' \in {"failed", "packages", "done"}
        /\ pc' = "packages" => Installs
        /\ UNCHANGED <<vars, scenario, dir, loaded, at, who, cflags, dict>>
    BY <1>14 DEF RunEnds, Installs
  <2>2. QED
    BY <2>1 DEF StageInv, vars, Installs
<1>15. CASE UNCHANGED <<vars, cvars>>
  BY <1>15 DEF StageInv, vars, cvars, Installs
<1>16. QED
  BY <1>1, <1>2, <1>3, <1>4, <1>5, <1>6, <1>7, <1>8, <1>9, <1>10, <1>11, <1>12, <1>13, <1>14,
     <1>15 DEF CommandNext

-----------------------------------------------------------------------------
(* What is in CFLAGS, in which order.                                      *)

(* All that q defines is among the options c.                              *)
HoldsAll(c, q) ==
  \A j \in DOMAIN DefinesOf(q) : \E i \in DOMAIN c : c[i] = Flags(q)[j]

ListedIn == \A a \in 1..at : HoldsAll(cflags, list[a])
ProjectIn == HoldsAll(cflags, graph.root)

(* The options are in the order of the list, those of the project last.    *)
FlagsInOrder ==
  \A i, j \in DOMAIN cflags : i <= j =>
    \/ cflags[j].by = graph.root
    \/ \E a, b \in 1..at : a <= b /\ list[a] = cflags[i].by /\ list[b] = cflags[j].by

NotYetProject == \A i \in DOMAIN cflags : cflags[i].by # graph.root

FlagInv ==
  /\ cflags \in Seq(Flag)
  /\ dict \in [Keys -> Nat]
  /\ DefinesAgree
  /\ FlagsInOrder
  /\ pc = "environment" \/ Installs => NotYetProject
  /\ ListedIn
  /\ pc \in {"ready", "run"} /\ ~Installs /\ loaded =>
       at = Len(list) /\ ProjectIn

LEMMA FlagsStayIn ==
  ASSUME scenario \in Scenario, NEW q \in graph.closed, q \in Names,
         cflags \in Seq(Flag), AddPackage(q)
  PROVE  /\ HoldsAll(cflags', q)
         /\ \A r : HoldsAll(cflags, r) => HoldsAll(cflags', r)
<1> DEFINE m == Len(cflags)
           n == Len(DefinesOf(q))
<1>1. /\ m \in Nat /\ n \in Nat
      /\ DOMAIN cflags = 1..m /\ DOMAIN DefinesOf(q) = 1..n /\ DOMAIN cflags' = 1..(m + n)
      /\ \A i \in 1..m : cflags'[i] = cflags[i]
      /\ \A i \in 1..n : cflags'[m + i] = Flags(q)[i]
  BY FlagsAppended
<1> HIDE DEF m, n
<1>2. ASSUME NEW j \in DOMAIN DefinesOf(q)
      PROVE  \E i \in DOMAIN cflags' : cflags'[i] = Flags(q)[j]
  <2>1. j \in 1..n /\ m + j \in 1..(m + n)
    BY <1>1, <1>2
  <2>2. QED
    BY <1>1, <2>1
<1>3. ASSUME NEW r, HoldsAll(cflags, r), NEW j \in DOMAIN DefinesOf(r)
      PROVE  \E i \in DOMAIN cflags' : cflags'[i] = Flags(r)[j]
  <2>1. PICK i \in DOMAIN cflags : cflags[i] = Flags(r)[j]
    BY <1>3 DEF HoldsAll
  <2>2. i \in 1..m /\ i \in DOMAIN cflags'
    BY <1>1, <2>1
  <2>3. QED
    BY <1>1, <2>1, <2>2
<1>4. QED
  BY <1>2, <1>3 DEF HoldsAll

(* The next package of the list                                            *)
LEMMA ListedFlagsInOrder ==
  ASSUME OrderInv, scenario \in Scenario, UNCHANGED vars,
         cflags \in Seq(Flag), FlagsInOrder, NotYetProject,
         at \in 0..Len(list), at < Len(list), at' = at + 1, AddPackage(list[at + 1])
  PROVE  FlagsInOrder' /\ NotYetProject'
<1> DEFINE q == list[at + 1]
           m == Len(cflags)
           n == Len(DefinesOf(q))
<1>1. Len(list) \in Nat /\ at \in Nat /\ at + 1 \in 1..Len(list)
  BY OrderTypes
<1>2. q \in graph.closed /\ q \in Names /\ q # graph.root
  BY <1>1, OrderTypes
<1>3. /\ m \in Nat /\ n \in Nat
      /\ DOMAIN cflags = 1..m /\ DOMAIN DefinesOf(q) = 1..n /\ DOMAIN cflags' = 1..(m + n)
      /\ \A i \in 1..m : cflags'[i] = cflags[i]
      /\ \A i \in 1..n : cflags'[m + i] = Flags(q)[i]
  BY <1>2, FlagsAppended
<1>4. \A i \in 1..n : Flags(q)[i].by = q
  BY <1>2, <1>3, FlagsType
<1> HIDE DEF m, n, q
<1>5. ASSUME NEW i \in 1..(m + n), i > m PROVE cflags'[i].by = q
  <2>1. i - m \in 1..n /\ m + (i - m) = i
    BY <1>3, <1>5
  <2>2. cflags'[m + (i - m)] = Flags(q)[i - m]
    BY <1>3, <2>1
  <2>3. QED
    BY <1>4, <2>1, <2>2
<1>6. \A i \in 1..m : \E a \in 1..at : list[a] = cflags[i].by
  <2>1. TAKE i \in 1..m
  <2>2. i \in DOMAIN cflags /\ i <= i
    BY <1>3
  <2>3. cflags[i].by # graph.root
    BY <2>2 DEF NotYetProject
  <2>4. QED
    BY <2>2, <2>3 DEF FlagsInOrder
<1>7. list' = list /\ graph' = graph
  BY DEF vars
<1>8. ASSUME NEW i \in 1..(m + n), NEW j \in 1..(m + n), i <= j
      PROVE  \E a, b \in 1..at' : a <= b /\ list[a] = cflags'[i].by /\ list[b] = cflags'[j].by
  <2>1. 1..at \subseteq 1..at' /\ at + 1 \in 1..at' /\ \A a \in 1..at : a <= at + 1
    BY <1>1
  <2>2. CASE j <= m
    <3>1. i \in 1..m /\ j \in 1..m
      BY <1>3, <1>8, <2>2
    <3>2. \E a, b \in 1..at : a <= b /\ list[a] = cflags[i].by /\ list[b] = cflags[j].by
      <4>1. i \in DOMAIN cflags /\ j \in DOMAIN cflags
        BY <1>3, <3>1
      <4>2. cflags[j].by # graph.root
        BY <4>1 DEF NotYetProject
      <4>3. QED
        BY <1>8, <4>1, <4>2 DEF FlagsInOrder
    <3>3. QED
      BY <1>3, <2>1, <3>1, <3>2
  <2>3. CASE i <= m /\ j > m
    <3>1. i \in 1..m
      BY <1>3, <1>8, <2>3
    <3>2. PICK a \in 1..at : list[a] = cflags[i].by
      BY <1>6, <3>1
    <3>3. cflags'[i] = cflags[i] /\ cflags'[j].by = list[at + 1]
      BY <1>3, <1>5, <2>3, <3>1 DEF q
    <3>4. QED
      BY <2>1, <3>2, <3>3
  <2>4. CASE i > m
    <3>1. j > m
      BY <1>3, <1>8, <2>4
    <3>2. cflags'[i].by = list[at + 1] /\ cflags'[j].by = list[at + 1]
      BY <1>5, <2>4, <3>1 DEF q
    <3>3. at + 1 <= at + 1
      BY <1>1
    <3>4. QED
      BY <2>1, <3>2, <3>3
  <2>5. QED
    BY <1>3, <1>8, <2>2, <2>3, <2>4
<1>9. FlagsInOrder'
  <2>1. DOMAIN cflags' = 1..(m + n)
    BY <1>3
  <2>2. QED
    BY <1>7, <1>8, <2>1 DEF FlagsInOrder
<1>10. NotYetProject'
  <2>1. ASSUME NEW i \in 1..(m + n) PROVE cflags'[i].by # graph.root
    <3>1. CASE i <= m
      <4>1. i \in 1..m
        BY <1>3, <3>1
      <4>2. i \in DOMAIN cflags /\ cflags'[i] = cflags[i]
        BY <1>3, <4>1
      <4>3. QED
        BY <4>2 DEF NotYetProject
    <3>2. CASE i > m
      BY <1>2, <1>5, <3>2
    <3>3. QED
      BY <1>3, <3>1, <3>2
  <2>2. QED
    BY <1>3, <1>7, <2>1 DEF NotYetProject
<1>11. QED
  BY <1>9, <1>10

LEMMA ProjectFlagsInOrder ==
  ASSUME OrderInv, scenario \in Scenario, UNCHANGED vars, at' = at,
         cflags \in Seq(Flag), FlagsInOrder, AddPackage(graph.root)
  PROVE  FlagsInOrder'
<1> DEFINE q == graph.root
           m == Len(cflags)
           n == Len(DefinesOf(q))
<1>1. q \in graph.closed /\ q \in Names
  BY OrderTypes
<1>2. /\ m \in Nat /\ n \in Nat
      /\ DOMAIN cflags = 1..m /\ DOMAIN DefinesOf(q) = 1..n /\ DOMAIN cflags' = 1..(m + n)
      /\ \A i \in 1..m : cflags'[i] = cflags[i]
      /\ \A i \in 1..n : cflags'[m + i] = Flags(q)[i]
  BY <1>1, FlagsAppended
<1>3. \A i \in 1..n : Flags(q)[i].by = q
  BY <1>1, <1>2, FlagsType
<1> HIDE DEF m, n
<1>4. ASSUME NEW i \in 1..(m + n), NEW j \in 1..(m + n), i <= j
      PROVE  \/ cflags'[j].by = graph.root
             \/ \E a, b \in 1..at : a <= b /\ list[a] = cflags'[i].by /\ list[b] = cflags'[j].by
  <2>1. CASE j <= m
    <3>1. i \in 1..m /\ j \in 1..m
      BY <1>2, <1>4, <2>1
    <3>2. cflags'[i] = cflags[i] /\ cflags'[j] = cflags[j]
      BY <1>2, <3>1
    <3>3. i \in DOMAIN cflags /\ j \in DOMAIN cflags
      BY <1>2, <3>1
    <3>4. \/ cflags[j].by = graph.root
          \/ \E a, b \in 1..at : a <= b /\ list[a] = cflags[i].by /\ list[b] = cflags[j].by
      BY <1>4, <3>3 DEF FlagsInOrder
    <3>5. QED
      BY <3>2, <3>4
  <2>2. CASE j > m
    <3>1. j - m \in 1..n /\ m + (j - m) = j
      BY <1>2, <1>4, <2>2
    <3>2. cflags'[m + (j - m)] = Flags(q)[j - m]
      BY <1>2, <3>1
    <3>3. QED
      BY <1>3, <3>1, <3>2
  <2>3. QED
    BY <1>2, <2>1, <2>2
<1>5. list' = list /\ graph' = graph
  BY DEF vars
<1>6. \A i, j \in 1..(m + n) : i <= j =>
        \/ cflags'[j].by = graph'.root
        \/ \E a, b \in 1..at' : a <= b /\ list'[a] = cflags'[i].by /\ list'[b] = cflags'[j].by
  BY <1>4, <1>5
<1>7. DOMAIN cflags' = 1..(m + n)
  BY <1>2
<1>8. QED
  BY <1>6, <1>7 DEF FlagsInOrder

LEMMA FlagInit == ASSUME CommandInit PROVE FlagInv
<1>1. cflags = <<>> /\ DOMAIN cflags = {} /\ at = 0 /\ dict = [k \in Keys |-> 0]
      /\ pc \in {"find", "load"}
  BY DEF CommandInit
<1>2. cflags \in Seq(Flag)
  BY <1>1, EmptySeq
<1>3. dict \in [Keys -> Nat] /\ DefinesAgree
  BY <1>1 DEF DefinesAgree, Ats
<1>4. 1..at = {}
  BY <1>1
<1>5. QED
  BY <1>1, <1>2, <1>3, <1>4 DEF FlagInv, FlagsInOrder, NotYetProject, ListedIn

(* A step that adds nothing, of a command whose list is what it was        *)
LEMMA FlagsUnchanged ==
  ASSUME FlagInv, UNCHANGED <<scenario, graph, list, at, cflags, dict>>,
         pc' = "environment" => NotYetProject,
         pc' \in {"ready", "run"} /\ ~Installs /\ loaded' =>
           pc \in {"ready", "run"} /\ loaded
  PROVE  FlagInv'
<1>1. /\ ListedIn' = ListedIn /\ ProjectIn' = ProjectIn
      /\ DefinesAgree' = DefinesAgree /\ NotYetProject' = NotYetProject
      /\ FlagsInOrder' = FlagsInOrder /\ Installs' = Installs
      /\ Flag' = Flag
  BY DEF ListedIn, ProjectIn, HoldsAll, DefinesOf, Flags, DefinesAgree, Ats, LastAt,
         NotYetProject, FlagsInOrder, Installs, Flag
<1>2. QED
  BY <1>1 DEF FlagInv

(* What a step that adds q keeps of the options                            *)
LEMMA ListedStayIn ==
  ASSUME scenario' = scenario, UNCHANGED vars, at \in Nat, ListedIn,
         \/ at' = at
         \/ at' = at + 1 /\ HoldsAll(cflags', list[at + 1]),
         \A r : HoldsAll(cflags, r) => HoldsAll(cflags', r)
  PROVE  ListedIn'
<1>1. ASSUME NEW a \in 1..at' PROVE HoldsAll(cflags', list[a])
  <2>1. CASE a \in 1..at
    BY <2>1 DEF ListedIn
  <2>2. CASE ~(a \in 1..at)
    <3>1. a = at + 1 /\ at' # at
      BY <1>1, <2>2
    <3>2. QED
      BY <3>1
  <2>3. QED
    BY <2>1, <2>2
<1>2. list' = list
  BY DEF vars
<1>3. \A a \in 1..at' : HoldsAll(cflags, list[a])' = HoldsAll(cflags', list[a])
  BY <1>2 DEF HoldsAll, DefinesOf, Flags
<1>4. QED
  BY <1>1, <1>2, <1>3 DEF ListedIn

LEMMA FlagNext ==
  ASSUME OrderInv, StageInv, FlagInv, [CommandNext]_<<vars, cvars>>
  PROVE  FlagInv'
<1> USE DEF GoesTo
<1>0. /\ scenario \in Scenario /\ graph.root \in graph.closed /\ graph.root \in Names
      /\ cflags \in Seq(Flag) /\ dict \in [Keys -> Nat] /\ DefinesAgree /\ FlagsInOrder
      /\ Len(list) \in Nat /\ at \in 0..Len(list)
  BY OrderTypes DEF StageInv, FlagInv
<1>a. cflags = <<>> => NotYetProject
  BY DEF NotYetProject
<1>1. CASE Found
  BY <1>1, FlagsUnchanged DEF Found, vars
<1>2. CASE Climb
  BY <1>2, FlagsUnchanged DEF Climb, vars
<1>3. CASE NotFound
  BY <1>3, FlagsUnchanged DEF NotFound, vars
<1>4. CASE LoadProject
  <2>1. /\ pc = "load" /\ pc' \in {"resolve", "environment", "failed", "crashed"}
        /\ UNCHANGED <<vars, scenario, at, cflags, dict>>
    BY <1>4 DEF LoadProject, Otherwise
  <2>2. cflags = <<>>
    BY <2>1 DEF StageInv
  <2>3. QED
    BY <1>a, <2>1, <2>2, FlagsUnchanged DEF vars
<1>5. CASE Resolve
  <2>1. /\ pc = "resolve" /\ pc' \in {"sort", "environment", "packages", "failed"}
        /\ UNCHANGED <<vars, scenario, at, cflags, dict>>
    BY <1>5 DEF Resolve, Otherwise, WithOrder
  <2>2. cflags = <<>>
    BY <2>1 DEF StageInv
  <2>3. QED
    BY <1>a, <2>1, <2>2, FlagsUnchanged DEF vars
<1>6. CASE Sort
  <2>1. /\ pc = "sort" /\ pc' \in {"sort", "environment", "packages"}
        /\ UNCHANGED <<scenario, graph, at, cflags, dict>>
    BY <1>6 DEF Sort, WithOrder, Next, NextOfClosedSet, NextDependency, FinishVisit, vars
  <2>2. cflags = <<>> /\ at = 0 /\ cflags' = <<>> /\ at' = 0
    BY <2>1 DEF StageInv
  <2>3. DOMAIN cflags' = {} /\ 1..at' = {}
    BY <2>2
  <2>4. FlagsInOrder' /\ NotYetProject'
    BY <2>3 DEF FlagsInOrder, NotYetProject
  <2>5. DefinesAgree' = DefinesAgree
    BY <2>1 DEF DefinesAgree, Ats, LastAt
  <2>6. Flag' = Flag /\ Installs' = Installs /\ ListedIn'
    BY <2>1, <2>3 DEF Flag, Installs, ListedIn
  <2>7. QED
    BY <1>0, <2>1, <2>3, <2>4, <2>5, <2>6 DEF FlagInv
<1>7. CASE EnvPackage
  <2>1. /\ pc = "environment" /\ pc' = pc /\ at < Len(list) /\ at' = at + 1
        /\ AddPackage(list[at + 1]) /\ UNCHANGED <<vars, scenario, loaded>>
    BY <1>7 DEF EnvPackage, NextInOrder
  <2>2. QED
    <3> DEFINE q == list[at + 1]
    <3>1. at + 1 \in 1..Len(list) /\ at \in Nat
      BY <1>0, <2>1
    <3>2. q \in graph.closed /\ q \in Names
      BY <3>1, OrderTypes
    <3>3. NotYetProject
      BY <2>1 DEF FlagInv
    <3>4. FlagsInOrder' /\ NotYetProject'
      BY <1>0, <2>1, <3>3, ListedFlagsInOrder
    <3> HIDE DEF q
    <3>5. cflags' \in Seq(Flag) /\ dict' \in [Keys -> Nat] /\ DefinesAgree'
      BY <1>0, <2>1, <3>2, AddingAgrees, FlagsAppended DEF q
    <3>6. HoldsAll(cflags', q) /\ \A r : HoldsAll(cflags, r) => HoldsAll(cflags', r)
      BY <1>0, <2>1, <3>2, FlagsStayIn DEF q
    <3>7. ListedIn'
      <4>1. ListedIn
        BY DEF FlagInv
      <4>2. scenario' = scenario /\ UNCHANGED vars /\ at' = at + 1
        BY <2>1
      <4>3. QED
        BY <3>1, <3>6, <4>1, <4>2, ListedStayIn DEF q
    <3>8. list' = list /\ Flag' = Flag
      BY <2>1 DEF vars, Flag
    <3>9. QED
      BY <2>1, <3>4, <3>5, <3>7, <3>8 DEF FlagInv
<1>8. ASSUME AddPackage(graph.root), pc' \in {"ready", "run"}, pc \in {"environment", "ready"},
             UNCHANGED <<vars, scenario, loaded, at>>, loaded => at = Len(list)
      PROVE  FlagInv'
  <2>1. ~Installs /\ Installs' = Installs
    BY <1>8 DEF StageInv, Installs
  <2>2. FlagsInOrder'
    BY <1>0, <1>8, ProjectFlagsInOrder
  <2>3. cflags' \in Seq(Flag) /\ dict' \in [Keys -> Nat] /\ DefinesAgree'
    BY <1>0, <1>8, AddingAgrees, FlagsAppended
  <2>4. HoldsAll(cflags', graph.root) /\ \A r : HoldsAll(cflags, r) => HoldsAll(cflags', r)
    BY <1>0, <1>8, FlagsStayIn
  <2>5. ListedIn' /\ ProjectIn'
    <3>1. ListedIn /\ at \in Nat
      BY <1>0 DEF FlagInv
    <3>2. ListedIn'
      BY <1>8, <2>4, <3>1, ListedStayIn
    <3>3. graph' = graph
      BY <1>8 DEF vars
    <3>4. QED
      BY <1>8, <2>4, <3>2, <3>3 DEF ProjectIn, HoldsAll, DefinesOf, Flags
  <2>6. list' = list /\ graph' = graph /\ Flag' = Flag
    BY <1>8 DEF vars, Flag
  <2>7. QED
    BY <1>8, <2>1, <2>2, <2>3, <2>4, <2>5, <2>6 DEF FlagInv
<1>9. CASE EnvProject
  BY <1>8, <1>9 DEF EnvProject
<1>10. CASE EnvWithoutProject
  BY <1>10, FlagsUnchanged DEF EnvWithoutProject, vars
<1>11. CASE PrintOrExec
  <2>1. pc = "ready" /\ pc' \in {"done", "run"} /\ UNCHANGED <<vars, scenario, loaded, at, cflags, dict>>
    BY <1>11 DEF PrintOrExec
  <2>2. QED
    BY <2>1, FlagsUnchanged DEF vars
<1>12. CASE BuildProject
  <2>1. CASE GoesTo("failed") /\ UNCHANGED <<cflags, dict>>
    BY <1>12, <2>1, FlagsUnchanged DEF BuildProject, vars
  <2>2. CASE GoesTo("run") /\ AddPackage(graph.root)
    <3>1. pc = "ready" /\ ~Installs /\ UNCHANGED <<loaded, at>>
      BY <1>12 DEF BuildProject, StageInv
    <3>2. loaded => at = Len(list)
      BY <3>1 DEF FlagInv
    <3>3. QED
      BY <1>8, <2>2, <3>1, <3>2
  <2>3. QED
    BY <1>12, <2>1, <2>2 DEF BuildProject
<1>13. CASE BuildPackage
  <2>1. CASE GoesTo("failed") /\ UNCHANGED <<at, who, cflags, dict>>
    BY <1>13, <2>1, FlagsUnchanged DEF BuildPackage, vars
  <2>2. CASE GoesTo("run") /\ AddPackage(list[at + 1]) /\ at' = at + 1
    <3> DEFINE q == list[at + 1]
    <3>0. pc = "packages" /\ Installs /\ Installs' = Installs /\ at < Len(list)
      BY <1>13, <2>2 DEF BuildPackage, StageInv, Installs
    <3>1. at + 1 \in 1..Len(list) /\ at \in Nat
      BY <1>0, <3>0
    <3>2. q \in graph.closed /\ q \in Names
      BY <3>1, OrderTypes
    <3>3. NotYetProject
      BY <3>0 DEF FlagInv
    <3>4. FlagsInOrder' /\ NotYetProject'
      BY <1>0, <2>2, <3>0, <3>3, ListedFlagsInOrder
    <3> HIDE DEF q
    <3>5. cflags' \in Seq(Flag) /\ dict' \in [Keys -> Nat] /\ DefinesAgree'
      BY <1>0, <2>2, <3>2, AddingAgrees, FlagsAppended DEF q
    <3>6. HoldsAll(cflags', q) /\ \A r : HoldsAll(cflags, r) => HoldsAll(cflags', r)
      BY <1>0, <2>2, <3>2, FlagsStayIn DEF q
    <3>7. ListedIn'
      <4>1. ListedIn
        BY DEF FlagInv
      <4>2. scenario' = scenario /\ UNCHANGED vars /\ at' = at + 1
        BY <2>2
      <4>3. QED
        BY <3>1, <3>6, <4>1, <4>2, ListedStayIn DEF q
    <3>8. list' = list /\ Flag' = Flag
      BY <2>2 DEF vars, Flag
    <3>9. QED
      BY <2>2, <3>0, <3>4, <3>5, <3>7, <3>8 DEF FlagInv
  <2>3. QED
    BY <1>13, <2>1, <2>2 DEF BuildPackage, NextInOrder
<1>14. CASE InstalledAll
  BY <1>14, FlagsUnchanged DEF InstalledAll, vars
<1>15. CASE RunEnds
  <2>1. /\ pc = "run" /\ pc' \in {"failed", "packages", "done"}
        /\ UNCHANGED <<vars, scenario, loaded, at, cflags, dict>>
    BY <1>15 DEF RunEnds
  <2>2. QED
    BY <2>1, FlagsUnchanged DEF vars
<1>16. CASE UNCHANGED <<vars, cvars>>
  <2>1. pc' = "environment" => NotYetProject
    BY <1>16 DEF cvars, FlagInv
  <2>2. QED
    BY <1>16, <2>1, FlagsUnchanged DEF vars, cvars
<1>17. QED
  BY <1>1, <1>2, <1>3, <1>4, <1>5, <1>6, <1>7, <1>9, <1>10, <1>11, <1>12, <1>13, <1>14, <1>15,
     <1>16 DEF CommandNext

LEMMA CommandInvariant == CommandSpec => [](OrderInv /\ StageInv /\ FlagInv)
<1>1. CommandInit => Init
  BY DEF CommandInit
<1>2. CommandInit => OrderInv /\ StageInv /\ FlagInv
  BY <1>1, InitOrder, StageInit, FlagInit
<1>3. OrderInv /\ StageInv /\ FlagInv /\ [CommandNext]_<<vars, cvars>>
        => (OrderInv /\ StageInv /\ FlagInv)'
  <2>1. SUFFICES ASSUME OrderInv, StageInv, FlagInv, [CommandNext]_<<vars, cvars>>
                 PROVE  OrderInv' /\ StageInv' /\ FlagInv'
    OBVIOUS
  <2>2. OrderInv'
    BY <2>1, SortStep, NextOrder
  <2>3. StageInv'
    BY <2>1, StageNext
  <2>4. FlagInv'
    BY <2>1, FlagNext
  <2>5. QED
    BY <2>2, <2>3, <2>4
<1>4. QED
  BY <1>2, <1>3, PTL DEF CommandSpec

(* Types, with what is added to the environment among them.                *)
THEOREM CommandTyped == CommandSpec => []CommandTypeOK
<1>1. OrderInv /\ StageInv /\ FlagInv => CommandTypeOK
  <2>1. SUFFICES ASSUME OrderInv, StageInv, FlagInv PROVE CommandTypeOK
    OBVIOUS
  <2>2. who \in graph.closed
    <3>1. CASE Installs /\ at > 0
      <4>1. at \in 1..Len(list)
        BY <2>1, <3>1, OrderTypes DEF StageInv
      <4>2. QED
        BY <2>1, <3>1, <4>1, OrderTypes DEF StageInv
    <3>2. CASE ~(Installs /\ at > 0)
      BY <2>1, <3>2, OrderTypes DEF StageInv
    <3>3. QED
      BY <3>1, <3>2
  <2>3. TypeOK
    BY <2>1 DEF OrderInv
  <2>4. QED
    BY <2>1, <2>2, <2>3 DEF CommandTypeOK, StageInv, FlagInv, Flag
<1>2. QED
  BY <1>1, CommandInvariant, PTL

(* Whatever packages define, how often and in which order they are added:  *)
(* the dictionary and the compiler's options never disagree.               *)
THEOREM RecordsAgree == CommandSpec => []DefinesAgree
<1>1. FlagInv => DefinesAgree
  BY DEF FlagInv
<1>2. QED
  BY <1>1, CommandInvariant, PTL

-----------------------------------------------------------------------------
(* What a package on no circle needs is listed before it.                  *)

(* A package that needs the project is needed by it.  The project needs    *)
(* all of the closed set, unless a package file names another package than *)
(* its directory does: such a package is chosen, and nothing depends on    *)
(* its name.                                                               *)
ProjectOutermost ==
  \A q \in graph.closed : Needs(q, graph.root) => Needs(graph.root, q)

ListedDepsSeen == \A i \in DOMAIN list : DepsOf(list[i]) \subseteq seen

NeededListed ==
  \A i \in DOMAIN list : OnNoCircle(list[i]) =>
    \A q \in graph.closed : Needs(list[i], q) => \E j \in 1..i : list[j] = q

NeedInv == ListedDepsSeen /\ (ProjectOutermost => NeededListed)

LEMMA NeedKept ==
  ASSUME NeedInv, graph' = graph, list' = list, seen \subseteq seen'
  PROVE  NeedInv'
<1>1. ListedDepsSeen'
  BY DEF NeedInv, ListedDepsSeen, DepsOf
<1>2. ProjectOutermost' = ProjectOutermost
  BY DEF ProjectOutermost, Needs, DepsOf
<1>3. NeededListed' = NeededListed
  BY DEF NeededListed, OnNoCircle, Needs, DepsOf
<1>4. QED
  BY <1>1, <1>2, <1>3 DEF NeedInv

LEMMA FinishedNeeds ==
  ASSUME OrderInv, ListedDepsSeen, ProjectOutermost, FinishVisit,
         Top.pkg # graph.root, OnNoCircle(Top.pkg),
         NEW q \in graph.closed, Needs(Top.pkg, q)
  PROVE  q = Top.pkg \/ InList(q)
<1> DEFINE p == Top.pkg
           S == {r \in graph.closed : Needs(p, r) /\ (r = p \/ InList(r))}
<1>1. stack # <<>> /\ Top.next > Len(graph.deps[p])
  BY DEF FinishVisit
<1>2. /\ p \in graph.closed /\ Len(stack) \in DOMAIN stack /\ stack[Len(stack)].pkg = p
      /\ DOMAIN stack = 1..Len(stack) /\ Len(stack) \in Nat
      /\ graph.deps[p] \in Seq(Names) /\ Top.next \in Nat
  BY <1>1, StackTop DEF Top, OrderInv, Visit
<1>3. DepsOf(p) \subseteq seen
  <2>1. DOMAIN graph.deps[p] = 1..Len(graph.deps[p]) /\ Len(graph.deps[p]) \in Nat
    BY <1>2, LenProperties
  <2>2. \A m \in DOMAIN graph.deps[p] : m < stack[Len(stack)].next
    BY <1>1, <1>2, <2>1 DEF Top
  <2>3. QED
    BY <1>2, <2>2 DEF OrderInv, PassedAreSeen, DepsOf
<1>4. ASSUME NEW r \in S, NEW d \in DepsOf(r) PROVE d \in S
  <2>1. d \in graph.closed /\ Needs(p, d)
    BY <1>4, NeedsStep DEF DepsOf
  <2>2. d \in seen
    BY <1>3, <1>4 DEF ListedDepsSeen, InList
  <2>3. CASE OnStack(d)
    <3>1. PICK i \in DOMAIN stack : stack[i].pkg = d
      BY <2>3 DEF OnStack
    <3>2. Needs(d, p)
      BY <1>2, <3>1 DEF OrderInv, StackIsPath
    <3>3. d = p
      BY <2>1, <3>2 DEF OnNoCircle
    <3>4. QED
      BY <2>1, <3>3
  <2>4. CASE d = graph.root
    <3>1. Needs(d, p)
      BY <1>2, <2>1, <2>4 DEF ProjectOutermost
    <3>2. QED
      BY <2>1, <2>4, <3>1 DEF OnNoCircle
  <2>5. QED
    BY <2>1, <2>2, <2>3, <2>4 DEF OrderInv, SeenPartition
<1>5. p \in S
  BY <1>2, NeedsSelf
<1>6. S \in SUBSET graph.closed
  OBVIOUS
<1>7. q \in S
  <2> HIDE DEF S
  <2>1. \A r \in S : DepsOf(r) \subseteq S
    BY <1>4
  <2>2. QED
    BY <1>5, <1>6, <2>1 DEF Needs
<1>8. QED
  BY <1>7

LEMMA NeedNext ==
  ASSUME OrderInv, NeedInv, [Next]_vars
  PROVE  NeedInv'
<1>1. CASE NextOfClosedSet
  BY <1>1, NeedKept DEF NextOfClosedSet, Call
<1>2. CASE NextDependency
  BY <1>2, NeedKept DEF NextDependency, Call
<1>3. CASE FinishVisit
  <2> DEFINE p == Top.pkg
             n == Len(list)
  <2>1. graph' = graph /\ seen' = seen /\ list' = Listed(p)
    BY <1>3 DEF FinishVisit
  <2>2. CASE p = graph.root
    BY <2>1, <2>2, NeedKept DEF Listed
  <2>3. CASE p # graph.root
    <3>1. /\ n \in Nat /\ DOMAIN list = 1..n /\ list \in Seq(Names)
          /\ p \in Names /\ p \in graph.closed
      <4>1. stack # <<>>
        BY <1>3 DEF FinishVisit
      <4>2. n \in Nat /\ DOMAIN list = 1..n
        BY OrderTypes
      <4>3. \A i \in 1..n : list[i] \in Names
        BY OrderTypes
      <4>4. list \in Seq(Names)
        BY OrderTypes, SeqDef, <4>2, <4>3
      <4>5. QED
        BY <4>1, <4>2, <4>4, StackTop DEF OrderInv
    <3>2. list' = Append(list, p)
      BY <2>1, <2>3 DEF Listed
    <3>3. /\ DOMAIN list' = 1..(n + 1) /\ list'[n + 1] = p
          /\ \A i \in 1..n : list'[i] = list[i]
      BY <3>1, <3>2, AppendProperties, LenProperties
    <3>4. DepsOf(p) \subseteq seen
      <4>1. /\ stack # <<>> /\ Top.next > Len(graph.deps[p])
        BY <1>3 DEF FinishVisit
      <4>2. /\ Len(stack) \in DOMAIN stack /\ stack[Len(stack)].pkg = p
            /\ graph.deps[p] \in Seq(Names) /\ Top.next \in Nat
        BY <4>1, StackTop DEF Top, OrderInv, Visit
      <4>3. DOMAIN graph.deps[p] = 1..Len(graph.deps[p]) /\ Len(graph.deps[p]) \in Nat
        BY <4>2, LenProperties
      <4>4. \A m \in DOMAIN graph.deps[p] : m < stack[Len(stack)].next
        BY <4>1, <4>2, <4>3 DEF Top
      <4>5. QED
        BY <4>2, <4>4 DEF OrderInv, PassedAreSeen, DepsOf
    <3> HIDE DEF p, n
    <3>5. \A r : DepsOf(r)' = DepsOf(r) /\ OnNoCircle(r)' = OnNoCircle(r)
                 /\ \A q : Needs(r, q)' = Needs(r, q)
      BY <2>1 DEF DepsOf, OnNoCircle, Needs
    <3>6. \A i \in 1..(n + 1) : i \in 1..n \/ i = n + 1
      BY <3>1
    <3>7. ListedDepsSeen'
      <4>1. ASSUME NEW i \in 1..(n + 1) PROVE DepsOf(list'[i]) \subseteq seen
        BY <3>1, <3>3, <3>4, <3>6 DEF NeedInv, ListedDepsSeen
      <4>2. \A i \in 1..(n + 1) : DepsOf(list[i])' = DepsOf(list'[i])
        BY <2>1 DEF DepsOf
      <4>3. QED
        BY <2>1, <3>3, <4>1, <4>2 DEF ListedDepsSeen
    <3>8. ASSUME ProjectOutermost, NEW i \in 1..(n + 1), OnNoCircle(list'[i]),
                 NEW q \in graph.closed, Needs(list'[i], q)
          PROVE  \E j \in 1..i : list'[j] = q
      <4>1. CASE i \in 1..n
        <5>1. OnNoCircle(list[i]) /\ Needs(list[i], q)
          BY <3>3, <3>8, <4>1
        <5>2. PICK j \in 1..i : list[j] = q
          BY <3>1, <3>8, <4>1, <5>1 DEF NeedInv, NeededListed
        <5>3. j \in 1..n
          BY <3>1, <4>1
        <5>4. QED
          BY <3>3, <5>2, <5>3
      <4>2. CASE i = n + 1
        <5>1. list'[i] = p
          BY <3>3, <4>2
        <5>2. q = p \/ InList(q)
          BY <1>3, <2>3, <3>8, <5>1, FinishedNeeds DEF p, NeedInv
        <5>3. CASE q = p
          <6>1. i \in 1..i
            BY <3>1, <4>2
          <6>2. QED
            BY <5>1, <5>3, <6>1
        <5>4. CASE InList(q)
          <6>1. PICK j \in 1..n : list[j] = q
            BY <3>1, <5>4 DEF InList
          <6>2. j \in 1..i
            BY <3>1, <4>2
          <6>3. QED
            BY <3>3, <6>1, <6>2
        <5>5. QED
          BY <5>2, <5>3, <5>4
      <4>3. QED
        BY <3>6, <3>8, <4>1, <4>2
    <3>9. ProjectOutermost' = ProjectOutermost
      BY <2>1 DEF ProjectOutermost, Needs, DepsOf
    <3>10. ProjectOutermost => NeededListed'
      <4>1. NeededListed'
              = \A i \in DOMAIN list' : OnNoCircle(list'[i]) =>
                  \A q \in graph.closed : Needs(list'[i], q) => \E j \in 1..i : list'[j] = q
        BY <2>1 DEF NeededListed, OnNoCircle, Needs, DepsOf
      <4>2. QED
        BY <3>3, <3>8, <4>1
    <3>11. QED
      BY <3>7, <3>9, <3>10 DEF NeedInv
  <2>4. QED
    BY <2>2, <2>3
<1>4. CASE UNCHANGED vars
  BY <1>4, NeedKept DEF vars
<1>5. QED
  BY <1>1, <1>2, <1>3, <1>4 DEF Next

LEMMA NeedInvariant == CommandSpec => []NeedInv
<1>1. CommandInit => NeedInv
  <2>1. SUFFICES ASSUME CommandInit PROVE NeedInv
    OBVIOUS
  <2>2. DOMAIN list = {}
    BY <2>1 DEF CommandInit, Init
  <2>3. QED
    BY <2>2 DEF NeedInv, ListedDepsSeen, NeededListed
<1>2. OrderInv /\ NeedInv /\ [CommandNext]_<<vars, cvars>> => NeedInv'
  BY SortStep, NeedNext
<1>3. QED
  BY <1>1, <1>2, CommandSorts, PTL DEF CommandSpec

-----------------------------------------------------------------------------
(* Who wins, and what is built with what.                                  *)

LEMMA FlagAt ==
  ASSUME FlagInv, NEW k, NEW i \in Ats(cflags, k)
  PROVE  /\ i \in DOMAIN cflags /\ LastAt(cflags, k) \in DOMAIN cflags
         /\ i <= LastAt(cflags, k)
         /\ cflags[i].by \in graph.closed
<1>1. /\ cflags \in Seq(Flag) /\ Len(cflags) \in Nat /\ DOMAIN cflags = 1..Len(cflags)
  BY LenProperties DEF FlagInv
<1>2. LastAt(cflags, k) \in Ats(cflags, k) /\ i <= LastAt(cflags, k)
  BY <1>1, LastIsLast
<1>3. i \in DOMAIN cflags /\ LastAt(cflags, k) \in DOMAIN cflags
  BY <1>2 DEF Ats
<1>4. cflags[i] \in Flag
  BY <1>1, <1>3, ElementOfSeq
<1>5. QED
  BY <1>2, <1>3, <1>4 DEF Flag

(* In every resolved graph a package's defines win over those of what it   *)
(* needs, except on circles, and where the project is needed by a package  *)
(* that it does not itself need.                                           *)
THEOREM OuterWins == CommandSpec => [](ProjectOutermost => OuterDefinesWin)
<1>1. OrderInv /\ StageInv /\ FlagInv /\ NeedInv => (ProjectOutermost => OuterDefinesWin)
  <2>1. SUFFICES ASSUME OrderInv, StageInv, FlagInv, NeedInv, ProjectOutermost,
                        NEW k \in Keys, NEW i \in Ats(cflags, k),
                        cflags[LastAt(cflags, k)].by # cflags[i].by,
                        OnNoCircle(cflags[i].by),
                        Needs(cflags[i].by, cflags[LastAt(cflags, k)].by)
                 PROVE  FALSE
    BY DEF OuterDefinesWin
  <2> DEFINE last == LastAt(cflags, k)
  <2>2. /\ i \in DOMAIN cflags /\ last \in DOMAIN cflags /\ i <= last
        /\ cflags[i].by \in graph.closed
    BY <2>1, FlagAt
  <2> HIDE DEF last
  <2>3. CASE cflags[last].by = graph.root
    <3>1. Needs(graph.root, cflags[i].by)
      BY <2>1, <2>2, <2>3 DEF ProjectOutermost, last
    <3>2. graph.root \in graph.closed
      BY <2>1, OrderTypes
    <3>3. QED
      BY <2>1, <2>3, <3>1, <3>2 DEF OnNoCircle, last
  <2>4. ASSUME NEW a \in 1..at, NEW b \in 1..at, a <= b,
               list[a] = cflags[i].by, list[b] = cflags[last].by
        PROVE  FALSE
    <3>1. /\ Len(list) \in Nat /\ DOMAIN list = 1..Len(list) /\ at \in 0..Len(list)
          /\ list[b] \in graph.closed
      <4>1. Len(list) \in Nat /\ DOMAIN list = 1..Len(list) /\ at \in 0..Len(list)
        BY <2>1, OrderTypes DEF StageInv
      <4>2. b \in 1..Len(list)
        BY <4>1
      <4>3. QED
        BY <2>1, <4>1, <4>2, OrderTypes
    <3>2. a \in DOMAIN list /\ b \in DOMAIN list
      BY <3>1
    <3>3. PICK j \in 1..a : list[j] = list[b]
      BY <2>1, <2>4, <3>1, <3>2 DEF NeedInv, NeededListed, last
    <3>4. j \in DOMAIN list
      BY <3>1, <3>3
    <3>5. j = b
      BY <2>1, <3>2, <3>3, <3>4, OrderListsOnce DEF ListsEachOnce
    <3>6. a = b
      BY <2>4, <3>1, <3>3, <3>5
    <3>7. QED
      BY <2>1, <2>4, <3>6 DEF last
  <2>5. QED
    BY <2>1, <2>2, <2>3, <2>4 DEF FlagInv, FlagsInOrder
<1>2. QED
  BY <1>1, CommandInvariant, NeedInvariant, PTL

(* And what is built, once dependencies are resolved, is built with all    *)
(* the defines of what it needs.                                           *)
THEOREM BuiltWithNeeded == CommandSpec => [](ProjectOutermost => BuildsWithNeeded)
<1>1. OrderInv /\ StageInv /\ FlagInv /\ NeedInv => (ProjectOutermost => BuildsWithNeeded)
  <2>1. SUFFICES ASSUME OrderInv, StageInv, FlagInv, NeedInv, ProjectOutermost,
                        pc = "run", Sorted, OnNoCircle(who),
                        NEW q \in graph.closed, Needs(who, q),
                        NEW m \in DOMAIN DefinesOf(q)
                 PROVE  \E i \in DOMAIN cflags :
                          cflags[i] = [by |-> q, key |-> DefinesOf(q)[m].key,
                                       value |-> DefinesOf(q)[m].value]
    BY DEF BuildsWithNeeded
  <2>2. /\ Len(list) \in Nat /\ DOMAIN list = 1..Len(list) /\ at \in 0..Len(list)
        /\ graph.root \in graph.closed
    BY <2>1, OrderTypes DEF StageInv
  <2>3. loaded
    BY <2>1, <2>2 DEF StageInv, Sorted
  <2>4. HoldsAll(cflags, q)
    <3>1. CASE Installs
      <4>1. at > 0 /\ who = list[at]
        BY <2>1, <3>1 DEF StageInv
      <4>2. at \in DOMAIN list
        BY <2>2, <4>1
      <4>3. PICK j \in 1..at : list[j] = q
        BY <2>1, <4>1, <4>2 DEF NeedInv, NeededListed
      <4>4. QED
        BY <2>1, <4>3 DEF FlagInv, ListedIn
    <3>2. CASE ~Installs
      <4>1. at = Len(list) /\ HoldsAll(cflags, graph.root)
        BY <2>1, <2>3, <3>2 DEF FlagInv, ProjectIn
      <4>2. {list[i] : i \in DOMAIN list} = graph.closed \ {graph.root}
        BY <2>1, OrderListsOnce DEF ListsEachOnce
      <4>3. q = graph.root \/ \E j \in 1..at : list[j] = q
        BY <2>2, <4>1, <4>2
      <4>4. QED
        BY <2>1, <4>1, <4>3 DEF FlagInv, ListedIn
    <3>3. QED
      BY <3>1, <3>2
  <2>5. PICK i \in DOMAIN cflags : cflags[i] = Flags(q)[m]
    BY <2>1, <2>4 DEF HoldsAll
  <2>6. QED
    BY <2>1, <2>5 DEF Flags
<1>2. QED
  BY <1>1, CommandInvariant, NeedInvariant, PTL
=============================================================================
