------------------------------ MODULE Command ------------------------------
(***************************************************************************)
(* `fatso build`, `env`, `exec` and `install` from the directory they are  *)
(* started in to the commands they run: finding and loading fatso.yml      *)
(* (fatso.c, project.c), the answer of the resolver, the install order,    *)
(* and the defines in the environment (env.c, configuration.c and the      *)
(* dictionaries of util.c), in the order build.c, env.c, exec.c and        *)
(* install.c call them.  InstallOrder is the sort among these steps, and   *)
(* Install what installing one package does to the disk.                   *)
(***************************************************************************)
EXTENDS InstallOrder

CONSTANTS Depth,     \* of the deepest directory; that of the root is 0
          Keys,      \* what packages define
          Scenarios  \* what is on disk, and what the user types

ASSUME DepthAssumption == Depth \in Nat

(* A package's own configuration, and what its other configurations add    *)
Define == [key : Keys, value : Nat]
Configuration == [base : Seq(Define), more : Seq(Define)]

(* yml is what fatso.yml is in each directory on the way: not there, good, *)
(* not to be parsed or not to be opened.  work is the argument of -C, or   *)
(* Nowhere without one and for a path that realpath does not find.         *)
Nowhere == -1

Scenario ==
  [command : {"build", "env", "exec", "install"},
   start : 0..Depth, work : {Nowhere} \cup (0..Depth),
   yml : [0..Depth -> {"none", "good", "bad", "closed"}],
   answer : {"SUCCESS", "CONFLICT", "UNKNOWN", "Unset"},
   graph : ResolvedGraphs, config : [Names -> Configuration]]

ASSUME ScenariosAssumption == Scenarios \subseteq Scenario

VARIABLES
  scenario,  \* never written
  pc,        \* what the command is at
  dir,       \* where it looks for fatso.yml, then the project directory
  loaded,    \* whether f->project is set
  at,        \* how many packages of install_order it has gone through
  who,       \* the package whose command is run
  cflags,    \* the -D options appended to CFLAGS and CXXFLAGS, and whose
  dict       \* the defines of consolidated_configuration, 0 for none

cvars == <<scenario, pc, dir, loaded, at, who, cflags, dict>>

CommandTypeOK ==
  /\ TypeOK
  /\ graph = scenario.graph
  /\ pc \in {"find", "load", "resolve", "sort", "environment", "ready", "packages",
             "run", "done", "failed", "crashed"}
  /\ dir \in 0..Depth
  /\ loaded \in BOOLEAN
  /\ at \in 0..Len(list)
  /\ who \in graph.closed
  /\ cflags \in Seq([by : graph.closed, key : Keys, value : Nat])
  /\ dict \in [Keys -> Nat]

-----------------------------------------------------------------------------
CommandInit ==
  /\ scenario \in Scenarios
  /\ graph = scenario.graph
  /\ Init
  /\ IF scenario.work = Nowhere THEN pc = "find" /\ dir = scenario.start
                                 ELSE pc = "load" /\ dir = scenario.work
  /\ loaded = FALSE /\ at = 0 /\ who = graph.root
  /\ cflags = <<>> /\ dict = [k \in Keys |-> 0]

GoesTo(next) ==
  /\ pc' = next
  /\ UNCHANGED <<vars, scenario>>

Yml == scenario.yml[dir]
Found == pc = "find" /\ Yml # "none" /\ GoesTo("load")
         /\ UNCHANGED <<dir, loaded, at, who, cflags, dict>>

(* Mutated Climb: two directories at a time; and past the root.            *)
ClimbTwo ==
  /\ pc = "find" /\ Yml = "none" /\ dir > 1
  /\ dir' = IF dir > 2 THEN dir - 2 ELSE 1
  /\ UNCHANGED <<vars, scenario, pc, loaded, at, who, cflags, dict>>

ClimbOn ==
  /\ pc = "find" /\ Yml = "none"
  /\ dir' = dir - 1
  /\ UNCHANGED <<vars, scenario, pc, loaded, at, who, cflags, dict>>

(* find_fatso_yml: up to the directory below the root; the root itself is  *)
(* only looked into when fatso is started there.                           *)
Climb ==
  /\ pc = "find" /\ Yml = "none" /\ dir > 1
  /\ dir' = dir - 1
  /\ UNCHANGED <<vars, scenario, pc, loaded, at, who, cflags, dict>>

NotFound ==
  /\ pc = "find" /\ Yml = "none" /\ dir <= 1
  /\ GoesTo("failed")
  /\ UNCHANGED <<dir, loaded, at, who, cflags, dict>>

(* After a failure to load or to resolve only exec goes on.                *)
Otherwise == IF scenario.command = "exec" THEN "environment" ELSE "failed"

(* fatso_load_project: a file that cannot be opened, or that -C points to  *)
(* in vain, is closed all the same: fclose of a null pointer.              *)
LoadProject ==
  /\ pc = "load"
  /\ GoesTo(CASE Yml = "good" -> "resolve"
              [] Yml = "bad"  -> Otherwise
              [] OTHER        -> "crashed")
  /\ loaded' = (Yml = "good")
  /\ UNCHANGED <<dir, at, who, cflags, dict>>

WithOrder == IF scenario.command = "install" THEN "packages" ELSE "environment"

(* fatso_generate_dependency_graph.  A status never written is any value,  *)
(* one of no case of the switch included, which leaves the order empty.    *)
Resolve ==
  /\ pc = "resolve"
  /\ \/ scenario.answer \in {"SUCCESS", "Unset"} /\ GoesTo("sort")
     \/ scenario.answer # "SUCCESS" /\ GoesTo(Otherwise)
     \/ scenario.answer = "Unset" /\ GoesTo(WithOrder)
  /\ UNCHANGED <<dir, loaded, at, who, cflags, dict>>

(* fatso_dependency_graph_topological_sort, and its result taken over.     *)
Sort ==
  /\ pc = "sort"
  /\ \/ Next /\ UNCHANGED <<scenario, pc>>
     \/ Sorted /\ GoesTo(WithOrder)
  /\ UNCHANGED <<dir, loaded, at, who, cflags, dict>>

-----------------------------------------------------------------------------
(* The base configuration, then the others, all of them.                   *)
DefinesOf(p) == scenario.config[p].base \o scenario.config[p].more

Ats(s, k) == {i \in DOMAIN s : s[i].key = k}
LastAt(s, k) == CHOOSE i \in Ats(s, k) : \A j \in Ats(s, k) : j <= i

(* Mutated Merged: a key that is there keeps its value.                    *)
MergedUnder(d, s) ==
  [k \in Keys |-> IF Ats(s, k) = {} \/ d[k] # 0 THEN d[k] ELSE s[LastAt(s, k)].value]

(* fatso_dictionary_merge: inserting a key that is there replaces its      *)
(* value, so the last one counts.                                          *)
Merged(d, s) ==
  [k \in Keys |-> IF Ats(s, k) = {} THEN d[k] ELSE s[LastAt(s, k)].value]

Flags(p) ==
  [i \in DOMAIN DefinesOf(p) |->
     [by |-> p, key |-> DefinesOf(p)[i].key, value |-> DefinesOf(p)[i].value]]

(* Mutated AddPackage: the environment begins anew for each package.       *)
AddPackageAlone(p) ==
  /\ dict' = Merged([k \in Keys |-> 0], DefinesOf(p))
  /\ cflags' = Flags(p)

(* fatso_configuration_add_package and fatso_env_add_package               *)
AddPackage(p) ==
  /\ dict' = Merged(dict, DefinesOf(p))
  /\ cflags' = cflags \o Flags(p)

(* Mutated NextInOrder: from the end of the list.                          *)
LastInOrder == list[Len(list) - at]

NextInOrder == list[at + 1]

(* fatso_load_environment: the packages in install order, the project last.*)
EnvPackage ==
  /\ pc = "environment" /\ loaded /\ at < Len(list)
  /\ AddPackage(NextInOrder)
  /\ at' = at + 1
  /\ UNCHANGED <<vars, scenario, pc, dir, loaded, who>>

EnvProject ==
  /\ pc = "environment" /\ loaded /\ at = Len(list)
  /\ AddPackage(graph.root)
  /\ GoesTo("ready")
  /\ UNCHANGED <<dir, loaded, at, who>>

EnvWithoutProject ==
  /\ pc = "environment" /\ ~loaded
  /\ GoesTo("ready")
  /\ UNCHANGED <<dir, loaded, at, who, cflags, dict>>

(* fatso_env prints the environment; fatso_exec runs a command in it.      *)
PrintOrExec ==
  /\ pc = "ready" /\ scenario.command \in {"env", "exec"}
  /\ GoesTo(IF scenario.command = "env" THEN "done" ELSE "run")
  /\ UNCHANGED <<dir, loaded, at, who, cflags, dict>>

(* fatso_build adds the project once more, as a package to be built.       *)
BuildProject ==
  /\ pc = "ready" /\ scenario.command = "build"
  /\ \/ GoesTo("failed") /\ UNCHANGED <<cflags, dict>>
     \/ GoesTo("run") /\ AddPackage(graph.root)
  /\ UNCHANGED <<dir, loaded, at, who>>

(* fatso_package_install, as far as the environment goes: what can fail    *)
(* before the build does so without a change to it.                        *)
BuildPackage ==
  /\ pc = "packages" /\ at < Len(list)
  /\ \/ GoesTo("failed") /\ UNCHANGED <<at, who, cflags, dict>>
     \/ /\ GoesTo("run")
        /\ AddPackage(NextInOrder)
        /\ who' = NextInOrder
        /\ at' = at + 1
  /\ UNCHANGED <<dir, loaded>>

InstalledAll ==
  /\ pc = "packages" /\ at = Len(list)
  /\ GoesTo("done")
  /\ UNCHANGED <<dir, loaded, at, who, cflags, dict>>

(* The command run succeeds or does not.                                   *)
RunEnds ==
  /\ pc = "run"
  /\ \/ GoesTo("failed")
     \/ GoesTo(IF scenario.command = "install" THEN "packages" ELSE "done")
  /\ UNCHANGED <<dir, loaded, at, who, cflags, dict>>

CommandNext ==
  \/ Found \/ Climb \/ NotFound \/ LoadProject \/ Resolve \/ Sort
  \/ EnvPackage \/ EnvProject \/ EnvWithoutProject \/ PrintOrExec
  \/ BuildProject \/ BuildPackage \/ InstalledAll \/ RunEnds

(* One process that takes its next step; the commands it runs end.         *)
CommandSpec ==
  CommandInit /\ [][CommandNext]_<<vars, cvars>> /\ WF_<<vars, cvars>>(CommandNext)

-----------------------------------------------------------------------------
Stopped == {"done", "failed", "crashed"}

(* Every command comes to an end, on circular dependencies too.            *)
CommandEnds == <>(pc \in Stopped)

(* Without -C the project is the nearest one on the way up that is not at  *)
(* the root, or at the root if fatso is started there; fatso gives up only *)
(* when there is none.                                                     *)
ProjectIsNearest ==
  LET projects == {d \in 0..scenario.start :
                     scenario.yml[d] # "none" /\ (d > 0 \/ scenario.start = 0)}
  IN  scenario.work = Nowhere /\ pc # "find" =>
        IF projects = {} THEN pc = "failed"
                         ELSE dir \in projects /\ \A d \in projects : d <= dir

(* The two records of the defines agree: what consolidated_configuration   *)
(* holds for a key is what the compiler, given the options in CFLAGS one   *)
(* after the other, takes it for.                                          *)
DefinesAgree ==
  \A k \in Keys :
    dict[k] = IF Ats(cflags, k) = {} THEN 0 ELSE cflags[LastAt(cflags, k)].value

(* A package that no circle of dependencies goes through; what it needs    *)
(* may be circular.                                                        *)
OnNoCircle(p) == \A q \in graph.closed \ {p} : ~(Needs(p, q) /\ Needs(q, p))

(* A package overrides the defines of those it needs, directly or not, and *)
(* never the other way round, whatever unrelated packages come between: no *)
(* key gets its value from a package that another with a define of its own *)
(* needs.  On a circle nothing of the kind is promised, nor could be.      *)
OuterDefinesWin ==
  pc = "run" =>
    \A k \in Keys : \A i \in Ats(cflags, k) :
      LET inner == cflags[LastAt(cflags, k)].by
          outer == cflags[i].by
      IN  inner # outer /\ OnNoCircle(outer) => ~Needs(outer, inner)

(* With its dependencies resolved a package, or the project, is built with *)
(* all the defines of what it needs, whichever of the commands builds it.  *)
BuildsWithNeeded ==
  pc = "run" /\ Sorted /\ OnNoCircle(who) =>
    \A q \in graph.closed : Needs(who, q) =>
      \A d \in {DefinesOf(q)[j] : j \in DOMAIN DefinesOf(q)} :
        \E i \in DOMAIN cflags :
          cflags[i] = [by |-> q, key |-> d.key, value |-> d.value]
=============================================================================
