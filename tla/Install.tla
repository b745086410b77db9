------------------------------ MODULE Install ------------------------------
(***************************************************************************)
(* `fatso sync` (sync.c), which gets the catalog of package files, and     *)
(* `fatso install` around the resolver (install.c, and the sources and     *)
(* toolchains it calls: tarball.c, git.c, toolchain.c, autotools.c,        *)
(* make.c, scons.c).  It goes through the packages in install order and    *)
(* downloads, unpacks, builds and installs each by running commands.       *)
(*                                                                         *)
(* What is on disk outlives a run: a command can fail or be killed halfway *)
(* and fatso itself can die, and the next run finds what was left.         *)
(***************************************************************************)
EXTENDS Integers

CONSTANTS
  N,         \* how many packages are to be installed; package k is the k-th
  Recipes,   \* the packages there may be
  Outcomes   \* what can go wrong with a command

ASSUME NAssumption == N \in Nat

Packages == 1..N

Recipe == [source : {"tarball", "git", "none"},
           ships : SUBSET {"autogen.sh", "configure", "Makefile", "SConstruct", "SConscript"},
           provided : BOOLEAN]   \* "toolchain:" in its package file
ASSUME RecipesAssumption == Recipes \subseteq Recipe

(* fails: it exits with an error.  killed: a signal ends it.  crash: fatso *)
(* itself ends with it.  page: the server answers with an error page.      *)
ASSUME OutcomesAssumption == Outcomes \subseteq {"fails", "killed", "crash", "page"}

VARIABLES
  recipe,    \* what each package is, the same in every run
  catalog,   \* packages/: "none", "empty" (without .git), "broken", "locked", "whole"
  store,     \* what is under sources/: "none", "broken" or "whole"
  tree,      \* its build directory: "none", "partial" or "whole"
  configured,  \* the Makefile configure makes: "none", "whole", or "half", that
               \* is, there without all else configure has to make
  product,   \* what is installed of it: "none", "partial" or "whole"
  pc,        \* the command this run is at
  at,        \* the package it is at
  tool,      \* the toolchain of that package
  cwd,       \* working directory: 0 where fatso was started, or a build directory
  env,       \* the packages whose configuration is in the environment
  faults     \* history: what went wrong in this run

disk == <<store, tree, configured, product>>
vars == <<recipe, catalog, store, tree, configured, product, pc, at, tool, cwd, env, faults>>

TypeOK ==
  /\ recipe \in [Packages -> Recipes]
  /\ catalog \in {"none", "empty", "broken", "locked", "whole"}
  /\ store \in [Packages -> {"none", "broken", "whole"}]
  /\ tree \in [Packages -> {"none", "partial", "whole"}]
  /\ configured \in [Packages -> {"none", "half", "whole"}]
  /\ \A p \in Packages : configured[p] # "none" => tree[p] # "none"
  /\ product \in [Packages -> {"none", "partial", "whole"}]
  /\ pc \in {"idle", "next", "download", "unpack", "clone", "checkout", "guess",
             "build", "configure", "make", "install", "done", "failed", "synced",
             "unsynced", "refused"}
  /\ at \in 0..N
  /\ tool \in {"none", "configure", "make", "scons", "provided"}
  /\ cwd \in 0..at
  /\ env \subseteq 1..at
  /\ faults \subseteq Outcomes

Init ==
  /\ recipe \in [Packages -> Recipes]
  /\ catalog = "none"
  /\ store = [p \in Packages |-> "none"]
  /\ tree = [p \in Packages |-> "none"]
  /\ configured = [p \in Packages |-> "none"]
  /\ product = [p \in Packages |-> "none"]
  /\ pc = "idle" /\ at = 0 /\ tool = "none" /\ cwd = 0
  /\ env = {} /\ faults = {}

-----------------------------------------------------------------------------
(* How a command that does not do its work ends.  Killed by a signal, it   *)
(* counts as successful: its status is WEXITSTATUS of a status that has    *)
(* none, which is 0.                                                       *)
Fault(o) == o \in Outcomes /\ faults' = faults \cup {o}

Breaks(next) ==
  \/ Fault("fails") /\ pc' = "failed"
  \/ Fault("killed") /\ pc' = next
  \/ Fault("crash") /\ pc' = "idle"

Succeeds(next) == pc' = next /\ UNCHANGED faults

Refuses == pc' = "failed" /\ UNCHANGED faults

-----------------------------------------------------------------------------
Stopped == {"idle", "done", "failed", "synced", "unsynced", "refused"}

NewProcess ==
  /\ pc \in Stopped
  /\ at' = 0 /\ tool' = "none" /\ cwd' = 0 /\ env' = {}
  /\ UNCHANGED <<recipe, disk>>

(* Whether there is no packages/.git *)
Uncloned == catalog \in {"none", "empty"}

(* fatso_sync_packages makes the directory and clones into it.  Git cleans *)
(* up after a clone that fails, not after one that is killed: that leaves  *)
(* a .git that is no good, or one without all of its files checked out.    *)
CloneCatalog ==
  /\ NewProcess
  /\ Uncloned
  /\ \/ catalog' = "whole" /\ pc' = "synced" /\ faults' = {}
     \/ /\ "fails" \in Outcomes /\ faults' = {"fails"}
        /\ catalog' \in {catalog, "empty"} /\ pc' = "unsynced"
     \/ \E o \in {"killed", "crash"} \cap Outcomes :
          /\ faults' = {o}
          /\ catalog' \in {catalog, "empty", "broken", "whole"}
          /\ pc' = IF o = "killed" THEN "synced" ELSE "idle"

(* With a .git in it, it is pulled.  A pull that is killed can leave the   *)
(* lock of git behind, which later ones refuse to go past.                 *)
PullCatalog ==
  /\ NewProcess
  /\ ~Uncloned
  /\ \/ catalog = "whole" /\ UNCHANGED catalog /\ pc' = "synced" /\ faults' = {}
     \/ catalog = "broken" /\ UNCHANGED catalog /\ pc' = "synced" /\ faults' = {}
     \/ catalog # "whole" /\ UNCHANGED catalog /\ pc' = "unsynced" /\ faults' = {}
     \/ /\ "fails" \in Outcomes /\ faults' = {"fails"}
        /\ UNCHANGED catalog /\ pc' = "unsynced"
     \/ \E o \in {"killed", "crash"} \cap Outcomes :
          /\ faults' = {o}
          /\ catalog' \in IF catalog = "whole" THEN {"whole", "locked"} ELSE {catalog}
          /\ pc' = IF o = "killed" THEN "synced" ELSE "idle"

Sync == CloneCatalog \/ PullCatalog

(* packages/.git is all that is asked for.  Where it is no good, there may *)
(* be the package files the project needs or not.                          *)
Loads ==
  \/ Uncloned /\ pc' = "refused"
  \/ ~Uncloned /\ pc' = "next"
  \/ catalog = "broken" /\ N > 0 /\ pc' = "refused"

StartRunInPlace ==
  /\ pc \in Stopped
  /\ Loads
  /\ at' = 0 /\ tool' = "none" /\ faults' = {}
  /\ UNCHANGED <<recipe, catalog, disk, cwd, env>>

(* `fatso install`, which the user may type again and again *)
StartRun ==
  /\ NewProcess
  /\ Loads
  /\ faults' = {}
  /\ UNCHANGED catalog

NextPackageSkips ==
  /\ pc = "next"
  /\ LET todo == {p \in at + 1..N : tree[p] # "whole"} IN
       IF todo = {} THEN pc' = "done" /\ UNCHANGED at
       ELSE /\ pc' = "download"
            /\ at' \in {p \in todo : \A q \in todo : p <= q}
  /\ UNCHANGED <<recipe, catalog, disk, tool, cwd, env, faults>>

(* fatso_install_dependencies: on to the next package, in install order.   *)
NextPackage ==
  /\ pc = "next"
  /\ IF at = N THEN pc' = "done" /\ UNCHANGED at
               ELSE pc' = "download" /\ at' = at + 1
  /\ UNCHANGED <<recipe, catalog, disk, tool, cwd, env, faults>>

-----------------------------------------------------------------------------
(* fatso_package_download *)
NoSource(p) ==
  /\ pc = "download" /\ recipe[p].source = "none"
  /\ Refuses
  /\ UNCHANGED <<recipe, catalog, disk, at, tool, cwd, env>>

(* tarball_fetch: a file that is there is not downloaded again, whatever   *)
(* it holds; curl without -f takes an error page for the file.             *)
FetchTarball(p) ==
  /\ pc = "download" /\ recipe[p].source = "tarball"
  /\ \/ store[p] # "none" /\ UNCHANGED store /\ Succeeds("unpack")
     \/ store[p] = "none" /\ store' = [store EXCEPT ![p] = "whole"] /\ Succeeds("unpack")
     \/ /\ store[p] = "none" /\ store' = [store EXCEPT ![p] = "broken"]
        /\ Fault("page") /\ pc' = "unpack"
     \/ /\ store[p] = "none"
        /\ store' \in {store, [store EXCEPT ![p] = "broken"]}
        /\ Breaks("unpack")
  /\ UNCHANGED <<recipe, catalog, tree, configured, product, at, tool, cwd, env>>

(* git_clone_or_pull: a mirror is cloned once and fetched into thereafter. *)
(* Git leaves a mirror usable when a fetch breaks off, but not a clone.    *)
FetchGit(p) ==
  /\ pc = "download" /\ recipe[p].source = "git"
  /\ \/ store[p] = "broken" /\ UNCHANGED store /\ Refuses
     \/ store[p] # "broken" /\ store' = [store EXCEPT ![p] = "whole"] /\ Succeeds("unpack")
     \/ /\ store' \in {store} \cup
             (IF store[p] = "none" THEN {[store EXCEPT ![p] = "broken"]} ELSE {})
        /\ Breaks("unpack")
  /\ UNCHANGED <<recipe, catalog, tree, configured, product, at, tool, cwd, env>>

(* Mutated UnpackTarball: what is unpacked already is left alone.          *)
UnpackOnce(p) ==
  /\ pc = "unpack" /\ recipe[p].source = "tarball"
  /\ \/ tree[p] # "none" /\ UNCHANGED tree /\ Succeeds("guess")
     \/ store[p] # "whole" /\ tree[p] = "none" /\ UNCHANGED tree /\ Refuses
     \/ /\ store[p] = "whole" /\ tree[p] = "none"
        /\ tree' = [tree EXCEPT ![p] = "whole"] /\ Succeeds("guess")
     \/ /\ store[p] # "none" /\ tree[p] = "none"
        /\ tree' = [tree EXCEPT ![p] = "partial"] /\ Breaks("guess")
  /\ UNCHANGED <<recipe, catalog, store, configured, product, at, tool, cwd, env>>

(* tarball_unpack: over what the build directory holds already *)
UnpackTarball(p) ==
  /\ pc = "unpack" /\ recipe[p].source = "tarball"
  /\ \/ store[p] = "none" /\ UNCHANGED tree /\ Refuses
     \/ store[p] = "broken" /\ tree' = [tree EXCEPT ![p] = "partial"] /\ Refuses
     \/ store[p] = "whole" /\ tree' = [tree EXCEPT ![p] = "whole"] /\ Succeeds("guess")
     \/ /\ store[p] # "none"
        /\ tree' = [tree EXCEPT ![p] = "partial"] /\ Breaks("guess")
  /\ UNCHANGED <<recipe, catalog, store, configured, product, at, tool, cwd, env>>

RemoveNothing(p) ==
  /\ pc = "unpack" /\ recipe[p].source = "git"
  /\ Succeeds("clone")
  /\ UNCHANGED <<recipe, catalog, disk, at, tool, cwd, env>>

(* git_checkout: a build directory that is there is removed ...            *)
RemoveOldTree(p) ==
  /\ pc = "unpack" /\ recipe[p].source = "git"
  /\ \/ /\ tree' = [tree EXCEPT ![p] = "none"]
        /\ configured' = [configured EXCEPT ![p] = "none"]
        /\ Succeeds("clone")
     \/ /\ tree[p] # "none" /\ tree' = [tree EXCEPT ![p] = "partial"]
        /\ configured' \in {configured, [configured EXCEPT ![p] = "none"]}
        /\ Breaks("clone")
  /\ UNCHANGED <<recipe, catalog, store, product, at, tool, cwd, env>>

(* ... the mirror is cloned, which git does into an empty place only ...   *)
CloneMirror(p) ==
  /\ pc = "clone"
  /\ \/ /\ store[p] = "whole" /\ tree[p] = "none"
        /\ tree' = [tree EXCEPT ![p] = "whole"] /\ Succeeds("checkout")
     \/ ~(store[p] = "whole" /\ tree[p] = "none") /\ UNCHANGED tree /\ Refuses
     \/ /\ tree' \in {tree, [tree EXCEPT ![p] = "partial"]}
        /\ Breaks("checkout")
  /\ UNCHANGED <<recipe, catalog, store, configured, product, at, tool, cwd, env>>

(* ... and the ref, which the clone is already at, checked out.            *)
CheckOut(p) ==
  /\ pc = "checkout"
  /\ \/ tree[p] = "whole" /\ Succeeds("guess")
     \/ tree[p] # "whole" /\ Refuses
     \/ tree[p] # "none" /\ Breaks("guess")
  /\ UNCHANGED <<recipe, catalog, disk, at, tool, cwd, env>>

-----------------------------------------------------------------------------
(* What files the build directory holds: any of them if it is partial.     *)
Generated(p) == IF configured[p] # "none" THEN {"Makefile"} ELSE {}

Holds(p) ==
  IF tree[p] = "whole" THEN {recipe[p].ships \cup Generated(p)}
                       ELSE {s \cup Generated(p) : s \in SUBSET recipe[p].ships}

(* The last toolchain of named_toolchains one of whose files is there; the *)
(* first, for autogen.sh, does the same as the one for configure.          *)
LastMatch(files) ==
  IF files \cap {"SConstruct", "SConscript"} # {} THEN "scons"
  ELSE IF "Makefile" \in files THEN "make"
  ELSE IF files \cap {"configure", "autogen.sh"} # {} THEN "configure"
  ELSE "none"

(* fatso_guess_toolchain *)
GuessToolchain(p) ==
  /\ pc = "guess"
  /\ \E files \in Holds(p) :
       tool' = IF recipe[p].provided THEN "provided" ELSE LastMatch(files)
  /\ IF tool' = "none" THEN Refuses ELSE Succeeds("build")
  /\ UNCHANGED <<recipe, catalog, disk, at, cwd, env>>

(* fatso_package_build_with_output *)
StartBuild(p) ==
  /\ pc = "build"
  /\ env' = env \cup {p}
  /\ Succeeds(IF tool = "configure" THEN "configure" ELSE "make")
  /\ UNCHANGED <<recipe, catalog, disk, at, tool, cwd>>

(* The Makefile is there, or is not; a shipped one may be missing from a   *)
(* partial build directory.                                                *)
FindsMakefile(p) == configured[p] # "none" \/ "Makefile" \in recipe[p].ships

LacksMakefile(p) ==
  configured[p] = "none" /\ ("Makefile" \in recipe[p].ships => tree[p] # "whole")

CanConfigure(p) == tree[p] = "whole" /\ "configure" \in recipe[p].ships

(* A configure that does not get to its end may have made the Makefile: it *)
(* is one of the first files it makes.                                     *)
LeavesHalf(p) ==
  configured' \in {configured} \cup
    (IF "configure" \in recipe[p].ships THEN {[configured EXCEPT ![p] = "half"]} ELSE {})

(* fatso_toolchain_run_configure: not run if there is a Makefile.          *)
Configure(p) ==
  /\ pc = "configure"
  /\ cwd' = p
  /\ \/ FindsMakefile(p) /\ UNCHANGED configured /\ Succeeds("make")
     \/ /\ LacksMakefile(p) /\ CanConfigure(p)
        /\ configured' = [configured EXCEPT ![p] = "whole"] /\ Succeeds("make")
     \/ LacksMakefile(p) /\ ~CanConfigure(p) /\ LeavesHalf(p) /\ Refuses
     \/ LacksMakefile(p) /\ LeavesHalf(p) /\ Breaks("make")
  /\ UNCHANGED <<recipe, catalog, store, tree, product, at, tool, env>>

(* A Makefile that is to be used with all that belongs to it *)
HasMakefile(p) == configured[p] = "whole" \/ "Makefile" \in recipe[p].ships

(* Whether the tool can do its work for p: a provided command can where p  *)
(* is unpacked, and it is run where fatso happens to be.                   *)
CanBuild(p) ==
  /\ tree[p] = "whole"
  /\ CASE tool = "scons" -> "SConstruct" \in recipe[p].ships
       [] tool = "provided" -> cwd = p
       [] OTHER -> HasMakefile(p)

(* It may well succeed there, at something else.                           *)
Elsewhere(p) == tool = "provided" /\ cwd # p

Enters(p) == cwd' = IF tool = "provided" THEN cwd ELSE p

(* fatso_toolchain_run_make, scons_build, build_provided_toolchain: but    *)
(* for the provided command all go to the build directory and stay there.  *)
Build(p) ==
  /\ pc = "make"
  /\ Enters(p)
  /\ \/ CanBuild(p) /\ Succeeds("install")
     \/ ~CanBuild(p) /\ Refuses
     \/ Elsewhere(p) /\ Succeeds("install")
     \/ Breaks("install")
  /\ UNCHANGED <<recipe, catalog, disk, at, tool, env>>

InstallAnyway(p) ==
  /\ pc = "install"
  /\ \/ CanBuild(p) /\ product' = [product EXCEPT ![p] = "whole"] /\ Succeeds("next")
     \/ ~CanBuild(p) /\ UNCHANGED product /\ Succeeds("next")
     \/ /\ product' \in {product, [product EXCEPT ![p] = "partial"]}
        /\ \/ Breaks("next")
           \/ Fault("fails") /\ pc' = "next"
  /\ UNCHANGED <<recipe, catalog, store, tree, configured, at, tool, cwd, env>>

(* fatso_toolchain_run_make_install (which returns to the directory it was *)
(* in), scons_install, install_provided_toolchain, which runs the command  *)
(* that built the package again.                                           *)
InstallProducts(p) ==
  /\ pc = "install"
  /\ \/ CanBuild(p) /\ product' = [product EXCEPT ![p] = "whole"] /\ Succeeds("next")
     \/ ~CanBuild(p) /\ UNCHANGED product /\ Refuses
     \/ Elsewhere(p) /\ UNCHANGED product /\ Succeeds("next")
     \/ /\ product' \in {product, [product EXCEPT ![p] = "partial"]}
        /\ Breaks("next")
  /\ UNCHANGED <<recipe, catalog, store, tree, configured, at, tool, cwd, env>>

-----------------------------------------------------------------------------
InstallPackage(p) ==
  \/ NoSource(p) \/ FetchTarball(p) \/ FetchGit(p)
  \/ UnpackTarball(p) \/ RemoveOldTree(p) \/ CloneMirror(p) \/ CheckOut(p)
  \/ GuessToolchain(p) \/ StartBuild(p) \/ Configure(p) \/ Build(p)
  \/ InstallProducts(p)

Next ==
  \/ Sync
  \/ StartRun
  \/ NextPackage
  \/ \E p \in {at} \ {0} : InstallPackage(p)

(* fatso runs on, and the user keeps trying both commands when it stops.   *)
Spec == Init /\ [][Next]_vars /\ WF_vars(Next) /\ WF_vars(Sync) /\ WF_vars(StartRun)

-----------------------------------------------------------------------------
Guessed(p) == ~recipe[p].provided

Installed(p) == product[p] = "whole"

(* A run that reports success, and none of whose commands was killed, has  *)
(* installed every package fatso guessed a toolchain for, whatever earlier *)
(* runs and crashes left on disk.                                          *)
SuccessMeansInstalled ==
  pc = "done" /\ "killed" \notin faults => \A p \in Packages : Guessed(p) => Installed(p)

(* When a package is configured, built or installed, what comes before it  *)
(* in install order is installed, and its configuration and theirs are in  *)
(* the environment of the command (fatso_package_build_with_output).       *)
DependenciesFirst ==
  pc \in {"configure", "make", "install"} /\ "killed" \notin faults =>
    /\ \A p \in 1..(at - 1) : Guessed(p) => Installed(p)
    /\ env = 1..at

(* The tool that is guessed from what p ships has no use for it: scons for *)
(* an SConscript alone, configure for an autogen.sh alone.                 *)
Misguessed(p) ==
  CASE LastMatch(recipe[p].ships) = "scons" -> "SConstruct" \notin recipe[p].ships
    [] LastMatch(recipe[p].ships) = "configure" -> "configure" \notin recipe[p].ships
    [] LastMatch(recipe[p].ships) = "make" -> FALSE
    [] OTHER -> TRUE

(* A Makefile that a configure left behind which did not get to its end,   *)
(* in a build directory that is unpacked over and never removed.           *)
LeftHalf(p) ==
  /\ recipe[p].source = "tarball" /\ configured[p] = "half"
  /\ LastMatch(recipe[p].ships) = "configure"

(* What stands in the way of installing p, however often it is tried       *)
Hopeless(p) ==
  \/ store[p] = "broken"
  \/ recipe[p].source = "none"
  \/ recipe[p].provided
  \/ Misguessed(p)
  \/ LeftHalf(p)

(* A run in which no command goes wrong fails only at a package whose      *)
(* download is broken, that fatso has no way to build, or whose configure  *)
(* was interrupted once (autotools.c:43); and a sync only on a catalog     *)
(* that a killed git left behind.  Nothing else that crashes, errors and   *)
(* kills in earlier runs leave on disk stops them.                         *)
FailureIsExplained ==
  faults = {} => /\ pc = "failed" => Hopeless(at)
                 /\ pc = "unsynced" => catalog \in {"broken", "locked"}

(* Once commands stop going wrong, syncing and installing again and again  *)
(* gets every package installed unless one, or the catalog, is hopeless:   *)
(* each run does again what the one before did not do to the end.          *)
EventuallyInstalled ==
  <>[](faults = {}) =>
    <>(\/ catalog = "broken" \/ \E p \in Packages : Hopeless(p)
       \/ pc = "done" /\ \A p \in Packages : Installed(p))

-----------------------------------------------------------------------------
(* What README.md says of fatso: it "downloads and builds all dependencies *)
(* of your project, and installs them".  A run that reports success has    *)
(* installed them, those with a toolchain fatso guesses at least.          *)
InstallsAllDependencies ==
  pc = "done" => \A p \in Packages : Guessed(p) => Installed(p)

(* What README.md says of custom scripts, which "toolchain: <build         *)
(* commands>" gives: they build the package.  The command of a package is  *)
(* run where that package is unpacked.                                     *)
CustomScriptsBuildTheirPackage ==
  pc \in {"make", "install"} /\ tool = "provided" => cwd = at
=============================================================================
