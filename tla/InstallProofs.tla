--------------------------- MODULE InstallProofs ---------------------------
(***************************************************************************)
(* Theorems about Install for any number of packages of any kinds and any  *)
(* set of things that can go wrong.                                        *)
(***************************************************************************)
EXTENDS Install, TLAPS

Unpacking == {"unpack", "clone", "checkout", "guess", "build"}
Building == {"configure", "make", "install"}
AtWork == {"download"} \cup Unpacking \cup Building

(* The run is at a package, its toolchain is the one of that package, and  *)
(* the toolchain has a build directory to look at.                         *)
AtPackage ==
  /\ pc \in AtWork \cup {"failed"} => at \in Packages
  /\ pc \in {"build"} \cup Building => (tool = "provided" <=> recipe[at].provided)
  /\ pc = "configure" => tool = "configure"
  /\ pc \in {"guess", "build", "configure"} => tree[at] # "none"

(* The packages before this one are installed, and in the environment.     *)
InOrder ==
  pc \in AtWork \cup {"next"} /\ "killed" \notin faults =>
    /\ \A p \in 1..(at - 1) : Guessed(p) => Installed(p)
    /\ pc = "next" /\ at # 0 => (Guessed(at) => Installed(at))
    /\ env = IF pc \in Building \cup {"next"} THEN 1..at ELSE 1..(at - 1)

(* There is no Makefile for p, and configure is what its files call for.   *)
ToConfigure(p) ==
  /\ configured[p] = "none" /\ "Makefile" \notin recipe[p].ships
  /\ LastMatch(recipe[p].ships) = "configure"

(* While nothing goes wrong each command finds what it needs, if anything  *)
(* can be done for the package at all.                                     *)
Supplied ==
  faults = {} =>
    /\ pc = "unpack" => /\ store[at] # "none"
                        /\ recipe[at].source # "tarball" => store[at] = "whole"
    /\ pc = "clone" => store[at] = "whole" /\ tree[at] = "none"
    /\ pc \in {"checkout", "guess", "build", "configure"} => tree[at] = "whole"
    /\ pc = "checkout" \/ (pc = "guess" /\ recipe[at].source # "tarball") =>
         configured[at] = "none"
    /\ pc \in {"build", "configure"} /\ tool = "configure" => ToConfigure(at)
    /\ pc = "build" /\ tool # "configure" => CanBuild(at) \/ Hopeless(at)
    /\ pc \in {"make", "install"} => CanBuild(at) \/ Hopeless(at)

Inv ==
  /\ TypeOK /\ AtPackage /\ InOrder /\ Supplied
  /\ SuccessMeansInstalled /\ FailureIsExplained

-----------------------------------------------------------------------------
THEOREM InitialInv == Init => Inv
BY NAssumption
   DEF Init, Inv, TypeOK, AtPackage, InOrder, Supplied, SuccessMeansInstalled,
       FailureIsExplained, AtWork, Unpacking, Building, Packages

LEMMA TypeStep ==
  ASSUME TypeOK, [Next]_vars, AtPackage
  PROVE  TypeOK'
<1> USE NAssumption, OutcomesAssumption DEF TypeOK, Packages, disk
<1>0. CASE Sync
  <2>1. /\ at' = 0 /\ tool' = "none" /\ cwd' = 0 /\ env' = {}
        /\ UNCHANGED <<recipe, disk>>
    BY <1>0 DEF Sync, CloneCatalog, PullCatalog, NewProcess
  <2>2. /\ catalog' \in {"none", "empty", "broken", "locked", "whole"}
        /\ pc' \in {"synced", "unsynced", "idle"}
        /\ faults' \subseteq Outcomes
    BY <1>0 DEF Sync, CloneCatalog, PullCatalog
  <2>3. cwd' \in 0..at' /\ env' \subseteq 1..at' /\ at' \in 0..N
    BY <2>1
  <2>4. QED
    BY <2>1, <2>2, <2>3
<1>1. CASE StartRun
  BY <1>1 DEF StartRun, NewProcess, Loads
<1>2. CASE NextPackage
  BY <1>2 DEF NextPackage
<1>3. ASSUME NEW p \in {at} \ {0}, InstallPackage(p)
      PROVE  TypeOK'
  <2> p \in Packages /\ p = at
    OBVIOUS
  <2> USE DEF Breaks, Fault, Succeeds, Refuses
  <2>1. CASE NoSource(p)
    BY <2>1 DEF NoSource
  <2>2. CASE FetchTarball(p)
    BY <2>2 DEF FetchTarball
  <2>3. CASE FetchGit(p)
    BY <2>3 DEF FetchGit
  <2>4. CASE UnpackTarball(p)
    BY <2>4 DEF UnpackTarball
  <2>5. CASE RemoveOldTree(p)
    BY <2>5 DEF RemoveOldTree
  <2>6. CASE CloneMirror(p)
    BY <2>6 DEF CloneMirror
  <2>7. CASE CheckOut(p)
    BY <2>7 DEF CheckOut
  <2>8. CASE GuessToolchain(p)
    BY <2>8 DEF GuessToolchain, LastMatch
  <2>9. CASE StartBuild(p)
    BY <2>9 DEF StartBuild
  <2>10. CASE Configure(p)
    <3>1. cwd' = p /\ UNCHANGED at
      BY <2>10 DEF Configure
    <3>2. cwd' \in 0..at'
      BY <3>1
    <3>3. tree[p] # "none"
      BY <2>10 DEF Configure, AtPackage
    <3>4. configured' \in {configured, [configured EXCEPT ![p] = "half"],
                           [configured EXCEPT ![p] = "whole"]}
      BY <2>10 DEF Configure, LeavesHalf
    <3>5. QED
      BY <2>10, <3>2, <3>3, <3>4 DEF Configure
  <2>11. CASE Build(p)
    <3>1. cwd' \in {cwd, p} /\ UNCHANGED at
      BY <2>11 DEF Build, Enters
    <3>2. cwd' \in 0..at'
      BY <3>1
    <3>3. QED
      BY <2>11, <3>2 DEF Build
  <2>12. CASE InstallProducts(p)
    BY <2>12 DEF InstallProducts
  <2>13. QED
    BY <1>3, <2>1, <2>2, <2>3, <2>4, <2>5, <2>6, <2>7, <2>8, <2>9, <2>10, <2>11, <2>12
       DEF InstallPackage
<1>4. CASE UNCHANGED vars
  BY <1>4 DEF vars
<1>5. QED
  BY <1>0, <1>1, <1>2, <1>3, <1>4 DEF Next
LEMMA AtPackageStep ==
  ASSUME TypeOK, AtPackage, [Next]_vars
  PROVE  AtPackage'
<1> USE NAssumption, OutcomesAssumption
    DEF TypeOK, AtPackage, AtWork, Unpacking, Building, Packages, disk
<1>0. CASE Sync
  BY <1>0 DEF Sync, NewProcess, CloneCatalog, PullCatalog, Uncloned
<1>1. CASE StartRun
  BY <1>1 DEF StartRun, NewProcess, Loads
<1>2. CASE NextPackage
  BY <1>2 DEF NextPackage
<1>3. ASSUME NEW p \in {at} \ {0}, InstallPackage(p)
      PROVE  AtPackage'
  <2> p \in Packages /\ p = at
    BY DEF TypeOK, Packages
  <2> USE DEF Breaks, Fault, Succeeds, Refuses
  <2>1. CASE NoSource(p)
    BY <2>1 DEF NoSource
  <2>2. CASE FetchTarball(p)
    BY <2>2 DEF FetchTarball
  <2>3. CASE FetchGit(p)
    BY <2>3 DEF FetchGit
  <2>4. CASE UnpackTarball(p)
    BY <2>4 DEF UnpackTarball
  <2>5. CASE RemoveOldTree(p)
    BY <2>5 DEF RemoveOldTree
  <2>6. CASE CloneMirror(p)
    BY <2>6 DEF CloneMirror
  <2>7. CASE CheckOut(p)
    BY <2>7 DEF CheckOut
  <2>8. CASE GuessToolchain(p)
    BY <2>8 DEF GuessToolchain, LastMatch
  <2>9. CASE StartBuild(p)
    BY <2>9 DEF StartBuild
  <2>10. CASE Configure(p)
    BY <2>10 DEF Configure
  <2>11. CASE Build(p)
    BY <2>11 DEF Build
  <2>12. CASE InstallProducts(p)
    BY <2>12 DEF InstallProducts
  <2>13. QED
    BY <1>3, <2>1, <2>2, <2>3, <2>4, <2>5, <2>6, <2>7, <2>8, <2>9, <2>10, <2>11, <2>12
       DEF InstallPackage
<1>4. CASE UNCHANGED vars
  BY <1>4 DEF vars
<1>5. QED
  BY <1>0, <1>1, <1>2, <1>3, <1>4 DEF Next

LEMMA InOrderStep ==
  ASSUME TypeOK, AtPackage, InOrder, [Next]_vars
  PROVE  InOrder'
<1> USE NAssumption, OutcomesAssumption
    DEF TypeOK, AtPackage, InOrder, AtWork, Unpacking, Building, Packages, disk, Guessed, Installed
<1>0. CASE Sync
  BY <1>0 DEF Sync, NewProcess, CloneCatalog, PullCatalog, Uncloned
<1>1. CASE StartRun
  BY <1>1 DEF StartRun, NewProcess, Loads
<1>2. CASE NextPackage
  BY <1>2 DEF NextPackage
<1>3. ASSUME NEW p \in {at} \ {0}, InstallPackage(p)
      PROVE  InOrder'
  <2> p \in Packages /\ p = at
    BY DEF TypeOK, Packages
  <2> USE DEF Breaks, Fault, Succeeds, Refuses
  <2>1. CASE NoSource(p)
    BY <2>1 DEF NoSource
  <2>2. CASE FetchTarball(p)
    BY <2>2 DEF FetchTarball
  <2>3. CASE FetchGit(p)
    BY <2>3 DEF FetchGit
  <2>4. CASE UnpackTarball(p)
    BY <2>4 DEF UnpackTarball
  <2>5. CASE RemoveOldTree(p)
    BY <2>5 DEF RemoveOldTree
  <2>6. CASE CloneMirror(p)
    BY <2>6 DEF CloneMirror
  <2>7. CASE CheckOut(p)
    BY <2>7 DEF CheckOut
  <2>8. CASE GuessToolchain(p)
    BY <2>8 DEF GuessToolchain, LastMatch
  <2>9. CASE StartBuild(p)
    BY <2>9 DEF StartBuild
  <2>10. CASE Configure(p)
    BY <2>10 DEF Configure
  <2>11. CASE Build(p)
    BY <2>11 DEF Build, Elsewhere
  <2>12. CASE InstallProducts(p)
    BY <2>12 DEF InstallProducts, Elsewhere
  <2>13. QED
    BY <1>3, <2>1, <2>2, <2>3, <2>4, <2>5, <2>6, <2>7, <2>8, <2>9, <2>10, <2>11, <2>12
       DEF InstallPackage
<1>4. CASE UNCHANGED vars
  BY <1>4 DEF vars
<1>5. QED
  BY <1>0, <1>1, <1>2, <1>3, <1>4 DEF Next

-----------------------------------------------------------------------------
(* A toolchain that is guessed from a complete build directory can build   *)
(* what is in it, unless nothing fatso has can.                            *)
LEMMA GuessFits ==
  ASSUME TypeOK, NEW p \in Packages, GuessToolchain(p), tree[p] = "whole",
         configured[p] = "none" \/ recipe[p].source = "tarball"
  PROVE  /\ tool' = "none" => Misguessed(p)
         /\ recipe[p].provided \/ tool' # "provided"
         /\ tool' = "configure" => ToConfigure(p)
         /\ tool' \notin {"none", "configure", "provided"} =>
              \/ tool' = "scons" /\ "SConstruct" \in recipe[p].ships
              \/ tool' = "make" /\ HasMakefile(p)
              \/ Misguessed(p) \/ LeftHalf(p)
<1> DEFINE ships == recipe[p].ships
<1>1. recipe[p] \in Recipe /\ configured[p] \in {"none", "half", "whole"}
  BY RecipesAssumption DEF TypeOK
<1>2. ships \subseteq {"autogen.sh", "configure", "Makefile", "SConstruct", "SConscript"}
  BY <1>1 DEF Recipe
<1>3. tool' = IF recipe[p].provided THEN "provided" ELSE LastMatch(ships \cup Generated(p))
  BY DEF GuessToolchain, Holds
<1>4. CASE recipe[p].provided
  BY <1>3, <1>4
<1>5. CASE ~recipe[p].provided
  <2> HIDE DEF ships
  <2>1. tool' = LastMatch(ships \cup Generated(p))
    BY <1>3, <1>5
  <2>2. CASE configured[p] = "none"
    <3>1. tool' = LastMatch(ships)
      BY <2>1, <2>2 DEF Generated
    <3>2. /\ LastMatch(ships) \in {"none", "configure", "make", "scons"}
          /\ LastMatch(ships) = "make" => "Makefile" \in ships
          /\ LastMatch(ships) = "configure" => "Makefile" \notin ships
      BY DEF LastMatch
    <3>3. QED  BY <2>2, <3>1, <3>2 DEF Misguessed, ToConfigure, HasMakefile, ships
  <2>3. CASE configured[p] # "none"
    <3>1. tool' = LastMatch(ships \cup {"Makefile"}) /\ recipe[p].source = "tarball"
      BY <2>1, <2>3 DEF Generated
    <3>2. tool' \in {"make", "scons"}
      BY <3>1 DEF LastMatch
    <3>3. /\ tool' = "scons" => LastMatch(ships) = "scons"
          /\ tool' = "make" => LastMatch(ships) \in {"make", "configure", "none"}
          /\ LastMatch(ships) = "make" => "Makefile" \in ships
      BY <3>1 DEF LastMatch
    <3>4. configured[p] \in {"half", "whole"}
      BY <1>1, <2>3
    <3>5. QED
      BY <3>1, <3>2, <3>3, <3>4 DEF Misguessed, LeftHalf, HasMakefile, ships
  <2>4. QED  BY <2>2, <2>3
<1>6. QED
  BY <1>4, <1>5

LEMMA SuppliedStep ==
  ASSUME TypeOK, AtPackage, Supplied, [Next]_vars
  PROVE  Supplied'
<1> USE NAssumption, OutcomesAssumption
    DEF TypeOK, AtPackage, Supplied, AtWork, Unpacking, Building, Packages, disk, CanBuild, HasMakefile,
        ToConfigure, Hopeless, Misguessed, LeftHalf
<1>0. CASE Sync
  BY <1>0 DEF Sync, NewProcess, CloneCatalog, PullCatalog, Uncloned
<1>1. CASE StartRun
  BY <1>1 DEF StartRun, NewProcess, Loads
<1>2. CASE NextPackage
  BY <1>2 DEF NextPackage
<1>3. ASSUME NEW p \in {at} \ {0}, InstallPackage(p)
      PROVE  Supplied'
  <2> p \in Packages /\ p = at
    BY DEF TypeOK, Packages
  <2> USE DEF Breaks, Fault, Succeeds, Refuses
  <2>1. CASE NoSource(p)
    BY <2>1 DEF NoSource
  <2>2. CASE FetchTarball(p)
    BY <2>2 DEF FetchTarball
  <2>3. CASE FetchGit(p)
    BY <2>3 DEF FetchGit
  <2>4. CASE UnpackTarball(p)
    BY <2>4 DEF UnpackTarball
  <2>5. CASE RemoveOldTree(p)
    BY <2>5 DEF RemoveOldTree
  <2>6. CASE CloneMirror(p)
    BY <2>6 DEF CloneMirror
  <2>7. CASE CheckOut(p)
    BY <2>7 DEF CheckOut
  <2>8. CASE GuessToolchain(p)
    <3> HIDE DEF CanBuild, HasMakefile, ToConfigure, Hopeless, Misguessed, LeftHalf
    <3>1. pc = "guess" /\ UNCHANGED <<tree, at, recipe, configured, store, cwd>>
          /\ faults' = faults
          /\ pc' = IF tool' = "none" THEN "failed" ELSE "build"
      BY <2>8 DEF GuessToolchain
    <3>2. SUFFICES ASSUME faults = {}, pc' = "build"
                   PROVE  Supplied'
      BY <3>1
    <3>3. tree[p] = "whole" /\ (configured[p] = "none" \/ recipe[p].source = "tarball")
      BY <3>1, <3>2
    <3>4. /\ tool' # "none"
          /\ recipe[p].provided \/ tool' # "provided"
          /\ tool' = "configure" => ToConfigure(p)
          /\ tool' \notin {"none", "configure", "provided"} =>
               \/ tool' = "scons" /\ "SConstruct" \in recipe[p].ships
               \/ tool' = "make" /\ HasMakefile(p)
               \/ Misguessed(p) \/ LeftHalf(p)
      BY <2>8, <3>1, <3>2, <3>3, GuessFits
    <3>5. tool' = "configure" => ToConfigure(at)'
      BY <3>1, <3>4 DEF ToConfigure
    <3>6. tool' # "configure" => CanBuild(at)' \/ Hopeless(at)'
      BY <3>1, <3>3, <3>4 DEF CanBuild, HasMakefile, Hopeless, Misguessed, LeftHalf
    <3>7. QED
      BY <3>1, <3>2, <3>3, <3>5, <3>6
  <2>9. CASE StartBuild(p)
    BY <2>9 DEF StartBuild
  <2>10. CASE Configure(p)
    BY <2>10 DEF Configure, FindsMakefile, LacksMakefile, CanConfigure
  <2>11. CASE Build(p)
    BY <2>11 DEF Build, Elsewhere, Enters
  <2>12. CASE InstallProducts(p)
    BY <2>12 DEF InstallProducts, Elsewhere
  <2>13. QED
    BY <1>3, <2>1, <2>2, <2>3, <2>4, <2>5, <2>6, <2>7, <2>8, <2>9, <2>10, <2>11, <2>12
       DEF InstallPackage
<1>4. CASE UNCHANGED vars
  BY <1>4 DEF vars
<1>5. QED
  BY <1>0, <1>1, <1>2, <1>3, <1>4 DEF Next

LEMMA SuccessStep ==
  ASSUME TypeOK, AtPackage, InOrder, SuccessMeansInstalled, [Next]_vars
  PROVE  SuccessMeansInstalled'
<1> USE NAssumption, OutcomesAssumption
    DEF TypeOK, AtPackage, InOrder, SuccessMeansInstalled, AtWork, Unpacking, Building, Packages, disk, Guessed, Installed
<1>0. CASE Sync
  BY <1>0 DEF Sync, NewProcess, CloneCatalog, PullCatalog, Uncloned
<1>1. CASE StartRun
  BY <1>1 DEF StartRun, NewProcess, Loads
<1>2. CASE NextPackage
  BY <1>2 DEF NextPackage
<1>3. ASSUME NEW p \in {at} \ {0}, InstallPackage(p)
      PROVE  SuccessMeansInstalled'
  <2> p \in Packages /\ p = at
    BY DEF TypeOK, Packages
  <2> USE DEF Breaks, Fault, Succeeds, Refuses
  <2>1. CASE NoSource(p)
    BY <2>1 DEF NoSource
  <2>2. CASE FetchTarball(p)
    BY <2>2 DEF FetchTarball
  <2>3. CASE FetchGit(p)
    BY <2>3 DEF FetchGit
  <2>4. CASE UnpackTarball(p)
    BY <2>4 DEF UnpackTarball
  <2>5. CASE RemoveOldTree(p)
    BY <2>5 DEF RemoveOldTree
  <2>6. CASE CloneMirror(p)
    BY <2>6 DEF CloneMirror
  <2>7. CASE CheckOut(p)
    BY <2>7 DEF CheckOut
  <2>8. CASE GuessToolchain(p)
    BY <2>8 DEF GuessToolchain
  <2>9. CASE StartBuild(p)
    BY <2>9 DEF StartBuild
  <2>10. CASE Configure(p)
    BY <2>10 DEF Configure
  <2>11. CASE Build(p)
    BY <2>11 DEF Build
  <2>12. CASE InstallProducts(p)
    BY <2>12 DEF InstallProducts
  <2>13. QED
    BY <1>3, <2>1, <2>2, <2>3, <2>4, <2>5, <2>6, <2>7, <2>8, <2>9, <2>10, <2>11, <2>12
       DEF InstallPackage
<1>4. CASE UNCHANGED vars
  BY <1>4 DEF vars
<1>5. QED
  BY <1>0, <1>1, <1>2, <1>3, <1>4 DEF Next

LEMMA FailureStep ==
  ASSUME TypeOK, AtPackage, Supplied, FailureIsExplained, [Next]_vars
  PROVE  FailureIsExplained'
<1> USE NAssumption, OutcomesAssumption
    DEF TypeOK, AtPackage, Supplied, FailureIsExplained, AtWork, Unpacking, Building, Packages, disk, Hopeless
<1>0. CASE Sync
  BY <1>0 DEF Sync, NewProcess, CloneCatalog, PullCatalog, Uncloned
<1>1. CASE StartRun
  BY <1>1 DEF StartRun, NewProcess, Loads
<1>2. CASE NextPackage
  BY <1>2 DEF NextPackage
<1>3. ASSUME NEW p \in {at} \ {0}, InstallPackage(p)
      PROVE  FailureIsExplained'
  <2> p \in Packages /\ p = at
    BY DEF TypeOK, Packages
  <2> USE DEF Breaks, Fault, Succeeds, Refuses
  <2>1. CASE NoSource(p)
    BY <2>1 DEF NoSource
  <2>2. CASE FetchTarball(p)
    BY <2>2 DEF FetchTarball
  <2>3. CASE FetchGit(p)
    BY <2>3 DEF FetchGit
  <2>4. CASE UnpackTarball(p)
    BY <2>4 DEF UnpackTarball
  <2>5. CASE RemoveOldTree(p)
    BY <2>5 DEF RemoveOldTree
  <2>6. CASE CloneMirror(p)
    BY <2>6 DEF CloneMirror
  <2>7. CASE CheckOut(p)
    BY <2>7 DEF CheckOut
  <2>8. CASE GuessToolchain(p)
    <3>1. SUFFICES ASSUME faults' = {}, pc' = "failed"
                   PROVE  Misguessed(at)'
      BY <2>8 DEF GuessToolchain
    <3>2. /\ pc = "guess" /\ faults = {} /\ tool' = "none" /\ UNCHANGED <<recipe, at>>
      BY <2>8, <3>1 DEF GuessToolchain
    <3>3. tree[p] = "whole" /\ (configured[p] = "none" \/ recipe[p].source = "tarball")
      BY <3>2
    <3>4. Misguessed(p)
      BY <2>8, <3>2, <3>3, GuessFits
    <3>5. QED  BY <3>2, <3>4 DEF Misguessed
  <2>9. CASE StartBuild(p)
    BY <2>9 DEF StartBuild
  <2>10. CASE Configure(p)
    BY <2>10 DEF Configure, FindsMakefile, LacksMakefile, CanConfigure, ToConfigure, Misguessed
  <2>11. CASE Build(p)
    BY <2>11 DEF Build, Misguessed, LeftHalf
  <2>12. CASE InstallProducts(p)
    BY <2>12 DEF InstallProducts, Misguessed, LeftHalf
  <2>13. QED
    BY <1>3, <2>1, <2>2, <2>3, <2>4, <2>5, <2>6, <2>7, <2>8, <2>9, <2>10, <2>11, <2>12
       DEF InstallPackage
<1>4. CASE UNCHANGED vars
  BY <1>4 DEF vars, Misguessed, LeftHalf
<1>5. QED
  BY <1>0, <1>1, <1>2, <1>3, <1>4 DEF Next

-----------------------------------------------------------------------------
(* Every step keeps Inv.                                                   *)
LEMMA InvStep == Inv /\ [Next]_vars => Inv'
BY TypeStep, AtPackageStep, InOrderStep, SuppliedStep, SuccessStep, FailureStep DEF Inv

(* Variables keep their types, whatever goes wrong in whatever run.        *)
THEOREM InstallTyped == Spec => []TypeOK
<1>1. Inv => TypeOK
  BY DEF Inv
<1>2. QED
  BY <1>1, InitialInv, InvStep, PTL DEF Spec

(* A run that reports success without a killed command has installed every *)
(* package fatso guessed a toolchain for (fatso_install_dependencies).     *)
THEOREM SuccessReported == Spec => []SuccessMeansInstalled
<1>1. Inv => SuccessMeansInstalled
  BY DEF Inv
<1>2. QED
  BY <1>1, InitialInv, InvStep, PTL DEF Spec

(* Commands of a package run after those before it are installed and with  *)
(* all their configurations in the environment.                            *)
THEOREM BuiltInOrder == Spec => []DependenciesFirst
<1>1. Inv => DependenciesFirst
  BY DEF Inv, InOrder, DependenciesFirst, Building, AtWork, Unpacking
<1>2. QED
  BY <1>1, InitialInv, InvStep, PTL DEF Spec

(* When no command goes wrong, a run fails only at a package whose         *)
(* download is broken, that fatso has no way to build, or whose configure  *)
(* broke off once and left a Makefile (fatso_toolchain_run_configure), and *)
(* a sync only on a catalog that a killed git left.                        *)
THEOREM FailureHasCause == Spec => []FailureIsExplained
<1>1. Inv => FailureIsExplained
  BY DEF Inv
<1>2. QED
  BY <1>1, InitialInv, InvStep, PTL DEF Spec

-----------------------------------------------------------------------------
LEMMA HopelessStep ==
  ASSUME TypeOK, [Next]_vars, NEW q \in Packages, Hopeless(q)
  PROVE  Hopeless(q)'
<1>1. recipe' = recipe
  BY DEF Next, Sync, CloneCatalog, PullCatalog, StartRun, NewProcess, NextPackage,
         InstallPackage, NoSource, FetchTarball, FetchGit, UnpackTarball, RemoveOldTree,
         CloneMirror, CheckOut, GuessToolchain, StartBuild, Configure, Build,
         InstallProducts, vars
<1>2. ASSUME store[q] = "broken" PROVE store'[q] = "broken"
  <2>1. CASE \E p \in {at} \ {0} : FetchTarball(p)
    BY <1>2, <2>1 DEF TypeOK, FetchTarball
  <2>2. CASE \E p \in {at} \ {0} : FetchGit(p)
    BY <1>2, <2>2 DEF TypeOK, FetchGit
  <2>3. CASE ~\E p \in {at} \ {0} : FetchTarball(p) \/ FetchGit(p)
    <3>1. store' = store
      BY <2>3 DEF Next, Sync, CloneCatalog, PullCatalog, StartRun, NewProcess, NextPackage,
             InstallPackage, NoSource, UnpackTarball, RemoveOldTree, CloneMirror, CheckOut,
             GuessToolchain, StartBuild, Configure, Build, InstallProducts, disk, vars
    <3>2. QED  BY <1>2, <3>1
  <2>4. QED  BY <2>1, <2>2, <2>3
<1>3. ASSUME LeftHalf(q) PROVE LeftHalf(q)'
  <2>1. configured[q] = "half" /\ recipe[q].source = "tarball"
    BY <1>3 DEF LeftHalf
  <2>2. CASE \E p \in {at} \ {0} : RemoveOldTree(p)
    <3>1. PICK p \in {at} \ {0} : RemoveOldTree(p)
      BY <2>2
    <3>2. p # q
      BY <2>1, <3>1 DEF RemoveOldTree
    <3>3. configured'[q] = configured[q]
      BY <3>1, <3>2 DEF RemoveOldTree, TypeOK
    <3>4. QED  BY <1>1, <1>3, <3>3 DEF LeftHalf
  <2>3. CASE \E p \in {at} \ {0} : Configure(p)
    <3>1. PICK p \in {at} \ {0} : Configure(p)
      BY <2>3
    <3>2. configured'[q] = configured[q]
      BY <2>1, <3>1 DEF Configure, LeavesHalf, FindsMakefile, LacksMakefile, TypeOK
    <3>3. QED  BY <1>1, <1>3, <3>2 DEF LeftHalf
  <2>4. CASE ~\E p \in {at} \ {0} : RemoveOldTree(p) \/ Configure(p)
    <3>1. configured' = configured
      BY <2>4 DEF Next, Sync, CloneCatalog, PullCatalog, StartRun, NewProcess, NextPackage,
             InstallPackage, NoSource, FetchTarball, FetchGit, UnpackTarball, CloneMirror,
             CheckOut, GuessToolchain, StartBuild, Build, InstallProducts, disk, vars
    <3>2. QED  BY <1>1, <1>3, <3>1 DEF LeftHalf
  <2>5. QED  BY <2>2, <2>3, <2>4
<1>4. QED
  BY <1>1, <1>2, <1>3 DEF Hopeless, Misguessed

(* What makes a run fail in which nothing goes wrong lasts: no step of any *)
(* later run repairs a download that is broken or a Makefile that a        *)
(* configure left when it broke off (tarball_fetch, git_clone_or_pull,     *)
(* fatso_toolchain_run_configure).                                         *)
THEOREM HopelessForGood ==
  Spec => [][\A p \in Packages : Hopeless(p) => Hopeless(p)']_vars
<1>1. ASSUME TypeOK, [Next]_vars
      PROVE  [\A p \in Packages : Hopeless(p) => Hopeless(p)']_vars
  BY <1>1, HopelessStep
<1>2. QED
  BY InstallTyped, <1>1, PTL DEF Spec
=============================================================================
