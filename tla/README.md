# fatso in TLA+

fatso is a package manager for C projects: it resolves the dependencies of a
project to versions of packages, orders them, and downloads, builds and installs
them. This directory holds a specification of its core in TLA+, checked with TLC
on small instances and proved with TLAPS for all of them. Paths like
`dependency.c:301` are of the repository's files.

## 1. The system

| Part | Code | State it keeps | Operations |
|---|---|---|---|
| Dependency resolver | `dependency.c`, `project.c` | a graph per active call: chosen packages, open names, constraints, who depends on what, conflicts; and the C stack | `for_package`, `resolve`, `add_dependencies_from_package`, `add_open_set`, `get_conflicts` |
| Graph arrays | `dependency.c` | `own_dependencies` sorted by name; `open_set`, `conflicts`, `unknown`, `depended_on_by` as indices into it | `add_open_set`, `increment_indices_from`, `register_dependency`, `add_conflict`, `add_unknown`, the pop of `resolve` |
| Install order | `dependency.c` | the list so far, the names seen, the C stack | `topological_sort` |
| Versions | `version.c` | none; while a text is read the scanner's position, state and component | `version_from_string`, `constraint_from_string`, `compare`, `matches_constraints` |
| Repository | `repository.c` | cache of version lists by name; on disk: package files | `find_package_versions`, `find_package_matching_dependency` |
| Sorted arrays | `util.c` | one array | `lower_bound`, `bsearch`, `set_insert` |
| Child processes | `process.c` | pid, three descriptors and callbacks per process | `process_start`, `wait_all`, `fatso_system*` |
| Installation | `install.c`, `source.c` | position in the install order; on disk: downloads, build directories, installed files | `install_dependencies`, `package_install` and its steps |
| Sources | `tarball.c`, `git.c` | on disk: tarballs and mirrors under `sources/` | fetch, unpack |
| Toolchains | `toolchain.c`, `autotools.c`, `make.c`, `scons.c` | the working directory; on disk: a generated Makefile | guess, build, install |
| Configuration, environment | `configuration.c`, `env.c` | consolidated configuration, environment variables | `add_package`, `env_add_package` |
| Project, package files | `project.c`, `package.c`, `yaml.c` | structs read from YAML | load |
| Commands | `build.c`, `env.c`, `exec.c`, `install.c`, `fatso.c` | the project directory, whether a project is loaded | one each |
| Sync | `sync.c` | on disk: the clone of the package files | clone or pull |
| Command line | `main.c`, `info.c`, `help.c` | none of their own | parsing, printing |

How they interact. `fatso install` finds and loads the project, has the resolver build the
graph (which asks the repository for versions and keeps everything in sorted
arrays), sorts it into the install order, and then takes each package through
fetch, unpack, guess, build and install. Each of those runs commands through
`fatso_system` and its variants, which fork a shell and pass its output on until it has
ended. There are no threads. What runs beside fatso are its children; what
outlives it is the disk.

What is hard about it, and so what the properties are about:

* The resolver backtracks. A candidate that fails must leave no trace, and one
  level of the search must go on where another gave up. Whether an answer is right is
  a matter of every path through the search, not of a call.
* Every stored index is stale after an insertion into the array it refers to.
* The parent reads from pipes its children write to, while they exit, are killed
  or leave background processes behind. Everybody may wait for everybody.
* A run of `fatso install` finds what earlier ones, interrupted at any point, left on
  disk, and decides what to skip by what files exist.
* A command is judged by its exit status alone.
* The defines of all packages go into one environment, in two forms, and later ones
  override earlier ones: the install order decides what each package is compiled with.
* The cache of the repository remembers what was asked for, not what was found.

PROJECT.json lists the hazards line by line with the properties that would catch
each.

## 2. Modules

    Version          versions, comparison, matching of constraints
      GraphOps       a dependency graph as a value, and the operations on it
        Resolver     the search: repository lookup, backtracking, reports
          ResolverInv          the inductive invariants, and the worlds they hold in
            ResolverProofs      soundness, completeness, newest versions, reports
        NameGraph    ABSTRACT: a graph keyed by name, any operations in any order
        IndexGraph   the same as arrays of indices; implements NameGraph
          IndexGraphProofs
    InstallOrder     the topological sort              InstallOrderProofs
      Command        build, env, exec and install, from fatso.yml to what they run
                                                       CommandProofs
    Text             characters and runs of them
      VersionText    reading a version number
    PackageFile      which package files load
    Shelf            the package directory, and what version numbers in it mean
      Catalog        ABSTRACT: questions answered from all of the directory at once
      Repository     cache, reading, sorting, lookup; implements Catalog
                                                       RepositoryProofs
    SortedArray      binary search and set insertion   SortedArrayProofs
    Process          children, pipes, select, waitpid  ProcessProofs
    Install          sync and installation, in run after run    InstallProofs

Each component that is run has a module `MC...` with its instances for TLC, and a
configuration for each run. Operators named as "mutated" in a comment are
variants of the definition that follows them with a plausible bug; PROJECT.json
pairs each property with one that breaks it.

The layers lean on each other. SortedArray shows that an array that is only inserted
into by `set_insert` is a sorted set and is searched rightly: IndexGraph therefore
writes `open_set` and the others as sets, and inserts into `own_dependencies` where
the name belongs. IndexGraph shows that the arrays are a graph of names: Resolver therefore
uses the operations of GraphOps. Both use the same operators of GraphOps; IndexGraph and
NameGraph take the steps in any order the resolver can take them in.
Process says what `fatso_system` returns (0 for a killed command included),
which is what Install takes for the result of every command. Repository says how the
lookup that is one step of Resolver comes by its answer: the newest version that fits, of the
files that load. Command takes a resolved graph as Resolver leaves it, has InstallOrder sort it
step by step, and goes through the packages as Install does, with what Install does to
the disk left out.

### Resolver

`stack` is the C stack of `fatso_dependency_graph_resolve`, one frame per
active call with its graph (after the pop), the name it popped and `package`, the
version tried last. `g` is the graph passed down, filled, or handed back; `pkg` and `k` walk
through `add_dependencies_from_package`. The recursion is one action per step:

| Action | Code |
|---|---|
| `AddNewDependency`, `AppendConstraints`, `PinnedMatches`, `PinnedConflicts` | the four ways through `add_open_set`, 284-333 |
| `DepsAdded` | end of `add_dependencies_from_package`, and the test of its result at 415-418 and 462 |
| `ResolveEmpty`, `ResolvePop` | 376-378 and 380-393 |
| `FindUnknown`, `FindNoMatch`, `FindOK` | one turn of the loop with the three results of the repository, 396-444 |
| `PassAnswerOn`, `TryOlder`, `ReturnToCaller` | what the caller does with an answer |

A world is a project and a repository; it is chosen in `Init` and never written. A
name without a directory is not in `known`. Versions are lists of numeric or
alphabetic components. The lookup `Eligible`/`NewestOf` is
`fatso_repository_find_package_matching_dependency` on the newest-first list.

### IndexGraph and NameGraph

IndexGraph stores what the C struct stores, but for the root (no operation
reads it before the sort). `held` is the local variable `dep_idx` of `resolve`. The
refinement mapping replaces each index by the name of the element it points at, so it
says exactly that no index ever means another name than it was stored for. After
a conflict or an unknown name nothing is added any more, as in `resolve`, which returns.

### Process

One parent runs `process_start` for each process and then `wait_all`; each child writes
its plan, unit by unit, and blocks when its pipe is full. `unread` holds the
descriptors `select` returned that the loop is still to read; their order
depends on descriptor numbers, so any is allowed. `Read` takes any number of units, like
`read`. A child that ends may leave a process behind that holds its pipes
(`shared`), so that they never report their end. A failing `waitpid` files
whatever `wstatus` held: any status. A failing fork leaves `pid` -1 and the status
unwritten.

### Command

A scenario is what is on disk (which directories on the way to the root have a good, bad or
unreadable `fatso.yml`), what the user types (a command, the directory it is started in, perhaps
`-C`), the answer of the resolver, the graph and the defines of each package. `Climb` is one turn of
`find_fatso_yml`, `LoadProject` is `fatso_load_project`, `Resolve` is
`fatso_generate_dependency_graph` up to the sort, `Sort` a step of InstallOrder. `AddPackage`
is `fatso_configuration_add_package` with `fatso_env_add_package`: `dict` is what
`consolidated_configuration` holds for each key, `cflags` the `-D` options in CFLAGS in
their order. It is part of `EnvPackage` and `EnvProject` (`fatso_load_environment`), of
`BuildProject` and of `BuildPackage`, as in the code. Where the resolver writes no
status (`project.c:131` leaves it uninitialized), any branch of the switch can be
taken, and none.

On a circle of dependencies the sort guarantees an order between two packages only if one
needs the other directly or the other does not need it back: a package in a circle can be
listed before one outside it that it needs through others. `OnlyCyclesOutOfOrder`,
`OuterDefinesWin` and `BuildsWithNeeded` say what remains.

### Repository and Catalog

`VersionText` scans a text one character per step, as `fatso_version_from_string` does; the
components are positions in the text. `PackageFile` gives each YAML document a verdict, by the steps of
`fatso_package_parse` in their order: it loads, is rejected with an error, or fails an
assertion, which ends the program. A key stands for every field it is a prefix of
(`yaml.c:12`). `Repository` puts a name into the cache (`cached`) and then reads the files in any
order, as GLOB_NOSORT allows; equal versions are in any order after `qsort`. A dependency's constraint
is scanned when the dependency is asked for, which is when its file has been read in the code; in between
nothing happens to it. The caller may ask for a version older than any package it was given, after whatever
else it has asked for (`AskOlder`), as a level of the search does that another came back to. The versions of files that are rejected are not scanned, since nothing of
them remains. `Catalog` has none of the cache, the scanner and the lists: a
reply follows from the files in the directory and the runs of their version
numbers. Its constants are the operators of Shelf that say what a file and a text mean, and
`Reading` picks the one list of a text's runs that is in order. That it allows no question after UNKNOWN is what `resolve` and `info` keep to; the
mutant of `ImplementsCatalog` shows what the cache answers otherwise.

### Install

A package is a recipe: where it comes from, which of `autogen.sh`, `configure`, `Makefile`,
`SConstruct` and `SConscript` it ships, and whether its file gives build commands. On disk there are
`store` (tarball or mirror), `tree` (build directory), `configured` (the generated Makefile)
and `product`. Every command is one action with the ways it can end: it does its work; it
does not, because what it needs is missing; or something goes wrong. Outcomes of the
latter kind leave the disk as it was or halfway, and are followed by what the code does:

| Outcome | Result seen | Next |
|---|---|---|
| `fails` | not 0 | the run stops |
| `killed` | 0, as WEXITSTATUS of a signal is | the next step |
| `crash` | none, fatso dies with it | the disk remains |
| `page` | 0, curl stores an error page | unpacking |

A crash between two commands is the same as one in which the second has had no effect yet.
`GuessToolchain` looks at the files: all of them in a complete build directory, any in a
partial one; the last entry of `named_toolchains` that matches wins.
`configure` writes the Makefile among its first files, so one that fails, is killed or dies with fatso
may leave it without the rest (`half`). Later runs then do not run `configure` again
(`autotools.c:43`) and guess plain make, for which the package is taken not to build. A git package gets over
that, as its build directory is removed; a tarball is unpacked over what is there. Of the two files the
guess takes for scons, `scons` itself reads only `SConstruct`, and of the two it takes for `configure` only
one is run: packages with the other alone cannot be built. What else is built halfway, make and scons are taken
to build again. `StartRun` and `Sync` are the
user: fatso can be started again whenever it has stopped. `catalog` is the directory of package files:
not there, there without `.git`, with one that is no good (`broken`), with a lock a killed pull left
(`locked`), or whole. `fatso install` looks for the `.git` only; of a broken one it has the files the
project needs or not, so the run goes on or is refused.

## 3. Runs

All runs are exhaustive. Bounds are in the MC modules and configurations.

| Run | Instance | What it shows |
|---|---|---|
| Resolver | three packages of two releases with every dependency graph of at most one dependency per release, three projects, a missing directory; and two packages with dependencies that are repeated, circular, on themselves, without version or approximate, a directory without versions, a project that depends on itself; 299,882 states | answers of success, conflict and unknown are right; success is the newest the order of search allows; a reported conflict is a real one; in plain worlds the inductive invariant of the proof of soundness holds; versions tried get older; the search ends |
| Command | every resolved graph of a project and three packages, two roots, built and installed; one graph for every command, from every directory with every state of `fatso.yml` on the way, every answer; 242,434 states | each package once, after what it needs unless they need each other; the nearest project is loaded; both forms of the defines agree; outer defines override inner ones; whatever is built sees the defines of all it needs; every command ends |
| Repository | every version number of up to four characters as file name and in a file, up to three in a constraint; 21 shapes of file beside others; directories of three files under every operator; two names; 94,226 states | texts are read as their runs; the cache is what is on disk; what was handed out stays; the answers are those of Catalog; each question is answered |
| SortedArray | five keys, arrays up to five long; 1,954 states | arrays stay sorted sets, searches answer right and end |
| IndexGraph | three names, every order of operations | the arrays implement NameGraph |
| Process | two children with three units of output, pipes of one unit; 263,856 states | each its status, output read before pipes are closed, the wait returns |
| Install | two packages of eight kinds, all four outcomes, syncs and runs without end; 1,245,121 states | success means installed; dependencies first; a clean run succeeds and a clean sync too, whatever was left on disk, up to a broken download, the Makefile of an interrupted `configure`, a broken clone or a lock; without those, syncing and installing again ends in success |

Five runs show the code disagreeing with what the repository says of it; each
checks one property and TLC finds it violated:

* ResolverShadowed: a dependency without a version hides the constraints found after
  it (`version.c:172`). One world: the project needs a package in any version, and another
  that is chosen first and needs the former before version 2; version 2 is chosen.
* ResolverReport: the conflict printed can be met; it is the one of the last candidate
  (`dependency.c:402`).
* OutputLost: what a command writes between the last read and `waitpid` is
  lost (`process.c:254`). It takes two writes and an exit in that window.
* InstallKilled: a killed command counts as successful (`process.c:271`).
* CustomScript: build commands run in the wrong directory (`toolchain.c:35`).

Why the bounds are enough. Two releases of each of three packages are what it takes to
reject a version because of a package two levels down and come back; every
shape of such a graph is enumerated. Three names are what it takes to insert before,
between and behind stored indices. Two children are what it takes for one to wait while the
other is served, and pipes of one unit make writers block. Of two packages
the first has been through everything the second finds on disk and in
the working directory. What depends on size alone is proved. A circle of two packages needed by a third, and
needing one outside it, takes a project and three. Of the scanner only the classes of characters
matter, and four characters hold every pair of classes with something before or
after it. Two names in the cache are enough for one to be inserted beside the other.

Deadlock is checked in SortedArray and Install, which never stop. In the other runs the code
does: the resolver, the commands, a caller told of an unknown package and `wait_all` return for good, and a graph of IndexGraph gets
no more operations after a conflict or an unknown name. Their configurations say so; that they
stop only where they may is what `Terminates`, `CommandEnds`, `AsksAreAnswered` and
`WaitReturns` are for.

Fairness. The resolver, the commands, a lookup that has begun and the array search are sequential code:
weak fairness of the next step, which always runs if nothing ends the process. In Process the parent is weakly fair
as a whole, and every child gets to write when there is room and to exit when it has written
all; a background process ends at some time (without that a shell that leaves a daemon
behind is not an error). Nobody relies on a kill or on select failing. In Install the
user is taken to sync and to install again (weak fairness of `Sync` and `StartRun`); that commands go wrong only finitely often is a
premise of the property, not fairness.

## 4. Proofs

Proved with TLAPS for every value of the constants:

* **Resolver.** `TypeCorrect`, `TriesOlderVersions`. `SearchSound`: in plain worlds every
  dependency of every chosen package is accounted for in every graph the search
  may return to, that is, its constraint waits with its open name or the chosen
  version meets it. `ResolverSound` follows: a success has no open name, so all are met.
  The property itself is not inductive: it says nothing of the graphs on the stack.
  `SoundnessInv` says it of each frame (less the popped name), of the candidate being
  filled (up to the dependency being added) and of the graph handed back.
  *Plain* excludes what makes it false: a name asked for with and without a
  version, a dependency on the project's own name, a package file with another name than its
  directory.
  `ConflictComplete`, `SuccessNewest`, `ReportGenuine`: in orderly worlds a conflict leaves no
  solution out, a success chooses versions that no solution improves on, and a
  report blames one name, rightly. One invariant, `CompletenessInv`, shows all three. None of the
  properties says anything before the search is done. It says of each call in progress that every
  solution that contains what was chosen before it contains the version tried last or one still to be
  tried; that after a conflict no solution contains the version tried last; that what is chosen inside a
  call is what was chosen before it and the version it tries; and that a solution as new as a
  graph in all its names contains what the graph does, which is how the newest first
  becomes the newest. The constraints of a graph are shown to be those of dependencies of packages in it, so
  that a solution must meet them.
  *Orderly* excludes three things, each of which does make the search give up
  too early or take less than the newest: two files of a directory with the same version (of which
  only one is tried, since the next must be older), a dependency on the project's
  own name (`dependency.c:295` opens it though it is chosen already), a file with another
  name than its directory. Dependencies without a version do no harm to these.
* **IndexGraph.** `IndicesValid`, `StaysSorted`, `GraphRefined`. Each action maps to the NameGraph
  action of the same name; the lemmas say what the shift does to names.
  The invariant adds that at most one index is held.
* **Repository, VersionText, Version.** `TextIsRead`: a text of any length is read as its runs, from left to
  right. The invariant says that the components found are the runs left of `component_start`, and that from
  there on there is one kind of character, the one of the state, with another before it.
  `CompareOrder`: comparison is a total order of versions in which only equal ones compare as
  equal; without it `qsort` and the search for an older version mean nothing.
  `RepositoryTyped`, `RepositoryReadsRuns`, `CacheTrue`, `HandedOut`, and `AnswersLikeCatalog`: for any
  directories, files, texts and questions in any order, each step maps to a question or the answer of
  Catalog, or to none. `CacheIsTrue` speaks of finished lists only. The inductive invariant adds the list being read
  (`ReadInv`: the packages so far are those of the files that are read and load, but for the one whose version is
  being scanned), the question (`AskInv`: what the scanner has is part of the text asked
  for, the constraint is what that text means) and the finished lists (`ListInv`: each holds all files of its
  directory that load, none of which ends the program; a name that was not asked for has no list).
* **InstallOrder.** `InstallOrderTyped`, `DependenciesFirst`, `EachListedOnce`. The argument
  follows the stack: what is listed is listed after what it needs, unless that was
  seen and is on the stack still, which makes a circle.
* **Command.** `CommandTyped`, `NearestLoaded`, `CommandOrder`, `CommandListsOnce`, `RecordsAgree`,
  `OuterWins`, `BuiltWithNeeded`. A command loads the nearest of the projects it looks for, from any depth: as
  long as none is found, all of them are at the directory looked at or above it. The order is
  InstallOrder's, as every step of a command is one of the sort or leaves it alone. For
  any list of packages with any defines the last `-D` of a key is what the configuration holds: both
  are written together, from the same list. That the defines of outer packages win, and that what is built sees
  those of all it needs, is proved for graphs in which a package that needs the project is
  needed by it (`ProjectOutermost`). `for_package` depends on all it finds, so this fails
  only if a package file has another name than its directory; then a package is chosen that nobody depends on.
  `FlagInv` keeps the flags in the order of the list, the project's last, and
  `NeedInv` says that a package on no circle is listed when all it needs, however indirectly, is: the one of
  them listed last would otherwise lead to another.
* **SortedArray.** `SearchTyped`, `ArraysStaySorted`, `SearchAnswers`. The invariant is the one of bisection:
  left of the bounds all is smaller, right of them larger, and the probe lies between.
* **Process.** `ProcessTyped`, `StatusesFiled`, `DrainedFirst`. A process in `over` writes no more,
  so its pipe is empty once its descriptor has left `unread`.
* **Install.** `InstallTyped`, `SuccessReported`, `BuiltInOrder`, `FailureHasCause`, `HopelessForGood`. The invariant says
  that packages before this one are installed unless a command of this run was killed, and that in
  a run without faults each step finds what the one before it made, unless the package is hopeless
  (`Hopeless`: a broken download, no source, build commands run elsewhere, files that mislead the guess,
  or a Makefile an interrupted `configure` left). `HopelessForGood`: none of these ever goes away.

The assumptions are those on the constants (`...Assumption`), which TLC evaluates in
every run. Those of Repository say that a directory holds finitely many files of different names, and that
version numbers are texts over the characters of the model, not longer than `MaxText`; whatever these are. Standard facts on sequences are cited from the TLAPS library.

Only model-checked: the liveness properties `Terminates`, `CommandEnds`, `AsksAreAnswered`, `CallsReturn`,
`WaitReturns` and `EventuallyInstalled`, because they rest on fairness. Success in worlds that are not
plain, conflicts in worlds that are not orderly and the defines in graphs whose project is not
outermost are checked on the instances only as far as the properties hold there. Every other property of a
passing run is a theorem.

## 5. What is not modelled

* Freeing graphs, growing arrays, strings. A failing `malloc` ends the program.
* `pipe()` failing, `fatso_process_kill` and `fatso_multiset_insert`, which nothing calls, and
  a stream without a callback other than as one that is never read.
* The standard input of children, which never ends: a command that reads it waits for ever.
* Background processes that go on writing.
* Whether a directory can be made or entered: mkdir and chdir are taken to succeed.
* Where a package's own Makefile installs to, as no prefix is passed to it
  (`make.c:40`).
* The paths `fatso_append_base_environment` puts in front of PATH and into CFLAGS and LDFLAGS.
  `fatso install` does not call it: packages are built without them (`install.c:27`).
* The env entries of a configuration, which no file can fill.
* The command line (`main.c`), `help`, which lists commands there are not, `info` beyond its lookup,
  and `upgrade`, which only prints. An argument after an unknown option is put in front of the
  others (`main.c:46`).
* The rest of what a package file says: name, author, toolchain, source and dependencies are
  the Package of GraphOps and the recipe of Install, given there. Keys of the file that are no scalars,
  whose text is read all the same.
* Numbers in versions that an int cannot hold (`version.c:130`), and what `isalpha` says in another
  locale.
* libyaml, glob and git.
* Undefined behaviour that has no effect on the properties: `compare_pointers` reads
  8 bytes of 4 (`dependency.c:199`).

## 6. Plan

Done: resolver, graph arrays, install order, commands, versions, repository, package files, sorted arrays,
child processes, sync and installation.

What would add most next:

1. **Abstract specification** of the resolver as one step from a world to an answer, with the search shown
   to implement it: the invariants are there.
2. **Proof** that `ProjectOutermost` holds of every graph the resolver leaves in worlds whose package
   files are named like their directories, which takes a module that composes Resolver and Command.
3. **Environment**: the base environment, and which packages find which libraries.
