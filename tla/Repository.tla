----------------------------- MODULE Repository -----------------------------
(***************************************************************************)
(* The package repository (repository.c) with what it reads: the cache of  *)
(* version lists, the package files behind it, the version numbers in them *)
(* one character at a time (VersionText), and the search of a list for the *)
(* newest version that fits a dependency.  Its caller is the resolver,     *)
(* which asks for a name, for another, and for an older version of either  *)
(* when it comes back to it.                                               *)
(***************************************************************************)
EXTENDS Shelf, VersionText

CONSTANT Worlds  \* a packages directory and the dependencies on packages in it

(* Files in a directory have different names; a directory that is not      *)
(* there has none.                                                         *)
ASSUME WorldsAssumption ==
  \A world_ \in Worlds :
    /\ \A n \in Names :
         LET dir == world_.dirs[n]
         IN  /\ IsFiniteSet(dir.files)
             /\ dir.files # {} => dir.there
             /\ \A f, g \in dir.files : f.title = g.title => f = g
             /\ \A f \in dir.files : f.title \in Texts
             /\ \A f \in dir.files : Judged(f, "ok") => NumberIn(f) \in Texts
    /\ \A query \in world_.queries :
         query.name \in Names /\ query.mark \in Marks /\ query.text \in Texts

VARIABLES
  world,       \* never written
  request,     \* dep and less_than_version
  reply,       \* what the last call returned
  pc,          \* where the call is
  constraint,  \* the constraint of dep
  cached,      \* the names in g_versions_cache
  cache,       \* their lists
  left,        \* the paths of the glob not looked at yet
  packages     \* packages, up to valid_i

vars == <<world, request, reply, pc, constraint, cached, cache, left, packages, svars>>

Catalog == INSTANCE Catalog

Package == [title : Texts, version : Version]

RepositoryTypeOK ==
  /\ ScannerTypeOK
  /\ pc \in {"idle", "constraint", "find", "read", "version", "search", "stopped"}
  /\ p > 0 => pc \in {"constraint", "version"}
  /\ constraint \in Constraint
  /\ cached \subseteq Names
  /\ cache \in [Names -> Seq(Package)] /\ \A n \in Names \ cached : cache[n] = <<>>
  /\ pc \in {"read", "version"} => left \subseteq world.dirs[request.name].files
  /\ packages \in Seq(Package) /\ (pc = "version" => packages # <<>>)
  /\ (reply = Catalog!Pending) = (pc \notin {"idle", "stopped"})

-----------------------------------------------------------------------------
Init ==
  /\ ScanInit
  /\ world \in Worlds
  /\ request = Catalog!NotAsked /\ reply = Catalog!Answered("none")
  /\ pc = "idle"
  /\ constraint = [req |-> "ANY", version |-> <<>>]
  /\ cached = {} /\ cache = [n \in Names |-> <<>>]
  /\ left = {} /\ packages = <<>>

(* A dependency as fatso_dependency_parse reads it; its caller asks for    *)
(* the newest version.                                                     *)
Ask ==
  /\ pc = "idle" /\ pc' = "constraint"
  /\ \E query \in world.queries :
       request' = Catalog!Asked(query) /\ Begin(query.text)
  /\ reply' = Catalog!Pending
  /\ UNCHANGED <<world, constraint, cached, cache, left, packages>>

TakeConstraint ==
  /\ pc = "constraint" /\ p = 0 /\ pc' = "find"
  /\ constraint' = [req |-> RequirementOf(request.mark),
                    version |-> VersionOf(text, found)]
  /\ text' = <<>> /\ found' = <<>>
  /\ UNCHANGED <<world, request, reply, cached, cache, left, packages, p, state, start>>

(* The resolver asks with the version of a package it was given at some    *)
(* time, after whatever else it has asked for since.                       *)
AskOlder ==
  /\ pc = "idle" /\ pc' = "constraint"
  /\ \E query \in world.queries : \E i \in DOMAIN cache[query.name] :
       /\ request' = [Catalog!Asked(query) EXCEPT !.older = TRUE,
                                                !.less = cache[query.name][i].version]
       /\ Begin(query.text)
  /\ reply' = Catalog!Pending
  /\ UNCHANGED <<world, constraint, cached, cache, left, packages>>

-----------------------------------------------------------------------------
FindCached ==
  /\ pc = "find" /\ request.name \in cached /\ pc' = "search"
  /\ UNCHANGED <<world, request, reply, constraint, cached, cache, left, packages, svars>>

Here == world.dirs[request.name]

(* Mutated Afterwards: who is told of an unknown package asks on.          *)
AfterwardsToo == "idle"

(* A caller that is told of an unknown package stops.                      *)
Afterwards == "stopped"

(* fatso_repository_find_package_versions puts the name into the cache     *)
(* first.  Without the directory, or when nothing in it ends in .yml, it   *)
(* stays there, with no versions.                                          *)
FindUnknown ==
  /\ pc = "find" /\ request.name \notin cached /\ (~Here.there \/ Here.files = {})
  /\ cached' = cached \cup {request.name}
  /\ reply' = Catalog!Answered("UNKNOWN")
  /\ pc' = Afterwards
  /\ UNCHANGED <<world, request, constraint, cache, left, packages, svars>>

(* Mutated FindFiles: a name that is in the cache is read again.           *)
FindFilesAgain ==
  /\ pc = "find" /\ Here.there /\ Here.files # {}
  /\ cached' = cached \cup {request.name}
  /\ left' = Here.files /\ packages' = <<>>
  /\ pc' = "read"
  /\ UNCHANGED <<world, request, reply, constraint, cache, svars>>

FindFiles ==
  /\ pc = "find" /\ request.name \notin cached /\ Here.there /\ Here.files # {}
  /\ cached' = cached \cup {request.name}
  /\ left' = Here.files /\ packages' = <<>>
  /\ pc' = "read"
  /\ UNCHANGED <<world, request, reply, constraint, cache, svars>>

Opens(file) == pc = "read" /\ file \in left /\ left' = left \ {file}

(* What is not a file or cannot be opened is passed over.                  *)
SkipFile ==
  /\ \E file \in left : Opens(file) /\ file.kind # "file"
  /\ UNCHANGED <<world, request, reply, pc, constraint, cached, cache, packages, svars>>

(* Mutated RejectFile: valid_i goes on, and the slot stays.                *)
RejectNothing ==
  /\ \E file \in left :
       /\ Opens(file) /\ Judged(file, "bad")
       /\ packages' = Append(packages, [title |-> file.title, version |-> <<>>])
  /\ UNCHANGED <<world, request, reply, pc, constraint, cached, cache, svars>>

(* The next file gets the place of one that does not parse.                *)
RejectFile ==
  /\ \E file \in left : Opens(file) /\ Judged(file, "bad")
  /\ UNCHANGED <<world, request, reply, pc, constraint, cached, cache, packages, svars>>

AbortOnFile ==
  /\ \E file \in left : Opens(file) /\ Judged(file, "abort")
  /\ reply' = Catalog!Answered("aborted")
  /\ pc' = "stopped"
  /\ UNCHANGED <<world, request, constraint, cached, cache, packages, svars>>

ReadFile ==
  /\ \E file \in left :
       /\ Opens(file) /\ Judged(file, "ok")
       /\ packages' = Append(packages, [title |-> file.title, version |-> <<>>])
       /\ Begin(NumberIn(file))
  /\ pc' = "version"
  /\ UNCHANGED <<world, request, reply, constraint, cached, cache>>

TakeVersion ==
  /\ pc = "version" /\ p = 0 /\ pc' = "read"
  /\ packages' = [packages EXCEPT ![Len(packages)].version = VersionOf(text, found)]
  /\ text' = <<>> /\ found' = <<>>
  /\ UNCHANGED <<world, request, reply, constraint, cached, cache, left, p, state, start>>

Sorted(list) ==
  \A i, j \in DOMAIN list : i < j => Compare(list[i].version, list[j].version) <= 0

(* qsort leaves equal versions in any order.                               *)
SortVersions ==
  /\ pc = "read" /\ left = {} /\ pc' = "search"
  /\ \E list \in SetToSeqs(ToSet(packages)) :
       Sorted(list) /\ cache' = [cache EXCEPT ![request.name] = list]
  /\ packages' = <<>>
  /\ UNCHANGED <<world, request, reply, constraint, cached, left, svars>>

-----------------------------------------------------------------------------
Last1(S) == Max(S \cup {0})

(* Where less_than_version leaves p: at the last version before it.        *)
From(list) ==
  Last1({i \in DOMAIN list :
           request.older => Compare(list[i].version, request.less) < 0})

(* fatso_repository_find_package_matching_dependency, from there down to   *)
(* the first version that meets the constraints.                           *)
FirstMatch(list) ==
  Last1({i \in 1..From(list) : MatchesConstraints(list[i].version, <<constraint>>)})

Search ==
  /\ pc = "search" /\ pc' = "idle"
  /\ LET list == cache[request.name]
     IN  reply' = IF FirstMatch(list) = 0 THEN Catalog!Answered("NO_MATCHING_VERSION")
                                          ELSE Catalog!Found(list[FirstMatch(list)].title)
  /\ UNCHANGED <<world, request, constraint, cached, cache, left, packages, svars>>

Scan ==
  /\ ScanStep
  /\ UNCHANGED <<world, request, reply, pc, constraint, cached, cache, left, packages>>

Work ==
  \/ TakeConstraint \/ FindCached \/ FindUnknown \/ FindFiles
  \/ SkipFile \/ RejectFile \/ AbortOnFile \/ ReadFile \/ TakeVersion \/ SortVersions
  \/ Search \/ Scan

Next == Ask \/ AskOlder \/ Work

(* A call that has begun goes on; whether there is another is up to the    *)
(* caller.                                                                 *)
Spec == Init /\ [][Next]_vars /\ WF_vars(Work)

-----------------------------------------------------------------------------
(* The names whose list is complete                                        *)
Listed ==
  {n \in cached : n = request.name => pc \notin {"read", "version"} /\ reply.answer # "aborted"}

(* A list in the cache is what is on disk: every file that can be opened   *)
(* and parses is in it once, under the version it states or its name does, *)
(* oldest first; and nothing else is, whatever order they were read in.    *)
CacheIsTrue ==
  \A n \in Listed :
    LET list == cache[n]
        good == {file \in world.dirs[n].files : Judged(file, "ok")}
    IN  /\ Len(list) = Cardinality(good)
        /\ ToSet(list) = {[title |-> file.title, version |-> Reading(NumberIn(file))] :
                            file \in good}
        /\ Sorted(list)

(* Packages handed out point into a list: it is never read again, whatever *)
(* else is asked for.                                                      *)
HandedOutStays == [][\A n \in Listed : n \in Listed' /\ cache'[n] = cache[n]]_vars

(* Every question comes to an answer, or the program to an end.            *)
AsksAreAnswered == (pc = "constraint") ~> (pc \in {"idle", "stopped"})

(* The repository answers as if it knew the whole packages directory.      *)
ImplementsCatalog == Catalog!CatalogSpec
=============================================================================
