------------------------------ MODULE Catalog ------------------------------
(***************************************************************************)
(* What the resolver expects of the repository: every question is answered *)
(* from what is in the packages directory, as if all of it were read and   *)
(* understood at once.  Who is told that there is no such package does not *)
(* ask again.                                                              *)
(***************************************************************************)
EXTENDS Integers

CONSTANTS
  Worlds,            \* a packages directory and the dependencies on packages in it
  Judged(_, _),      \* whether a file has a verdict
  NumberIn(_),       \* the text of the version of a file
  Reading(_),        \* the version that a text means
  RequirementOf(_),  \* what the mark before a version requires
  Meets(_, _),       \* whether a version meets a constraint
  Compare(_, _)      \* the comparison of two versions

VARIABLES
  world,    \* never written
  request,  \* the dependency, and the version that is asked to be older than
  reply     \* the last answer, and the file it is about

catalogVars == <<world, request, reply>>

NotAsked == [name |-> "", mark |-> "", text |-> <<>>, older |-> FALSE, less |-> <<>>]
Pending == [answer |-> "pending", title |-> <<>>]
Answered(a) == [answer |-> a, title |-> <<>>]
Found(title_) == [answer |-> "OK", title |-> title_]

Asked(query) ==
  [name |-> query.name, mark |-> query.mark, text |-> query.text,
   older |-> FALSE, less |-> <<>>]

InReach(version) == request.older => Compare(version, request.less) < 0

Directory == world.dirs[request.name]
Readable == {file \in Directory.files : Judged(file, "ok")}
Fitting ==
  {file \in Readable :
     /\ InReach(Reading(NumberIn(file)))
     /\ Meets(Reading(NumberIn(file)),
              [req |-> RequirementOf(request.mark), version |-> Reading(request.text)])}
Newest ==
  {file \in Fitting :
     \A other \in Fitting :
       Compare(Reading(NumberIn(other)), Reading(NumberIn(file))) <= 0}

-----------------------------------------------------------------------------
CatalogInit == world \in Worlds /\ request = NotAsked /\ reply = Answered("none")

Ask ==
  /\ reply.answer \in {"none", "OK", "NO_MATCHING_VERSION"}
  /\ \E query \in world.queries : request' = Asked(query)
  /\ reply' = Pending
  /\ UNCHANGED world

(* For a version older than one there is *)
AskOlder ==
  /\ reply.answer \in {"none", "OK", "NO_MATCHING_VERSION"}
  /\ \E query \in world.queries : \E file \in world.dirs[query.name].files :
       /\ Judged(file, "ok")
       /\ request' = [Asked(query) EXCEPT !.older = TRUE, !.less = Reading(NumberIn(file))]
  /\ reply' = Pending
  /\ UNCHANGED world

Reply ==
  /\ reply = Pending
  /\ CASE ~Directory.there \/ Directory.files = {} -> reply' = Answered("UNKNOWN")
       [] Directory.there /\ \E file \in Directory.files : Judged(file, "abort") ->
            reply' = Answered("aborted")
       [] OTHER ->
            \/ Newest = {} /\ reply' = Answered("NO_MATCHING_VERSION")
            \/ \E file \in Newest : reply' = Found(file.title)
  /\ UNCHANGED <<world, request>>

CatalogNext == Ask \/ AskOlder \/ Reply

CatalogSpec == CatalogInit /\ [][CatalogNext]_catalogVars
=============================================================================
