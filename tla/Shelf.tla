------------------------------- MODULE Shelf -------------------------------
(***************************************************************************)
(* What is in the packages directory: for each name the package files with *)
(* their titles, that is, file names without .yml; and what a version      *)
(* number or a constraint means once it is read.                           *)
(***************************************************************************)
EXTENDS Version, Text, PackageFile, SequencesExt

CONSTANTS Names,       \* of packages
          LastLetter,  \* bound: the last letter used in texts
          MaxText      \* bound: the longest text

ASSUME BoundsAssumption == LastLetter \in Nat /\ LastLetter > 8 /\ MaxText \in Nat

(* The number that digits make in a base                                   *)
Digits(ds, base) ==
  LET value[i \in 0..Len(ds)] == IF i = 0 THEN 0 ELSE base * value[i - 1] + ds[i]
  IN  value[Len(ds)]

(* atoi; longer numbers than an int can hold are beyond MaxText.           *)
Number(part) == Digits(part, 10)

(* The place of a word in strcmp order: a word comes before those it is a  *)
(* prefix of, which is what filling up with zeros does.                    *)
Word(part) ==
  Digits([i \in 1..MaxText |-> IF i <= Len(part) THEN part[i] - 9 ELSE 0], LastLetter - 8)

Component(part) ==
  IF Class(part[1]) = "NUMERIC" THEN <<Numeric, Number(part)>> ELSE <<Alpha, Word(part)>>

VersionOf(t, components) ==
  [i \in DOMAIN components |-> Component(SubSeq(t, components[i][1], components[i][2]))]

(* What a version number means: its runs from left to right                *)
Reading(t) == VersionOf(t, CHOOSE s \in SetToSeqs(RunsOf(t)) : InOrder(s))

(* What may stand before the version of a constraint                       *)
Marks == {"", "~", "~>", ">", ">=", "<", "<=", "=", "~="}

(* fatso_constraint_from_string.  A version with nothing before it is ANY, *)
(* which is 0; a ~ without > falls through to the case of >.               *)
RequirementOf(mark) ==
  CASE mark = ""           -> "ANY"
    [] mark = "~>"         -> "APPROXIMATELY"
    [] mark \in {">", "~"} -> "GT"
    [] mark \in {">=", "~="} -> "GE"
    [] mark = "<"          -> "LT"
    [] mark = "<="         -> "LE"
    [] mark = "="          -> "EQ"

(* A file states its version, or it is guessed from the file name.         *)
NumberIn(file) ==
  LET stated == Lookup(file.doc, "version")
  IN  IF stated.type = "none" THEN file.title ELSE stated.text

Judged(file, verdict) == file.kind = "file" /\ FileVerdict(file.doc) = verdict
=============================================================================
