------------------------------- MODULE Version -------------------------------
(***************************************************************************)
(* Versions and version constraints (version.c).  A version is the         *)
(* sequence of its components, a component a pair <<kind, rank>>: kind     *)
(* Numeric with the number atoi reads, or kind Alpha with the position of  *)
(* the word in strcmp order.  A constraint is one requirement operator and *)
(* the version it is about.                                                *)
(***************************************************************************)
EXTENDS Integers, Sequences

Numeric == 0
Alpha == 1

Version == Seq({Numeric, Alpha} \X Nat)
Requirement == {"ANY", "LT", "LE", "EQ", "GT", "GE", "APPROXIMATELY"}
Constraint == [req : Requirement, version : Version]

SmallerOf(m, n) == IF m <= n THEN m ELSE n

(* Two words compare as strings and two numbers as numbers; of a number    *)
(* and a word the number comes first.                                      *)
ComponentBelow(c, d) ==
  c[1] < d[1] \/ (c[1] = d[1] /\ c[2] < d[2])

(* fatso_version_compare_n_components: the sign of the comparison of the   *)
(* first n components, n cut down to the shorter of the two versions.      *)
CompareN(a, b, n) ==
  LET upTo == SmallerOf(n, SmallerOf(Len(a), Len(b)))
      decides(i) == \A j \in 1..(i - 1) : a[j] = b[j]
  IN  CASE \E i \in 1..upTo : decides(i) /\ ComponentBelow(a[i], b[i]) -> -1
        [] \E i \in 1..upTo : decides(i) /\ ComponentBelow(b[i], a[i]) -> 1
        [] OTHER -> 0

(* fatso_version_compare: when the common components are all equal the     *)
(* version with fewer of them comes first.                                 *)
Compare(a, b) ==
  LET r == CompareN(a, b, SmallerOf(Len(a), Len(b)))
  IN  IF r # 0 THEN r ELSE Len(a) - Len(b)

(* One constraint of the loop in fatso_version_matches_constraints.  The   *)
(* approximate requirement drops the last component of the constraint.     *)
Meets(v, c) ==
  CASE c.req = "ANY" -> TRUE
    [] c.req = "LT"  -> Compare(v, c.version) < 0
    [] c.req = "LE"  -> Compare(v, c.version) <= 0
    [] c.req = "EQ"  -> Compare(v, c.version) = 0
    [] c.req = "GT"  -> Compare(v, c.version) > 0
    [] c.req = "GE"  -> Compare(v, c.version) >= 0
    [] c.req = "APPROXIMATELY" ->
         \/ c.version = <<>>
         \/ CompareN(v, c.version, Len(c.version) - 1) = 0

(* fatso_version_matches_constraints.  The loop returns at the first       *)
(* constraint that settles the answer, and ANY settles it with true: what  *)
(* follows an ANY is never looked at.                                      *)
MatchesConstraints(v, cs) ==
  \A i \in DOMAIN cs :
     Meets(v, cs[i]) \/ \E j \in 1..(i - 1) : cs[j].req = "ANY"
==============================================================================
