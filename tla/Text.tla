-------------------------------- MODULE Text --------------------------------
(***************************************************************************)
(* The text of a version number.  A character is a number: the digits are  *)
(* 0 to 9, the letters follow them in strcmp order, and all others, as     *)
(* well as the bytes isalpha does not know, are negative.                  *)
(***************************************************************************)
EXTENDS Integers, Sequences

Class(c) ==
  CASE c \in 0..9 -> "NUMERIC" [] c > 9 -> "ALPHA" [] OTHER -> "other"

(* The longest stretches of digits only and of letters only                *)
Pure(t, a, b) ==
  /\ a <= b
  /\ Class(t[a]) # "other"
  /\ \A i \in a..b : Class(t[i]) = Class(t[a])

RunsOf(t) ==
  {r \in (1..Len(t)) \X (1..Len(t)) :
     /\ Pure(t, r[1], r[2])
     /\ r[1] = 1 \/ Class(t[r[1] - 1]) # Class(t[r[1]])
     /\ r[2] = Len(t) \/ Class(t[r[2] + 1]) # Class(t[r[1]])}

InOrder(s) == \A i, j \in DOMAIN s : i < j => s[i][2] < s[j][1]
=============================================================================
