--------------------------- MODULE MCSortedArray ---------------------------
(* Instances of SortedArray for TLC: five keys.                            *)
EXTENDS SortedArray

MCKeys == 1..5
SetCalls == {"bsearch", "lower_bound", "set_insert"}
=============================================================================
