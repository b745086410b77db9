----------------------------- MODULE MCProcess -----------------------------
(* Two processes, each writing a unit to one stream and two to the other,  *)
(* with pipes that one unit fills: the child has to wait for the parent.   *)
EXTENDS Process

BothStreams == {"out", "err"}
AllOrOutput == {BothStreams, {"out"}}
Plan == {[out |-> 1, err |-> 2]}

(* A command that prints two lines, captured.                              *)
All == {BothStreams}
TwoLines == {[out |-> 2, err |-> 0]}
=============================================================================
