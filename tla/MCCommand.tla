----------------------------- MODULE MCCommand -----------------------------
(***************************************************************************)
(* Instances of Command for TLC.  Every graph of the project and three     *)
(* packages, each depending on any set of the others (in the order given   *)
(* or its reverse) or on one that is not in the closed set, is built and   *)
(* installed in one place; one graph is used by every command from every   *)
(* place with every answer of the resolver.                                *)
(***************************************************************************)
EXTENDS Command

MCNames == 0..4
MCDepth == 3
MCKeys == {"A", "B"}

Chains == {<<>>, <<1>>, <<2>>, <<3>>, <<1, 2>>, <<2, 1>>, <<3, 1>>, <<3, 2>>,
           <<4, 2>>, <<0, 3>>, <<2, 3, 1>>}

GraphOf(r, p, a, b, c) ==
  [closed |-> {0, 1, 2, 3}, root |-> r,
   deps |-> [n \in MCNames |-> CASE n = 0 -> p [] n = 1 -> a [] n = 2 -> b
                                 [] n = 3 -> c [] OTHER -> <<>>]]

(* A package is in the closed set because the project needs it.            *)
Reaches(h) ==
  \A S \in SUBSET h.closed :
    h.root \in S /\ (\A r \in S : \A i \in DOMAIN h.deps[r] :
                        h.deps[r][i] \in S \cup {4}) => S = h.closed

RichGraphs ==
  {h \in {GraphOf(r, p, a, b, c) :
            r \in {0, 2}, p \in {<<3, 1>>, <<1, 2>>},
            a \in Chains, b \in Chains, c \in Chains} : Reaches(h)}

PlainGraph == GraphOf(0, <<3, 1>>, <<2>>, <<>>, <<2>>)

MCGraphs == RichGraphs \cup {PlainGraph}

(* Each package defines A as its own number, and 1 and 3 define B twice.   *)
D(k, v) == [key |-> k, value |-> v]
MCConfig ==
  [n \in MCNames |->
     IF n \in {1, 3} THEN [base |-> <<D("A", n + 1), D("B", 1)>>, more |-> <<D("B", n + 1)>>]
                     ELSE [base |-> <<D("A", n + 1)>>, more |-> <<D("B", 5)>>]]

InPlace(command, graph_) ==
  [command |-> command, start |-> 1, work |-> Nowhere,
   yml |-> [d \in 0..MCDepth |-> "good"], answer |-> "SUCCESS",
   graph |-> graph_, config |-> MCConfig]

Anywhere ==
  [command : {"build", "env", "exec", "install"},
   start : 0..MCDepth, work : {Nowhere, 2},
   yml : [0..MCDepth -> {"none", "good", "bad", "closed"}],
   answer : {"SUCCESS", "CONFLICT", "Unset"},
   graph : {PlainGraph}, config : {MCConfig}]

MCScenarios ==
  {InPlace(command, h) : command \in {"build", "install"}, h \in RichGraphs}
  \cup {s \in Anywhere : s.answer = "SUCCESS" \/ s.start = 1}
=============================================================================
