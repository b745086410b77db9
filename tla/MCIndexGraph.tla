---------------------------- MODULE MCIndexGraph ----------------------------
(***************************************************************************)
(* An instance of IndexGraph for TLC: three dependencies in any order, so  *)
(* that an insertion moves none, one or two indices.  The name 1 has no    *)
(* package, 2 is asked for at two versions, 0 is another project.          *)
(***************************************************************************)
EXTENDS IndexGraph

MCNames == 0..3
V(n) == <<<<Numeric, n>>>>
MCPackages ==
  {[name |-> n, version |-> V(1), deps |-> <<>>, more |-> <<>>] : n \in {0, 2, 3}}
MCDependencies ==
  {[name |-> d[1], con |-> [req |-> d[2], version |-> V(1)]] :
     d \in {<<1, "EQ">>, <<2, "EQ">>, <<2, "GT">>, <<3, "EQ">>, <<3, "GT">>}}
=============================================================================
