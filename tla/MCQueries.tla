------------------------------ MODULE MCQueries ------------------------------
(* Instances of Queries for TLC.                                           *)
EXTENDS Queries, TLC

CONSTANTS n1, n2, n3

TwoNodes   == {n1, n2}
ThreeNodes == {n1, n2, n3}
OneNode    == {n1}
Other      == {n2}

(* The first node knows both others, which know only it.                   *)
Star == [n \in ThreeNodes |-> IF n = n1 THEN {n2, n3} ELSE {n1}]
Pair == [n \in TwoNodes |-> TwoNodes \ {n}]

Applying == {"Read", "IsDiscovered"}
Reading  == {"Read"}
=============================================================================
