----------------------------- MODULE MCDiscovery -----------------------------
(* Instances of Discovery for TLC.                                         *)
EXTENDS Discovery, TLC

CONSTANTS n1, n2, k1, k2, h1

TwoNodes   == {n1, n2}
NoNodes    == {}
OneNode    == {n1}
Other      == {n2}
TwoKeys    == {k1, k2}
OneHandler == {h1}
NoFaults   == {}

(* Two Store calls: of a key and another one, or of one key twice too.  As *)
(* keys are alike, the first one may be fixed.                             *)
Distinct == <<{k1}, {k2}>>
AnyTwo   == <<{k1}, TwoKeys>>
=============================================================================
