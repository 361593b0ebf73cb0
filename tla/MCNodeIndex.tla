----------------------------- MODULE MCNodeIndex -----------------------------
(* Instances of NodeIndex for TLC.                                         *)
EXTENDS NodeIndex, TLC

CONSTANTS n1, n2

TwoNodes == {n1, n2}

(* A failed size query overwrites what a node has listed.                  *)
MostFaults == FaultKind \ {"stat"}
=============================================================================
