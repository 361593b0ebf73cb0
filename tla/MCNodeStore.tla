----------------------------- MODULE MCNodeStore -----------------------------
(* Instances of NodeStore for TLC.                                         *)
EXTENDS NodeStore, TLC

CONSTANTS k1, k2, m1, m2, h1, h2

TwoKeys     == {k1, k2}
TwoMessages == {m1, m2}
OneHandler  == {h1}
TwoHandlers == {h1, h2}

(* Each message is valid for its own key.                                  *)
MCKeyOf == (m1 :> k1) @@ (m2 :> k2)

(* All the failures under which a lone handler keeps its promises.         *)
SerialFaults == {"add", "write", "dirstat", "publish", "crash"}

AllFaults  == FaultKind
NoFaults   == {}
=============================================================================
