----------------------------- MODULE MCIpfsCalls -----------------------------
(* Instances of IpfsCalls for TLC.                                         *)
EXTENDS IpfsCalls, TLC

CONSTANTS c1, c2

OneCall  == {c1}
TwoCalls == {c1, c2}

AllKinds == {"read", "links", "publish"}
=============================================================================
