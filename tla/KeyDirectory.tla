----------------------------- MODULE KeyDirectory -----------------------------
(***************************************************************************)
(* What a cluster of immutable storage nodes promises about keys, with no  *)
(* pages, progress or messages: a key is published once and for ever, and  *)
(* the keys a node offers for reading (AvailableKeys) are published keys,  *)
(* which it forgets only when its process restarts.                        *)
(***************************************************************************)
CONSTANTS Node, Key

VARIABLES
    published,   \* keys that some node has published
    available    \* per node: the keys it offers for reading

vars == <<published, available>>

Init == published = {} /\ available = [n \in Node |-> {}]

Publish(keys) ==
    /\ published' = published \cup keys
    /\ UNCHANGED available

Discover(n, keys) ==
    /\ keys \subseteq published
    /\ available' = [available EXCEPT ![n] = @ \cup keys]
    /\ UNCHANGED published

(* A node that comes back may publish what it had kept before it stopped.  *)
Restart(n, keys) ==
    /\ published' = published \cup keys
    /\ available' = [available EXCEPT ![n] = {}]

Next ==
    \E keys \in SUBSET Key :
        \/ Publish(keys)
        \/ \E n \in Node : Discover(n, keys) \/ Restart(n, keys)

Spec == Init /\ [][Next]_vars
===============================================================================
