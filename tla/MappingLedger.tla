---------------------------- MODULE MappingLedger ----------------------------
(***************************************************************************)
(* What the mapping directory of one node promises, with no pages, offsets *)
(* or failures: entries are kept for ever, the published ones are among    *)
(* the kept ones, and Store acknowledges an entry only once it is          *)
(* published.  NodeStore implements it when its handlers run one at a time.*)
(***************************************************************************)
CONSTANT Entry

VARIABLES
    kept,        \* entries on the pages of /mappings
    published,   \* entries other nodes see under the IPNS name
    acked        \* entries whose Store call has returned nil

vars == <<kept, published, acked>>

Init == kept = {} /\ published = {} /\ acked = {}

Keep(e) == kept' = kept \cup {e} /\ UNCHANGED <<published, acked>>

PublishAll == published' = kept /\ UNCHANGED <<kept, acked>>

Acknowledge(e) ==
    /\ e \in published
    /\ acked' = acked \cup {e}
    /\ UNCHANGED <<kept, published>>

Next == PublishAll \/ \E e \in Entry : Keep(e) \/ Acknowledge(e)

Spec == Init /\ [][Next]_vars

(* The promise: what was acknowledged is published, what is published is   *)
(* kept.                                                                   *)
Durable == acked \subseteq published /\ published \subseteq kept
=============================================================================
