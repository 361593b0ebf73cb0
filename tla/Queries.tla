------------------------------- MODULE Queries -------------------------------
(***************************************************************************)
(* Queries for one key: Read and IsDiscovered of the application server,   *)
(* and the chain of Sync calls among nodes that do not know the key.  A    *)
(* node asks its members one after the other; a member that does not know  *)
(* the key either asks its own members, the first node among them.  Each   *)
(* job has a deadline of its own, and a server goes on with its job when   *)
(* its caller has given up.  Nodes are stopped by SIGINT, or end when      *)
(* IsDiscovered converts a short key.                                      *)
(*                                                                         *)
(* All deadlines are ten seconds, so they pass in the order in which the   *)
(* jobs were started.                                                      *)
(***************************************************************************)
EXTENDS Naturals, FiniteSets

CONSTANTS
    Node,        \* nodes
    Member,      \* per node: the members that it is told of
    Asker,       \* bound: those whose applications ask, and that stop
    Puller,      \* bound: those that find the key by pulling
    Op,          \* bound: what they ask
    MaxQueries,  \* bound: queries of applications in a behaviour
    MaxCalls,    \* bound: calls under way at once
    MaxEvents    \* bound: failed requests for the members, and interrupts

Operation == {"Read", "IsDiscovered", "Sync"}

ASSUME QueriesAssumption ==
    /\ Member \in [Node -> SUBSET Node]
    /\ Asker \subseteq Node /\ Puller \subseteq Node
    /\ Op \subseteq {"Read", "IsDiscovered"}
    /\ MaxQueries \in Nat /\ MaxCalls \in Nat /\ MaxEvents \in Nat

VARIABLES
    published, \* has any node stored the key?
    known,     \* nodes that have the key in keyToCid
    call,      \* the calls under way
    earlier,   \* per call: the jobs whose deadline comes before its own
    phase,     \* per node: the life of its process
    queries,   \* number of queries so far
    events     \* number of failed requests and interrupts so far

vars == <<published, known, call, earlier, phase, queries, events>>

Slot == 1 .. MaxCalls

(* job: which of the jobs of a Read this is; peer: the call it waits for   *)
(* (0: none, or a member that cannot be reached); from: the call that      *)
(* waits for this one (0: none any more, or an application).  A job that   *)
(* is late has run into its deadline, and asks nobody any more.            *)
Call == [op : Operation, node : Node, pc : {"lookup", "members", "ask",
         "wait", "late", "read", "answer"}, job : 1 .. 3, todo : SUBSET Node,
         peer : 0 .. MaxCalls, from : 0 .. MaxCalls,
         found : BOOLEAN, cid : BOOLEAN]
NoCall == [op |-> "none"]

NewCall(op, n, from) ==
    [op |-> op, node |-> n, pc |-> "lookup", job |-> 1, todo |-> {},
     peer |-> 0, from |-> from, found |-> FALSE, cid |-> FALSE]

Active == {c \in Slot : call[c] # NoCall}
Free == {c \in Slot \ Active : \A d \in Slot \ Active : c <= d}
At(c, pc) == call[c] # NoCall /\ call[c].pc = pc
Jobs == {c \in Active : call[c].pc \in {"ask", "wait"}}
Applications(n) == {c \in Active : call[c].node = n /\ call[c].op # "Sync"}

(* Of two jobs one was started first, and nothing but jobs has a deadline. *)
DeadlinesOrdered ==
    /\ earlier \in [Slot -> SUBSET Slot]
    /\ \A c \in Slot : earlier[c] \subseteq (IF c \in Jobs THEN Jobs \ {c} ELSE {})
    /\ \A c, d \in Jobs : c = d \/ c \in earlier[d] \/ d \in earlier[c]
    /\ \A c \in Slot : \A d \in earlier[c] : earlier[d] \subseteq earlier[c] \ {d}

(* A call that waits for another is the one that gets its answer.          *)
PeersAnswer ==
    \A c \in Active : call[c].peer # 0 =>
        /\ call[c].pc = "wait" /\ call[c].peer \in Active
        /\ call[call[c].peer].from = c

(* A call that answers another is the one that is waited for.              *)
CallersWait ==
    \A c \in Active : call[c].from # 0 =>
        call[c].from \in Active /\ call[call[c].from].peer = c

TypeOK ==
    /\ published \in BOOLEAN
    /\ known \subseteq Node
    /\ call \in [Slot -> Call \cup {NoCall}]
    /\ DeadlinesOrdered /\ PeersAnswer /\ CallersWait
    /\ phase \in [Node -> {"up", "draining", "stopping", "ended"}]
    /\ queries \in 0 .. MaxQueries
    /\ events \in 0 .. MaxEvents

Init ==
    /\ known \in SUBSET Node
    /\ published \in BOOLEAN /\ (known # {} => published)
    /\ call = [c \in Slot |-> NoCall]
    /\ earlier = [c \in Slot |-> {}]
    /\ phase = [n \in Node |-> "up"]
    /\ queries = 0
    /\ events = 0

-----------------------------------------------------------------------------
Event == events < MaxEvents /\ events' = events + 1

(* What a call becomes when its job has ended, or the key was known.  Read *)
(* looks, asks, and looks again, which asks once more; the CID that its    *)
(* own job finds is assigned to a variable of the inner block.             *)
After(r, found) ==
    LET done == [r EXCEPT !.todo = {}, !.peer = 0]
    IN  IF r.op # "Read" THEN [done EXCEPT !.pc = "answer", !.found = found]
        ELSE IF r.job = 2 THEN [done EXCEPT !.pc = "lookup", !.job = 3,
                                            !.found = found]
        ELSE IF found     THEN [done EXCEPT !.pc = "read", !.cid = r.job = 1]
        ELSE IF r.job = 1 THEN [done EXCEPT !.pc = "members", !.job = 2]
        ELSE [done EXCEPT !.pc = "answer"]

(* Mutant: the answer of a call that was given up goes to its old caller.  *)
OrphanedNot(calls, c) == calls

(* The call that ends is not waited for by any other: a late answer goes   *)
(* to nobody.                                                              *)
Orphaned(calls, c) ==
    [x \in Slot |-> IF calls[x] # NoCall /\ calls[x].from = c
                    THEN [calls[x] EXCEPT !.from = 0] ELSE calls[x]]

(* The jobs that end have no deadline any more.                            *)
Without(ended) ==
    [c \in Slot |-> IF c \in ended THEN {} ELSE earlier[c] \ ended]

(* Call c ends its job, started or not.                                    *)
EndJob(c, found) ==
    /\ call' = Orphaned([call EXCEPT ![c] = After(@, found)], c)
    /\ earlier' = Without({c})
    /\ known' = IF found THEN known \cup {call[c].node} ELSE known

(* An application asks.  Read rejects a key that is too short.             *)
Query(n) ==
    \E c \in Free, op \in Op :
        /\ phase[n] = "up"
        /\ queries < MaxQueries
        /\ queries' = queries + 1
        /\ call' = [call EXCEPT ![c] = NewCall(op, n, 0)]
        /\ UNCHANGED <<published, known, earlier, phase, events>>

(* The key is looked up in keyToCid.                                       *)
Known(c) ==
    /\ At(c, "lookup")
    /\ call[c].node \in known
    /\ EndJob(c, TRUE)
    /\ UNCHANGED <<published, phase, queries, events>>

(* Is the request for the members of the node of c due?                    *)
Asks(c) ==
    \/ At(c, "lookup") /\ call[c].node \notin known
    \/ At(c, "members")

StartJob(c) ==
    /\ Asks(c)
    /\ call' = [call EXCEPT ![c].pc = "ask", ![c].todo = Member[call[c].node]]
    /\ earlier' = [earlier EXCEPT ![c] = Jobs]
    /\ UNCHANGED <<published, known, phase, queries, events>>

(* The members cannot be had: not discovered, or an error of Read.         *)
MembersFail(c) ==
    /\ Asks(c)
    /\ Event
    /\ call' = [call EXCEPT ![c] =
           IF @.pc = "members" THEN [@ EXCEPT !.pc = "answer"]
                               ELSE After(@, FALSE)]
    /\ UNCHANGED <<published, known, earlier, phase, queries>>

(* A member that still accepts calls serves this one.                      *)
Ask(c) ==
    \E m \in Node, s \in Free :
        /\ At(c, "ask") /\ m \in call[c].todo
        /\ phase[m] # "ended"
        /\ call' = [call EXCEPT ![c].pc = "wait", ![c].peer = s,
                                ![c].todo = @ \ {m}, ![s] = NewCall("Sync", m, c)]
        /\ UNCHANGED <<published, known, earlier, phase, queries, events>>

(* A member that does not: the connection is tried until the deadline.     *)
Dial(c) ==
    \E m \in Node :
        /\ At(c, "ask") /\ m \in call[c].todo
        /\ phase[m] \in {"stopping", "ended"}
        /\ call' = [call EXCEPT ![c].pc = "wait", ![c].todo = @ \ {m}]
        /\ UNCHANGED <<published, known, earlier, phase, queries, events>>

(* All members have answered, or failed; or those that are left have been  *)
(* dialled in vain, which may take longer than the jobs that began later.  *)
GiveUp(c) ==
    /\ (At(c, "ask") /\ call[c].todo = {}) \/ At(c, "late")
    /\ EndJob(c, FALSE)
    /\ UNCHANGED <<published, phase, queries, events>>

(* Mutants: there is no deadline; a later job has a shorter one.           *)
DueNever(c) == FALSE
DueAny(c) == c \in Jobs

(* The deadline of the oldest job passes: the request under way fails, and *)
(* so does every further one.                                              *)
Due(c) == c \in Jobs /\ earlier[c] = {}

Late(r) == [r EXCEPT !.pc = "late", !.todo = {}, !.peer = 0]

Expire(c) ==
    /\ Due(c)
    /\ call' = Orphaned([call EXCEPT ![c] = Late(@)], c)
    /\ earlier' = Without({c})
    /\ UNCHANGED <<published, known, phase, queries, events>>

(* The message is fetched with the CID, or the request for it fails.       *)
ReadMessage(c) ==
    /\ At(c, "read")
    /\ call' = [call EXCEPT ![c].pc = "answer"]
    /\ UNCHANGED <<published, known, earlier, phase, queries, events>>

(* Mutant: an answer without a CID counts too.                             *)
FoundAlways(c) == TRUE

(* Is what call c answers an answer with a CID in it?                      *)
Found(c) == call[c].found

(* An answer to an application, or to a call that has given up.            *)
Answer(c) ==
    /\ At(c, "answer") /\ call[c].from = 0
    /\ call' = [call EXCEPT ![c] = NoCall]
    /\ UNCHANGED <<published, known, earlier, phase, queries, events>>

AnswerPeer(c) ==
    /\ At(c, "answer") /\ call[c].from # 0
    /\ LET p == call[c].from
           freed == [call EXCEPT ![c] = NoCall]
       IN  IF Found(c)
           THEN /\ call' = [freed EXCEPT ![p] = After(@, TRUE)]
                /\ earlier' = Without({p})
                /\ known' = known \cup {call[p].node}
           ELSE /\ call' = [freed EXCEPT ![p].pc = "ask", ![p].peer = 0]
                /\ UNCHANGED <<earlier, known>>
    /\ UNCHANGED <<published, phase, queries, events>>

(* A node finds a published key by pulling.                                *)
Discover(n) ==
    /\ published /\ n \notin known /\ phase[n] # "ended"
    /\ known' = known \cup {n}
    /\ UNCHANGED <<published, call, earlier, phase, queries, events>>

-----------------------------------------------------------------------------
(* SIGINT: the application server takes no more calls, and when the last   *)
(* has returned the context is cancelled; the process then ends without    *)
(* waiting for the cluster server.                                         *)
Interrupt(n) ==
    /\ phase[n] = "up"
    /\ Event
    /\ phase' = [phase EXCEPT ![n] = "draining"]
    /\ UNCHANGED <<published, known, call, earlier, queries>>

(* Mutants: no call is waited for; those of other nodes are too.           *)
DrainedNone(n) == TRUE
DrainedAll(n) == \A c \in Active : call[c].node # n

Drained(n) == Applications(n) = {}

CtrlC(n) ==
    /\ phase[n] = "draining" /\ Drained(n)
    /\ phase' = [phase EXCEPT ![n] = "stopping"]
    /\ UNCHANGED <<published, known, call, earlier, queries, events>>

(* The process ends with every call on it; who waits for one of them gets  *)
(* an error, and goes on with the next member.                             *)
End(n) ==
    LET lost == {c \in Active : call[c].node = n}
    IN  /\ phase' = [phase EXCEPT ![n] = "ended"]
        /\ known' = known \ {n}
        /\ call' = [c \in Slot |->
               IF call[c] = NoCall \/ c \in lost THEN NoCall
               ELSE [call[c] EXCEPT
                        !.pc = IF call[c].peer \in lost THEN "ask" ELSE @,
                        !.peer = IF @ \in lost THEN 0 ELSE @,
                        !.from = IF @ \in lost THEN 0 ELSE @]]
        /\ earlier' = Without(lost)
        /\ UNCHANGED <<published, queries>>

Exit(n) == phase[n] = "stopping" /\ End(n) /\ UNCHANGED events

(* IsDiscovered with a key that is too short panics.                       *)
QueryShort(n) ==
    /\ phase[n] = "up" /\ "IsDiscovered" \in Op
    /\ Event
    /\ End(n)

-----------------------------------------------------------------------------
Work(c) ==
    \/ Known(c) \/ StartJob(c) \/ Ask(c) \/ Dial(c) \/ GiveUp(c)
    \/ ReadMessage(c) \/ Answer(c) \/ AnswerPeer(c)

Deadline == \E c \in Slot : Expire(c)

Stop(n) == CtrlC(n) \/ Exit(n)

Next ==
    \/ \E c \in Slot : Work(c) \/ MembersFail(c)
    \/ Deadline
    \/ \E n \in Asker : Query(n) \/ QueryShort(n) \/ Interrupt(n) \/ Stop(n)
    \/ \E n \in Puller : Discover(n)

Spec == Init /\ [][Next]_vars

(* Goroutines and deadlines go on.  Nothing is assumed of failures, of     *)
(* discoveries, of applications and of who sends the signal.               *)
FairSpec ==
    /\ Spec
    /\ \A c \in Slot : WF_vars(Work(c))
    /\ WF_vars(Deadline)
    /\ \A n \in Asker : WF_vars(Stop(n))

-----------------------------------------------------------------------------
(* Nobody finds a key that was never stored, however many nodes ask each   *)
(* other for it; and IsDiscovered and Sync answer yes only on a node whose *)
(* index has the key (ipfs.go:447-457, clusterserver.go:24).               *)
AnswersKnown ==
    /\ ~published => known = {}
    /\ \A c \in Active : call[c].found => call[c].node \in known

(* A job whose first member neither has the key nor fails asks nobody      *)
(* else: the member asks its own members, and its deadline comes after the *)
(* one of the job that waits for it (ipfs.go:404-427).                     *)
Asked(c) == Member[call[c].node] \ call[c].todo
Waiting(c) == IF call[c].pc = "wait" THEN 1 ELSE 0
FirstMemberDecides ==
    events = 0 /\ (\A n \in Node : phase[n] = "up" /\ Member[n] # {}) =>
        \A c \in Jobs : Cardinality(Asked(c)) = Waiting(c)

(* The process does not end, after SIGINT, before every application has    *)
(* its answer, although calls of other nodes may still be under way        *)
(* (main.go:46-50).                                                        *)
ApplicationsFirst ==
    \A n \in Node : phase[n] \in {"stopping", "ended"} => Applications(n) = {}

(* Every call returns, also those that wait for each other in a circle,    *)
(* and those whose caller has given up (ipfs.go:404).                      *)
QueriesReturn == \A c \in Slot : call[c] # NoCall ~> call[c] = NoCall

(* A node that is told to stop does so, whatever other nodes go on asking  *)
(* it (main.go:40-51).                                                     *)
StopCompletes == \A n \in Asker : phase[n] = "draining" ~> phase[n] = "ended"

(* A Read whose own Sync call has found the CID of the message fetches the *)
(* message with it (ipfs.go:355).                                          *)
ReadUsesFoundCid ==
    \A c \in Active : At(c, "read") /\ call[c].found => call[c].cid
=============================================================================
