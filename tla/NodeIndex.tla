------------------------------ MODULE NodeIndex ------------------------------
(***************************************************************************)
(* The index directory: the file /nodes.txt of each node, in which it      *)
(* lists the mappings names it knows, and from which its worker learns     *)
(* whose keys to pull.  A node that starts writes its own name into a      *)
(* fresh file (lonelyInit), takes over names from a few members            *)
(* (groupInit) and from then on merges the file of one member after the    *)
(* other into its own (updateIndexDirectoryIteration).  All of this is one *)
(* goroutine per node; the others read what its nodes IPNS name points to, *)
(* through calls to its cluster server.                                    *)
(*                                                                         *)
(* A node stands for its mappings name.  All names have one length, so an  *)
(* offset is a number of entries; an absent file is an empty one.          *)
(***************************************************************************)
EXTENDS Naturals, SequencesExt, FiniteSets

CONSTANTS
    Node,
    FanOut,     \* members asked by groupInit (3)
    Limit,      \* entries that fit in nodestxtMaxSize
    MaxRetry,   \* retries of a failed append (3)
    Fault,      \* kinds of failure the environment may produce
    MaxFaults   \* bound: failures of a behaviour

FaultKind == {"init", "members", "read", "validate", "stat", "write", "unanswered",
              "publish", "crash"}

ASSUME IndexAssumption ==
    /\ IsFiniteSet(Node)
    /\ FanOut \in Nat
    /\ Limit \in Nat \ {0}
    /\ MaxRetry \in Nat
    /\ Fault \subseteq FaultKind
    /\ MaxFaults \in Nat

VARIABLES
    file,    \* per node: entries of /nodes.txt
    nodes,   \* per node: entries of the file its nodes name points to
    proc,    \* per node: where its goroutine is
    faults   \* number of failures so far

vars == <<file, nodes, proc, faults>>

PC == {"clean", "own", "publishOwn", "join", "joinAppend", "joinPublish",
       "serve", "append", "publish"}

Proc == [pc : PC, todo : SUBSET Node, batch : Seq(Node), tries : Nat]
NewProc == [pc |-> "clean", todo |-> {}, batch |-> << >>, tries |-> 0]

TypeOK ==
    /\ file \in [Node -> Seq(Node)]
    /\ nodes \in [Node -> Seq(Node)]
    /\ proc \in [Node -> Proc]
    /\ faults \in 0 .. MaxFaults

Names(entries) == ToSet(entries)

(* The cluster server starts when groupInit has returned.                  *)
Serving(n) == proc[n].pc \in {"serve", "append", "publish"}
-----------------------------------------------------------------------------
At(n, label) == proc[n].pc = label

Goto(n, label) == proc' = [proc EXCEPT ![n].pc = label]

Failing(kind) ==
    /\ kind \in Fault
    /\ faults < MaxFaults
    /\ faults' = faults + 1

Init ==
    /\ file = [n \in Node |-> << >>]
    /\ nodes = [n \in Node |-> << >>]
    /\ proc = [n \in Node |-> NewProc]
    /\ faults = 0

-----------------------------------------------------------------------------
(* appendStringToFile on /nodes.txt.                                       *)

(* Mutant: the offset is not set.                                          *)
WriteAtStart(f, offset, batch) ==
    batch \o SubSeq(f, Len(batch) + 1, Len(f))

WriteAt(f, offset, batch) ==
    SubSeq(f, 1, offset) \o batch
        \o SubSeq(f, offset + Len(batch) + 1, Len(f))

Fits(n, offset) == offset + Len(proc[n].batch) <= Limit

(* The size is asked for, then the write is done at that offset.           *)
Write(n) ==
    /\ Fits(n, Len(file[n]))
    /\ file' = [file EXCEPT ![n] = WriteAt(@, Len(@), proc[n].batch)]
    /\ UNCHANGED faults

(* The size query fails: the offset stays 0.                               *)
WriteUnsized(n) ==
    /\ Fits(n, 0)
    /\ Failing("stat")
    /\ file' = [file EXCEPT ![n] = WriteAt(@, 0, proc[n].batch)]

(* An error of appendStringToFile: no room, a write that failed, or one    *)
(* that was done and whose answer was lost.                                *)
WriteFails(n) ==
    \/ ~Fits(n, Len(file[n])) /\ UNCHANGED <<file, faults>>
    \/ Failing("write") /\ UNCHANGED file
    \/ /\ Fits(n, Len(file[n]))
       /\ Failing("unanswered")
       /\ file' = [file EXCEPT ![n] = WriteAt(@, Len(@), proc[n].batch)]

(* Mutant: a list is not replaced by a shorter one.                        *)
PublishNodesLonger(n) ==
    nodes' = [nodes EXCEPT ![n] = IF Len(@) < Len(file[n]) THEN file[n] ELSE @]

PublishNodes(n) == nodes' = [nodes EXCEPT ![n] = file[n]]

-----------------------------------------------------------------------------
(* lonelyInit: on an error all of it is done again.                        *)

Clean(n) ==
    /\ At(n, "clean")
    /\ file' = [file EXCEPT ![n] = << >>]
    /\ proc' = [proc EXCEPT ![n].pc = "own", ![n].batch = <<n>>]
    /\ UNCHANGED <<nodes, faults>>

AppendOwn(n) ==
    /\ At(n, "own")
    /\ Write(n) \/ WriteUnsized(n)
    /\ Goto(n, "publishOwn")
    /\ UNCHANGED nodes

AppendOwnFails(n) ==
    /\ At(n, "own")
    /\ WriteFails(n)
    /\ proc' = [proc EXCEPT ![n] = NewProc]
    /\ UNCHANGED nodes

PublishOwn(n) ==
    /\ At(n, "publishOwn")
    /\ PublishNodes(n)
    /\ Goto(n, "join")
    /\ UNCHANGED <<file, faults>>

LonelyInitFails(n) ==
    /\ At(n, "publishOwn")
    /\ Failing("init")
    /\ proc' = [proc EXCEPT ![n] = NewProc]
    /\ UNCHANGED <<file, nodes>>

-----------------------------------------------------------------------------
(* What the validation leaves of a set of names: all of them, unless it    *)
(* fails for some.                                                         *)
Validated(names, valid) ==
    \/ valid = names /\ UNCHANGED faults
    \/ valid # names /\ Failing("validate")

(* groupInit: the names of up to FanOut members, whatever order they come  *)
(* in, are appended.  No name is taken out because the file has it.        *)
Join(n) ==
    /\ At(n, "join")
    /\ \E members \in SUBSET {p \in Node \ {n} : Serving(p)} :
          LET names == UNION {Names(nodes[p]) : p \in members}
          IN  /\ Cardinality(members) <= FanOut
              /\ \E valid \in SUBSET names :
                    /\ Validated(names, valid)
                    /\ \E batch \in SetToSeqs(valid) :
                          proc' = [proc EXCEPT ![n].pc = "joinAppend",
                                               ![n].batch = batch,
                                               ![n].tries = 0]
    /\ UNCHANGED <<file, nodes>>

JoinSkipped(n) ==
    /\ At(n, "join")
    /\ Failing("members")
    /\ Goto(n, "serve")
    /\ UNCHANGED <<file, nodes>>

JoinAppend(n) ==
    /\ At(n, "joinAppend")
    /\ Write(n) \/ WriteUnsized(n)
    /\ Goto(n, "joinPublish")
    /\ UNCHANGED nodes

(* A publication that times out is tried again until one succeeds.         *)
JoinPublish(n) ==
    /\ At(n, "joinPublish")
    /\ PublishNodes(n)
    /\ Goto(n, "serve")
    /\ UNCHANGED <<file, faults>>

-----------------------------------------------------------------------------
(* updateIndexDirectoryIteration: one member after the other.              *)

Iterate(n) ==
    /\ At(n, "serve")
    /\ proc[n].todo = {}
    /\ proc' = [proc EXCEPT ![n].todo = Node \ {n}]
    /\ UNCHANGED <<file, nodes, faults>>

(* Mutant: the names of the local file are not taken out.                  *)
NewNamesAll(n, valid) == valid

NewNames(n, valid) == valid \ Names(file[n])

(* The names of a member that are valid and not in the local file.  (An    *)
(* older version of the member's file gives fewer names, as a failed       *)
(* validation does.)                                                       *)
Merge(n, p) ==
    /\ At(n, "serve")
    /\ p \in proc[n].todo
    /\ Serving(p)
    /\ \E valid \in SUBSET Names(nodes[p]) :
          /\ Validated(Names(nodes[p]), valid)
          /\ \E batch \in SetToSeqs(NewNames(n, valid)) :
                proc' = [proc EXCEPT ![n].pc = "append",
                                     ![n].batch = batch,
                                     ![n].tries = 0,
                                     ![n].todo = @ \ {p}]
    /\ UNCHANGED <<file, nodes>>

(* The member does not answer, or its file or the local one cannot be read:*)
(* it is left for the next iteration.                                      *)
MergeSkipped(n, p) ==
    /\ At(n, "serve")
    /\ p \in proc[n].todo
    /\ (~Serving(p) /\ UNCHANGED faults) \/ Failing("read")
    /\ proc' = [proc EXCEPT ![n].todo = @ \ {p}]
    /\ UNCHANGED <<file, nodes>>

(* Mutant: without new records there is nothing to publish.                *)
AppendNoRecords(n) ==
    /\ At(n, "append")
    /\ Write(n) \/ WriteUnsized(n)
    /\ Goto(n, IF proc[n].batch = << >> THEN "serve" ELSE "publish")
    /\ UNCHANGED nodes

AppendRecords(n) ==
    /\ At(n, "append")
    /\ Write(n) \/ WriteUnsized(n)
    /\ Goto(n, "publish")
    /\ UNCHANGED nodes

(* Mutant: the retries are counted down.                                   *)
RetryDown(n) ==
    IF proc[n].tries < MaxRetry THEN proc' = [proc EXCEPT ![n].tries = @ - 1]
                                ELSE Goto(n, "serve")

(* A failed append is retried with the same content, then given up.        *)
Retry(n) ==
    IF proc[n].tries < MaxRetry THEN proc' = [proc EXCEPT ![n].tries = @ + 1]
                                ELSE Goto(n, "serve")

AppendFails(n) ==
    /\ proc[n].pc \in {"append", "joinAppend"}
    /\ WriteFails(n)
    /\ Retry(n)
    /\ UNCHANGED nodes

Publish(n) ==
    /\ At(n, "publish")
    /\ PublishNodes(n)
    /\ Goto(n, "serve")
    /\ UNCHANGED <<file, faults>>

(* The publication times out, with or without effect.  (When the daemon    *)
(* answers with an error, publishIPNSPointer panics: a Crash.)             *)
PublishFails(n) ==
    /\ At(n, "publish")
    /\ Failing("publish")
    /\ PublishNodes(n) \/ UNCHANGED nodes
    /\ Goto(n, "serve")
    /\ UNCHANGED file

-----------------------------------------------------------------------------
Crash(n) ==
    /\ Failing("crash")
    /\ proc' = [proc EXCEPT ![n] = NewProc]
    /\ UNCHANGED <<file, nodes>>

Step(n) ==
    \/ Clean(n) \/ AppendOwn(n) \/ AppendOwnFails(n) \/ PublishOwn(n)
    \/ Join(n) \/ JoinAppend(n) \/ JoinPublish(n)
    \/ Iterate(n)
    \/ \E p \in Node : Merge(n, p) \/ MergeSkipped(n, p)
    \/ AppendRecords(n) \/ AppendFails(n) \/ Publish(n)

Failure(n) ==
    LonelyInitFails(n) \/ JoinSkipped(n) \/ PublishFails(n) \/ Crash(n)

Next == \E n \in Node : Step(n) \/ Failure(n)

Spec == Init /\ [][Next]_vars

(* New starts the worker and nothing ever stops a node but a crash.        *)
FairSpec == Spec /\ \A n \in Node : WF_vars(Step(n))
-----------------------------------------------------------------------------
(* Once lonelyInit has written the file, a node's own name is in it and,   *)
(* once published, under its nodes name: there is nowhere else that the    *)
(* other nodes could learn it from.                                        *)
OwnListed ==
    \A n \in Node :
        /\ proc[n].pc \notin {"clean", "own"} => n \in Names(file[n])
        /\ proc[n].pc \notin {"clean", "own", "publishOwn"} =>
               n \in Names(nodes[n])

(* What a node serves to the others is a prefix of its file: a failed      *)
(* publication leaves it behind, never different.                          *)
ServesPrefix ==
    \A n \in Node :
        proc[n].pc \notin {"clean", "own", "publishOwn"} =>
            IsPrefix(nodes[n], file[n])

(* A record is not appended again and again: a node's own name may be there*)
(* twice, because groupInit takes it over from members that know it from   *)
(* before a restart, any other name once, and each failure, such as a lost *)
(* answer that has the append done again, adds one copy at most.           *)
FewDuplicates ==
    \A n \in Node : Serving(n) =>
        \A m \in Node :
            Cardinality({i \in 1 .. Len(file[n]) : file[n][i] = m})
                <= faults + (IF m = n THEN 2 ELSE 1)

(* Nothing that a running node has listed disappears from its file.        *)
OnlyGrows ==
    [][\A n \in Node :
          proc[n].pc \notin {"clean", "own"} => IsPrefix(file[n], file'[n])]_vars

(* In the end every node lists every node, and serves the whole list: what *)
(* a failed validation, append or publication left out is made up for by a *)
(* later iteration.                                                        *)
Converges ==
    <>[](\A n, m \in Node : m \in Names(file[n]) /\ m \in Names(nodes[n]))
=============================================================================
