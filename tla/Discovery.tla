------------------------------ MODULE Discovery ------------------------------
(***************************************************************************)
(* The read path of a cluster: how a key stored on one node becomes known  *)
(* to the others.  Each node publishes its /mappings directory under an    *)
(* IPNS name; the others resolve the name and read the pages they have not *)
(* read yet into keyToCid, remembering their progress per name.  A pull is *)
(* started by the periodic worker, which walks through nodes.txt, or by a  *)
(* PropagateWrite call, which is then passed on; a Sync call fetches the   *)
(* CID of one key from a peer.  All of these share keyToCid and            *)
(* discoverProgress without a lock.                                        *)
(*                                                                         *)
(* The write path is taken as NodeStore leaves it when its calls run one   *)
(* at a time: the entries of a node form a log that only grows, page p of  *)
(* it holds the entries p*PageCapacity+1 .. (p+1)*PageCapacity, and the    *)
(* CID of the directory is the number of entries in it (a content, and so  *)
(* its CID, is that prefix of the log).  One CID per key: an index entry   *)
(* is the node whose mappings it was found in.                             *)
(***************************************************************************)
EXTENDS Naturals, Sequences, FiniteSets

CONSTANTS
    Node,          \* nodes, each standing for its mappings IPNS name too
    Key,
    NoNode,        \* the key is not in keyToCid
    NoCommit,      \* lastCommitCID before the first pull ends, and after
                   \* Store has put a bare CID there: no resolution
                   \* returns it, they return the path "/ipfs/" + CID
    PageCapacity,  \* entries per page file
    Worker,        \* the goroutine of updateMappingIteration, on each node
    Handler,       \* goroutines that serve PropagateWrite, on each node
    FanOut,        \* members that a write is propagated to (3)
    Member,        \* nodes that NodeDiscovery may report as members
    Reader,        \* bound: nodes whose workers iterate in a behaviour
    Writer,        \* bound: nodes on which Store is called
    Asker,         \* bound: nodes on which unknown keys are asked for
    Input,         \* bound: per Store call of a behaviour, the keys it may store
    Fault,         \* kinds of failure the environment may produce
    MaxFaults      \* bound: failures of a behaviour

FaultKind == {"store", "resolve", "stale", "links", "page", "deadline", "crash"}

ASSUME DiscoveryAssumption ==
    /\ NoNode \notin Node \cup Key
    /\ NoCommit \notin Nat
    /\ Worker \notin Handler
    /\ PageCapacity \in Nat \ {0}
    /\ FanOut \in Nat
    /\ Member \subseteq Node
    /\ Reader \subseteq Node
    /\ Writer \subseteq Node
    /\ Asker \subseteq Node
    /\ Input \in Seq(SUBSET Key)
    /\ Fault \subseteq FaultKind
    /\ MaxFaults \in Nat

Thread == {Worker} \cup Handler

Version == Nat      \* numbers of entries, and CIDs of /mappings
Commit  == Version \cup {NoCommit}

VARIABLES
    log,        \* per node: keys on the pages of /mappings, oldest first
    pub,        \* per node: the version its IPNS name points to
    stale,      \* per node: versions the name pointed to before
    nodesTxt,   \* per node: the names in its /nodes.txt
    keyToCid,   \* per node and key: the source of the entry, or NoNode
    discoverProgress,  \* per node and name: next page to read, last commit
    store,      \* per node: the Store call under way
    pull,       \* per node and thread: the check and pull under way
    answer,     \* per node: the answer of a Sync call not yet recorded
    msgs,       \* PropagateWrite calls under way
    stores,     \* number of Store calls begun
    faults,     \* number of failures so far
    linksLost   \* has getDAGLinks given empty links for an error?

published == <<log, pub, stale>>
index     == <<keyToCid, discoverProgress>>
counters  == <<stores, faults, linksLost>>
vars == <<log, pub, stale, nodesTxt, keyToCid, discoverProgress, store, pull,
          answer, msgs, stores, faults, linksLost>>

PullPC == {"idle", "compare", "begin", "resolve", "page"}

Progress == [tracked : BOOLEAN, nextReadPage : Version, lastCommitCID : Commit]
NoProgress == [tracked |-> FALSE, nextReadPage |-> 0, lastCommitCID |-> NoCommit]

StoreCall == [pc : {"idle", "publish", "finish"}, key : Key \cup {NoNode}]
NoStore   == [pc |-> "idle", key |-> NoNode]

Pull == [pc : PullPC, todo : SUBSET Node, of : Node \cup {NoNode},
         progress : Progress, remote : Version, pages : Version]
NoPull == [pc |-> "idle", todo |-> {}, of |-> NoNode, progress |-> NoProgress,
           remote |-> 0, pages |-> 0]

Answer   == [key : Key \cup {NoNode}, source : Node \cup {NoNode}]
NoAnswer == [key |-> NoNode, source |-> NoNode]

TypeOK ==
    /\ log \in [Node -> Seq(Key)]
    /\ pub \in [Node -> Version]
    /\ stale \in [Node -> SUBSET Version]
    /\ nodesTxt \in [Node -> SUBSET Node]
    /\ keyToCid \in [Node -> [Key -> Node \cup {NoNode}]]
    /\ discoverProgress \in [Node -> [Node -> Progress]]
    /\ store \in [Node -> StoreCall]
    /\ pull \in [Node -> [Thread -> Pull]]
    /\ answer \in [Node -> Answer]
    /\ msgs \subseteq Node \X Node
    /\ stores \in Version
    /\ faults \in 0 .. MaxFaults
    /\ linksLost \in BOOLEAN

(* Number of page files in a directory of v entries, and the page of the   *)
(* i-th entry.                                                             *)
Pages(v)  == (v + PageCapacity - 1) \div PageCapacity
PageOf(i) == (i - 1) \div PageCapacity

Prefix(m, v) == {log[m][i] : i \in 1 .. v}
PublishedBy(m) == Prefix(m, pub[m])

Known(n) == {k \in Key : keyToCid[n][k] # NoNode}
-----------------------------------------------------------------------------
Failing(kind) ==
    /\ kind \in Fault
    /\ faults < MaxFaults
    /\ faults' = faults + 1
    /\ linksLost' = (linksLost \/ kind = "links")

(* New: the maps are empty, nodes.txt holds the node's own name.           *)
Init ==
    /\ log = [n \in Node |-> << >>]
    /\ pub = [n \in Node |-> 0]
    /\ stale = [n \in Node |-> {}]
    /\ nodesTxt = [n \in Node |-> {n}]
    /\ keyToCid = [n \in Node |-> [k \in Key |-> NoNode]]
    /\ discoverProgress = [n \in Node |-> [m \in Node |-> NoProgress]]
    /\ store = [n \in Node |-> NoStore]
    /\ pull = [n \in Node |-> [t \in Thread |-> NoPull]]
    /\ answer = [n \in Node |-> NoAnswer]
    /\ msgs = {}
    /\ stores = 0
    /\ faults = 0
    /\ linksLost = FALSE

(* propagateWriteExternal: one goroutine per member, none is waited for and*)
(* any of them may fail to reach its member.                               *)
PropagateWriteExternal(n, m) ==
    \E to \in SUBSET (Member \ {n}) :
        /\ Cardinality(to) <= FanOut
        /\ msgs' = msgs \cup (to \X {m})

(* Mutant: the CID of the directory was taken before the append.           *)
PublishIPNSBefore(n, v) ==
    /\ pub' = [pub EXCEPT ![n] = IF v = 0 THEN 0 ELSE v - 1]
    /\ stale' = [stale EXCEPT ![n] = @ \cup {pub[n]}]

(* The daemon points the name at version v.                                *)
PublishIPNS(n, v) ==
    /\ pub' = [pub EXCEPT ![n] = v]
    /\ stale' = [stale EXCEPT ![n] = @ \cup {pub[n]}]

-----------------------------------------------------------------------------
(* Store, from the append to the index.                                    *)

StoreAppend(n, k) ==
    /\ n \in Writer
    /\ store[n].pc = "idle"
    /\ stores < Len(Input)
    /\ k \in Input[stores + 1]
    /\ stores' = stores + 1
    /\ log' = [log EXCEPT ![n] = Append(@, k)]
    /\ store' = [store EXCEPT ![n] = [pc |-> "publish", key |-> k]]
    /\ UNCHANGED <<pub, stale, nodesTxt, index, pull, answer, msgs, faults,
                   linksLost>>

StorePublish(n) ==
    /\ store[n].pc = "publish"
    /\ PublishIPNS(n, Len(log[n]))
    /\ PropagateWriteExternal(n, n)
    /\ store' = [store EXCEPT ![n].pc = "finish"]
    /\ UNCHANGED <<log, nodesTxt, index, pull, answer, counters>>

(* The publication fails: Store returns the error, the entry stays.        *)
StoreFails(n) ==
    /\ store[n].pc = "publish"
    /\ Failing("store")
    /\ store' = [store EXCEPT ![n] = NoStore]
    /\ UNCHANGED <<published, nodesTxt, index, pull, answer, msgs, stores>>

StoreFinish(n) ==
    /\ store[n].pc = "finish"
    /\ keyToCid' = [keyToCid EXCEPT ![n][store[n].key] = n]
    /\ discoverProgress' =
           [discoverProgress EXCEPT
               ![n][n] = [@ EXCEPT !.tracked = TRUE, !.lastCommitCID = NoCommit]]
    /\ store' = [store EXCEPT ![n] = NoStore]
    /\ UNCHANGED <<published, nodesTxt, pull, answer, msgs, counters>>

-----------------------------------------------------------------------------
(* The two threads of a node that pull.                                    *)

At(n, t, label) == pull[n][t].pc = label

(* The thread waits for its next name, or its next call.                   *)
Done(n, t) ==
    pull' = [pull EXCEPT ![n][t] = [NoPull EXCEPT !.todo = pull[n][t].todo]]

(* updateMappingIteration takes a copy of nodes.txt and goes through it.   *)
Iterate(n) ==
    /\ n \in Reader
    /\ At(n, Worker, "idle")
    /\ pull[n][Worker].todo = {}
    /\ pull' = [pull EXCEPT ![n][Worker].todo = nodesTxt[n]]
    /\ UNCHANGED <<published, nodesTxt, index, store, answer, msgs, counters>>

(* Mutant: a name that is tracked is never pulled again.                   *)
CheckOnce(n, t, m) ==
    IF discoverProgress[n][m].tracked
    THEN pull' = [pull EXCEPT ![n][t].todo = @ \ {m}]
    ELSE pull' = [pull EXCEPT ![n][t].pc = "begin", ![n][t].of = m,
                              ![n][t].todo = @ \ {m}]

(* checkPullIsRequired begins: a name that is not tracked is pulled, of    *)
(* another one the progress is read here, and the name resolved later.     *)
Check(n, t, m) ==
    LET p == discoverProgress[n][m]
        c == pull[n][t]
    IN  pull' = [pull EXCEPT ![n][t] =
                    [c EXCEPT !.pc = IF p.tracked THEN "compare" ELSE "begin",
                              !.of = m, !.todo = @ \ {m}, !.progress = p]]

UpdateMapping(n, m) ==
    /\ At(n, Worker, "idle")
    /\ m \in pull[n][Worker].todo
    /\ Check(n, Worker, m)
    /\ UNCHANGED <<published, nodesTxt, index, store, answer, msgs, counters>>

(* A PropagateWrite call reaches its member.                               *)
PropagateWrite(n, t, m) ==
    /\ <<n, m>> \in msgs
    /\ t \in Handler
    /\ At(n, t, "idle")
    /\ msgs' = msgs \ {<<n, m>>}
    /\ Check(n, t, m)
    /\ UNCHANGED <<published, nodesTxt, index, store, answer, counters>>

(* Resolving the name of m returns the version it points to, or an older   *)
(* one that a cache still holds.                                           *)
ResolveIPNS(m, v) ==
    \/ v = pub[m] /\ UNCHANGED <<faults, linksLost>>
    \/ v \in stale[m] /\ Failing("stale")

(* pullRemoteState works on a copy of the progress, taken when it begins,  *)
(* and saves it when it returns, with or without an error.                 *)
PullRemoteState(n, t) ==
    pull' = [pull EXCEPT ![n][t] =
                [@ EXCEPT !.pc = "resolve",
                          !.progress = discoverProgress[n][pull[n][t].of]]]

(* Mutant: every call pulls, whether or not there is something new.        *)
CompareNothing(n, t) ==
    /\ At(n, t, "compare")
    /\ PullRemoteState(n, t)
    /\ UNCHANGED <<published, nodesTxt, index, store, answer, msgs, counters>>

Compare(n, t) ==
    /\ At(n, t, "compare")
    /\ \E v \in stale[pull[n][t].of] \cup {pub[pull[n][t].of]} :
          /\ ResolveIPNS(pull[n][t].of, v)
          /\ IF v # pull[n][t].progress.lastCommitCID
             THEN PullRemoteState(n, t)
             ELSE Done(n, t)
    /\ UNCHANGED <<published, nodesTxt, index, store, answer, msgs, stores>>

CheckFails(n, t) ==
    /\ At(n, t, "compare")
    /\ Failing("resolve")
    /\ Done(n, t)
    /\ UNCHANGED <<published, nodesTxt, index, store, answer, msgs, stores>>

Begin(n, t) ==
    /\ At(n, t, "begin")
    /\ PullRemoteState(n, t)
    /\ UNCHANGED <<published, nodesTxt, index, store, answer, msgs, counters>>

Save(n, t, progress) ==
    /\ discoverProgress' = [discoverProgress EXCEPT
           ![n][pull[n][t].of] = [progress EXCEPT !.tracked = TRUE]]
    /\ Done(n, t)

(* The resolution, and the links of the directory: a function of its CID.  *)
Resolve(n, t) ==
    /\ At(n, t, "resolve")
    /\ \E v \in stale[pull[n][t].of] \cup {pub[pull[n][t].of]} :
          /\ ResolveIPNS(pull[n][t].of, v)
          /\ pull' = [pull EXCEPT ![n][t] =
                 [@ EXCEPT !.pc = "page", !.remote = v, !.pages = Pages(v)]]
    /\ UNCHANGED <<published, nodesTxt, index, store, answer, msgs, stores>>

(* getDAGLinks fails, but sends empty links after the error, and its select*)
(* takes those: the directory has no pages.                                *)
LinksEmpty(n, t) ==
    /\ At(n, t, "resolve")
    /\ Failing("links")
    /\ pull' = [pull EXCEPT ![n][t] =
           [@ EXCEPT !.pc = "page", !.remote = pub[pull[n][t].of], !.pages = 0]]
    /\ UNCHANGED <<published, nodesTxt, index, store, answer, msgs, stores>>

ResolveFails(n, t) ==
    /\ At(n, t, "resolve")
    /\ Failing("resolve")
    /\ Save(n, t, pull[n][t].progress)
    /\ UNCHANGED <<published, nodesTxt, keyToCid, store, answer, msgs, stores>>

(* One turn of the loop over the pages: the entries of a page that are not *)
(* known yet are recorded.                                                 *)
KeysOnPage(m, v, p) == {log[m][i] : i \in {j \in 1 .. v : PageOf(j) = p}}

ReadPage(n, t) ==
    /\ At(n, t, "page")
    /\ LET c == pull[n][t]
           p == c.progress.nextReadPage
       IN  /\ p < c.pages
           /\ keyToCid' = [keyToCid EXCEPT ![n] = [k \in Key |->
                  IF @[k] = NoNode /\ k \in KeysOnPage(c.of, c.remote, p)
                  THEN c.of ELSE @[k]]]
           /\ pull' = [pull EXCEPT ![n][t].progress.nextReadPage = p + 1]
    /\ UNCHANGED <<published, nodesTxt, discoverProgress, store, answer, msgs,
                   counters>>

PageFails(n, t) ==
    /\ At(n, t, "page")
    /\ pull[n][t].progress.nextReadPage < pull[n][t].pages
    /\ Failing("page")
    /\ Save(n, t, pull[n][t].progress)
    /\ UNCHANGED <<published, nodesTxt, keyToCid, store, answer, msgs, stores>>

(* Mutant: the directory of the moment is committed.                       *)
CommittedLatest(c) == [c.progress EXCEPT !.lastCommitCID = pub[c.of]]

Committed(c) == [c.progress EXCEPT !.lastCommitCID = c.remote]

(* The end of a pull without error.  A handler passes the write on.        *)
Commits(n, t) ==
    /\ At(n, t, "page")
    /\ pull[n][t].progress.nextReadPage >= pull[n][t].pages
    /\ Save(n, t, Committed(pull[n][t]))
    /\ IF t \in Handler THEN PropagateWriteExternal(n, pull[n][t].of)
                        ELSE UNCHANGED msgs
    /\ UNCHANGED <<published, nodesTxt, keyToCid, store, answer, counters>>

-----------------------------------------------------------------------------
(* Read and IsDiscovered ask the peers for a key that is not known.  The   *)
(* answer is recorded when it arrives, whatever was recorded meanwhile.    *)

(* Mutants: the peer gives itself as the source; the results are swapped.  *)
AnsweredPeer(p, k)    == [key |-> k, source |-> p]
AnsweredSwapped(p, k) == [key |-> keyToCid[p][k], source |-> k]

Answered(p, k) == [key |-> k, source |-> keyToCid[p][k]]

Sync(n, p, k) ==
    /\ n \in Asker
    /\ n # p
    /\ answer[n] = NoAnswer
    /\ keyToCid[n][k] = NoNode
    /\ keyToCid[p][k] # NoNode
    /\ answer' = [answer EXCEPT ![n] = Answered(p, k)]
    /\ UNCHANGED <<published, nodesTxt, index, store, pull, msgs, counters>>

SyncRecord(n) ==
    /\ answer[n] # NoAnswer
    /\ keyToCid' = [keyToCid EXCEPT ![n][answer[n].key] = answer[n].source]
    /\ answer' = [answer EXCEPT ![n] = NoAnswer]
    /\ UNCHANGED <<published, nodesTxt, discoverProgress, store, pull, msgs,
                   counters>>

SyncDeadline(n) ==
    /\ answer[n] # NoAnswer
    /\ Failing("deadline")
    /\ answer' = [answer EXCEPT ![n] = NoAnswer]
    /\ UNCHANGED <<published, nodesTxt, index, store, pull, msgs, stores>>

-----------------------------------------------------------------------------
(* A round of updateIndexDirectoryHelper adds the names that a peer knows  *)
(* and that pass the validation.                                           *)
UpdateIndexDirectory(n, p) ==
    /\ n # p
    /\ n \in Reader
    /\ \E valid \in SUBSET nodesTxt[p] :
          /\ ~(valid \subseteq nodesTxt[n])
          /\ nodesTxt' = [nodesTxt EXCEPT ![n] = @ \cup valid]
    /\ UNCHANGED <<published, index, store, pull, answer, msgs, counters>>

(* Mutant: the progress outlives the index it is about.                    *)
ForgetsIndex(n) ==
    /\ keyToCid' = [keyToCid EXCEPT ![n] = [k \in Key |-> NoNode]]
    /\ UNCHANGED discoverProgress

(* The maps of New.                                                        *)
Forgets(n) ==
    /\ keyToCid' = [keyToCid EXCEPT ![n] = [k \in Key |-> NoNode]]
    /\ discoverProgress' =
           [discoverProgress EXCEPT ![n] = [m \in Node |-> NoProgress]]

(* The process dies and is started again: lonelyInit publishes what the    *)
(* daemon kept of /mappings and starts nodes.txt over, groupInit announces *)
(* the node's name and takes over names that its peers know.               *)
Restart(n) ==
    /\ Failing("crash")
    /\ PublishIPNS(n, Len(log[n]))
    /\ PropagateWriteExternal(n, n)
    /\ \E valid \in SUBSET UNION {nodesTxt[p] : p \in Node \ {n}} :
          nodesTxt' = [nodesTxt EXCEPT ![n] = {n} \cup valid]
    /\ Forgets(n)
    /\ store' = [store EXCEPT ![n] = NoStore]
    /\ pull' = [pull EXCEPT ![n] = [t \in Thread |-> NoPull]]
    /\ answer' = [answer EXCEPT ![n] = NoAnswer]
    /\ UNCHANGED <<log, stores>>

-----------------------------------------------------------------------------
StoreStep(n) == StorePublish(n) \/ StoreFinish(n)

PullStep(n, t) ==
    \/ Compare(n, t) \/ Begin(n, t) \/ Resolve(n, t)
    \/ ReadPage(n, t) \/ Commits(n, t)

Failure(n) ==
    \/ StoreFails(n) \/ SyncDeadline(n) \/ Restart(n)
    \/ \E t \in Thread : CheckFails(n, t) \/ ResolveFails(n, t)
                           \/ LinksEmpty(n, t) \/ PageFails(n, t)

Next ==
    \E n \in Node :
        \/ \E k \in Key : StoreAppend(n, k)
        \/ StoreStep(n)
        \/ Iterate(n)
        \/ \E m \in Node : UpdateMapping(n, m)
        \/ \E t \in Handler, m \in Node : PropagateWrite(n, t, m)
        \/ \E t \in Thread : PullStep(n, t)
        \/ \E p \in Node, k \in Key : Sync(n, p, k)
        \/ SyncRecord(n)
        \/ \E p \in Node : UpdateIndexDirectory(n, p)
        \/ Failure(n)

Spec == Init /\ [][Next]_vars

(* The goroutines of a node are scheduled, and its worker iterates for     *)
(* ever: it takes every name of its copy of nodes.txt before the next copy.*)
WorkerStep(n) ==
    \/ Iterate(n) \/ PullStep(n, Worker)
    \/ \E m \in Node : UpdateMapping(n, m)

HandlerStep(n, t) ==
    PullStep(n, t) \/ \E m \in Node : PropagateWrite(n, t, m)

Fairness ==
    \A n \in Node :
        /\ WF_vars(StoreStep(n))
        /\ WF_vars(WorkerStep(n))
        /\ \A t \in Handler : WF_vars(HandlerStep(n, t))

FairSpec == Spec /\ Fairness
-----------------------------------------------------------------------------
(* An index entry, and an answer on its way to become one, names a node    *)
(* that has published the key: whoever follows the source finds the key    *)
(* there.  Entries come from pulls, from peers' answers and from the       *)
(* node's own Store calls, in any order, across restarts of all of them.   *)
SourceHolds ==
    \A n \in Node :
        /\ \A k \in Known(n) : k \in PublishedBy(keyToCid[n][k])
        /\ answer[n] # NoAnswer =>
               answer[n].key \in PublishedBy(answer[n].source)

(* The progress a node remembers is never ahead of what the remote node    *)
(* has published, and a page that counts as read has been read: overlapping*)
(* pulls of one name that overwrite each other's progress only set it back.*)
ProgressHonest ==
    \A n, m \in Node :
        LET p == discoverProgress[n][m]
        IN  /\ p.nextReadPage <= Pages(pub[m])
            /\ \A page \in 0 .. p.nextReadPage - 1 :
                   log[m][page * PageCapacity + 1] \in Known(n)

(* Every page of a committed directory has been read, at least as far as it*)
(* was filled then, so the first entry on it is known: what pulls of one   *)
(* name save over each other, resume, or resolve to an older version, no   *)
(* page is left out (ipfs.go:472-513).  Links that were lost are.          *)
CommitReadsPages ==
    \A n, m \in Node :
        LET c == discoverProgress[n][m].lastCommitCID
        IN  c # NoCommit /\ ~linksLost =>
                \A page \in 0 .. Pages(c) - 1 :
                    log[m][page * PageCapacity + 1] \in Known(n)

(* A committed directory has been read whole: what pullRemoteState is      *)
(* there for (ipfs.go:472).  It fails when a page has been read before it  *)
(* was full: the page is not read again.                                   *)
CommitComplete ==
    \A n, m \in Node :
        LET c == discoverProgress[n][m].lastCommitCID
        IN  c # NoCommit /\ ~linksLost => Prefix(m, c) \subseteq Known(n)

(* A key that a node of nodes.txt has published is discovered, unless the  *)
(* node forgets about the other one meanwhile, by restarting.              *)
Discovered ==
    \A n \in Reader, m \in Writer, k \in Key :
        k \in PublishedBy(m) /\ m \in nodesTxt[n]
            ~> k \in Known(n) \/ m \notin nodesTxt[n]

(* The calls that propagate a write die out: a node that has the version   *)
(* already does not pass it on.                                            *)
PropagationEnds == <>[](msgs = {})

(* What the cluster promises about keys.                                   *)
Directory == INSTANCE KeyDirectory
               WITH published <- UNION {PublishedBy(m) : m \in Node},
                    available <- [n \in Node |-> Known(n)]

DirectorySpec == Directory!Spec
=============================================================================
