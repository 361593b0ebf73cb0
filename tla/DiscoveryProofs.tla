--------------------------- MODULE DiscoveryProofs ---------------------------
(***************************************************************************)
(* Theorems about discovery, for every number of nodes, keys, threads,     *)
(* entries per page, Store calls and failures.                             *)
(***************************************************************************)
EXTENDS Discovery, SequenceTheorems, TLAPS

(* What a call under way has in hand is named: a thread that pulls, a Store*)
(* call and an answer never work on the absent key or node.                *)
StoreNamed == \A n \in Node : store[n].pc # "idle" => store[n].key \in Key

PullNamed ==
    \A n \in Node, t \in Thread : pull[n][t].pc # "idle" => pull[n][t].of \in Node

AnswerNamed ==
    \A n \in Node :
        answer[n] # NoAnswer => answer[n].key \in Key /\ answer[n].source \in Node

Typed == TypeOK /\ StoreNamed /\ PullNamed /\ AnswerNamed

-----------------------------------------------------------------------------
(* Lemmas about the records and what the actions change of them.           *)

LEMMA ConstantFacts ==
    /\ MaxFaults \in Nat /\ PageCapacity \in Nat \ {0}
    /\ Worker \in Thread /\ Handler \subseteq Thread
    /\ Member \subseteq Node
    /\ NoNode \notin Node /\ NoNode \notin Key /\ NoCommit \notin Nat
  BY DiscoveryAssumption DEF Thread

LEMMA NoRecords ==
    /\ NoProgress \in Progress
    /\ NoStore \in StoreCall
    /\ NoPull \in Pull
    /\ NoAnswer \in Answer
<1>1. NoProgress \in Progress
  BY DEF NoProgress, Progress, Version, Commit
<1> QED
  BY <1>1 DEF NoStore, StoreCall, NoPull, Pull, PullPC, NoAnswer, Answer, Version

LEMMA PagesType == ASSUME NEW v \in Version PROVE Pages(v) \in Version
  BY DiscoveryAssumption DEF Version, Pages

LEMMA ProgressChanges ==
    ASSUME NEW p \in Progress, NEW v \in Version, NEW c \in Commit
    PROVE  /\ [p EXCEPT !.tracked = TRUE] \in Progress
           /\ [p EXCEPT !.nextReadPage = v] \in Progress
           /\ [p EXCEPT !.lastCommitCID = c] \in Progress
           /\ [p EXCEPT !.tracked = TRUE, !.lastCommitCID = c] \in Progress
  BY DEF Progress

LEMMA PullUpdate ==
    ASSUME pull \in [Node -> [Thread -> Pull]], PullNamed,
           NEW n \in Node, NEW t \in Thread, NEW r \in Pull,
           r.pc # "idle" => r.of \in Node, pull' = [pull EXCEPT ![n][t] = r]
    PROVE  pull' \in [Node -> [Thread -> Pull]] /\ PullNamed'
<1>1. /\ pull' \in [Node -> [Thread -> Pull]]
      /\ pull'[n][t] = r
      /\ \A m \in Node, u \in Thread :
             m # n \/ u # t => pull'[m][u] = pull[m][u]
  OBVIOUS
<1> QED
  BY <1>1 DEF PullNamed

LEMMA ProgressUpdate ==
    ASSUME discoverProgress \in [Node -> [Node -> Progress]],
           NEW n \in Node, NEW m \in Node, NEW p \in Progress,
           discoverProgress' = [discoverProgress EXCEPT ![n][m] = p]
    PROVE  discoverProgress' \in [Node -> [Node -> Progress]]
  OBVIOUS

LEMMA FailingType ==
    ASSUME TypeOK, NEW kind, Failing(kind)
    PROVE  faults' \in 0 .. MaxFaults /\ linksLost' \in BOOLEAN
  BY ConstantFacts DEF Failing, TypeOK

LEMMA PropagateType ==
    ASSUME TypeOK, NEW n \in Node, NEW m \in Node, PropagateWriteExternal(n, m)
    PROVE  msgs' \subseteq Node \X Node
  BY ConstantFacts DEF TypeOK, PropagateWriteExternal

LEMMA PublishType ==
    ASSUME TypeOK, NEW n \in Node, NEW v \in Version, PublishIPNS(n, v)
    PROVE  pub' \in [Node -> Version] /\ stale' \in [Node -> SUBSET Version]
  BY DEF TypeOK, PublishIPNS

-----------------------------------------------------------------------------
(* What the threads that pull do to their own records.                     *)

LEMMA CheckType ==
    ASSUME Typed, NEW n \in Node, NEW t \in Thread, NEW m \in Node, Check(n, t, m)
    PROVE  pull' \in [Node -> [Thread -> Pull]] /\ PullNamed'
<1> DEFINE p == discoverProgress[n][m]
           label == IF p.tracked THEN "compare" ELSE "begin"
           r == [pull[n][t] EXCEPT !.pc = label, !.of = m,
                                   !.todo = pull[n][t].todo \ {m}, !.progress = p]
<1>1. pull[n][t] \in Pull /\ p \in Progress /\ pull \in [Node -> [Thread -> Pull]]
  BY DEF Typed, TypeOK
<1>2. label \in PullPC /\ pull[n][t].todo \ {m} \in SUBSET Node
  BY <1>1 DEF PullPC, Pull
<1>3. r \in Pull /\ r.of = m
  <2> HIDE DEF label, p
  <2>1. r \in Pull
    BY <1>1, <1>2 DEF Pull
  <2>2. r.of = m
    BY <1>1 DEF Pull
  <2> QED
    BY <2>1, <2>2
<1>4. pull' = [pull EXCEPT ![n][t] = r]
  BY DEF Check
<1> HIDE DEF r
<1> QED
  BY <1>1, <1>3, <1>4, PullUpdate DEF Typed

LEMMA DoneType ==
    ASSUME Typed, NEW n \in Node, NEW t \in Thread, Done(n, t)
    PROVE  pull' \in [Node -> [Thread -> Pull]] /\ PullNamed'
<1> DEFINE r == [NoPull EXCEPT !.todo = pull[n][t].todo]
<1>1. pull[n][t] \in Pull /\ pull \in [Node -> [Thread -> Pull]]
  BY DEF Typed, TypeOK
<1>2. pull[n][t].todo \in SUBSET Node
  BY <1>1 DEF Pull
<1>3. r \in Pull
  BY <1>2, NoRecords DEF Pull
<1>4. r.pc = "idle"
  BY DEF NoPull
<1>5. pull' = [pull EXCEPT ![n][t] = r]
  BY DEF Done
<1> QED
  BY <1>1, <1>3, <1>4, <1>5, PullUpdate DEF Typed

LEMMA PullRemoteStateType ==
    ASSUME Typed, NEW n \in Node, NEW t \in Thread, pull[n][t].pc # "idle",
           PullRemoteState(n, t)
    PROVE  pull' \in [Node -> [Thread -> Pull]] /\ PullNamed'
<1> DEFINE p == discoverProgress[n][pull[n][t].of]
           r == [pull[n][t] EXCEPT !.pc = "resolve", !.progress = p]
<1>1. /\ pull[n][t] \in Pull /\ pull[n][t].of \in Node
      /\ pull \in [Node -> [Thread -> Pull]]
  BY DEF Typed, TypeOK, PullNamed
<1>2. p \in Progress /\ "resolve" \in PullPC
  BY <1>1 DEF Typed, TypeOK, PullPC
<1>3. r \in Pull /\ r.of = pull[n][t].of
  <2> HIDE DEF p
  <2>1. r \in Pull
    BY <1>1, <1>2 DEF Pull
  <2>2. r.of = pull[n][t].of
    BY <1>1 DEF Pull
  <2> QED
    BY <2>1, <2>2
<1>4. pull' = [pull EXCEPT ![n][t] = r]
  BY DEF PullRemoteState
<1> HIDE DEF r
<1> QED
  BY <1>1, <1>3, <1>4, PullUpdate DEF Typed

(* The directory of the name has been resolved.                            *)
LEMMA ResolvedType ==
    ASSUME Typed, NEW n \in Node, NEW t \in Thread, pull[n][t].pc # "idle",
           NEW v \in Version, NEW w \in Version,
           pull' = [pull EXCEPT ![n][t] =
                      [@ EXCEPT !.pc = "page", !.remote = v, !.pages = w]]
    PROVE  pull' \in [Node -> [Thread -> Pull]] /\ PullNamed'
<1> DEFINE r == [pull[n][t] EXCEPT !.pc = "page", !.remote = v, !.pages = w]
<1>1. /\ pull[n][t] \in Pull /\ pull[n][t].of \in Node
      /\ pull \in [Node -> [Thread -> Pull]]
  BY DEF Typed, TypeOK, PullNamed
<1>2. r \in Pull /\ r.of = pull[n][t].of
  BY <1>1 DEF Pull, PullPC
<1>3. pull' = [pull EXCEPT ![n][t] = r]
  OBVIOUS
<1> HIDE DEF r
<1> QED
  BY <1>1, <1>2, <1>3, PullUpdate DEF Typed

(* The progress is saved with the end of a pull.                           *)
LEMMA SaveType ==
    ASSUME Typed, NEW n \in Node, NEW t \in Thread, pull[n][t].pc # "idle",
           NEW p \in Progress, Save(n, t, p)
    PROVE  /\ pull' \in [Node -> [Thread -> Pull]] /\ PullNamed'
           /\ discoverProgress' \in [Node -> [Node -> Progress]]
<1>1. /\ pull[n][t].of \in Node
      /\ discoverProgress \in [Node -> [Node -> Progress]]
  BY DEF Typed, TypeOK, PullNamed
<1>2. [p EXCEPT !.tracked = TRUE] \in Progress
  BY DEF Progress
<1>3. discoverProgress' \in [Node -> [Node -> Progress]]
  BY <1>1, <1>2, ProgressUpdate DEF Save
<1> QED
  BY <1>3, DoneType DEF Save

-----------------------------------------------------------------------------
(* Type correctness, whatever fails.                                       *)

LEMMA TypeInit == Init => Typed
<1> SUFFICES ASSUME Init PROVE Typed
  OBVIOUS
<1>1. /\ log \in [Node -> Seq(Key)] /\ 0 \in Version
      /\ \A n \in Node : << >> \in Seq(Key)
  BY EmptySeq DEF Init, Version
<1>2. TypeOK
  <2>1. /\ pub \in [Node -> Version] /\ stale \in [Node -> SUBSET Version]
        /\ nodesTxt \in [Node -> SUBSET Node] /\ stores \in Version
    BY <1>1 DEF Init
  <2>2. /\ keyToCid \in [Node -> [Key -> Node \cup {NoNode}]]
        /\ discoverProgress \in [Node -> [Node -> Progress]]
    BY NoRecords DEF Init
  <2>3. /\ store \in [Node -> StoreCall] /\ answer \in [Node -> Answer]
        /\ pull \in [Node -> [Thread -> Pull]]
    BY NoRecords DEF Init
  <2>4. msgs \subseteq Node \X Node /\ faults \in 0 .. MaxFaults
    BY ConstantFacts DEF Init
  <2>5. linksLost \in BOOLEAN
    BY DEF Init
  <2> QED
    BY <1>1, <2>1, <2>2, <2>3, <2>4, <2>5 DEF TypeOK
<1>3. StoreNamed /\ PullNamed /\ AnswerNamed
  BY DEF Init, StoreNamed, PullNamed, AnswerNamed, NoStore, NoPull
<1> QED
  BY <1>2, <1>3 DEF Typed

LEMMA StoreStepType ==
    ASSUME Typed, NEW n \in Node,
           \/ \E k \in Key : StoreAppend(n, k)
           \/ StoreStep(n) \/ StoreFails(n)
    PROVE  Typed'
<1>0. /\ TypeOK /\ StoreNamed /\ PullNamed /\ AnswerNamed
      /\ log \in [Node -> Seq(Key)] /\ store \in [Node -> StoreCall]
      /\ keyToCid \in [Node -> [Key -> Node \cup {NoNode}]]
      /\ discoverProgress \in [Node -> [Node -> Progress]]
  BY DEF Typed, TypeOK
<1>1. ASSUME NEW k \in Key, StoreAppend(n, k) PROVE Typed'
  <2>1. log' \in [Node -> Seq(Key)]
    <3>1. Append(log[n], k) \in Seq(Key)
      BY <1>0, AppendProperties
    <3> QED
      BY <1>0, <1>1, <3>1 DEF StoreAppend
  <2>2. store' \in [Node -> StoreCall] /\ StoreNamed'
    BY <1>0, <1>1 DEF StoreAppend, StoreCall, StoreNamed
  <2>3. stores' \in Version
    BY <1>0, <1>1 DEF StoreAppend, TypeOK, Version
  <2> QED
    BY <1>0, <1>1, <2>1, <2>2, <2>3
       DEF StoreAppend, Typed, TypeOK, index, PullNamed, AnswerNamed
<1>2. CASE StorePublish(n)
  <2>1. store' \in [Node -> StoreCall] /\ StoreNamed'
    BY <1>0, <1>2 DEF StorePublish, StoreCall, StoreNamed
  <2>2. Len(log[n]) \in Version
    BY <1>0, LenProperties DEF Version
  <2>3. pub' \in [Node -> Version] /\ stale' \in [Node -> SUBSET Version]
    BY <1>0, <1>2, <2>2, PublishType DEF StorePublish
  <2>4. msgs' \subseteq Node \X Node
    BY <1>0, <1>2, PropagateType DEF StorePublish
  <2> QED
    BY <1>0, <1>2, <2>1, <2>3, <2>4
       DEF StorePublish, Typed, TypeOK, index, counters, PullNamed, AnswerNamed
<1>3. CASE StoreFinish(n)
  <2>1. store[n].key \in Key
    BY <1>0, <1>3 DEF StoreFinish, StoreNamed
  <2>2. store' \in [Node -> StoreCall] /\ StoreNamed'
    BY <1>0, <1>3, NoRecords DEF StoreFinish, StoreNamed, NoStore
  <2>3. keyToCid' \in [Node -> [Key -> Node \cup {NoNode}]]
    BY <1>0, <1>3, <2>1 DEF StoreFinish
  <2>4. discoverProgress' \in [Node -> [Node -> Progress]]
    <3> DEFINE p == [discoverProgress[n][n] EXCEPT !.tracked = TRUE,
                                                  !.lastCommitCID = NoCommit]
    <3>1. p \in Progress
      BY <1>0, ProgressChanges DEF Commit, Version
    <3>2. discoverProgress' = [discoverProgress EXCEPT ![n][n] = p]
      BY <1>3 DEF StoreFinish
    <3> HIDE DEF p
    <3> QED
      BY <1>0, <3>1, <3>2, ProgressUpdate
  <2> QED
    BY <1>0, <1>3, <2>2, <2>3, <2>4
       DEF StoreFinish, Typed, TypeOK, published, counters, PullNamed, AnswerNamed
<1>4. CASE StoreFails(n)
  <2>1. store' \in [Node -> StoreCall] /\ StoreNamed'
    BY <1>0, <1>4, NoRecords DEF StoreFails, StoreNamed, NoStore
  <2>2. faults' \in 0 .. MaxFaults /\ linksLost' \in BOOLEAN
    BY <1>0, <1>4, FailingType DEF StoreFails
  <2> QED
    BY <1>0, <1>4, <2>1, <2>2
       DEF StoreFails, Typed, TypeOK, published, index, PullNamed, AnswerNamed
<1> QED
  BY <1>1, <1>2, <1>3, <1>4 DEF StoreStep

(* What a step of a thread leaves alone.                                   *)
LEMMA CheckStepType ==
    ASSUME Typed, NEW n \in Node,
           \/ Iterate(n)
           \/ \E m \in Node : UpdateMapping(n, m)
           \/ \E t \in Handler, m \in Node : PropagateWrite(n, t, m)
    PROVE  Typed'
<1>0. /\ TypeOK /\ StoreNamed /\ PullNamed /\ AnswerNamed
      /\ pull \in [Node -> [Thread -> Pull]] /\ nodesTxt \in [Node -> SUBSET Node]
  BY DEF Typed, TypeOK
<1>1. CASE Iterate(n)
  <2> DEFINE r == [pull[n][Worker] EXCEPT !.todo = nodesTxt[n]]
  <2>1. r \in Pull /\ r.pc = "idle"
    <3>1. pull[n][Worker] \in Pull /\ pull[n][Worker].pc = "idle"
      BY <1>0, <1>1, ConstantFacts DEF Iterate, At
    <3> QED
      BY <1>0, <3>1 DEF Pull
  <2>2. pull' = [pull EXCEPT ![n][Worker] = r]
    BY <1>1 DEF Iterate
  <2>3. pull' \in [Node -> [Thread -> Pull]] /\ PullNamed'
    <3> HIDE DEF r
    <3> QED
      BY <1>0, <2>1, <2>2, PullUpdate, ConstantFacts
  <2> QED
    BY <1>0, <1>1, <2>3
       DEF Iterate, Typed, TypeOK, published, index, counters, StoreNamed, AnswerNamed
<1>2. ASSUME NEW m \in Node, UpdateMapping(n, m) PROVE Typed'
  <2>1. pull' \in [Node -> [Thread -> Pull]] /\ PullNamed'
    BY <1>2, CheckType, ConstantFacts DEF UpdateMapping
  <2> QED
    BY <1>0, <1>2, <2>1
       DEF UpdateMapping, Typed, TypeOK, published, index, counters, StoreNamed,
           AnswerNamed
<1>3. ASSUME NEW t \in Handler, NEW m \in Node, PropagateWrite(n, t, m)
      PROVE  Typed'
  <2>1. pull' \in [Node -> [Thread -> Pull]] /\ PullNamed'
    BY <1>3, CheckType, ConstantFacts DEF PropagateWrite
  <2> QED
    BY <1>0, <1>3, <2>1
       DEF PropagateWrite, Typed, TypeOK, published, index, counters, StoreNamed,
           AnswerNamed
<1> QED
  BY <1>1, <1>2, <1>3

LEMMA ResolveIPNSType ==
    ASSUME TypeOK, NEW m \in Node, NEW v, ResolveIPNS(m, v)
    PROVE  /\ v \in Version /\ faults' \in 0 .. MaxFaults
           /\ linksLost' \in BOOLEAN
<1>1. CASE v = pub[m] /\ UNCHANGED <<faults, linksLost>>
  BY <1>1 DEF TypeOK
<1>2. CASE v \in stale[m] /\ Failing("stale")
  BY <1>2, FailingType DEF TypeOK
<1> QED
  BY <1>1, <1>2 DEF ResolveIPNS

LEMMA PullStepType ==
    ASSUME Typed, NEW n \in Node, NEW t \in Thread, PullStep(n, t)
    PROVE  Typed'
<1> DEFINE c == pull[n][t]
<1>0. /\ TypeOK /\ StoreNamed /\ PullNamed /\ AnswerNamed
      /\ pull \in [Node -> [Thread -> Pull]] /\ c \in Pull
      /\ keyToCid \in [Node -> [Key -> Node \cup {NoNode}]]
  BY DEF Typed, TypeOK
<1>1. c.pc # "idle" => c.of \in Node
  BY <1>0 DEF PullNamed
<1>2. CASE Compare(n, t)
  <2>1. c.pc # "idle"
    BY <1>2 DEF Compare, At
  <2>2. PICK v : /\ ResolveIPNS(c.of, v)
                 /\ PullRemoteState(n, t) \/ Done(n, t)
    BY <1>2 DEF Compare
  <2>3. faults' \in 0 .. MaxFaults /\ linksLost' \in BOOLEAN
    BY <1>0, <1>1, <2>1, <2>2, ResolveIPNSType
  <2>4. pull' \in [Node -> [Thread -> Pull]] /\ PullNamed'
    BY <2>1, <2>2, PullRemoteStateType, DoneType
  <2> QED
    BY <1>0, <1>2, <2>3, <2>4
       DEF Compare, Typed, TypeOK, published, index, StoreNamed, AnswerNamed
<1>3. CASE Begin(n, t)
  <2>1. pull' \in [Node -> [Thread -> Pull]] /\ PullNamed'
    BY <1>3, PullRemoteStateType DEF Begin, At
  <2> QED
    BY <1>0, <1>3, <2>1
       DEF Begin, Typed, TypeOK, published, index, counters, StoreNamed, AnswerNamed
<1>4. CASE Resolve(n, t)
  <2>1. c.pc # "idle"
    BY <1>4 DEF Resolve, At
  <2>2. PICK v : /\ ResolveIPNS(c.of, v)
                 /\ pull' = [pull EXCEPT ![n][t] =
                       [@ EXCEPT !.pc = "page", !.remote = v, !.pages = Pages(v)]]
    BY <1>4 DEF Resolve
  <2>3. /\ v \in Version /\ faults' \in 0 .. MaxFaults
        /\ linksLost' \in BOOLEAN
    BY <1>0, <1>1, <2>1, <2>2, ResolveIPNSType
  <2>4. pull' \in [Node -> [Thread -> Pull]] /\ PullNamed'
    BY <2>1, <2>2, <2>3, PagesType, ResolvedType
  <2> QED
    BY <1>0, <1>4, <2>3, <2>4
       DEF Resolve, Typed, TypeOK, published, index, StoreNamed, AnswerNamed
<1>5. CASE ReadPage(n, t)
  <2> DEFINE p == [c.progress EXCEPT !.nextReadPage = c.progress.nextReadPage + 1]
             r == [c EXCEPT !.progress = p]
  <2>1. c.of \in Node
    BY <1>1, <1>5 DEF ReadPage, At
  <2>2. p \in Progress
    <3>1. c.progress \in Progress
      BY <1>0 DEF Pull
    <3>2. c.progress.nextReadPage + 1 \in Version
      BY <3>1 DEF Progress, Version
    <3> HIDE DEF c
    <3> QED
      BY <3>1, <3>2 DEF Progress
  <2>3. r \in Pull /\ r.of = c.of
    <3> HIDE DEF p, c
    <3> QED
      BY <1>0, <2>2 DEF Pull
  <2>4. pull' = [pull EXCEPT ![n][t] = r]
    BY <1>5 DEF ReadPage
  <2>5. pull' \in [Node -> [Thread -> Pull]] /\ PullNamed'
    <3> HIDE DEF r
    <3> QED
      BY <1>0, <2>1, <2>3, <2>4, PullUpdate
  <2>6. keyToCid' \in [Node -> [Key -> Node \cup {NoNode}]]
    BY <1>0, <1>5, <2>1 DEF ReadPage
  <2> QED
    BY <1>0, <1>5, <2>5, <2>6
       DEF ReadPage, Typed, TypeOK, published, counters, StoreNamed, AnswerNamed
<1>6. CASE Commits(n, t)
  <2>1. c.of \in Node /\ c.pc # "idle"
    BY <1>1, <1>6 DEF Commits, At
  <2>2. Committed(c) \in Progress
    BY <1>0, ProgressChanges DEF Committed, Pull, Commit
  <2>3. /\ pull' \in [Node -> [Thread -> Pull]] /\ PullNamed'
        /\ discoverProgress' \in [Node -> [Node -> Progress]]
    BY <1>6, <2>1, <2>2, SaveType DEF Commits
  <2>4. msgs' \subseteq Node \X Node
    BY <1>0, <1>6, <2>1, PropagateType DEF Commits, TypeOK
  <2> QED
    BY <1>0, <1>6, <2>3, <2>4
       DEF Commits, Typed, TypeOK, published, counters, StoreNamed, AnswerNamed
<1> QED
  BY <1>2, <1>3, <1>4, <1>5, <1>6 DEF PullStep

LEMMA PullFailsType ==
    ASSUME Typed, NEW n \in Node, NEW t \in Thread,
           CheckFails(n, t) \/ ResolveFails(n, t) \/ LinksEmpty(n, t) \/ PageFails(n, t)
    PROVE  Typed'
<1> DEFINE c == pull[n][t]
<1>0. /\ TypeOK /\ StoreNamed /\ PullNamed /\ AnswerNamed
      /\ pull \in [Node -> [Thread -> Pull]] /\ c \in Pull
  BY DEF Typed, TypeOK
<1>1. c.pc # "idle" /\ c.of \in Node
  BY <1>0 DEF PullNamed, CheckFails, ResolveFails, LinksEmpty, PageFails, At
<1>2. faults' \in 0 .. MaxFaults /\ linksLost' \in BOOLEAN
  BY <1>0, FailingType DEF CheckFails, ResolveFails, LinksEmpty, PageFails
<1>3. CASE CheckFails(n, t)
  <2>1. pull' \in [Node -> [Thread -> Pull]] /\ PullNamed'
    BY <1>3, DoneType DEF CheckFails
  <2> QED
    BY <1>0, <1>2, <1>3, <2>1
       DEF CheckFails, Typed, TypeOK, published, index, StoreNamed, AnswerNamed
<1>4. CASE ResolveFails(n, t) \/ PageFails(n, t)
  <2>1. Save(n, t, c.progress) /\ c.progress \in Progress
    BY <1>0, <1>4 DEF ResolveFails, PageFails, Pull
  <2>2. /\ pull' \in [Node -> [Thread -> Pull]] /\ PullNamed'
        /\ discoverProgress' \in [Node -> [Node -> Progress]]
    BY <1>1, <2>1, SaveType
  <2> QED
    BY <1>0, <1>2, <1>4, <2>2
       DEF ResolveFails, PageFails, Typed, TypeOK, published, StoreNamed, AnswerNamed
<1>5. CASE LinksEmpty(n, t)
  <2>1. pub[c.of] \in Version /\ 0 \in Version
    BY <1>0, <1>1 DEF TypeOK, Version
  <2>2. pull' \in [Node -> [Thread -> Pull]] /\ PullNamed'
    BY <1>1, <1>5, <2>1, ResolvedType DEF LinksEmpty
  <2> QED
    BY <1>0, <1>2, <1>5, <2>2
       DEF LinksEmpty, Typed, TypeOK, published, index, StoreNamed, AnswerNamed
<1> QED
  BY <1>3, <1>4, <1>5

LEMMA SyncType ==
    ASSUME Typed, NEW n \in Node,
           \/ \E p \in Node, k \in Key : Sync(n, p, k)
           \/ SyncRecord(n) \/ SyncDeadline(n)
    PROVE  Typed'
<1>0. /\ TypeOK /\ StoreNamed /\ PullNamed /\ AnswerNamed
      /\ keyToCid \in [Node -> [Key -> Node \cup {NoNode}]]
      /\ answer \in [Node -> Answer]
  BY DEF Typed, TypeOK
<1>1. ASSUME NEW p \in Node, NEW k \in Key, Sync(n, p, k) PROVE Typed'
  <2>1. keyToCid[p][k] \in Node
    BY <1>0, <1>1 DEF Sync
  <2>2. answer' = [answer EXCEPT ![n] = [key |-> k, source |-> keyToCid[p][k]]]
    BY <1>1 DEF Sync, Answered
  <2>3. answer' \in [Node -> Answer] /\ AnswerNamed'
    BY <1>0, <2>1, <2>2 DEF Answer, AnswerNamed
  <2> QED
    BY <1>0, <1>1, <2>3
       DEF Sync, Typed, TypeOK, published, index, counters, StoreNamed, PullNamed
<1>2. CASE SyncRecord(n)
  <2>1. answer[n].key \in Key /\ answer[n].source \in Node
    BY <1>0, <1>2 DEF SyncRecord, AnswerNamed
  <2>2. keyToCid' \in [Node -> [Key -> Node \cup {NoNode}]]
    BY <1>0, <1>2, <2>1 DEF SyncRecord
  <2>3. answer' \in [Node -> Answer] /\ AnswerNamed'
    BY <1>0, <1>2, NoRecords DEF SyncRecord, AnswerNamed
  <2> QED
    BY <1>0, <1>2, <2>2, <2>3
       DEF SyncRecord, Typed, TypeOK, published, counters, StoreNamed, PullNamed
<1>3. CASE SyncDeadline(n)
  <2>1. answer' \in [Node -> Answer] /\ AnswerNamed'
    BY <1>0, <1>3, NoRecords DEF SyncDeadline, AnswerNamed
  <2>2. faults' \in 0 .. MaxFaults /\ linksLost' \in BOOLEAN
    BY <1>0, <1>3, FailingType DEF SyncDeadline
  <2> QED
    BY <1>0, <1>3, <2>1, <2>2
       DEF SyncDeadline, Typed, TypeOK, published, index, StoreNamed, PullNamed
<1> QED
  BY <1>1, <1>2, <1>3

LEMMA RestartType ==
    ASSUME Typed, NEW n \in Node, Restart(n) PROVE Typed'
<1>0. /\ TypeOK /\ StoreNamed /\ PullNamed /\ AnswerNamed
      /\ log \in [Node -> Seq(Key)] /\ nodesTxt \in [Node -> SUBSET Node]
      /\ keyToCid \in [Node -> [Key -> Node \cup {NoNode}]]
      /\ discoverProgress \in [Node -> [Node -> Progress]]
      /\ store \in [Node -> StoreCall] /\ answer \in [Node -> Answer]
      /\ pull \in [Node -> [Thread -> Pull]]
  BY DEF Typed, TypeOK
<1>1. Len(log[n]) \in Version
  BY <1>0, LenProperties DEF Version
<1>2. pub' \in [Node -> Version] /\ stale' \in [Node -> SUBSET Version]
  BY <1>0, <1>1, PublishType DEF Restart
<1>3. msgs' \subseteq Node \X Node
  BY <1>0, PropagateType DEF Restart
<1>4. nodesTxt' \in [Node -> SUBSET Node]
  BY <1>0 DEF Restart
<1>5. keyToCid' \in [Node -> [Key -> Node \cup {NoNode}]]
  BY <1>0 DEF Restart, Forgets
<1>6. discoverProgress' \in [Node -> [Node -> Progress]]
  BY <1>0, NoRecords DEF Restart, Forgets
<1>7. store' \in [Node -> StoreCall] /\ StoreNamed'
  BY <1>0, NoRecords DEF Restart, StoreNamed, NoStore
<1>8. pull' \in [Node -> [Thread -> Pull]] /\ PullNamed'
  BY <1>0, NoRecords DEF Restart, PullNamed, NoPull
<1>9. answer' \in [Node -> Answer] /\ AnswerNamed'
  BY <1>0, NoRecords DEF Restart, AnswerNamed
<1>10. faults' \in 0 .. MaxFaults /\ linksLost' \in BOOLEAN
  BY <1>0, FailingType DEF Restart
<1> QED
  BY <1>0, <1>2, <1>3, <1>4, <1>5, <1>6, <1>7, <1>8, <1>9, <1>10
     DEF Restart, Typed, TypeOK

LEMMA TypeNext == Typed /\ [Next]_vars => Typed'
<1> SUFFICES ASSUME Typed, [Next]_vars PROVE Typed'
  OBVIOUS
<1>1. ASSUME NEW n \in Node, NEW p \in Node, UpdateIndexDirectory(n, p)
      PROVE  Typed'
  <2>1. nodesTxt' \in [Node -> SUBSET Node]
    BY <1>1 DEF UpdateIndexDirectory, Typed, TypeOK
  <2> QED
    BY <1>1, <2>1
       DEF UpdateIndexDirectory, Typed, TypeOK, published, index, counters,
           StoreNamed, PullNamed, AnswerNamed
<1>2. ASSUME NEW n \in Node, Failure(n) PROVE Typed'
  BY <1>2, StoreStepType, SyncType, RestartType, PullFailsType DEF Failure
<1>3. CASE UNCHANGED vars
  BY <1>3 DEF vars, Typed, TypeOK, StoreNamed, PullNamed, AnswerNamed
<1>4. CASE Next
  BY <1>1, <1>2, <1>4, StoreStepType, CheckStepType, PullStepType, SyncType DEF Next
<1> QED
  BY <1>3, <1>4

(* The state of discovery is well typed, for any number of nodes, threads, *)
(* calls and failures (ipfs.go:43-59).                                     *)
THEOREM TypeCorrect == Spec => []TypeOK
<1>1. Typed => TypeOK
  BY DEF Typed
<1> QED
  BY <1>1, TypeInit, TypeNext, PTL DEF Spec

-----------------------------------------------------------------------------
(* Where index entries come from.  A log only grows, a name only moves on  *)
(* to later versions, and whatever a node has in hand of another one (a    *)
(* resolved version, a key it is about to record, an answer) was published *)
(* by it.                                                                  *)

Ordered ==
    \A m \in Node :
        pub[m] <= Len(log[m]) /\ \A v \in stale[m] : v <= pub[m]

Publishing ==
    \A n \in Node :
        /\ store[n].pc = "publish" => store[n].key \in Prefix(n, Len(log[n]))
        /\ store[n].pc = "finish" => store[n].key \in PublishedBy(n)

Resolved ==
    \A n \in Node, t \in Thread :
        pull[n][t].pc = "page" =>
            /\ pull[n][t].remote <= pub[pull[n][t].of]
            /\ pull[n][t].pages <= Pages(pull[n][t].remote)

SourceInv == Typed /\ Ordered /\ Publishing /\ Resolved /\ SourceHolds

(* The steps that change the logs and the Store calls, those that change   *)
(* the pulls, and those that change the index.                             *)
Writes(n) ==
    \/ \E k \in Key : StoreAppend(n, k)
    \/ StoreStep(n) \/ StoreFails(n) \/ Restart(n)

Pulls(n) ==
    \/ Iterate(n) \/ Restart(n)
    \/ \E m \in Node : UpdateMapping(n, m)
    \/ \E t \in Handler, m \in Node : PropagateWrite(n, t, m)
    \/ \E t \in Thread : \/ PullStep(n, t) \/ CheckFails(n, t)
                          \/ ResolveFails(n, t) \/ LinksEmpty(n, t)
                          \/ PageFails(n, t)

Indexes(n) ==
    \/ StoreFinish(n) \/ SyncRecord(n) \/ SyncDeadline(n) \/ Restart(n)
    \/ \E t \in Thread : ReadPage(n, t)
    \/ \E p \in Node, k \in Key : Sync(n, p, k)

LEMMA Frames ==
    ASSUME [Next]_vars
    PROVE  /\ (\E n \in Node : Writes(n)) \/ UNCHANGED <<log, pub, stale, store>>
           /\ (\E n \in Node : Pulls(n)) \/ UNCHANGED pull
           /\ (\E n \in Node : Indexes(n)) \/ UNCHANGED <<keyToCid, answer>>
<1> DEFINE W == UNCHANGED <<log, pub, stale, store>>
           P == UNCHANGED pull
           R == UNCHANGED <<keyToCid, answer>>
<1>1. ASSUME NEW n \in Node, NEW k \in Key, StoreAppend(n, k) PROVE P /\ R
  BY <1>1 DEF StoreAppend, index
<1>2. ASSUME NEW n \in Node, StorePublish(n) \/ StoreFails(n) PROVE P /\ R
  BY <1>2 DEF StorePublish, StoreFails, index
<1>3. ASSUME NEW n \in Node, StoreFinish(n) PROVE P
  BY <1>3 DEF StoreFinish
<1>4. ASSUME NEW n \in Node, Iterate(n) PROVE W /\ R
  BY <1>4 DEF Iterate, published, index
<1>5. ASSUME NEW n \in Node, NEW m \in Node, UpdateMapping(n, m) PROVE W /\ R
  BY <1>5 DEF UpdateMapping, published, index
<1>6. ASSUME NEW n \in Node, NEW t, NEW m \in Node, PropagateWrite(n, t, m)
      PROVE  W /\ R
  BY <1>6 DEF PropagateWrite, published, index
<1>7. ASSUME NEW n \in Node, NEW t \in Thread,
             \/ Compare(n, t) \/ Begin(n, t) \/ Resolve(n, t) \/ Commits(n, t)
             \/ CheckFails(n, t) \/ ResolveFails(n, t) \/ LinksEmpty(n, t)
             \/ PageFails(n, t)
      PROVE  W /\ R
  BY <1>7 DEF Compare, Begin, Resolve, Commits, CheckFails, ResolveFails,
              LinksEmpty, PageFails, published, index
<1>8. ASSUME NEW n \in Node, NEW t \in Thread, ReadPage(n, t) PROVE W
  BY <1>8 DEF ReadPage, published
<1>9. ASSUME NEW n \in Node, NEW p \in Node, NEW k \in Key, Sync(n, p, k)
      PROVE  W /\ P
  BY <1>9 DEF Sync, published
<1>10. ASSUME NEW n \in Node, SyncRecord(n) \/ SyncDeadline(n) PROVE W /\ P
  BY <1>10 DEF SyncRecord, SyncDeadline, published
<1>11. ASSUME NEW n \in Node, NEW p \in Node, UpdateIndexDirectory(n, p)
       PROVE  W /\ P /\ R
  BY <1>11 DEF UpdateIndexDirectory, published, index
<1>12. CASE UNCHANGED vars
  BY <1>12 DEF vars
<1> HIDE DEF W, P, R
<1>13. CASE Next
  <2>1. (\E n \in Node : Writes(n)) \/ W
    BY <1>4, <1>5, <1>6, <1>7, <1>8, <1>9, <1>10, <1>11, <1>13
       DEF Next, Writes, PullStep, Failure
  <2>2. (\E n \in Node : Pulls(n)) \/ P
    BY <1>1, <1>2, <1>3, <1>9, <1>10, <1>11, <1>13 DEF Next, Pulls, StoreStep, Failure
  <2>3. (\E n \in Node : Indexes(n)) \/ R
    BY <1>1, <1>2, <1>4, <1>5, <1>6, <1>7, <1>11, <1>13
       DEF Next, Indexes, StoreStep, PullStep, Failure
  <2> QED
    BY <2>1, <2>2, <2>3 DEF W, P, R
<1> QED
  BY <1>12, <1>13 DEF W, P, R

(* Logs grow at their ends, names move on.                                 *)
Grows ==
    \A m \in Node :
        /\ Len(log[m]) <= Len(log'[m])
        /\ \A i \in 1 .. Len(log[m]) : log'[m][i] = log[m][i]
        /\ pub[m] <= pub'[m]

LEMMA LogGrows ==
    ASSUME Typed, Ordered, [Next]_vars PROVE Grows /\ Ordered'
<1>0. /\ log \in [Node -> Seq(Key)] /\ pub \in [Node -> Nat]
      /\ stale \in [Node -> SUBSET Nat]
      /\ \A m \in Node : log[m] \in Seq(Key) /\ Len(log[m]) \in Nat
      /\ \A m \in Node : pub[m] \in Nat /\ pub[m] <= Len(log[m])
      /\ \A m \in Node : \A v \in stale[m] : v \in Nat /\ v <= pub[m]
  <2>1. /\ log \in [Node -> Seq(Key)] /\ pub \in [Node -> Nat]
        /\ stale \in [Node -> SUBSET Nat]
    BY DEF Typed, TypeOK, Version
  <2>2. \A m \in Node : log[m] \in Seq(Key) /\ Len(log[m]) \in Nat
    BY <2>1, LenProperties
  <2> QED
    BY <2>1, <2>2 DEF Ordered
<1>1. ASSUME UNCHANGED <<log, pub, stale>> PROVE Grows /\ Ordered'
  BY <1>0, <1>1 DEF Grows, Ordered
<1>2. ASSUME NEW n \in Node, NEW k \in Key, StoreAppend(n, k)
      PROVE  Grows /\ Ordered'
  <2>1. /\ Len(Append(log[n], k)) = Len(log[n]) + 1
        /\ \A i \in 1 .. Len(log[n]) : Append(log[n], k)[i] = log[n][i]
    BY <1>0, AppendProperties
  <2>2. log' = [log EXCEPT ![n] = Append(log[n], k)] /\ UNCHANGED <<pub, stale>>
    BY <1>2 DEF StoreAppend
  <2>3. \A m \in Node : log'[m] = IF m = n THEN Append(log[n], k) ELSE log[m]
    BY <1>0, <2>2
  <2>4. ASSUME NEW m \in Node
        PROVE  /\ Len(log'[m]) \in Nat /\ Len(log[m]) <= Len(log'[m])
               /\ \A i \in 1 .. Len(log[m]) : log'[m][i] = log[m][i]
    <3>1. CASE m = n
      <4> DEFINE longer == Append(log[n], k)
      <4>1. log'[n] = longer /\ Len(log[n]) \in Nat
        BY <1>0, <2>3
      <4>2. /\ Len(longer) = Len(log[n]) + 1
            /\ \A i \in 1 .. Len(log[n]) : longer[i] = log[n][i]
        BY <2>1
      <4> HIDE DEF longer
      <4> QED
        BY <3>1, <4>1, <4>2
    <3>2. CASE m # n
      BY <1>0, <2>3, <3>2
    <3> QED
      BY <3>1, <3>2
  <2> QED
    BY <1>0, <2>2, <2>4 DEF Grows, Ordered
<1>3. ASSUME NEW n \in Node, PublishIPNS(n, Len(log[n])), UNCHANGED log
      PROVE  Grows /\ Ordered'
  BY <1>0, <1>3 DEF PublishIPNS, Grows, Ordered
<1>4. ASSUME NEW n \in Node, Writes(n) PROVE Grows /\ Ordered'
  <2>1. CASE StorePublish(n) \/ Restart(n)
    BY <1>3, <2>1 DEF StorePublish, Restart
  <2>2. CASE StoreFinish(n) \/ StoreFails(n)
    BY <1>1, <2>2 DEF StoreFinish, StoreFails, published
  <2> QED
    BY <1>2, <1>4, <2>1, <2>2 DEF Writes, StoreStep
<1> QED
  BY <1>1, <1>4, Frames

LEMMA PublishedGrows ==
    ASSUME Typed, Typed', Ordered, Grows, NEW m \in Node
    PROVE  /\ PublishedBy(m) \subseteq PublishedBy(m)'
           /\ Prefix(m, Len(log[m])) \subseteq Prefix(m, Len(log[m]))'
<1>1. /\ Len(log[m]) \in Nat /\ Len(log'[m]) \in Nat
      /\ pub[m] \in Nat /\ pub'[m] \in Nat
  BY LenProperties DEF Typed, TypeOK, Version
<1>2. /\ pub[m] <= Len(log[m]) /\ Len(log[m]) <= Len(log'[m])
      /\ \A i \in 1 .. Len(log[m]) : log'[m][i] = log[m][i]
      /\ pub[m] <= pub'[m]
  BY DEF Ordered, Grows
<1> QED
  BY <1>1, <1>2 DEF PublishedBy, Prefix

(* A version that a name points to, or has pointed to, was published whole.*)
LEMMA PrefixPublished ==
    ASSUME Typed, NEW m \in Node, NEW v \in Version, v <= pub[m]
    PROVE  Prefix(m, v) \subseteq PublishedBy(m)
<1>1. v \in Nat /\ pub[m] \in Nat
  BY DEF Typed, TypeOK, Version
<1> QED
  BY <1>1 DEF PublishedBy, Prefix

LEMMA PublishingNext ==
    ASSUME Typed, Typed', Ordered, Publishing, Grows, [Next]_vars PROVE Publishing'
<1> DEFINE Q(m) == /\ store[m].pc = "publish" =>
                          store[m].key \in Prefix(m, Len(log[m]))
                   /\ store[m].pc = "finish" => store[m].key \in PublishedBy(m)
<1>0. /\ store \in [Node -> StoreCall] /\ log \in [Node -> Seq(Key)]
      /\ pub \in [Node -> Version]
  BY DEF Typed, TypeOK
<1>1. ASSUME NEW m \in Node, store'[m] = store[m] PROVE Q(m)'
  BY <1>1, PublishedGrows DEF Publishing
<1>2. ASSUME NEW n \in Node, Writes(n) PROVE \A m \in Node : m # n => Q(m)'
  <2>1. \A m \in Node : m # n => store'[m] = store[m]
    BY <1>0, <1>2 DEF Writes, StoreStep, StoreAppend, StorePublish, StoreFinish,
                      StoreFails, Restart
  <2> QED
    BY <1>1, <2>1
<1>3. ASSUME NEW n \in Node, NEW k \in Key, StoreAppend(n, k) PROVE Q(n)'
  <2>1. log'[n] = Append(log[n], k) /\ store'[n] = [pc |-> "publish", key |-> k]
    BY <1>0, <1>3 DEF StoreAppend
  <2>2. log'[n][Len(log'[n])] = k /\ Len(log'[n]) \in 1 .. Len(log'[n])
    BY <1>0, <2>1, AppendProperties, LenProperties
  <2> QED
    BY <2>1, <2>2 DEF Prefix
<1>4. ASSUME NEW n \in Node, StorePublish(n) PROVE Q(n)'
  <2>1. /\ store[n].pc = "publish" /\ store'[n].pc = "finish"
        /\ store'[n].key = store[n].key
    BY <1>0, <1>4 DEF StorePublish, StoreCall
  <2>2. log' = log /\ pub'[n] = Len(log[n])
    BY <1>0, <1>4 DEF StorePublish, PublishIPNS
  <2> QED
    BY <2>1, <2>2 DEF Publishing, PublishedBy, Prefix
<1>5. ASSUME NEW n \in Node, StoreFinish(n) \/ StoreFails(n) \/ Restart(n)
      PROVE  Q(n)'
  <2>1. store'[n].pc = "idle"
    BY <1>0, <1>5 DEF StoreFinish, StoreFails, Restart, NoStore
  <2> QED
    BY <2>1
<1>6. \A m \in Node : Q(m)'
  <2> HIDE DEF Q
  <2>1. CASE UNCHANGED store
    BY <1>1, <2>1
  <2>2. CASE \E n \in Node : Writes(n)
    BY <1>2, <1>3, <1>4, <1>5, <2>2 DEF Writes, StoreStep
  <2> QED
    BY <2>1, <2>2, Frames
<1> QED
  BY <1>6 DEF Publishing

(* One record of pull changes.                                             *)
LEMMA ResolvedUpdate ==
    ASSUME Typed, Resolved, NEW n \in Node, NEW t \in Thread, NEW r,
           pull' = [pull EXCEPT ![n][t] = r], UNCHANGED pub,
           r.pc = "page" => r.remote <= pub[r.of] /\ r.pages <= Pages(r.remote)
    PROVE  Resolved'
<1>1. /\ pull'[n][t] = r
      /\ \A m \in Node, u \in Thread :
             m # n \/ u # t => pull'[m][u] = pull[m][u]
  BY DEF Typed, TypeOK
<1> QED
  BY <1>1 DEF Resolved

LEMMA ResolvedPulls ==
    ASSUME Typed, Resolved, NEW n \in Node, NEW t \in Thread, UNCHANGED pub,
           \/ Done(n, t) \/ PullRemoteState(n, t)
           \/ \E m \in Node : Check(n, t, m)
    PROVE  Resolved'
<1> DEFINE c == pull[n][t]
<1>0. c \in Pull
  BY DEF Typed, TypeOK
<1>1. CASE Done(n, t)
  <2> DEFINE r == [NoPull EXCEPT !.todo = c.todo]
  <2>1. r.pc = "idle"
    BY DEF NoPull
  <2>2. pull' = [pull EXCEPT ![n][t] = r]
    BY <1>1 DEF Done
  <2> HIDE DEF r
  <2> QED
    BY <2>1, <2>2, ResolvedUpdate
<1>2. CASE PullRemoteState(n, t)
  <2> DEFINE p == discoverProgress[n][c.of]
             r == [c EXCEPT !.pc = "resolve", !.progress = p]
  <2>1. r.pc = "resolve"
    <3> HIDE DEF p, c
    <3> QED
      BY <1>0 DEF Pull
  <2>2. pull' = [pull EXCEPT ![n][t] = r]
    BY <1>2 DEF PullRemoteState
  <2> HIDE DEF r
  <2> QED
    BY <2>1, <2>2, ResolvedUpdate
<1>3. ASSUME NEW m \in Node, Check(n, t, m) PROVE Resolved'
  <2> DEFINE p == discoverProgress[n][m]
             label == IF p.tracked THEN "compare" ELSE "begin"
             r == [c EXCEPT !.pc = label, !.of = m, !.todo = c.todo \ {m},
                            !.progress = p]
  <2>1. r.pc = label /\ label # "page"
    <3>1. label # "page"
      OBVIOUS
    <3> HIDE DEF p, c, label
    <3> QED
      BY <1>0, <3>1 DEF Pull
  <2>2. pull' = [pull EXCEPT ![n][t] = r]
    BY <1>3 DEF Check
  <2> HIDE DEF r
  <2> QED
    BY <2>1, <2>2, ResolvedUpdate
<1> QED
  BY <1>1, <1>2, <1>3

LEMMA ResolvedSteps ==
    ASSUME Typed, Ordered, Resolved, NEW n \in Node, NEW t \in Thread,
           Resolve(n, t) \/ LinksEmpty(n, t) \/ ReadPage(n, t)
    PROVE  Resolved'
<1> DEFINE c == pull[n][t]
<1>0. /\ c \in Pull /\ pub \in [Node -> Nat]
      /\ c.pc # "idle" => c.of \in Node
  BY DEF Typed, TypeOK, PullNamed, Version
<1>1. ASSUME NEW v, v <= pub[c.of], NEW w, w <= Pages(v),
             pull' = [pull EXCEPT ![n][t] =
                        [@ EXCEPT !.pc = "page", !.remote = v, !.pages = w]],
             UNCHANGED pub
      PROVE  Resolved'
  <2> DEFINE r == [c EXCEPT !.pc = "page", !.remote = v, !.pages = w]
  <2>1. r.remote = v /\ r.pages = w /\ r.of = c.of
    <3> HIDE DEF c
    <3> QED
      BY <1>0 DEF Pull
  <2>2. pull' = [pull EXCEPT ![n][t] = r]
    BY <1>1
  <2> HIDE DEF r
  <2>3. UNCHANGED pub /\ v <= pub[c.of] /\ w <= Pages(v)
    BY <1>1
  <2>4. r.remote <= pub[r.of] /\ r.pages <= Pages(r.remote)
    BY <2>1, <2>3
  <2> QED
    BY <2>2, <2>3, <2>4, ResolvedUpdate
<1>2. CASE Resolve(n, t)
  <2>1. c.of \in Node /\ UNCHANGED pub
    BY <1>0, <1>2 DEF Resolve, At, published
  <2>2. PICK v \in stale[c.of] \cup {pub[c.of]} :
              pull' = [pull EXCEPT ![n][t] =
                         [@ EXCEPT !.pc = "page", !.remote = v, !.pages = Pages(v)]]
    BY <1>2 DEF Resolve
  <2>3. v <= pub[c.of] /\ Pages(v) <= Pages(v)
    <3>1. v <= pub[c.of] /\ v \in Version
      BY <1>0, <2>1 DEF Ordered, Typed, TypeOK, Version
    <3>2. Pages(v) \in Nat
      BY <3>1, PagesType DEF Version
    <3> QED
      BY <3>1, <3>2
  <2> QED
    BY <1>1, <2>1, <2>2, <2>3
<1>3. CASE LinksEmpty(n, t)
  <2>1. c.of \in Node /\ UNCHANGED pub /\ pub[c.of] <= pub[c.of]
    BY <1>0, <1>3 DEF LinksEmpty, At, published
  <2>2. 0 <= Pages(pub[c.of])
    BY <1>0, <2>1, PagesType DEF Version
  <2> QED
    BY <1>1, <1>3, <2>1, <2>2 DEF LinksEmpty
<1>4. CASE ReadPage(n, t)
  <2> DEFINE p == [c.progress EXCEPT !.nextReadPage = c.progress.nextReadPage + 1]
             r == [c EXCEPT !.progress = p]
  <2>1. r.remote = c.remote /\ r.pages = c.pages /\ r.of = c.of
    <3> HIDE DEF p, c
    <3> QED
      BY <1>0 DEF Pull
  <2>2. c.remote <= pub[c.of] /\ c.pages <= Pages(c.remote)
    BY <1>4 DEF ReadPage, At, Resolved
  <2>3. pull' = [pull EXCEPT ![n][t] = r] /\ UNCHANGED pub
    BY <1>4 DEF ReadPage, published
  <2> HIDE DEF r
  <2> QED
    BY <2>1, <2>2, <2>3, ResolvedUpdate
<1> QED
  BY <1>2, <1>3, <1>4

LEMMA ResolvedNext ==
    ASSUME Typed, Typed', Ordered, Resolved, Grows, [Next]_vars PROVE Resolved'
<1>0. pull \in [Node -> [Thread -> Pull]] /\ pub \in [Node -> Nat]
  BY DEF Typed, TypeOK, Version
<1>1. ASSUME NEW m \in Node, NEW u \in Thread, pull'[m][u] = pull[m][u],
             pull'[m][u].pc = "page"
      PROVE  /\ pull'[m][u].remote <= pub'[pull'[m][u].of]
             /\ pull'[m][u].pages <= Pages(pull'[m][u].remote)
  <2>1. /\ pull[m][u].of \in Node /\ pull[m][u] \in Pull
        /\ pull[m][u].remote <= pub[pull[m][u].of]
        /\ pull[m][u].pages <= Pages(pull[m][u].remote)
    BY <1>0, <1>1 DEF Typed, PullNamed, Resolved
  <2>2. pull[m][u].remote \in Nat
    BY <2>1 DEF Pull, Version
  <2>3. /\ pub[pull[m][u].of] \in Nat /\ pub'[pull[m][u].of] \in Nat
        /\ pub[pull[m][u].of] <= pub'[pull[m][u].of]
    BY <2>1 DEF Typed, TypeOK, Version, Grows
  <2> QED
    BY <1>1, <2>1, <2>2, <2>3
<1>2. CASE UNCHANGED pull
  BY <1>1, <1>2 DEF Resolved
<1>3. ASSUME NEW n \in Node, Restart(n) PROVE Resolved'
  <2>1. \A m \in Node, u \in Thread :
           pull'[m][u] = IF m = n THEN NoPull ELSE pull[m][u]
    BY <1>0, <1>3 DEF Restart
  <2>2. NoPull.pc = "idle"
    BY DEF NoPull
  <2> QED
    BY <1>1, <2>1, <2>2 DEF Resolved
<1>4. ASSUME NEW n \in Node, Iterate(n) PROVE Resolved'
  <2>1. /\ \A m \in Node, u \in Thread :
               m # n \/ u # Worker => pull'[m][u] = pull[m][u]
        /\ pull'[n][Worker].pc = "idle"
    <3>1. pull[n][Worker] \in Pull /\ pull[n][Worker].pc = "idle"
      BY <1>0, <1>4, ConstantFacts DEF Iterate, At
    <3> QED
      BY <1>0, <1>4, <3>1, ConstantFacts DEF Iterate, Pull
  <2> QED
    BY <1>1, <2>1 DEF Resolved
<1>5. ASSUME NEW n \in Node, NEW t \in Thread,
             \/ \E m \in Node : UpdateMapping(n, m) /\ t = Worker
             \/ \E m \in Node : PropagateWrite(n, t, m)
             \/ Compare(n, t) \/ Begin(n, t) \/ Commits(n, t)
             \/ CheckFails(n, t) \/ ResolveFails(n, t) \/ PageFails(n, t)
      PROVE  Resolved'
  <2>1. UNCHANGED pub
    BY <1>5 DEF UpdateMapping, PropagateWrite, Compare, Begin, Commits, CheckFails,
                ResolveFails, PageFails, published
  <2>2. \/ Done(n, t) \/ PullRemoteState(n, t)
        \/ \E m \in Node : Check(n, t, m)
    BY <1>5 DEF UpdateMapping, PropagateWrite, Compare, Begin, Commits, CheckFails,
                ResolveFails, PageFails, Save
  <2> QED
    BY <2>1, <2>2, ResolvedPulls
<1>6. ASSUME NEW n \in Node, Pulls(n) PROVE Resolved'
  BY <1>3, <1>4, <1>5, <1>6, ResolvedSteps, ConstantFacts DEF Pulls, PullStep
<1> QED
  BY <1>2, <1>6, Frames

(* A step may forget an entry or an answer, keep it, or take it from a node*)
(* that has published the key: published keys stay published.              *)
SourcesOf(n) ==
    /\ \A k \in Known(n) : k \in PublishedBy(keyToCid[n][k])
    /\ answer[n] # NoAnswer => answer[n].key \in PublishedBy(answer[n].source)

EntryFrom(n, k, m) == keyToCid'[n][k] = m /\ k \in PublishedBy(m)

AnswerFrom(n, m) == answer'[n].source = m /\ answer'[n].key \in PublishedBy(m)

EntriesTraced(n) ==
    \A k \in Key : \/ keyToCid'[n][k] \in {keyToCid[n][k], NoNode}
                   \/ \E m \in Node : EntryFrom(n, k, m)

AnswerTraced(n) ==
    answer'[n] \in {answer[n], NoAnswer} \/ \E m \in Node : AnswerFrom(n, m)

LEMMA TracedHolds ==
    ASSUME Typed, Typed', Ordered, Grows, SourceHolds, NEW n \in Node,
           EntriesTraced(n), AnswerTraced(n)
    PROVE  SourcesOf(n)'
<1>0. \A m \in Node : \A k : k \in PublishedBy(m) => k \in PublishedBy(m)'
  BY PublishedGrows
<1>1. ASSUME NEW k \in Known(n)' PROVE (k \in PublishedBy(keyToCid[n][k]))'
  <2>1. k \in Key /\ keyToCid'[n][k] # NoNode
    BY <1>1 DEF Known
  <2>2. \/ keyToCid[n][k] = NoNode \/ keyToCid'[n][k] # keyToCid[n][k]
        \/ EntryFrom(n, k, keyToCid[n][k])
    BY <2>1 DEF SourceHolds, Known, EntryFrom
  <2>3. keyToCid[n][k] \in Node \cup {NoNode}
    BY <2>1 DEF Typed, TypeOK
  <2>4. PICK m \in Node : keyToCid'[n][k] = m /\ k \in PublishedBy(m)
    BY <2>1, <2>2, <2>3 DEF EntriesTraced, EntryFrom
  <2>5. k \in PublishedBy(m)'
    BY <1>0, <2>4
  <2> QED
    BY <2>4, <2>5 DEF PublishedBy, Prefix
<1>2. ASSUME answer'[n] # NoAnswer
      PROVE  (answer[n].key \in PublishedBy(answer[n].source))'
  <2>1. answer[n] # NoAnswer => answer[n].source \in Node
    BY DEF Typed, AnswerNamed
  <2>2. PICK m \in Node :
           answer'[n].source = m /\ answer'[n].key \in PublishedBy(m)
    BY <1>2, <2>1 DEF AnswerTraced, AnswerFrom, SourceHolds
  <2>3. answer'[n].key \in PublishedBy(m)'
    BY <1>0, <2>2
  <2> QED
    BY <2>2, <2>3 DEF PublishedBy, Prefix
<1> QED
  BY <1>1, <1>2 DEF SourcesOf

LEMMA FinishTraced ==
    ASSUME Typed, Publishing, NEW n \in Node, StoreFinish(n)
    PROVE  \A m \in Node : EntriesTraced(m) /\ AnswerTraced(m)
<1>1. /\ keyToCid \in [Node -> [Key -> Node \cup {NoNode}]]
      /\ store[n].key \in Key /\ store[n].key \in PublishedBy(n)
  BY DEF Typed, TypeOK, StoreFinish, StoreNamed, Publishing
<1>2. /\ keyToCid' = [keyToCid EXCEPT ![n][store[n].key] = n]
      /\ answer' = answer
  BY DEF StoreFinish
<1>3. EntryFrom(n, store[n].key, n)
  BY <1>1, <1>2 DEF EntryFrom
<1>4. \A m \in Node, k \in Key :
         m # n \/ k # store[n].key => keyToCid'[m][k] = keyToCid[m][k]
  BY <1>1, <1>2
<1> QED
  BY <1>2, <1>3, <1>4 DEF EntriesTraced, AnswerTraced

LEMMA ReadPageTraced ==
    ASSUME Typed, Ordered, Resolved, NEW n \in Node, NEW t \in Thread, ReadPage(n, t)
    PROVE  \A m \in Node : EntriesTraced(m) /\ AnswerTraced(m)
<1> DEFINE c == pull[n][t]
           p == c.progress.nextReadPage
<1>1. /\ keyToCid \in [Node -> [Key -> Node \cup {NoNode}]]
      /\ c.of \in Node /\ c \in Pull
  BY DEF Typed, TypeOK, PullNamed, ReadPage, At
<1>2. c.remote \in Version /\ c.remote <= pub[c.of]
  BY <1>1 DEF Resolved, ReadPage, At, Pull
<1>3. KeysOnPage(c.of, c.remote, p) \subseteq PublishedBy(c.of)
  <2>1. Prefix(c.of, c.remote) \subseteq PublishedBy(c.of)
    BY <1>1, <1>2, PrefixPublished
  <2> QED
    BY <2>1 DEF KeysOnPage, Prefix
<1>4. /\ answer' = answer
      /\ \A m \in Node, k \in Key :
             \/ keyToCid'[m][k] = keyToCid[m][k]
             \/ /\ m = n /\ keyToCid'[m][k] = c.of
                /\ k \in KeysOnPage(c.of, c.remote, p)
  BY <1>1 DEF ReadPage
<1> HIDE DEF c, p
<1> QED
  BY <1>1, <1>3, <1>4 DEF EntriesTraced, AnswerTraced, EntryFrom

LEMMA SyncTraced ==
    ASSUME Typed, SourceHolds, NEW n \in Node,
           \/ \E p \in Node, k \in Key : Sync(n, p, k)
           \/ SyncRecord(n) \/ SyncDeadline(n)
    PROVE  \A m \in Node : EntriesTraced(m) /\ AnswerTraced(m)
<1>0. /\ keyToCid \in [Node -> [Key -> Node \cup {NoNode}]]
      /\ answer \in [Node -> Answer]
  BY DEF Typed, TypeOK
<1>1. ASSUME NEW p \in Node, NEW k \in Key, Sync(n, p, k)
      PROVE  \A m \in Node : EntriesTraced(m) /\ AnswerTraced(m)
  <2>1. /\ keyToCid' = keyToCid
        /\ answer' = [answer EXCEPT ![n] = [key |-> k, source |-> keyToCid[p][k]]]
    BY <1>1 DEF Sync, index, Answered
  <2>2. keyToCid[p][k] \in Node /\ k \in PublishedBy(keyToCid[p][k])
    BY <1>0, <1>1 DEF Sync, SourceHolds, Known
  <2>3. AnswerFrom(n, keyToCid[p][k])
    BY <1>0, <2>1, <2>2 DEF AnswerFrom
  <2>4. \A m \in Node : m # n => answer'[m] = answer[m]
    BY <1>0, <2>1
  <2> QED
    BY <2>1, <2>2, <2>3, <2>4 DEF EntriesTraced, AnswerTraced
<1>2. CASE SyncRecord(n)
  <2> DEFINE a == answer[n]
  <2>1. a.key \in Key /\ a.source \in Node /\ a.key \in PublishedBy(a.source)
    BY <1>2 DEF SyncRecord, Typed, AnswerNamed, SourceHolds
  <2>2. /\ keyToCid' = [keyToCid EXCEPT ![n][a.key] = a.source]
        /\ answer' = [answer EXCEPT ![n] = NoAnswer]
    BY <1>2 DEF SyncRecord
  <2>3. \A m \in Node : answer'[m] \in {answer[m], NoAnswer}
    BY <1>0, <2>2
  <2> HIDE DEF a
  <2>4. EntryFrom(n, a.key, a.source)
    BY <1>0, <2>1, <2>2 DEF EntryFrom
  <2>5. \A m \in Node, k \in Key :
           m # n \/ k # a.key => keyToCid'[m][k] = keyToCid[m][k]
    BY <1>0, <2>1, <2>2
  <2> QED
    BY <2>1, <2>3, <2>4, <2>5 DEF EntriesTraced, AnswerTraced
<1>3. CASE SyncDeadline(n)
  BY <1>0, <1>3 DEF SyncDeadline, index, EntriesTraced, AnswerTraced
<1> QED
  BY <1>1, <1>2, <1>3

LEMMA RestartTraced ==
    ASSUME Typed, NEW n \in Node, Restart(n)
    PROVE  \A m \in Node : EntriesTraced(m) /\ AnswerTraced(m)
<1>1. /\ keyToCid \in [Node -> [Key -> Node \cup {NoNode}]]
      /\ answer \in [Node -> Answer]
  BY DEF Typed, TypeOK
<1> QED
  BY <1>1 DEF Restart, Forgets, EntriesTraced, AnswerTraced

LEMMA SourceNext == SourceInv /\ [Next]_vars => SourceInv'
<1> SUFFICES ASSUME SourceInv, [Next]_vars PROVE SourceInv'
  OBVIOUS
<1>0. Typed /\ Ordered /\ Publishing /\ Resolved /\ SourceHolds
  BY DEF SourceInv
<1>1. Typed'
  BY <1>0, TypeNext
<1>2. Grows /\ Ordered'
  BY <1>0, LogGrows
<1>3. Publishing' /\ Resolved'
  BY <1>0, <1>1, <1>2, PublishingNext, ResolvedNext
<1>4. ASSUME NEW n \in Node PROVE EntriesTraced(n) /\ AnswerTraced(n)
  <2>1. CASE \E m \in Node : Indexes(m)
    BY <1>0, <2>1, FinishTraced, ReadPageTraced, SyncTraced, RestartTraced DEF Indexes
  <2>2. CASE UNCHANGED <<keyToCid, answer>>
    BY <2>2 DEF EntriesTraced, AnswerTraced
  <2> QED
    BY <2>1, <2>2, Frames
<1>5. SourceHolds'
  BY <1>0, <1>1, <1>2, <1>4, TracedHolds DEF SourceHolds, SourcesOf
<1> QED
  BY <1>1, <1>2, <1>3, <1>5 DEF SourceInv

LEMMA SourceInit == Init => SourceInv
<1> SUFFICES ASSUME Init PROVE SourceInv
  OBVIOUS
<1>1. Typed
  BY TypeInit
<1>2. Ordered
  BY EmptySeq DEF Init, Ordered
<1>3. Publishing /\ Resolved
  BY DEF Init, Publishing, Resolved, NoStore, NoPull
<1>4. SourceHolds
  BY DEF Init, SourceHolds, Known
<1> QED
  BY <1>1, <1>2, <1>3, <1>4 DEF SourceInv

(* Whoever follows an index entry, or an answer to Sync, finds the key at  *)
(* its source, for any number of nodes, keys, pulls that overlap, stale    *)
(* names, restarts and failures (ipfs.go:365-420, 450-545).                *)
THEOREM SourcesHold == Spec => []SourceHolds
<1>1. SourceInv => SourceHolds
  BY DEF SourceInv
<1> QED
  BY <1>1, SourceInit, SourceNext, PTL DEF Spec

-----------------------------------------------------------------------------
(* The cluster as a directory of keys.                                     *)

Everything == UNION {PublishedBy(m) : m \in Node}

(* Keys are only added to what is published; a step that leaves the names  *)
(* alone adds none.                                                        *)
LEMMA EverythingGrows ==
    ASSUME Typed, Typed', Ordered, Ordered', Grows
    PROVE  /\ Everything \subseteq Everything' /\ Everything' \subseteq Key
           /\ UNCHANGED pub => Everything' = Everything
<1>1. \A m \in Node : PublishedBy(m) \subseteq PublishedBy(m)'
  BY PublishedGrows
<1>2. ASSUME NEW m \in Node PROVE PublishedBy(m)' \subseteq Key
  <2>1. /\ log'[m] \in Seq(Key) /\ pub'[m] \in Nat /\ pub'[m] <= Len(log'[m])
        /\ Len(log'[m]) \in Nat
    BY LenProperties DEF Typed, TypeOK, Version, Ordered
  <2>2. \A i \in 1 .. pub'[m] : log'[m][i] \in Key
    BY <2>1, ElementOfSeq
  <2> QED
    BY <2>2 DEF PublishedBy, Prefix
<1>3. ASSUME NEW m \in Node, UNCHANGED pub PROVE PublishedBy(m)' = PublishedBy(m)
  <2>1. /\ pub[m] \in Nat /\ pub[m] <= Len(log[m]) /\ Len(log[m]) \in Nat
        /\ \A i \in 1 .. Len(log[m]) : log'[m][i] = log[m][i]
    BY LenProperties DEF Typed, TypeOK, Version, Ordered, Grows
  <2>2. \A i \in 1 .. pub[m] : log'[m][i] = log[m][i]
    BY <2>1
  <2> QED
    BY <1>3, <2>2 DEF PublishedBy, Prefix
<1>4. Everything \subseteq Everything'
  BY <1>1 DEF Everything
<1>5. Everything' \subseteq Key
  BY <1>2 DEF Everything
<1>6. UNCHANGED pub => Everything' = Everything
  BY <1>3 DEF Everything
<1> QED
  BY <1>4, <1>5, <1>6

LEMMA IndexesDirectory ==
    ASSUME SourceInv, SourceInv', Everything \subseteq Everything',
           Everything' \subseteq Key, UNCHANGED pub => Everything' = Everything,
           NEW n \in Node, Indexes(n)
    PROVE  Directory!Next
<1>0. /\ keyToCid \in [Node -> [Key -> Node \cup {NoNode}]]
      /\ keyToCid' \in [Node -> [Key -> Node \cup {NoNode}]]
  BY DEF SourceInv, Typed, TypeOK
<1>1. ASSUME UNCHANGED keyToCid PROVE Directory!Next
  <2>1. Directory!Publish(Everything')
    BY <1>1 DEF Directory!Publish, Everything, Known
  <2> QED
    BY <2>1 DEF Directory!Next
<1>2. CASE Restart(n)
  <2>1. /\ Known(n)' = {}
        /\ \A m \in Node : m # n => Known(m)' = Known(m)
    BY <1>0, <1>2 DEF Restart, Forgets, Known
  <2>2. Directory!Restart(n, Everything')
    BY <2>1 DEF Directory!Restart, Everything
  <2> QED
    BY <2>2 DEF Directory!Next
<1>3. ASSUME UNCHANGED pub, Known(n) \subseteq Known(n)',
             \A m \in Node : m # n => Known(m)' = Known(m)
      PROVE  Directory!Next
  <2>1. Known(n)' \subseteq Everything'
    <3>1. ASSUME NEW k \in Known(n)' PROVE k \in Everything'
      <4>1. k \in Key /\ keyToCid'[n][k] \in Node
        BY <1>0, <3>1 DEF Known
      <4>2. (k \in PublishedBy(keyToCid[n][k]))'
        BY <3>1 DEF SourceInv, SourceHolds
      <4> QED
        BY <4>1, <4>2 DEF Everything
    <3> QED
      BY <3>1
  <2>2. Known(n)' \subseteq Everything /\ Everything' = Everything
    BY <1>3, <2>1
  <2>3. Known(n)' \in SUBSET Key
    BY DEF Known
  <2>4. Directory!Discover(n, Known(n)')
    BY <1>3, <2>2 DEF Directory!Discover, Everything
  <2> QED
    BY <2>3, <2>4 DEF Directory!Next
<1>4. CASE StoreFinish(n) \/ SyncRecord(n) \/ \E t \in Thread : ReadPage(n, t)
  <2>1. UNCHANGED pub
    BY <1>4 DEF StoreFinish, SyncRecord, ReadPage, published
  <2>2. ASSUME NEW k, NEW m \in Node,
               keyToCid' = [keyToCid EXCEPT ![n][k] = m]
        PROVE  /\ Known(n) \subseteq Known(n)'
               /\ \A u \in Node : u # n => Known(u)' = Known(u)
    BY <1>0, <2>2, ConstantFacts DEF Known
  <2>3. CASE StoreFinish(n)
    BY <1>3, <2>1, <2>2, <2>3 DEF StoreFinish
  <2>4. CASE SyncRecord(n)
    <3>1. answer[n].source \in Node
      BY <2>4 DEF SyncRecord, SourceInv, Typed, AnswerNamed
    <3> QED
      BY <1>3, <2>1, <2>2, <2>4, <3>1 DEF SyncRecord
  <2>5. ASSUME NEW t \in Thread, ReadPage(n, t) PROVE Directory!Next
    <3>1. pull[n][t].of # NoNode
      BY <2>5, ConstantFacts DEF ReadPage, At, SourceInv, Typed, PullNamed
    <3>2. /\ Known(n) \subseteq Known(n)'
          /\ \A u \in Node : u # n => Known(u)' = Known(u)
      BY <1>0, <2>5, <3>1 DEF ReadPage, Known
    <3> QED
      BY <1>3, <2>1, <3>2
  <2> QED
    BY <1>4, <2>3, <2>4, <2>5
<1>5. CASE SyncDeadline(n) \/ \E p \in Node, k \in Key : Sync(n, p, k)
  BY <1>1, <1>5 DEF SyncDeadline, Sync, index
<1> QED
  BY <1>2, <1>4, <1>5 DEF Indexes

(* The cluster is a directory of keys: a key is published for ever, a node *)
(* offers published keys only, and forgets one only when it restarts; every*)
(* step of the read path is a step of that directory.                      *)
THEOREM ImplementsDirectory == Spec => DirectorySpec
<1>1. Init => Directory!Init
  <2> SUFFICES ASSUME Init PROVE Directory!Init
    OBVIOUS
  <2>1. \A m \in Node : PublishedBy(m) = {}
    BY DEF Init, PublishedBy, Prefix
  <2>2. \A n \in Node : Known(n) = {}
    BY DEF Init, Known
  <2> QED
    BY <2>1, <2>2 DEF Directory!Init
<1>2. SourceInv /\ [Next]_vars => [Directory!Next]_(Directory!vars)
  <2> SUFFICES ASSUME SourceInv, [Next]_vars PROVE Directory!Next
    OBVIOUS
  <2>1. SourceInv'
    BY SourceNext
  <2>2. /\ Everything \subseteq Everything' /\ Everything' \subseteq Key
        /\ UNCHANGED pub => Everything' = Everything
    BY <2>1, EverythingGrows, LogGrows DEF SourceInv
  <2>3. CASE \E n \in Node : Indexes(n)
    BY <2>1, <2>2, <2>3, IndexesDirectory
  <2>4. CASE UNCHANGED <<keyToCid, answer>>
    <3>1. Directory!Publish(Everything')
      BY <2>2, <2>4 DEF Directory!Publish, Everything, Known
    <3> QED
      BY <2>2, <3>1 DEF Directory!Next
  <2> QED
    BY <2>3, <2>4, Frames
<1> QED
  BY <1>1, <1>2, SourceInit, SourceNext, PTL DEF Spec, DirectorySpec, Directory!Spec

-----------------------------------------------------------------------------
(* The progress of a node: the pages it counts as read exist and have been *)
(* read.  A page number that a node remembers, or a thread of it has in    *)
(* hand, comes from such a number or from a page read just now.            *)

Honest(n, m, next) ==
    /\ next <= Pages(pub[m])
    /\ \A page \in 0 .. next - 1 : log[m][page * PageCapacity + 1] \in Known(n)

InHand(n, m, next) ==
    \/ next = 0
    \/ next = discoverProgress[n][m].nextReadPage
    \/ \E t \in Thread :
           /\ pull[n][t].pc # "idle" /\ pull[n][t].of = m
           /\ next = pull[n][t].progress.nextReadPage

AllHonest ==
    \A n, m \in Node, next \in Version : InHand(n, m, next) => Honest(n, m, next)

LEMMA PageFacts ==
    /\ \A v, w \in Nat : v <= w => Pages(v) <= Pages(w)
    /\ \A v, p \in Nat : p < Pages(v) => p * PageCapacity + 1 \in 1 .. v
    /\ \A p \in Nat : PageOf(p * PageCapacity + 1) = p
<1>0. PageCapacity \in Nat \ {0}
  BY ConstantFacts
<1>1. ASSUME NEW v \in Nat, NEW w \in Nat, v <= w PROVE Pages(v) <= Pages(w)
  BY <1>0, <1>1 DEF Pages
<1>2. ASSUME NEW v \in Nat, NEW p \in Nat, p < Pages(v)
      PROVE  p * PageCapacity + 1 <= v
  BY <1>0, <1>2 DEF Pages
<1>3. ASSUME NEW p \in Nat
      PROVE  p * PageCapacity + 1 \in Nat \ {0} /\ PageOf(p * PageCapacity + 1) = p
  BY <1>0 DEF PageOf
<1> QED
  BY <1>1, <1>2, <1>3

(* Pages that have been read stay read while the node is up.               *)
LEMMA HonestStays ==
    ASSUME Typed, Typed', Ordered, Grows, NEW n \in Node, NEW m \in Node,
           NEW next \in Version, Honest(n, m, next), Known(n) \subseteq Known(n)'
    PROVE  Honest(n, m, next)'
<1>1. /\ pub[m] \in Nat /\ pub'[m] \in Nat /\ pub[m] <= pub'[m]
      /\ pub[m] <= Len(log[m]) /\ Len(log[m]) \in Nat
      /\ \A i \in 1 .. Len(log[m]) : log'[m][i] = log[m][i]
  BY LenProperties DEF Typed, TypeOK, Version, Grows, Ordered
<1>2. /\ next \in Nat /\ next <= Pages(pub[m])
      /\ Pages(pub[m]) \in Nat /\ Pages(pub'[m]) \in Nat
  BY <1>1, PagesType DEF Honest, Version
<1>3. next <= Pages(pub'[m])
  BY <1>1, <1>2, PageFacts
<1>4. ASSUME NEW page \in 0 .. next - 1
      PROVE  log'[m][page * PageCapacity + 1] \in Known(n)'
  <2>1. page \in Nat /\ page < Pages(pub[m])
    BY <1>2
  <2>2. page * PageCapacity + 1 \in 1 .. pub[m]
    BY <1>1, <2>1, PageFacts
  <2>3. page * PageCapacity + 1 \in 1 .. Len(log[m])
    BY <1>1, <2>2
  <2>4. log[m][page * PageCapacity + 1] \in Known(n)
    BY DEF Honest
  <2> QED
    BY <1>1, <2>3, <2>4
<1>5. Pages(pub[m])' = Pages(pub'[m])
  BY DEF Pages
<1> QED
  BY <1>3, <1>4, <1>5 DEF Honest

LEMMA KnownGrows ==
    ASSUME Typed, Typed', [Next]_vars, NEW n \in Node
    PROVE  Known(n) \subseteq Known(n)' \/ Restart(n)
<1>0. /\ keyToCid \in [Node -> [Key -> Node \cup {NoNode}]]
      /\ keyToCid' \in [Node -> [Key -> Node \cup {NoNode}]]
  BY DEF Typed, TypeOK
<1>1. ASSUME NEW m \in Node, NEW k, NEW v \in Node,
             keyToCid' = [keyToCid EXCEPT ![m][k] = v]
      PROVE  Known(n) \subseteq Known(n)'
  BY <1>0, <1>1, ConstantFacts DEF Known
<1>2. ASSUME NEW m \in Node, StoreFinish(m) PROVE Known(n) \subseteq Known(n)'
  BY <1>1, <1>2 DEF StoreFinish
<1>3. ASSUME NEW m \in Node, SyncRecord(m) PROVE Known(n) \subseteq Known(n)'
  <2>1. answer[m].source \in Node
    BY <1>3 DEF SyncRecord, Typed, AnswerNamed
  <2> QED
    BY <1>1, <1>3, <2>1 DEF SyncRecord
<1>4. ASSUME NEW m \in Node, NEW t \in Thread, ReadPage(m, t)
      PROVE  Known(n) \subseteq Known(n)'
  <2>1. pull[m][t].of # NoNode
    BY <1>4, ConstantFacts DEF ReadPage, At, Typed, PullNamed
  <2> QED
    BY <1>0, <1>4, <2>1 DEF ReadPage, Known
<1>5. ASSUME UNCHANGED keyToCid PROVE Known(n) \subseteq Known(n)'
  BY <1>5 DEF Known
<1>6. ASSUME NEW m \in Node, m # n, Restart(m) PROVE Known(n) \subseteq Known(n)'
  BY <1>0, <1>6 DEF Restart, Forgets, Known
<1>7. ASSUME NEW m \in Node, Indexes(m)
      PROVE  Known(n) \subseteq Known(n)' \/ Restart(n)
  <2>1. ASSUME SyncDeadline(m) \/ \E p \in Node, k \in Key : Sync(m, p, k)
        PROVE  UNCHANGED keyToCid
    BY <2>1 DEF SyncDeadline, Sync, index
  <2> QED
    BY <1>2, <1>3, <1>4, <1>5, <1>6, <1>7, <2>1 DEF Indexes
<1> QED
  BY <1>5, <1>7, Frames

(* The page just read has been read.                                       *)
LEMMA PageRead ==
    ASSUME Typed, Typed', Ordered, Resolved, Grows, NEW n \in Node, NEW t \in Thread,
           NEW m \in Node, NEW p \in Version, ReadPage(n, t),
           pull[n][t].of = m, pull[n][t].progress.nextReadPage = p,
           Honest(n, m, p), Known(n) \subseteq Known(n)'
    PROVE  Honest(n, m, p + 1)'
<1> DEFINE c == pull[n][t]
           first == p * PageCapacity + 1
<1>1. /\ pub[m] \in Nat /\ pub'[m] \in Nat /\ UNCHANGED <<log, pub>>
      /\ pub[m] <= Len(log[m]) /\ Len(log[m]) \in Nat /\ p \in Nat
      /\ log[m] \in Seq(Key)
  BY LenProperties DEF Typed, TypeOK, Version, Ordered, ReadPage, published
<1>2. /\ c \in Pull /\ p < c.pages /\ c.pages <= Pages(c.remote)
      /\ c.remote <= pub[m]
  BY DEF Typed, TypeOK, ReadPage, At, Resolved
<1>3. c.remote \in Nat /\ c.pages \in Nat /\ Pages(c.remote) \in Nat
  BY <1>2, PagesType DEF Pull, Version
<1>4. Pages(c.remote) <= Pages(pub[m]) /\ Pages(pub[m]) \in Nat
  BY <1>1, <1>2, <1>3, PageFacts, PagesType DEF Version
<1>5. p + 1 <= Pages(pub[m])
  <2> HIDE DEF c
  <2> QED
    BY <1>1, <1>2, <1>3, <1>4
<1>6. first \in 1 .. c.remote /\ PageOf(first) = p
  <2>1. p < Pages(c.remote)
    <3> HIDE DEF c
    <3> QED
      BY <1>1, <1>2, <1>3
  <2> QED
    BY <1>1, <1>3, <2>1, PageFacts
<1>7. log[m][first] \in Known(n)'
  <2>1. log[m][first] \in KeysOnPage(m, c.remote, p)
    <3> HIDE DEF first, c
    <3> QED
      BY <1>6 DEF KeysOnPage
  <2>2. log[m][first] \in Key
    <3>1. first \in 1 .. Len(log[m])
      <4> HIDE DEF first, c
      <4> QED
        BY <1>1, <1>2, <1>3, <1>6
    <3> HIDE DEF first
    <3> QED
      BY <1>1, <3>1, ElementOfSeq
  <2>3. keyToCid'[n][log[m][first]] # NoNode
    <3> HIDE DEF first
    <3>1. keyToCid' = [keyToCid EXCEPT ![n] = [k \in Key |->
               IF @[k] = NoNode /\ k \in KeysOnPage(m, c.remote, p) THEN m ELSE @[k]]]
      BY DEF ReadPage
    <3> HIDE DEF c
    <3> QED
      BY <2>1, <2>2, <3>1, ConstantFacts DEF Typed, TypeOK
  <2> HIDE DEF first
  <2> QED
    BY <2>2, <2>3 DEF Known
<1>8. ASSUME NEW page \in 0 .. p
      PROVE  log'[m][page * PageCapacity + 1] \in Known(n)'
  <2>1. CASE page = p
    BY <1>1, <1>7, <2>1
  <2>2. CASE page # p
    <3>1. page \in 0 .. p - 1
      BY <1>1, <2>2
    <3>2. log[m][page * PageCapacity + 1] \in Known(n)
      BY <3>1 DEF Honest
    <3> QED
      BY <1>1, <3>2
  <2> QED
    BY <2>1, <2>2
<1>9. Pages(pub[m])' = Pages(pub[m]) /\ (p + 1) - 1 = p
  BY <1>1 DEF Pages
<1> QED
  BY <1>1, <1>5, <1>8, <1>9 DEF Honest

(* Where the page numbers that a step puts in hand come from.              *)
PullsTraced(n) ==
    \A t \in Thread :
        pull'[n][t].pc # "idle" =>
            InHand(n, pull'[n][t].of, pull'[n][t].progress.nextReadPage)

LEMMA TracedUpdate ==
    ASSUME Typed, NEW n \in Node, NEW t \in Thread, NEW r,
           pull' = [pull EXCEPT ![n][t] = r],
           r.pc # "idle" => InHand(n, r.of, r.progress.nextReadPage)
    PROVE  \A m \in Node : PullsTraced(m)
<1>1. /\ pull'[n][t] = r
      /\ \A m \in Node, u \in Thread :
             m # n \/ u # t => pull'[m][u] = pull[m][u]
  BY DEF Typed, TypeOK
<1>2. ASSUME NEW m \in Node, NEW u \in Thread, pull'[m][u] = pull[m][u],
             pull'[m][u].pc # "idle"
      PROVE  InHand(m, pull'[m][u].of, pull'[m][u].progress.nextReadPage)
  BY <1>2 DEF InHand
<1> QED
  BY <1>1, <1>2 DEF PullsTraced

LEMMA ThreadTraced ==
    ASSUME Typed, NEW n \in Node, NEW t \in Thread,
           \/ Done(n, t) \/ PullRemoteState(n, t)
           \/ \E m \in Node : Check(n, t, m)
           \/ Resolve(n, t) \/ LinksEmpty(n, t)
    PROVE  \A m \in Node : PullsTraced(m)
<1> DEFINE c == pull[n][t]
<1>0. c \in Pull
  BY DEF Typed, TypeOK
<1>1. CASE Done(n, t)
  <2> DEFINE r == [NoPull EXCEPT !.todo = c.todo]
  <2>1. r.pc = "idle"
    BY DEF NoPull
  <2>2. pull' = [pull EXCEPT ![n][t] = r]
    BY <1>1 DEF Done
  <2> HIDE DEF r
  <2> QED
    BY <2>1, <2>2, TracedUpdate
<1>2. CASE PullRemoteState(n, t)
  <2> DEFINE p == discoverProgress[n][c.of]
             r == [c EXCEPT !.pc = "resolve", !.progress = p]
  <2>1. r.of = c.of /\ r.progress = p
    <3> HIDE DEF p, c
    <3> QED
      BY <1>0 DEF Pull
  <2>2. pull' = [pull EXCEPT ![n][t] = r]
    BY <1>2 DEF PullRemoteState
  <2> HIDE DEF r
  <2>3. InHand(n, r.of, r.progress.nextReadPage)
    BY <2>1 DEF InHand
  <2> QED
    BY <2>2, <2>3, TracedUpdate
<1>3. ASSUME NEW m \in Node, Check(n, t, m) PROVE \A u \in Node : PullsTraced(u)
  <2> DEFINE p == discoverProgress[n][m]
             label == IF p.tracked THEN "compare" ELSE "begin"
             r == [c EXCEPT !.pc = label, !.of = m, !.todo = c.todo \ {m},
                            !.progress = p]
  <2>1. r.of = m /\ r.progress = p
    <3> HIDE DEF p, c, label
    <3> QED
      BY <1>0 DEF Pull
  <2>2. pull' = [pull EXCEPT ![n][t] = r]
    BY <1>3 DEF Check
  <2> HIDE DEF r
  <2>3. InHand(n, r.of, r.progress.nextReadPage)
    BY <2>1 DEF InHand
  <2> QED
    BY <2>2, <2>3, TracedUpdate
<1>4. ASSUME NEW v, NEW w, c.pc # "idle",
             pull' = [pull EXCEPT ![n][t] =
                        [@ EXCEPT !.pc = "page", !.remote = v, !.pages = w]]
      PROVE  \A m \in Node : PullsTraced(m)
  <2> DEFINE r == [c EXCEPT !.pc = "page", !.remote = v, !.pages = w]
  <2>1. r.of = c.of /\ r.progress = c.progress
    <3> HIDE DEF c
    <3> QED
      BY <1>0 DEF Pull
  <2>2. pull' = [pull EXCEPT ![n][t] = r]
    BY <1>4
  <2> HIDE DEF r
  <2>3. InHand(n, r.of, r.progress.nextReadPage)
    BY <1>4, <2>1 DEF InHand
  <2> QED
    BY <2>2, <2>3, TracedUpdate
<1>5. CASE Resolve(n, t) \/ LinksEmpty(n, t)
  BY <1>4, <1>5 DEF Resolve, LinksEmpty, At
<1> QED
  BY <1>1, <1>2, <1>3, <1>5

LEMMA PullsAreTraced ==
    ASSUME Typed, [Next]_vars
    PROVE  \/ \A m \in Node : PullsTraced(m)
           \/ \E n \in Node, t \in Thread : ReadPage(n, t)
<1>0. pull \in [Node -> [Thread -> Pull]]
  BY DEF Typed, TypeOK
<1>1. CASE UNCHANGED pull
  BY <1>1 DEF PullsTraced, InHand
<1>2. ASSUME NEW n \in Node, Restart(n) PROVE \A m \in Node : PullsTraced(m)
  <2>1. \A m \in Node, u \in Thread :
           pull'[m][u] = IF m = n THEN NoPull ELSE pull[m][u]
    BY <1>0, <1>2 DEF Restart
  <2>2. NoPull.pc = "idle"
    BY DEF NoPull
  <2> QED
    BY <2>1, <2>2 DEF PullsTraced, InHand
<1>3. ASSUME NEW n \in Node, Iterate(n) PROVE \A m \in Node : PullsTraced(m)
  <2> DEFINE r == [pull[n][Worker] EXCEPT !.todo = nodesTxt[n]]
  <2>1. r.pc = "idle"
    <3>1. pull[n][Worker] \in Pull /\ pull[n][Worker].pc = "idle"
      BY <1>0, <1>3, ConstantFacts DEF Iterate, At
    <3> QED
      BY <3>1 DEF Pull
  <2>2. pull' = [pull EXCEPT ![n][Worker] = r]
    BY <1>3 DEF Iterate
  <2> HIDE DEF r
  <2> QED
    BY <2>1, <2>2, TracedUpdate, ConstantFacts
<1>4. ASSUME NEW n \in Node, NEW t \in Thread,
             \/ \E m \in Node : UpdateMapping(n, m) /\ t = Worker
             \/ \E m \in Node : PropagateWrite(n, t, m)
             \/ Compare(n, t) \/ Begin(n, t) \/ Commits(n, t)
             \/ CheckFails(n, t) \/ ResolveFails(n, t) \/ PageFails(n, t)
      PROVE  \A m \in Node : PullsTraced(m)
  <2>1. \/ Done(n, t) \/ PullRemoteState(n, t)
        \/ \E m \in Node : Check(n, t, m)
    BY <1>4 DEF UpdateMapping, PropagateWrite, Compare, Begin, Commits, CheckFails,
                ResolveFails, PageFails, Save
  <2> QED
    BY <2>1, ThreadTraced
<1>5. ASSUME NEW n \in Node, Pulls(n)
      PROVE  \/ \A m \in Node : PullsTraced(m)
             \/ \E t \in Thread : ReadPage(n, t)
  BY <1>2, <1>3, <1>4, <1>5, ThreadTraced, ConstantFacts DEF Pulls, PullStep
<1> QED
  BY <1>1, <1>5, Frames

(* The steps that change the progress.                                     *)
LEMMA ProgressFrames ==
    ASSUME [Next]_vars
    PROVE  \/ UNCHANGED discoverProgress
           \/ \E n \in Node :
                 \/ StoreFinish(n) \/ Restart(n)
                 \/ \E t \in Thread :
                       Commits(n, t) \/ ResolveFails(n, t) \/ PageFails(n, t)
<1>1. ASSUME NEW n \in Node,
             \/ \E k \in Key : StoreAppend(n, k)
             \/ StorePublish(n) \/ StoreFails(n) \/ Iterate(n)
             \/ \E m \in Node : UpdateMapping(n, m)
             \/ \E t \in Handler, m \in Node : PropagateWrite(n, t, m)
             \/ \E p \in Node : UpdateIndexDirectory(n, p)
      PROVE  UNCHANGED discoverProgress
  BY <1>1 DEF StoreAppend, StorePublish, StoreFails, Iterate, UpdateMapping,
              PropagateWrite, UpdateIndexDirectory, index
<1>2. ASSUME NEW n \in Node,
             \/ \E p \in Node, k \in Key : Sync(n, p, k)
             \/ SyncRecord(n) \/ SyncDeadline(n)
      PROVE  UNCHANGED discoverProgress
  BY <1>2 DEF Sync, SyncRecord, SyncDeadline, index
<1>3. ASSUME NEW n \in Node, NEW t \in Thread,
             \/ Compare(n, t) \/ Begin(n, t) \/ Resolve(n, t) \/ ReadPage(n, t)
             \/ CheckFails(n, t) \/ LinksEmpty(n, t)
      PROVE  UNCHANGED discoverProgress
  BY <1>3 DEF Compare, Begin, Resolve, ReadPage, CheckFails, LinksEmpty, index
<1>4. CASE UNCHANGED vars
  BY <1>4 DEF vars
<1>5. CASE Next
  BY <1>1, <1>2, <1>3, <1>5 DEF Next, StoreStep, PullStep, Failure
<1> QED
  BY <1>4, <1>5

ProgressTraced ==
    \A n, m \in Node : InHand(n, m, discoverProgress'[n][m].nextReadPage)

LEMMA ProgressIsTraced == ASSUME Typed, [Next]_vars PROVE ProgressTraced
<1>0. discoverProgress \in [Node -> [Node -> Progress]]
  BY DEF Typed, TypeOK
<1>1. ASSUME NEW n \in Node, NEW m \in Node, NEW p \in Progress,
             discoverProgress' = [discoverProgress EXCEPT ![n][m] = p],
             InHand(n, m, p.nextReadPage)
      PROVE  ProgressTraced
  <2>1. /\ discoverProgress'[n][m] = p
        /\ \A a, b \in Node : a # n \/ b # m =>
               discoverProgress'[a][b] = discoverProgress[a][b]
    BY <1>0, <1>1
  <2>2. \A a, b \in Node : InHand(a, b, discoverProgress[a][b].nextReadPage)
    BY DEF InHand
  <2> QED
    BY <1>1, <2>1, <2>2 DEF ProgressTraced
<1>2. CASE UNCHANGED discoverProgress
  BY <1>2 DEF ProgressTraced, InHand
<1>3. ASSUME NEW n \in Node, StoreFinish(n) PROVE ProgressTraced
  <2> DEFINE d == discoverProgress[n][n]
             p == [d EXCEPT !.tracked = TRUE, !.lastCommitCID = NoCommit]
  <2>1. p \in Progress /\ p.nextReadPage = d.nextReadPage
    <3>1. d \in Progress
      BY <1>0
    <3> HIDE DEF d
    <3>2. p.nextReadPage = d.nextReadPage
      BY <3>1 DEF Progress
    <3>3. NoCommit \in Commit
      BY DEF Commit
    <3>4. p \in Progress
      BY <3>1, <3>3, ProgressChanges DEF Version
    <3> HIDE DEF p
    <3> QED
      BY <3>2, <3>4
  <2>2. discoverProgress' = [discoverProgress EXCEPT ![n][n] = p]
    BY <1>3 DEF StoreFinish
  <2> HIDE DEF p
  <2>3. InHand(n, n, p.nextReadPage)
    BY <2>1 DEF InHand
  <2> QED
    BY <1>1, <2>1, <2>2, <2>3
<1>4. ASSUME NEW n \in Node, NEW t \in Thread, NEW q \in Progress, Save(n, t, q),
             pull[n][t].pc # "idle",
             q.nextReadPage = pull[n][t].progress.nextReadPage
      PROVE  ProgressTraced
  <2> DEFINE p == [q EXCEPT !.tracked = TRUE]
             m == pull[n][t].of
  <2>1. p \in Progress /\ p.nextReadPage = q.nextReadPage
    BY DEF Progress
  <2>2. discoverProgress' = [discoverProgress EXCEPT ![n][m] = p] /\ m \in Node
    BY <1>4 DEF Save, Typed, PullNamed
  <2>3. InHand(n, m, q.nextReadPage)
    BY <1>4 DEF InHand
  <2> HIDE DEF p, m
  <2> QED
    BY <1>1, <2>1, <2>2, <2>3
<1>5. ASSUME NEW n \in Node, NEW t \in Thread,
             Commits(n, t) \/ ResolveFails(n, t) \/ PageFails(n, t)
      PROVE  ProgressTraced
  <2> DEFINE c == pull[n][t]
  <2>1. c.progress \in Progress /\ c.remote \in Version
    BY DEF Typed, TypeOK, Pull
  <2>2. Committed(c) \in Progress
    BY <2>1, ProgressChanges DEF Committed, Commit
  <2>3. Committed(c).nextReadPage = c.progress.nextReadPage
    <3> HIDE DEF c
    <3> QED
      BY <2>1 DEF Committed, Progress
  <2>4. c.pc # "idle"
    BY <1>5 DEF Commits, ResolveFails, PageFails, At
  <2>5. Save(n, t, Committed(c)) \/ Save(n, t, c.progress)
    BY <1>5 DEF Commits, ResolveFails, PageFails
  <2> QED
    BY <1>4, <2>1, <2>2, <2>3, <2>4, <2>5
<1>6. ASSUME NEW n \in Node, Restart(n) PROVE ProgressTraced
  <2>1. \A a, b \in Node :
           discoverProgress'[a][b] =
               IF a = n THEN NoProgress ELSE discoverProgress[a][b]
    BY <1>0, <1>6 DEF Restart, Forgets
  <2>2. NoProgress.nextReadPage = 0
    BY DEF NoProgress
  <2> QED
    BY <2>1, <2>2 DEF ProgressTraced, InHand
<1> QED
  BY <1>2, <1>3, <1>5, <1>6, ProgressFrames

(* A thread puts the page it has read into hand; everything else it and the*)
(* other threads have in hand they had before.                             *)
LEMMA ReadPageInHand ==
    ASSUME Typed, Typed', NEW n \in Node, NEW t \in Thread, ReadPage(n, t),
           NEW m \in Node, NEW u \in Thread, pull'[m][u].pc # "idle"
    PROVE  \/ InHand(m, pull'[m][u].of, pull'[m][u].progress.nextReadPage)
           \/ /\ m = n /\ u = t /\ pull'[m][u].of = pull[n][t].of
              /\ pull'[m][u].progress.nextReadPage =
                     pull[n][t].progress.nextReadPage + 1
<1> DEFINE c == pull[n][t]
           p == [c.progress EXCEPT !.nextReadPage = c.progress.nextReadPage + 1]
           r == [c EXCEPT !.progress = p]
<1>1. c \in Pull /\ c.progress \in Progress
  BY DEF Typed, TypeOK, Pull
<1>2. pull' = [pull EXCEPT ![n][t] = r]
  BY DEF ReadPage
<1>3. r.of = c.of /\ r.progress = p
  <2> HIDE DEF p, c
  <2> QED
    BY <1>1 DEF Pull
<1>4. p.nextReadPage = c.progress.nextReadPage + 1
  <2> HIDE DEF c
  <2> QED
    BY <1>1 DEF Progress
<1>5. CASE m = n /\ u = t
  <2>1. pull'[m][u] = r
    <3> HIDE DEF r
    <3> QED
      BY <1>2, <1>5 DEF Typed, TypeOK
  <2> HIDE DEF r, p
  <2> QED
    BY <1>3, <1>4, <1>5, <2>1
<1>6. CASE ~(m = n /\ u = t)
  <2>1. pull'[m][u] = pull[m][u]
    <3> HIDE DEF r
    <3> QED
      BY <1>2, <1>6 DEF Typed, TypeOK
  <2> QED
    BY <2>1 DEF InHand
<1> QED
  BY <1>5, <1>6

LEMMA HonestNext ==
    ASSUME Typed, Typed', Ordered, Ordered', Resolved, Grows, AllHonest, [Next]_vars,
           NEW n \in Node, NEW m \in Node, NEW next \in Version,
           InHand(n, m, next)'
    PROVE  Honest(n, m, next)'
<1>0. Honest(n, m, 0)'
  <2>1. Pages(pub'[m]) \in Nat
    BY PagesType DEF Typed, TypeOK, Version
  <2>2. Pages(pub[m])' = Pages(pub'[m])
    BY DEF Pages
  <2> QED
    BY <2>1, <2>2 DEF Honest
<1>1. CASE Restart(n)
  <2>1. /\ discoverProgress'[n][m] = NoProgress
        /\ \A t \in Thread : pull'[n][t] = NoPull
    BY <1>1 DEF Restart, Forgets, Typed, TypeOK
  <2>2. NoProgress.nextReadPage = 0 /\ NoPull.pc = "idle"
    BY DEF NoProgress, NoPull
  <2>3. next = 0
    BY <2>1, <2>2 DEF InHand
  <2> QED
    BY <1>0, <2>3
<1>2. CASE Known(n) \subseteq Known(n)'
  <2>1. InHand(n, m, next) => Honest(n, m, next)'
    BY <1>2, HonestStays DEF AllHonest
  <2>2. CASE next = discoverProgress'[n][m].nextReadPage
    BY <2>1, <2>2, ProgressIsTraced DEF ProgressTraced
  <2>3. ASSUME NEW t \in Thread, pull'[n][t].pc # "idle", pull'[n][t].of = m,
               next = pull'[n][t].progress.nextReadPage
        PROVE  Honest(n, m, next)'
    <3>1. CASE PullsTraced(n)
      BY <2>1, <2>3, <3>1 DEF PullsTraced
    <3>2. ASSUME NEW a \in Node, NEW u \in Thread, ReadPage(a, u)
          PROVE  Honest(n, m, next)'
      <4>1. CASE InHand(n, pull'[n][t].of, pull'[n][t].progress.nextReadPage)
        BY <2>1, <2>3, <4>1
      <4>2. CASE /\ n = a /\ t = u /\ pull'[n][t].of = pull[a][u].of
                 /\ pull'[n][t].progress.nextReadPage =
                        pull[a][u].progress.nextReadPage + 1
        <5>1. PICK p \in Version : p = pull[n][t].progress.nextReadPage
          <6>1. pull[n][t].progress \in Progress
            BY DEF Typed, TypeOK, Pull
          <6> QED
            BY <6>1 DEF Progress
        <5>2. /\ pull[n][t].of = m /\ next = p + 1
              /\ pull[n][t].pc # "idle" /\ ReadPage(n, t)
          BY <2>3, <3>2, <4>2, <5>1 DEF ReadPage, At
        <5>3. Honest(n, m, p)
          BY <5>1, <5>2 DEF AllHonest, InHand
        <5>4. Honest(n, m, p + 1)'
          BY <1>2, <5>1, <5>2, <5>3, PageRead
        <5> QED
          BY <5>2, <5>4
      <4> QED
        BY <2>3, <3>2, <4>1, <4>2, ReadPageInHand
    <3> QED
      BY <3>1, <3>2, PullsAreTraced
  <2> QED
    BY <1>0, <2>2, <2>3 DEF InHand
<1> QED
  BY <1>1, <1>2, KnownGrows

LEMMA HonestInit == Init => AllHonest
<1> SUFFICES ASSUME Init, NEW n \in Node, NEW m \in Node, NEW next \in Version,
                    InHand(n, m, next)
             PROVE  Honest(n, m, next)
  BY DEF AllHonest
<1>1. next = 0
  BY DEF Init, InHand, NoPull, NoProgress
<1>2. pub[m] \in Version
  BY DEF Init, Version
<1>3. Pages(pub[m]) \in Nat
  BY <1>2, PagesType DEF Version
<1> QED
  BY <1>1, <1>3 DEF Honest

(* The progress of a node is never ahead of what the other node has        *)
(* published, and a page that counts as read has been read, whatever pulls *)
(* of one name overlap and overwrite each other's progress, and whatever   *)
(* fails or restarts (ipfs.go:450-545).                                    *)
THEOREM ProgressIsHonest == Spec => []ProgressHonest
<1>1. SourceInv /\ AllHonest /\ [Next]_vars => AllHonest'
  <2> SUFFICES ASSUME SourceInv, AllHonest, [Next]_vars,
                      NEW n \in Node, NEW m \in Node, NEW next \in Version,
                      InHand(n, m, next)'
               PROVE  Honest(n, m, next)'
    BY DEF AllHonest
  <2>1. Typed /\ Ordered /\ Resolved /\ Typed' /\ Ordered' /\ Grows
    BY SourceNext, LogGrows DEF SourceInv
  <2> QED
    BY <2>1, HonestNext
<1>2. SourceInv /\ AllHonest => ProgressHonest
  <2> SUFFICES ASSUME SourceInv, AllHonest, NEW n \in Node, NEW m \in Node
               PROVE  Honest(n, m, discoverProgress[n][m].nextReadPage)
    BY DEF ProgressHonest, Honest
  <2>1. discoverProgress[n][m] \in Progress
    BY DEF SourceInv, Typed, TypeOK
  <2>2. discoverProgress[n][m].nextReadPage \in Version
    BY <2>1 DEF Progress
  <2> QED
    BY <2>2 DEF AllHonest, InHand
<1> QED
  BY <1>1, <1>2, SourceInit, SourceNext, HonestInit, PTL DEF Spec

-----------------------------------------------------------------------------
(* A directory that counts as committed counts as read: unless links have  *)
(* been lost, no progress commits more pages than it has read.             *)

Whole(p) == p.lastCommitCID # NoCommit => Pages(p.lastCommitCID) <= p.nextReadPage

WholePull(c) == Whole(c.progress) /\ (c.pc = "page" => c.pages = Pages(c.remote))

AllWhole ==
    /\ \A n, m \in Node : Whole(discoverProgress[n][m])
    /\ \A n \in Node, t \in Thread : WholePull(pull[n][t])

LEMMA NoneWhole == Whole(NoProgress) /\ WholePull(NoPull)
  BY DEF NoProgress, NoPull, Whole, WholePull

LEMMA WholeUpdate ==
    ASSUME Typed, AllWhole, NEW n \in Node, NEW t \in Thread, NEW r,
           pull' = [pull EXCEPT ![n][t] = r], WholePull(r)
    PROVE  \A m \in Node, u \in Thread : WholePull(pull'[m][u])
<1>1. \A m \in Node, u \in Thread :
         pull'[m][u] = IF m = n /\ u = t THEN r ELSE pull[m][u]
  BY DEF Typed, TypeOK
<1> QED
  BY <1>1 DEF AllWhole

LEMMA ThreadWhole ==
    ASSUME Typed, AllWhole, NEW n \in Node, NEW t \in Thread,
           \/ Done(n, t)
           \/ PullRemoteState(n, t) /\ pull[n][t].pc # "idle"
           \/ \E m \in Node : Check(n, t, m)
           \/ Resolve(n, t) \/ ReadPage(n, t)
    PROVE  \A m \in Node, u \in Thread : WholePull(pull'[m][u])
<1> DEFINE c == pull[n][t]
<1>0. c \in Pull /\ c.progress \in Progress /\ WholePull(c)
  BY DEF Typed, TypeOK, Pull, AllWhole
<1>1. CASE Done(n, t)
  <2> DEFINE r == [NoPull EXCEPT !.todo = c.todo]
  <2>1. r.pc = "idle" /\ r.progress = NoProgress
    BY DEF NoPull
  <2>2. pull' = [pull EXCEPT ![n][t] = r]
    BY <1>1 DEF Done
  <2> HIDE DEF r
  <2>3. WholePull(r)
    BY <2>1, NoneWhole DEF WholePull
  <2> QED
    BY <2>2, <2>3, WholeUpdate
<1>2. CASE PullRemoteState(n, t) /\ c.pc # "idle"
  <2> DEFINE p == discoverProgress[n][c.of]
             r == [c EXCEPT !.pc = "resolve", !.progress = p]
  <2>1. r.pc = "resolve" /\ r.progress = p
    <3> HIDE DEF p, c
    <3> QED
      BY <1>0 DEF Pull
  <2>2. pull' = [pull EXCEPT ![n][t] = r]
    BY <1>2 DEF PullRemoteState
  <2>3. Whole(p)
    BY <1>2 DEF Typed, PullNamed, AllWhole
  <2> HIDE DEF r, p
  <2>4. WholePull(r)
    BY <2>1, <2>3 DEF WholePull
  <2> QED
    BY <2>2, <2>4, WholeUpdate
<1>3. ASSUME NEW m \in Node, Check(n, t, m)
      PROVE  \A a \in Node, u \in Thread : WholePull(pull'[a][u])
  <2> DEFINE p == discoverProgress[n][m]
             label == IF p.tracked THEN "compare" ELSE "begin"
             r == [c EXCEPT !.pc = label, !.of = m, !.todo = c.todo \ {m},
                            !.progress = p]
  <2>1. r.pc = label /\ r.progress = p
    <3> HIDE DEF p, c, label
    <3> QED
      BY <1>0 DEF Pull
  <2>2. pull' = [pull EXCEPT ![n][t] = r]
    BY <1>3 DEF Check
  <2>3. Whole(p) /\ label # "page"
    BY DEF AllWhole
  <2> HIDE DEF r, p, label
  <2>4. WholePull(r)
    BY <2>1, <2>3 DEF WholePull
  <2> QED
    BY <2>2, <2>4, WholeUpdate
<1>4. CASE Resolve(n, t)
  <2>1. PICK v : pull' = [pull EXCEPT ![n][t] =
                    [@ EXCEPT !.pc = "page", !.remote = v, !.pages = Pages(v)]]
    BY <1>4 DEF Resolve
  <2> DEFINE w == Pages(v)
             r == [c EXCEPT !.pc = "page", !.remote = v, !.pages = w]
  <2>2. r.progress = c.progress /\ r.remote = v /\ r.pages = w
    <3> HIDE DEF c, w
    <3> QED
      BY <1>0 DEF Pull
  <2>3. pull' = [pull EXCEPT ![n][t] = r]
    BY <2>1
  <2> HIDE DEF r, c
  <2>4. WholePull(r)
    BY <1>0, <2>2 DEF WholePull
  <2> QED
    BY <2>3, <2>4, WholeUpdate
<1>5. CASE ReadPage(n, t)
  <2> DEFINE d == c.progress
             p == [d EXCEPT !.nextReadPage = d.nextReadPage + 1]
             r == [c EXCEPT !.progress = p]
  <2>1. /\ r.progress = p /\ r.pc = c.pc /\ r.pages = c.pages
        /\ r.remote = c.remote
    <3> HIDE DEF p, c
    <3> QED
      BY <1>0 DEF Pull
  <2>2. pull' = [pull EXCEPT ![n][t] = r]
    BY <1>5 DEF ReadPage
  <2>3. d \in Progress /\ Whole(d)
    BY <1>0 DEF WholePull
  <2> HIDE DEF r, d
  <2>4. /\ p.nextReadPage = d.nextReadPage + 1 /\ d.nextReadPage \in Nat
        /\ p.lastCommitCID = d.lastCommitCID
        /\ d.lastCommitCID # NoCommit => d.lastCommitCID \in Version
    BY <2>3 DEF Progress, Version, Commit
  <2>5. d.lastCommitCID # NoCommit => Pages(d.lastCommitCID) \in Nat
    BY <2>4, PagesType DEF Version
  <2> HIDE DEF p
  <2>6. Whole(p)
    BY <2>3, <2>4, <2>5 DEF Whole
  <2> HIDE DEF c
  <2>7. WholePull(r)
    BY <1>0, <2>1, <2>6 DEF WholePull
  <2> QED
    BY <2>2, <2>7, WholeUpdate
<1> QED
  BY <1>1, <1>2, <1>3, <1>4, <1>5

(* linksLost remembers: no step resets it.                                 *)
LEMMA LinksRemembered ==
    ASSUME [Next]_vars, ~linksLost'
    PROVE  ~linksLost /\ \A n \in Node, t \in Thread : ~LinksEmpty(n, t)
<1>1. ASSUME NEW kind, Failing(kind) PROVE ~linksLost /\ kind # "links"
  BY <1>1 DEF Failing
<1>2. ASSUME NEW m, NEW v, ResolveIPNS(m, v) PROVE ~linksLost
  BY <1>1, <1>2 DEF ResolveIPNS
<1>3. ASSUME NEW n \in Node, NEW t \in Thread, LinksEmpty(n, t) PROVE FALSE
  BY <1>1, <1>3 DEF LinksEmpty
<1>4. ASSUME NEW n \in Node, Failure(n) PROVE ~linksLost
  BY <1>1, <1>4 DEF Failure, StoreFails, SyncDeadline, Restart, CheckFails,
                    ResolveFails, LinksEmpty, PageFails
<1>5. ASSUME NEW n \in Node, NEW t \in Thread, PullStep(n, t) PROVE ~linksLost
  <2>1. CASE Compare(n, t) \/ Resolve(n, t)
    BY <1>2, <2>1 DEF Compare, Resolve
  <2>2. CASE Begin(n, t) \/ ReadPage(n, t) \/ Commits(n, t)
    BY <2>2 DEF Begin, ReadPage, Commits, counters
  <2> QED
    BY <1>5, <2>1, <2>2 DEF PullStep
<1>6. ASSUME NEW n \in Node,
             \/ \E k \in Key : StoreAppend(n, k)
             \/ StoreStep(n) \/ Iterate(n)
             \/ \E m \in Node : UpdateMapping(n, m)
             \/ \E t \in Handler, m \in Node : PropagateWrite(n, t, m)
      PROVE  ~linksLost
  BY <1>6 DEF StoreAppend, StoreStep, StorePublish, StoreFinish, Iterate,
              UpdateMapping, PropagateWrite, counters
<1>7. ASSUME NEW n \in Node,
             \/ \E p \in Node, k \in Key : Sync(n, p, k)
             \/ SyncRecord(n)
             \/ \E p \in Node : UpdateIndexDirectory(n, p)
      PROVE  ~linksLost
  BY <1>7 DEF Sync, SyncRecord, UpdateIndexDirectory, counters
<1>8. ASSUME Next PROVE ~linksLost
  BY <1>4, <1>5, <1>6, <1>7, <1>8 DEF Next
<1>9. ASSUME UNCHANGED vars PROVE ~linksLost
  BY <1>9 DEF vars
<1> QED
  BY <1>3, <1>8, <1>9

LEMMA PullsWhole ==
    ASSUME Typed, AllWhole, [Next]_vars, ~linksLost'
    PROVE  \A m \in Node, u \in Thread : WholePull(pull'[m][u])
<1>0. /\ pull \in [Node -> [Thread -> Pull]]
      /\ \A n \in Node, t \in Thread : WholePull(pull[n][t])
  BY DEF Typed, TypeOK, AllWhole
<1>1. CASE UNCHANGED pull
  BY <1>0, <1>1
<1>2. ASSUME NEW n \in Node, Restart(n)
      PROVE  \A m \in Node, u \in Thread : WholePull(pull'[m][u])
  <2>1. \A m \in Node, u \in Thread :
           pull'[m][u] = IF m = n THEN NoPull ELSE pull[m][u]
    BY <1>0, <1>2 DEF Restart
  <2> QED
    BY <1>0, <2>1, NoneWhole
<1>3. ASSUME NEW n \in Node, Iterate(n)
      PROVE  \A m \in Node, u \in Thread : WholePull(pull'[m][u])
  <2> DEFINE c == pull[n][Worker]
             r == [c EXCEPT !.todo = nodesTxt[n]]
  <2>1. c \in Pull /\ WholePull(c)
    BY <1>0, ConstantFacts
  <2>2. pull' = [pull EXCEPT ![n][Worker] = r]
    BY <1>3 DEF Iterate
  <2> HIDE DEF c
  <2>3. /\ r.pc = c.pc /\ r.progress = c.progress /\ r.pages = c.pages
        /\ r.remote = c.remote
    BY <2>1 DEF Pull
  <2> HIDE DEF r
  <2>4. WholePull(r)
    BY <2>1, <2>3 DEF WholePull
  <2> QED
    BY <2>2, <2>4, WholeUpdate, ConstantFacts
<1>4. ASSUME NEW n \in Node, NEW t \in Thread,
             \/ \E m \in Node : UpdateMapping(n, m) /\ t = Worker
             \/ \E m \in Node : PropagateWrite(n, t, m)
             \/ Compare(n, t) \/ Begin(n, t) \/ Commits(n, t)
             \/ CheckFails(n, t) \/ ResolveFails(n, t) \/ PageFails(n, t)
      PROVE  \A m \in Node, u \in Thread : WholePull(pull'[m][u])
  <2>1. \/ Done(n, t)
        \/ PullRemoteState(n, t) /\ pull[n][t].pc # "idle"
        \/ \E m \in Node : Check(n, t, m)
    BY <1>4 DEF UpdateMapping, PropagateWrite, Compare, Begin, Commits, CheckFails,
                ResolveFails, PageFails, Save, At
  <2> QED
    BY <2>1, ThreadWhole
<1>5. ASSUME NEW n \in Node, Pulls(n)
      PROVE  \A m \in Node, u \in Thread : WholePull(pull'[m][u])
  BY <1>2, <1>3, <1>4, <1>5, ThreadWhole, ConstantFacts, LinksRemembered
     DEF Pulls, PullStep
<1> QED
  BY <1>1, <1>5, Frames

LEMMA ProgressWhole ==
    ASSUME Typed, AllWhole, [Next]_vars
    PROVE  \A a, b \in Node : Whole(discoverProgress'[a][b])
<1> DEFINE Goal == \A a, b \in Node : Whole(discoverProgress'[a][b])
<1>0. /\ discoverProgress \in [Node -> [Node -> Progress]]
      /\ \A a, b \in Node : Whole(discoverProgress[a][b])
  BY DEF Typed, TypeOK, AllWhole
<1>1. ASSUME NEW n \in Node, NEW m \in Node, NEW p, Whole(p),
             discoverProgress' = [discoverProgress EXCEPT ![n][m] = p]
      PROVE  Goal
  <2>1. \A a, b \in Node :
           discoverProgress'[a][b] =
               IF a = n /\ b = m THEN p ELSE discoverProgress[a][b]
    BY <1>0, <1>1
  <2> QED
    BY <1>0, <1>1, <2>1
<1>2. ASSUME NEW n \in Node, StoreFinish(n) PROVE Goal
  <2> DEFINE d == discoverProgress[n][n]
             p == [d EXCEPT !.tracked = TRUE, !.lastCommitCID = NoCommit]
  <2>1. d \in Progress
    BY <1>0
  <2>2. discoverProgress' = [discoverProgress EXCEPT ![n][n] = p]
    BY <1>2 DEF StoreFinish
  <2> HIDE DEF d
  <2>3. p.lastCommitCID = NoCommit
    BY <2>1 DEF Progress
  <2> HIDE DEF p
  <2>4. Whole(p)
    BY <2>3 DEF Whole
  <2> HIDE DEF Goal
  <2> QED
    BY <1>1, <2>2, <2>4
<1>3. ASSUME NEW n \in Node, NEW t \in Thread, NEW q \in Progress, Save(n, t, q),
             pull[n][t].pc # "idle", Whole(q)
      PROVE  Goal
  <2> DEFINE p == [q EXCEPT !.tracked = TRUE]
             m == pull[n][t].of
  <2>1. /\ p.nextReadPage = q.nextReadPage
        /\ p.lastCommitCID = q.lastCommitCID
    BY DEF Progress
  <2>2. discoverProgress' = [discoverProgress EXCEPT ![n][m] = p] /\ m \in Node
    BY <1>3 DEF Save, Typed, PullNamed
  <2> HIDE DEF p, m
  <2>3. Whole(p)
    BY <1>3, <2>1 DEF Whole
  <2> HIDE DEF Goal
  <2> QED
    BY <1>1, <2>2, <2>3
<1>4. ASSUME NEW n \in Node, NEW t \in Thread,
             Commits(n, t) \/ ResolveFails(n, t) \/ PageFails(n, t)
      PROVE  Goal
  <2> DEFINE c == pull[n][t]
  <2>1. /\ c.progress \in Progress /\ c.remote \in Version /\ WholePull(c)
        /\ c.pages \in Nat
    BY DEF Typed, TypeOK, Pull, AllWhole, Version
  <2>2. Committed(c) \in Progress
    BY <2>1, ProgressChanges DEF Committed, Commit
  <2>3. /\ Committed(c).nextReadPage = c.progress.nextReadPage
        /\ Committed(c).lastCommitCID = c.remote
        /\ c.progress.nextReadPage \in Nat
    <3> HIDE DEF c
    <3> QED
      BY <2>1 DEF Committed, Progress, Version
  <2>4. c.pc # "idle"
    BY <1>4 DEF Commits, ResolveFails, PageFails, At
  <2>5. CASE Commits(n, t)
    <3>1. /\ Save(n, t, Committed(c)) /\ c.pc = "page"
          /\ c.progress.nextReadPage >= c.pages
      BY <2>5 DEF Commits, At
    <3>2. Pages(c.remote) <= c.progress.nextReadPage
      <4> HIDE DEF c
      <4> QED
        BY <2>1, <2>3, <3>1 DEF WholePull
    <3>3. Whole(Committed(c))
      BY <2>3, <3>2 DEF Whole
    <3> HIDE DEF Goal
    <3> QED
      BY <1>3, <2>2, <2>4, <3>1, <3>3
  <2>6. CASE ResolveFails(n, t) \/ PageFails(n, t)
    <3>1. Save(n, t, c.progress) /\ Whole(c.progress)
      BY <2>1, <2>6 DEF ResolveFails, PageFails, WholePull
    <3> HIDE DEF Goal
    <3> QED
      BY <1>3, <2>1, <2>4, <3>1
  <2> HIDE DEF Goal
  <2> QED
    BY <1>4, <2>5, <2>6
<1>5. ASSUME NEW n \in Node, Restart(n) PROVE Goal
  <2>1. \A a, b \in Node :
           discoverProgress'[a][b] =
               IF a = n THEN NoProgress ELSE discoverProgress[a][b]
    BY <1>0, <1>5 DEF Restart, Forgets
  <2> QED
    BY <1>0, <2>1, NoneWhole
<1> QED
  BY <1>0, <1>2, <1>4, <1>5, ProgressFrames

(* No page of a committed directory is left out, for any number of entries *)
(* on a page, however pulls of one name overlap, fail, resume and resolve  *)
(* to older versions, until the links of a directory are lost              *)
(* (ipfs.go:472-513).                                                      *)
THEOREM CommitsReadPages == Spec => []CommitReadsPages
<1> DEFINE Inv == linksLost \/ AllWhole
<1>1. Init => Inv
  BY NoneWhole DEF Init, AllWhole
<1>2. SourceInv /\ Inv /\ [Next]_vars => Inv'
  <2> SUFFICES ASSUME SourceInv, Inv, [Next]_vars, ~linksLost' PROVE AllWhole'
    OBVIOUS
  <2>1. Typed /\ AllWhole
    BY LinksRemembered DEF SourceInv
  <2>2. \A a, b \in Node : Whole(discoverProgress'[a][b])
    BY <2>1, ProgressWhole
  <2>3. \A m \in Node, u \in Thread : WholePull(pull'[m][u])
    BY <2>1, PullsWhole
  <2> QED
    BY <2>2, <2>3 DEF AllWhole, Whole, WholePull, Pages
<1>3. SourceInv /\ ProgressHonest /\ Inv => CommitReadsPages
  <2> SUFFICES ASSUME SourceInv, ProgressHonest, Inv, ~linksLost,
                      NEW n \in Node, NEW m \in Node,
                      discoverProgress[n][m].lastCommitCID # NoCommit,
                      NEW page \in
                          0 .. Pages(discoverProgress[n][m].lastCommitCID) - 1
               PROVE  log[m][page * PageCapacity + 1] \in Known(n)
    BY DEF CommitReadsPages
  <2> DEFINE p == discoverProgress[n][m]
  <2>1. p \in Progress /\ Whole(p) /\ p.lastCommitCID # NoCommit
    BY DEF SourceInv, Typed, TypeOK, AllWhole
  <2>2. page \in 0 .. p.nextReadPage - 1
    <3>1. page \in 0 .. Pages(p.lastCommitCID) - 1
      OBVIOUS
    <3> HIDE DEF p
    <3>2. p.lastCommitCID \in Version /\ p.nextReadPage \in Nat
      BY <2>1 DEF Progress, Commit, Version
    <3>3. Pages(p.lastCommitCID) <= p.nextReadPage
      BY <2>1 DEF Whole
    <3>4. Pages(p.lastCommitCID) \in Nat
      BY <3>2, PagesType DEF Version
    <3> QED
      BY <3>1, <3>2, <3>3, <3>4
  <2> QED
    BY <2>2 DEF ProgressHonest
<1> QED
  BY <1>1, <1>2, <1>3, SourceInit, SourceNext, ProgressIsHonest, PTL DEF Spec
=============================================================================
