--------------------------- MODULE NodeIndexProofs ---------------------------
(***************************************************************************)
(* Theorems about the index directory, for every number of nodes, entries, *)
(* retries and failures.  All but type correctness assume that no size     *)
(* query fails: its error is dropped, and the file overwritten.            *)
(***************************************************************************)
EXTENDS NodeIndex, SequenceTheorems, FiniteSetTheorems, TLAPS

-----------------------------------------------------------------------------
(* Lemmas about files.                                                     *)

LEMMA WriteAtType ==
    ASSUME NEW S, NEW f \in Seq(S), NEW b \in Seq(S), NEW o \in 0 .. Len(f)
    PROVE  WriteAt(f, o, b) \in Seq(S)
<1>1. Len(f) \in Nat /\ Len(b) \in Nat /\ o \in Nat
  BY LenProperties
<1>2. \A i \in 1 .. Len(f) : f[i] \in S
  BY ElementOfSeq
<1>3. SubSeq(f, 1, o) \in Seq(S)
  BY <1>1, <1>2, SubSeqProperties
<1>4. SubSeq(f, o + Len(b) + 1, Len(f)) \in Seq(S)
  BY <1>1, <1>2, SubSeqProperties
<1> QED
  BY <1>3, <1>4, ConcatProperties DEF WriteAt

(* At the end of a file, a write appends.                                  *)
LEMMA WriteAtEnd ==
    ASSUME NEW S, NEW f \in Seq(S), NEW b \in Seq(S)
    PROVE  WriteAt(f, Len(f), b) = f \o b
<1>1. Len(f) \in Nat /\ Len(b) \in Nat
  BY LenProperties
<1>2. SubSeq(f, 1, Len(f)) = f
  BY SubSeqFull
<1>3. SubSeq(f, Len(f) + Len(b) + 1, Len(f)) = << >>
  BY <1>1, SubSeqEmpty
<1>4. f \o b \in Seq(S)
  BY ConcatProperties
<1> QED
  BY <1>2, <1>3, <1>4, ConcatEmptySeq DEF WriteAt

(* A prefix, entry by entry.                                               *)
LEMMA PrefixIntro ==
    ASSUME NEW S, NEW s \in Seq(S), NEW t \in Seq(S), Len(s) <= Len(t),
           \A i \in 1 .. Len(s) : s[i] = t[i]
    PROVE  IsPrefix(s, t)
<1>1. Len(s) \in Nat /\ Len(t) \in Nat
  BY LenProperties
<1>2. \A i \in 1 .. Len(s) : s[i] \in S /\ t[i] \in S
  BY <1>1, ElementOfSeq
<1>3. /\ SubSeq(t, 1, Len(s)) \in Seq(S)
      /\ Len(SubSeq(t, 1, Len(s))) = Len(s)
      /\ \A i \in 1 .. Len(s) : SubSeq(t, 1, Len(s))[i] = t[i]
  <2>1. /\ SubSeq(t, 1, Len(s)) \in Seq(S)
        /\ Len(SubSeq(t, 1, Len(s))) = IF 1 <= Len(s) THEN Len(s) - 1 + 1 ELSE 0
        /\ \A i \in 1 .. Len(s) - 1 + 1 :
               SubSeq(t, 1, Len(s))[i] = t[1 + i - 1]
    BY <1>1, <1>2, SubSeqProperties
  <2> QED
    BY <2>1, <1>1
<1>4. SubSeq(t, 1, Len(s)) = s
  BY <1>3, SeqEqual
<1>5. SubSeq(s, 1, Len(s)) = s
  BY SubSeqFull
<1> QED
  BY <1>4, <1>5 DEF IsPrefix

LEMMA PrefixElim ==
    ASSUME NEW S, NEW s \in Seq(S), NEW t \in Seq(S), IsPrefix(s, t)
    PROVE  Len(s) <= Len(t) /\ \A i \in 1 .. Len(s) : s[i] = t[i]
<1>1. Len(s) \in Nat /\ Len(t) \in Nat /\ Len(s) <= Len(t)
  BY LenProperties DEF IsPrefix
<1>2. \A i \in 1 .. Len(s) : t[i] \in S
  BY <1>1, ElementOfSeq
<1>3. \A i \in 1 .. Len(s) - 1 + 1 : SubSeq(t, 1, Len(s))[i] = t[1 + i - 1]
  BY <1>1, <1>2, SubSeqProperties
<1>4. SubSeq(t, 1, Len(s)) = s
  BY SubSeqFull DEF IsPrefix
<1> QED
  BY <1>1, <1>3, <1>4

LEMMA PrefixReflexive ==
    ASSUME NEW S, NEW s \in Seq(S) PROVE IsPrefix(s, s)
  BY LenProperties, PrefixIntro

LEMMA PrefixTransitive ==
    ASSUME NEW S, NEW s \in Seq(S), NEW t \in Seq(S), NEW u \in Seq(S),
           IsPrefix(s, t), IsPrefix(t, u)
    PROVE  IsPrefix(s, u)
<1>1. Len(s) \in Nat /\ Len(t) \in Nat /\ Len(u) \in Nat
  BY LenProperties
<1>2. Len(s) <= Len(t) /\ \A i \in 1 .. Len(s) : s[i] = t[i]
  BY PrefixElim
<1>3. Len(t) <= Len(u) /\ \A i \in 1 .. Len(t) : t[i] = u[i]
  BY PrefixElim
<1>4. Len(s) <= Len(u) /\ \A i \in 1 .. Len(s) : s[i] = u[i]
  BY <1>1, <1>2, <1>3
<1> QED
  BY <1>4, PrefixIntro

(* What a prefix lists, the whole lists.                                   *)
LEMMA PrefixNames ==
    ASSUME NEW S, NEW s \in Seq(S), NEW t \in Seq(S), IsPrefix(s, t)
    PROVE  Names(s) \subseteq Names(t)
<1>1. DOMAIN s = 1 .. Len(s) /\ DOMAIN t = 1 .. Len(t)
      /\ Len(s) \in Nat /\ Len(t) \in Nat
  BY LenProperties
<1>2. Len(s) <= Len(t) /\ \A i \in 1 .. Len(s) : s[i] = t[i]
  BY PrefixElim
<1> QED
  BY <1>1, <1>2 DEF Names, ToSet

LEMMA AppendedPrefix ==
    ASSUME NEW S, NEW f \in Seq(S), NEW b \in Seq(S)
    PROVE  f \o b \in Seq(S) /\ IsPrefix(f, f \o b)
<1>1. /\ f \o b \in Seq(S) /\ Len(f \o b) = Len(f) + Len(b)
      /\ \A i \in 1 .. Len(f) + Len(b) :
             (f \o b)[i] = IF i <= Len(f) THEN f[i] ELSE b[i - Len(f)]
  BY ConcatProperties
<1>2. Len(f) \in Nat /\ Len(b) \in Nat
  BY LenProperties
<1>3. Len(f) <= Len(f \o b) /\ \A i \in 1 .. Len(f) : f[i] = (f \o b)[i]
  BY <1>1, <1>2
<1> QED
  BY <1>1, <1>3, PrefixIntro

LEMMA AppendedName ==
    ASSUME NEW S, NEW f \in Seq(S), NEW x \in S
    PROVE  x \in Names(f \o <<x>>)
<1>1. <<x>> \in Seq(S) /\ Len(<<x>>) = 1 /\ <<x>>[1] = x
  OBVIOUS
<1>2. /\ f \o <<x>> \in Seq(S) /\ Len(f \o <<x>>) = Len(f) + 1
      /\ \A i \in 1 .. Len(f) + 1 :
             (f \o <<x>>)[i] = IF i <= Len(f) THEN f[i] ELSE <<x>>[i - Len(f)]
  BY <1>1, ConcatProperties
<1>3. Len(f) \in Nat /\ DOMAIN (f \o <<x>>) = 1 .. Len(f) + 1
  BY <1>2, LenProperties
<1>4. (f \o <<x>>)[Len(f) + 1] = x /\ Len(f) + 1 \in DOMAIN (f \o <<x>>)
  BY <1>1, <1>2, <1>3
<1> QED
  BY <1>4 DEF Names, ToSet

(* The orders in which a set of names can be written are lists of names.   *)
LEMMA BatchType ==
    ASSUME NEW names \in SUBSET Node, NEW batch \in SetToSeqs(names)
    PROVE  batch \in Seq(Node)
<1>1. Cardinality(names) \in Nat
  BY IndexAssumption, FS_Subset, FS_CardinalityType
<1>2. batch \in [1 .. Cardinality(names) -> names]
  BY DEF SetToSeqs
<1>3. batch \in [1 .. Cardinality(names) -> Node]
  BY <1>2
<1> QED
  BY <1>1, <1>3, IsASeq

LEMMA NamesType ==
    ASSUME NEW f \in Seq(Node) PROVE Names(f) \subseteq Node
  BY ElementOfSeq, LenProperties DEF Names, ToSet

-----------------------------------------------------------------------------
(* Type correctness, whatever fails.                                       *)

LEMMA ConstantFacts ==
    /\ MaxFaults \in Nat /\ 0 \in 0 .. MaxFaults /\ MaxRetry \in Nat
    /\ NewProc \in Proc
  BY IndexAssumption, EmptySeq DEF NewProc, Proc, PC

(* What the actions change of a goroutine leaves it one.                   *)
LEMMA ProcMoved ==
    ASSUME NEW r \in Proc, NEW label \in PC PROVE [r EXCEPT !.pc = label] \in Proc
  BY DEF Proc

LEMMA ProcRetried ==
    ASSUME NEW r \in Proc PROVE [r EXCEPT !.tries = r.tries + 1] \in Proc
  BY DEF Proc

LEMMA ProcChanges ==
    ASSUME NEW r \in Proc, NEW label \in PC, NEW batch \in Seq(Node),
           NEW todo \in SUBSET Node
    PROVE  /\ [r EXCEPT !.todo = todo] \in Proc
           /\ [r EXCEPT !.pc = label, !.batch = batch] \in Proc
           /\ [r EXCEPT !.pc = label, !.batch = batch, !.tries = 0] \in Proc
           /\ [r EXCEPT !.pc = label, !.batch = batch, !.tries = 0,
                        !.todo = todo] \in Proc
<1>1. [r EXCEPT !.todo = todo] \in Proc
  BY DEF Proc
<1>2. [r EXCEPT !.pc = label, !.batch = batch] \in Proc
  BY DEF Proc
<1>3. [r EXCEPT !.pc = label, !.batch = batch, !.tries = 0] \in Proc
  BY DEF Proc
<1>4. [r EXCEPT !.pc = label, !.batch = batch, !.tries = 0, !.todo = todo]
          \in Proc
  BY DEF Proc
<1> QED
  BY <1>1, <1>2, <1>3, <1>4

LEMMA ProcUpdate ==
    ASSUME proc \in [Node -> Proc], NEW n \in Node, NEW r \in Proc,
           proc' = [proc EXCEPT ![n] = r]
    PROVE  proc' \in [Node -> Proc]
  OBVIOUS

LEMMA GotoType ==
    ASSUME proc \in [Node -> Proc], NEW n \in Node, NEW label \in PC, Goto(n, label)
    PROVE  proc' \in [Node -> Proc]
<1>1. proc' = [proc EXCEPT ![n] = [proc[n] EXCEPT !.pc = label]]
  BY DEF Goto
<1>2. [proc[n] EXCEPT !.pc = label] \in Proc
  BY ProcMoved
<1> QED
  BY <1>1, <1>2, ProcUpdate

LEMMA FailingType ==
    ASSUME faults \in 0 .. MaxFaults, NEW kind, Failing(kind)
    PROVE  faults' \in 0 .. MaxFaults
  BY ConstantFacts DEF Failing

LEMMA WriteType ==
    ASSUME TypeOK, NEW n \in Node, Write(n) \/ WriteUnsized(n) \/ WriteFails(n)
    PROVE  file' \in [Node -> Seq(Node)] /\ faults' \in 0 .. MaxFaults
<1>1. /\ file[n] \in Seq(Node) /\ proc[n].batch \in Seq(Node)
      /\ Len(file[n]) \in 0 .. Len(file[n]) /\ 0 \in 0 .. Len(file[n])
  BY LenProperties DEF TypeOK, Proc
<1>2. /\ WriteAt(file[n], Len(file[n]), proc[n].batch) \in Seq(Node)
      /\ WriteAt(file[n], 0, proc[n].batch) \in Seq(Node)
  BY <1>1, WriteAtType
<1>3. faults' \in 0 .. MaxFaults
  BY FailingType DEF TypeOK, Write, WriteUnsized, WriteFails
<1>4. file' \in [Node -> Seq(Node)]
  BY <1>2 DEF TypeOK, Write, WriteUnsized, WriteFails
<1> QED
  BY <1>3, <1>4

LEMMA PublishType ==
    ASSUME TypeOK, NEW n \in Node, PublishNodes(n) PROVE nodes' \in [Node -> Seq(Node)]
  BY DEF TypeOK, PublishNodes

LEMMA TypeInit == Init => TypeOK
  BY ConstantFacts, EmptySeq DEF Init, TypeOK

LEMMA TypeNext == TypeOK /\ [Next]_vars => TypeOK'
<1> SUFFICES ASSUME TypeOK, [Next]_vars PROVE TypeOK'
  OBVIOUS
<1>0. /\ proc \in [Node -> Proc] /\ faults \in 0 .. MaxFaults
      /\ file \in [Node -> Seq(Node)] /\ nodes \in [Node -> Seq(Node)]
  BY DEF TypeOK
<1>1. ASSUME NEW n \in Node, Clean(n) PROVE TypeOK'
  <2>1. <<n>> \in Seq(Node)
    OBVIOUS
  <2>2. proc' = [proc EXCEPT ![n] =
                    [proc[n] EXCEPT !.pc = "own", !.batch = <<n>>]]
    BY <1>1 DEF Clean
  <2>3. proc' \in [Node -> Proc]
    <3>1. [proc[n] EXCEPT !.pc = "own", !.batch = <<n>>] \in Proc
      BY <1>0, <2>1, ProcChanges DEF PC
    <3> QED
      BY <1>0, <2>2, <3>1, ProcUpdate
  <2> QED
    BY <1>0, <1>1, <2>3, EmptySeq DEF Clean, TypeOK
<1>2. ASSUME NEW n \in Node, AppendOwn(n) \/ JoinAppend(n) \/ AppendRecords(n)
      PROVE  TypeOK'
  <2>1. proc' \in [Node -> Proc]
    BY <1>0, <1>2, GotoType DEF AppendOwn, JoinAppend, AppendRecords, PC
  <2>2. (Write(n) \/ WriteUnsized(n)) /\ UNCHANGED nodes
    BY <1>2 DEF AppendOwn, JoinAppend, AppendRecords
  <2> QED
    BY <1>0, <2>1, <2>2, WriteType DEF TypeOK
<1>3. ASSUME NEW n \in Node, AppendOwnFails(n) PROVE TypeOK'
  BY <1>0, <1>3, WriteType, ConstantFacts DEF AppendOwnFails, TypeOK
<1>4. ASSUME NEW n \in Node, PublishOwn(n) \/ JoinPublish(n) \/ Publish(n)
      PROVE  TypeOK'
  <2>1. proc' \in [Node -> Proc]
    BY <1>0, <1>4, GotoType DEF PublishOwn, JoinPublish, Publish, PC
  <2> QED
    BY <1>0, <1>4, <2>1, PublishType
       DEF PublishOwn, JoinPublish, Publish, TypeOK
<1>5. ASSUME NEW n \in Node, LonelyInitFails(n) \/ Crash(n) PROVE TypeOK'
  BY <1>0, <1>5, FailingType, ConstantFacts DEF LonelyInitFails, Crash, TypeOK
<1>6. ASSUME NEW n \in Node, Join(n) PROVE TypeOK'
  <2>1. PICK members \in SUBSET {p \in Node \ {n} : Serving(p)} :
            LET names == UNION {Names(nodes[p]) : p \in members}
            IN  \E valid \in SUBSET names :
                    /\ Validated(names, valid)
                    /\ \E batch \in SetToSeqs(valid) :
                          proc' = [proc EXCEPT ![n].pc = "joinAppend",
                                               ![n].batch = batch,
                                               ![n].tries = 0]
    BY <1>6 DEF Join
  <2> DEFINE names == UNION {Names(nodes[p]) : p \in members}
  <2>2. PICK valid \in SUBSET names :
            /\ Validated(names, valid)
            /\ \E batch \in SetToSeqs(valid) :
                  proc' = [proc EXCEPT ![n].pc = "joinAppend",
                                       ![n].batch = batch, ![n].tries = 0]
    BY <2>1
  <2>3. PICK batch \in SetToSeqs(valid) :
            proc' = [proc EXCEPT ![n].pc = "joinAppend",
                                 ![n].batch = batch, ![n].tries = 0]
    BY <2>2
  <2>4. names \subseteq Node
    BY <1>0, NamesType
  <2>5. batch \in Seq(Node)
    BY <2>4, BatchType
  <2>6. proc' \in [Node -> Proc]
    <3>1. [proc[n] EXCEPT !.pc = "joinAppend", !.batch = batch, !.tries = 0]
              \in Proc
      BY <1>0, <2>5, ProcChanges DEF PC
    <3>2. proc' = [proc EXCEPT ![n] =
              [proc[n] EXCEPT !.pc = "joinAppend", !.batch = batch, !.tries = 0]]
      BY <2>3
    <3> QED
      BY <1>0, <3>1, <3>2, ProcUpdate
  <2>7. faults' \in 0 .. MaxFaults
    BY <1>0, <2>2, FailingType DEF Validated
  <2> QED
    BY <1>0, <1>6, <2>6, <2>7 DEF Join, TypeOK
<1>7. ASSUME NEW n \in Node, JoinSkipped(n) PROVE TypeOK'
  <2>1. proc' \in [Node -> Proc]
    BY <1>0, <1>7, GotoType DEF JoinSkipped, PC
  <2> QED
    BY <1>0, <1>7, <2>1, FailingType DEF JoinSkipped, TypeOK
<1>8. ASSUME NEW n \in Node, Iterate(n) PROVE TypeOK'
  <2>1. [proc[n] EXCEPT !.todo = Node \ {n}] \in Proc
    BY <1>0, ProcChanges DEF PC
  <2>2. proc' = [proc EXCEPT ![n] = [proc[n] EXCEPT !.todo = Node \ {n}]]
    BY <1>8 DEF Iterate
  <2>3. proc' \in [Node -> Proc]
    BY <1>0, <2>1, <2>2, ProcUpdate
  <2> QED
    BY <1>0, <1>8, <2>3 DEF Iterate, TypeOK
<1>9. ASSUME NEW n \in Node, NEW p \in Node, Merge(n, p) \/ MergeSkipped(n, p)
      PROVE  TypeOK'
  <2>1. CASE Merge(n, p)
    <3>1. PICK valid \in SUBSET Names(nodes[p]) :
              /\ Validated(Names(nodes[p]), valid)
              /\ \E batch \in SetToSeqs(NewNames(n, valid)) :
                    proc' = [proc EXCEPT ![n].pc = "append",
                                         ![n].batch = batch,
                                         ![n].tries = 0,
                                         ![n].todo = @ \ {p}]
      BY <2>1 DEF Merge
    <3>2. PICK batch \in SetToSeqs(NewNames(n, valid)) :
              proc' = [proc EXCEPT ![n].pc = "append", ![n].batch = batch,
                                   ![n].tries = 0, ![n].todo = @ \ {p}]
      BY <3>1
    <3>3. NewNames(n, valid) \subseteq Node
      BY <1>0, NamesType DEF NewNames
    <3>4. batch \in Seq(Node)
      BY <3>3, BatchType
    <3>5. proc' \in [Node -> Proc]
      <4> DEFINE todo == proc[n].todo \ {p}
                 moved == [proc[n] EXCEPT !.pc = "append", !.batch = batch,
                                          !.tries = 0, !.todo = todo]
      <4>1. todo \in SUBSET Node
        BY <1>0 DEF Proc
      <4>2. moved \in Proc
        BY <1>0, <3>4, <4>1, ProcChanges DEF PC
      <4>3. proc' = [proc EXCEPT ![n] = moved]
        BY <3>2
      <4> QED
        BY <1>0, <4>2, <4>3, ProcUpdate
    <3>6. faults' \in 0 .. MaxFaults
      BY <1>0, <3>1, FailingType DEF Validated
    <3> QED
      BY <1>0, <2>1, <3>5, <3>6 DEF Merge, TypeOK
  <2>2. CASE MergeSkipped(n, p)
    <3>1. proc' \in [Node -> Proc]
      <4> DEFINE todo == proc[n].todo \ {p}
      <4>1. todo \in SUBSET Node
        BY <1>0 DEF Proc
      <4>2. [proc[n] EXCEPT !.todo = todo] \in Proc
        BY <1>0, <4>1, ProcChanges DEF PC
      <4>3. proc' = [proc EXCEPT ![n] = [proc[n] EXCEPT !.todo = todo]]
        BY <2>2 DEF MergeSkipped
      <4> QED
        BY <1>0, <4>2, <4>3, ProcUpdate
    <3>2. faults' \in 0 .. MaxFaults
      BY <1>0, <2>2, FailingType DEF MergeSkipped
    <3> QED
      BY <1>0, <2>2, <3>1, <3>2 DEF MergeSkipped, TypeOK
  <2> QED
    BY <1>9, <2>1, <2>2
<1>10. ASSUME NEW n \in Node, AppendFails(n) PROVE TypeOK'
  <2>1. proc' \in [Node -> Proc]
    <3>1. CASE proc[n].tries < MaxRetry
      <4>1. [proc[n] EXCEPT !.tries = proc[n].tries + 1] \in Proc
        BY <1>0, ProcRetried
      <4>2. proc' = [proc EXCEPT ![n] = [proc[n] EXCEPT !.tries = proc[n].tries + 1]]
        BY <1>10, <3>1 DEF AppendFails, Retry
      <4> QED
        BY <1>0, <4>1, <4>2, ProcUpdate
    <3>2. CASE ~(proc[n].tries < MaxRetry)
      BY <1>0, <1>10, <3>2, GotoType DEF AppendFails, Retry, PC
    <3> QED
      BY <3>1, <3>2
  <2> QED
    BY <1>0, <1>10, <2>1, WriteType DEF AppendFails, TypeOK
<1>11. ASSUME NEW n \in Node, PublishFails(n) PROVE TypeOK'
  <2>1. proc' \in [Node -> Proc]
    BY <1>0, <1>11, GotoType DEF PublishFails, PC
  <2>2. faults' \in 0 .. MaxFaults
    BY <1>0, <1>11, FailingType DEF PublishFails
  <2> QED
    BY <1>0, <1>11, <2>1, <2>2, PublishType DEF PublishFails, TypeOK
<1>12. CASE UNCHANGED vars
  BY <1>12 DEF vars, TypeOK
<1> QED
  BY <1>1, <1>2, <1>3, <1>4, <1>5, <1>6, <1>7, <1>8, <1>9, <1>10, <1>11, <1>12
     DEF Next, Step, Failure

(* All variables of the index directory keep their types.                  *)
THEOREM TypeCorrect == Spec => []TypeOK
<1> QED
  BY TypeInit, TypeNext, PTL DEF Spec

-----------------------------------------------------------------------------
(* What a node lists and serves.  Lists strengthens the two invariants by  *)
(* what lonelyInit is about to write; all of it concerns one node, and no  *)
(* node touches the files of another.                                      *)

Starting == {"clean", "own", "publishOwn"}

Lists(n) ==
    /\ At(n, "own") => proc[n].batch = <<n>>
    /\ proc[n].pc \notin {"clean", "own"} => n \in Names(file[n])
    /\ proc[n].pc \notin Starting =>
           n \in Names(nodes[n]) /\ IsPrefix(nodes[n], file[n])

IndexInv == TypeOK /\ \A n \in Node : Lists(n)

(* The size query answers, so an append keeps what is in the file.         *)
LEMMA FileGrows ==
    ASSUME TypeOK, "stat" \notin Fault, NEW n \in Node,
           Write(n) \/ WriteUnsized(n) \/ WriteFails(n)
    PROVE  /\ IsPrefix(file[n], file'[n])
           /\ \A m \in Node \ {n} : file'[m] = file[m]
<1>1. file \in [Node -> Seq(Node)] /\ file[n] \in Seq(Node)
      /\ proc[n].batch \in Seq(Node)
  BY DEF TypeOK, Proc
<1>2. WriteAt(file[n], Len(file[n]), proc[n].batch) = file[n] \o proc[n].batch
  BY <1>1, WriteAtEnd
<1>3. ~WriteUnsized(n)
  BY DEF WriteUnsized, Failing
<1>4. \/ file' = file
      \/ file' = [file EXCEPT ![n] = file[n] \o proc[n].batch]
  BY <1>2, <1>3 DEF Write, WriteFails
<1>5. IsPrefix(file[n], file[n] \o proc[n].batch)
  BY <1>1, AppendedPrefix
<1>6. IsPrefix(file[n], file[n])
  BY <1>1, PrefixReflexive
<1> QED
  BY <1>1, <1>4, <1>5, <1>6

(* A node that has started goes on serving a prefix that lists it, when    *)
(* its file grows, and when it publishes its file.                         *)
LEMMA ListsLater ==
    ASSUME IndexInv, TypeOK', NEW n \in Node,
           proc[n].pc \notin {"clean", "own"}, proc'[n].pc \notin Starting,
           IsPrefix(file[n], file'[n]),
           \/ proc[n].pc \notin Starting /\ nodes'[n] = nodes[n]
           \/ nodes'[n] = file[n]
    PROVE  Lists(n)'
<1>1. /\ file[n] \in Seq(Node) /\ file'[n] \in Seq(Node)
      /\ nodes[n] \in Seq(Node)
  BY DEF IndexInv, TypeOK
<1>2. n \in Names(file[n])
  BY DEF IndexInv, Lists
<1>3. n \in Names(file'[n])
  BY <1>1, <1>2, PrefixNames
<1>4. n \in Names(nodes'[n]) /\ IsPrefix(nodes'[n], file'[n])
  <2>1. CASE nodes'[n] = file[n]
    BY <1>2, <2>1
  <2>2. CASE proc[n].pc \notin Starting /\ nodes'[n] = nodes[n]
    <3>1. n \in Names(nodes[n]) /\ IsPrefix(nodes[n], file[n])
      BY <2>2 DEF IndexInv, Lists
    <3>2. IsPrefix(nodes[n], file'[n])
      BY <1>1, <3>1, PrefixTransitive
    <3> QED
      BY <2>2, <3>1, <3>2
  <2> QED
    BY <2>1, <2>2
<1> QED
  BY <1>3, <1>4 DEF Lists, At, Starting

(* What does not change for a node stays as it is.                         *)
LEMMA ListsUnchanged ==
    ASSUME NEW m \in Node, Lists(m),
           proc'[m] = proc[m], file'[m] = file[m], nodes'[m] = nodes[m]
    PROVE  Lists(m)'
  BY DEF Lists, At

LEMMA IndexInit == Init => IndexInv
<1> SUFFICES ASSUME Init PROVE IndexInv
  OBVIOUS
<1>1. \A n \in Node : proc[n].pc = "clean"
  BY DEF Init, NewProc
<1> QED
  BY <1>1, TypeInit DEF IndexInv, Lists, At, Starting

(* Each action of a node, for itself and for the others.                   *)
LEMMA IndexAction ==
    ASSUME IndexInv, TypeOK', "stat" \notin Fault, NEW n \in Node,
           Step(n) \/ Failure(n)
    PROVE  /\ Lists(n)'
           /\ \A m \in Node \ {n} : /\ proc'[m] = proc[m] /\ file'[m] = file[m]
                                    /\ nodes'[m] = nodes[m]
           /\ proc[n].pc \notin {"clean", "own"} => IsPrefix(file[n], file'[n])
<1>0. /\ proc \in [Node -> Proc] /\ file \in [Node -> Seq(Node)]
      /\ nodes \in [Node -> Seq(Node)] /\ file[n] \in Seq(Node)
  BY DEF IndexInv, TypeOK
<1>a. IsPrefix(file[n], file[n])
  BY <1>0, PrefixReflexive
<1> DEFINE Others == \A m \in Node \ {n} : /\ proc'[m] = proc[m]
                                         /\ file'[m] = file[m]
                                         /\ nodes'[m] = nodes[m]
           Grows == proc[n].pc \notin {"clean", "own"} =>
                        IsPrefix(file[n], file'[n])
<1> SUFFICES Lists(n)' /\ Others /\ Grows
  OBVIOUS
<1>1. CASE Clean(n)
  <2>1. proc'[n].pc = "own" /\ proc'[n].batch = <<n>>
    BY <1>0, <1>1 DEF Clean, Proc
  <2> QED
    BY <1>0, <1>1, <2>1 DEF Clean, Lists, At, Starting
<1>2. CASE AppendOwn(n)
  <2>1. proc'[n].pc = "publishOwn"
    BY <1>0, <1>2 DEF AppendOwn, Goto, Proc
  <2>2. Write(n) /\ proc[n].batch = <<n>>
    BY <1>2 DEF AppendOwn, WriteUnsized, Failing, IndexInv, Lists
  <2>3. file'[n] = file[n] \o <<n>>
    <3>1. <<n>> \in Seq(Node)
      OBVIOUS
    <3>2. WriteAt(file[n], Len(file[n]), <<n>>) = file[n] \o <<n>>
      BY <1>0, <3>1, WriteAtEnd
    <3> QED
      BY <1>0, <2>2, <3>2 DEF Write
  <2>4. n \in Names(file'[n])
    BY <1>0, <2>3, AppendedName
  <2> QED
    BY <1>0, <1>2, <2>1, <2>2, <2>4, FileGrows
       DEF AppendOwn, Goto, Lists, At, Starting, IndexInv
<1>3. CASE AppendOwnFails(n) \/ LonelyInitFails(n) \/ Crash(n)
  <2>1. proc' = [proc EXCEPT ![n] = NewProc] /\ nodes' = nodes
    BY <1>3 DEF AppendOwnFails, LonelyInitFails, Crash
  <2>2. proc'[n].pc = "clean"
    BY <1>0, <2>1 DEF NewProc
  <2>3. WriteFails(n) \/ file' = file
    BY <1>3 DEF AppendOwnFails, LonelyInitFails, Crash
  <2>4. /\ \A m \in Node \ {n} : file'[m] = file[m]
        /\ IsPrefix(file[n], file'[n])
    BY <1>a, <2>3, FileGrows DEF IndexInv
  <2> QED
    BY <1>0, <2>1, <2>2, <2>4 DEF Lists, At, Starting
<1>4. CASE PublishOwn(n) \/ JoinPublish(n) \/ Publish(n)
  <2>1. /\ proc[n].pc \in {"publishOwn", "joinPublish", "publish"}
        /\ proc'[n].pc \in {"join", "serve"}
    BY <1>0, <1>4 DEF PublishOwn, JoinPublish, Publish, At, Goto, Proc
  <2>2. /\ nodes' = [nodes EXCEPT ![n] = file[n]] /\ file' = file
        /\ \A m \in Node \ {n} : proc'[m] = proc[m]
    BY <1>0, <1>4 DEF PublishOwn, JoinPublish, Publish, PublishNodes, Goto
  <2> QED
    BY <1>0, <1>a, <2>1, <2>2, ListsLater DEF Starting
<1>5. CASE Join(n) \/ JoinSkipped(n) \/ Iterate(n)
  <2>1. /\ proc[n].pc \in {"join", "serve"} /\ file' = file /\ nodes' = nodes
    BY <1>5 DEF Join, JoinSkipped, Iterate, At
  <2>2. CASE Join(n)
    <3>1. PICK batch : proc' = [proc EXCEPT ![n].pc = "joinAppend",
                                            ![n].batch = batch, ![n].tries = 0]
      BY <2>2 DEF Join
    <3>2. proc'[n].pc = "joinAppend" /\ \A m \in Node \ {n} : proc'[m] = proc[m]
      BY <1>0, <3>1 DEF Proc
    <3> QED
      BY <1>a, <2>1, <3>2, ListsLater DEF Starting
  <2>3. CASE JoinSkipped(n)
    <3>1. proc'[n].pc = "serve" /\ \A m \in Node \ {n} : proc'[m] = proc[m]
      BY <1>0, <2>3 DEF JoinSkipped, Goto, Proc
    <3> QED
      BY <1>a, <2>1, <3>1, ListsLater DEF Starting
  <2>4. CASE Iterate(n)
    <3>1. proc'[n].pc = "serve" /\ \A m \in Node \ {n} : proc'[m] = proc[m]
      BY <1>0, <2>4 DEF Iterate, At, Proc
    <3> QED
      BY <1>a, <2>1, <3>1, ListsLater DEF Starting
  <2> QED
    BY <1>5, <2>2, <2>3, <2>4
<1>6. ASSUME NEW p \in Node, Merge(n, p) \/ MergeSkipped(n, p)
      PROVE  Lists(n)' /\ Others /\ Grows
  <2>1. proc[n].pc = "serve" /\ file' = file /\ nodes' = nodes
    BY <1>6 DEF Merge, MergeSkipped, At
  <2>2. CASE Merge(n, p)
    <3>1. PICK batch : proc' = [proc EXCEPT ![n].pc = "append",
                                   ![n].batch = batch, ![n].tries = 0,
                                   ![n].todo = @ \ {p}]
      BY <2>2 DEF Merge
    <3>2. proc'[n].pc = "append" /\ \A m \in Node \ {n} : proc'[m] = proc[m]
      BY <1>0, <3>1 DEF Proc
    <3> QED
      BY <1>a, <2>1, <3>2, ListsLater DEF Starting
  <2>3. CASE MergeSkipped(n, p)
    <3>1. proc' = [proc EXCEPT ![n].todo = @ \ {p}]
      BY <2>3 DEF MergeSkipped
    <3>2. proc'[n].pc = "serve" /\ \A m \in Node \ {n} : proc'[m] = proc[m]
      BY <1>0, <2>1, <3>1 DEF Proc
    <3> QED
      BY <1>a, <2>1, <3>2, ListsLater DEF Starting
  <2> QED
    BY <1>6, <2>2, <2>3
<1>7. CASE JoinAppend(n) \/ AppendRecords(n)
  <2>1. /\ proc[n].pc \in {"joinAppend", "append"} /\ nodes' = nodes
        /\ proc'[n].pc \in {"joinPublish", "publish"}
        /\ \A m \in Node \ {n} : proc'[m] = proc[m]
    BY <1>0, <1>7 DEF JoinAppend, AppendRecords, At, Goto, Proc
  <2>2. /\ \A m \in Node \ {n} : file'[m] = file[m]
        /\ IsPrefix(file[n], file'[n])
    BY <1>7, FileGrows DEF JoinAppend, AppendRecords, IndexInv
  <2> QED
    BY <2>1, <2>2, ListsLater DEF Starting
<1>8. CASE AppendFails(n)
  <2>1. /\ proc[n].pc \in {"joinAppend", "append"} /\ nodes' = nodes
    BY <1>8 DEF AppendFails
  <2>2. /\ proc'[n].pc \in {"joinAppend", "append", "serve"}
        /\ \A m \in Node \ {n} : proc'[m] = proc[m]
    <3>1. CASE proc[n].tries < MaxRetry
      BY <1>0, <1>8, <2>1, <3>1 DEF AppendFails, Retry, Proc
    <3>2. CASE ~(proc[n].tries < MaxRetry)
      BY <1>0, <1>8, <3>2 DEF AppendFails, Retry, Goto, Proc
    <3> QED
      BY <3>1, <3>2
  <2>3. /\ \A m \in Node \ {n} : file'[m] = file[m]
        /\ IsPrefix(file[n], file'[n])
    BY <1>8, FileGrows DEF AppendFails, IndexInv
  <2> QED
    BY <2>1, <2>2, <2>3, ListsLater DEF Starting
<1>9. CASE PublishFails(n)
  <2>1. /\ proc[n].pc = "publish" /\ proc'[n].pc = "serve" /\ file' = file
        /\ \A m \in Node \ {n} : proc'[m] = proc[m]
    BY <1>0, <1>9 DEF PublishFails, At, Goto, Proc
  <2>2. nodes' = nodes \/ nodes' = [nodes EXCEPT ![n] = file[n]]
    BY <1>9 DEF PublishFails, PublishNodes
  <2> QED
    BY <1>0, <1>a, <2>1, <2>2, ListsLater DEF Starting
<1> QED
  BY <1>1, <1>2, <1>3, <1>4, <1>5, <1>6, <1>7, <1>8, <1>9 DEF Step, Failure

LEMMA IndexNext == "stat" \notin Fault /\ IndexInv /\ [Next]_vars => IndexInv'
<1> SUFFICES ASSUME "stat" \notin Fault, IndexInv, [Next]_vars PROVE IndexInv'
  OBVIOUS
<1>1. TypeOK'
  BY TypeNext DEF IndexInv
<1>2. ASSUME NEW n \in Node, Step(n) \/ Failure(n) PROVE IndexInv'
  <2>1. \A m \in Node \ {n} : Lists(m)'
    BY <1>1, <1>2, IndexAction, ListsUnchanged DEF IndexInv
  <2>2. Lists(n)'
    BY <1>1, <1>2, IndexAction
  <2> QED
    BY <1>1, <2>1, <2>2 DEF IndexInv
<1>3. CASE UNCHANGED vars
  <2>1. \A m \in Node : Lists(m)'
    BY <1>3, ListsUnchanged DEF vars, IndexInv
  <2> QED
    BY <1>1, <2>1 DEF IndexInv
<1> QED
  BY <1>2, <1>3 DEF Next

(* What a node lists and serves, for any number of nodes, whatever fails   *)
(* but a size query.                                                       *)
THEOREM IndexInvariant == ASSUME "stat" \notin Fault PROVE Spec => []IndexInv
<1>1. Init => IndexInv
  BY IndexInit
<1>2. IndexInv /\ [Next]_vars => IndexInv'
  BY IndexNext
<1> QED
  BY <1>1, <1>2, PTL DEF Spec

(* A node that has started lists itself, and serves a list with itself.    *)
THEOREM OwnNameListed == ASSUME "stat" \notin Fault PROVE Spec => []OwnListed
<1>1. IndexInv => OwnListed
  BY DEF IndexInv, Lists, Starting, OwnListed
<1> QED
  BY <1>1, IndexInvariant, PTL

(* A failed publication leaves what is served behind, never different.     *)
THEOREM ServedIsPrefix == ASSUME "stat" \notin Fault PROVE Spec => []ServesPrefix
<1>1. IndexInv => ServesPrefix
  BY DEF IndexInv, Lists, Starting, ServesPrefix
<1> QED
  BY <1>1, IndexInvariant, PTL

(* OnlyGrows: what a running node has listed stays listed.                 *)
THEOREM ListedForEver == ASSUME "stat" \notin Fault PROVE Spec => OnlyGrows
<1>1. IndexInv /\ IndexInv' /\ [Next]_vars =>
          [\A n \in Node : proc[n].pc \notin {"clean", "own"} =>
              IsPrefix(file[n], file'[n])]_vars
  <2> SUFFICES ASSUME IndexInv, IndexInv', Next, NEW m \in Node,
                      proc[m].pc \notin {"clean", "own"}
               PROVE  IsPrefix(file[m], file'[m])
    BY DEF vars
  <2>1. file[m] \in Seq(Node)
    BY DEF IndexInv, TypeOK
  <2>2. PICK n \in Node : Step(n) \/ Failure(n)
    BY DEF Next
  <2>3. CASE m = n
    BY <2>2, <2>3, IndexAction DEF IndexInv
  <2>4. CASE m # n
    <3>1. file'[m] = file[m]
      BY <2>2, <2>4, IndexAction DEF IndexInv
    <3> QED
      BY <2>1, <3>1, PrefixReflexive
  <2> QED
    BY <2>3, <2>4
<1> QED
  BY <1>1, IndexInvariant, PTL DEF Spec, OnlyGrows
-----------------------------------------------------------------------------
(* How often a name is listed.                                             *)

Occurrences(s, m) == {i \in 1 .. Len(s) : s[i] = m}

Count(s, m) == Cardinality(Occurrences(s, m))

Distinct(s) == \A i, j \in 1 .. Len(s) : s[i] = s[j] => i = j

LEMMA CountType ==
    ASSUME NEW S, NEW s \in Seq(S), NEW m
    PROVE  IsFiniteSet(Occurrences(s, m)) /\ Count(s, m) \in Nat
<1>1. Len(s) \in Nat
  BY LenProperties
<1>2. IsFiniteSet(1 .. Len(s))
  BY <1>1, FS_Interval
<1>3. Occurrences(s, m) \in SUBSET (1 .. Len(s))
  BY DEF Occurrences
<1>4. IsFiniteSet(Occurrences(s, m))
  BY <1>2, <1>3, FS_Subset
<1> QED
  BY <1>4, FS_CardinalityType DEF Count

(* Positions that are moved are as many as before.                         *)
LEMMA Moved ==
    ASSUME NEW A \in SUBSET Nat, IsFiniteSet(A), NEW k \in Nat
    PROVE  LET B == {k + i : i \in A}
           IN  IsFiniteSet(B) /\ Cardinality(B) = Cardinality(A)
<1> DEFINE B == {k + i : i \in A}
           move == [i \in A |-> k + i]
<1>1. move \in [A -> B]
  OBVIOUS
<1>2. ASSUME NEW i \in A, NEW j \in A, move[i] = move[j] PROVE i = j
  <2>1. i \in Nat /\ j \in Nat /\ k + i = k + j
    BY <1>2
  <2> QED
    BY <2>1
<1>3. \A x \in B : \E i \in A : move[i] = x
  OBVIOUS
<1>4. move \in Bijection(A, B)
  BY <1>1, <1>2, <1>3 DEF Bijection, Injection, Surjection, IsInjective
<1> QED
  BY <1>4, FS_Bijection DEF ExistsBijection

LEMMA CountAppended ==
    ASSUME NEW S, NEW f \in Seq(S), NEW b \in Seq(S), NEW m
    PROVE  Count(f \o b, m) = Count(f, m) + Count(b, m)
<1> DEFINE A == Occurrences(f, m)
           B == {Len(f) + i : i \in Occurrences(b, m)}
<1>1. Len(f) \in Nat /\ Len(b) \in Nat
  BY LenProperties
<1>2. /\ IsFiniteSet(A) /\ IsFiniteSet(Occurrences(b, m))
      /\ Count(f, m) \in Nat /\ Count(b, m) \in Nat
  BY CountType
<1>3. IsFiniteSet(B) /\ Cardinality(B) = Count(b, m)
  <2>1. Occurrences(b, m) \in SUBSET Nat
    BY <1>1 DEF Occurrences
  <2> QED
    BY <1>1, <1>2, <2>1, Moved DEF Count
<1>4. A \cap B = {}
  BY <1>1 DEF Occurrences
<1>5. Occurrences(f \o b, m) = A \cup B
  <2>1. /\ Len(f \o b) = Len(f) + Len(b)
        /\ \A i \in 1 .. Len(f) + Len(b) :
               (f \o b)[i] = IF i <= Len(f) THEN f[i] ELSE b[i - Len(f)]
    BY ConcatProperties
  <2>2. ASSUME NEW i \in Occurrences(f \o b, m) PROVE i \in A \cup B
    <3>1. i \in 1 .. Len(f) + Len(b) /\ (f \o b)[i] = m
      BY <2>1 DEF Occurrences
    <3>2. CASE i <= Len(f)
      BY <1>1, <2>1, <3>1, <3>2 DEF Occurrences
    <3>3. CASE ~(i <= Len(f))
      <4>1. i - Len(f) \in 1 .. Len(b) /\ i = Len(f) + (i - Len(f))
        BY <1>1, <3>1, <3>3
      <4>2. b[i - Len(f)] = m
        BY <2>1, <3>1, <3>3
      <4> QED
        BY <4>1, <4>2 DEF Occurrences
    <3> QED
      BY <3>2, <3>3
  <2>3. ASSUME NEW i \in A PROVE i \in Occurrences(f \o b, m)
    BY <1>1, <2>1 DEF Occurrences
  <2>4. ASSUME NEW j \in Occurrences(b, m)
        PROVE  Len(f) + j \in Occurrences(f \o b, m)
    <3>1. j \in 1 .. Len(b) /\ b[j] = m
      BY DEF Occurrences
    <3>2. /\ Len(f) + j \in 1 .. Len(f) + Len(b) /\ ~(Len(f) + j <= Len(f))
          /\ Len(f) + j - Len(f) = j
      BY <1>1, <3>1
    <3> QED
      BY <2>1, <3>1, <3>2 DEF Occurrences
  <2> QED
    BY <2>2, <2>3, <2>4
<1>6. Cardinality(A \cup B) = Cardinality(A) + Cardinality(B) - Cardinality({})
  BY <1>2, <1>3, <1>4, FS_Union
<1>7. Cardinality({}) = 0
  BY FS_EmptySet
<1> QED
  BY <1>2, <1>3, <1>5, <1>6, <1>7 DEF Count

(* The rest of a file lists no name more often than the file.              *)
LEMMA CountRest ==
    ASSUME NEW S, NEW f \in Seq(S), NEW k \in Nat, NEW m
    PROVE  /\ SubSeq(f, k + 1, Len(f)) \in Seq(S)
           /\ Count(SubSeq(f, k + 1, Len(f)), m) <= Count(f, m)
<1>1. Len(f) \in Nat /\ \A i \in 1 .. Len(f) : f[i] \in S
  BY LenProperties, ElementOfSeq
<1>2. PICK g : g = SubSeq(f, k + 1, Len(f))
  OBVIOUS
<1>3. /\ g \in Seq(S)
      /\ Len(g) = IF k + 1 <= Len(f) THEN Len(f) - (k + 1) + 1 ELSE 0
      /\ \A i \in 1 .. Len(f) - (k + 1) + 1 : g[i] = f[k + 1 + i - 1]
  <2>1. k + 1 \in Int /\ Len(f) \in Int /\ \A i \in k + 1 .. Len(f) : f[i] \in S
    BY <1>1
  <2> QED
    BY <1>2, <2>1, SubSeqProperties
<1>4. {k + i : i \in Occurrences(g, m)} \subseteq Occurrences(f, m)
  <2> SUFFICES ASSUME NEW i \in Occurrences(g, m)
               PROVE  k + i \in Occurrences(f, m)
    OBVIOUS
  <2>1. i \in 1 .. Len(g) /\ g[i] = m
    BY DEF Occurrences
  <2>2. i \in 1 .. Len(f) - (k + 1) + 1 /\ k + i \in 1 .. Len(f)
        /\ k + 1 + i - 1 = k + i
    BY <1>1, <1>3, <2>1
  <2> QED
    BY <1>3, <2>1, <2>2 DEF Occurrences
<1>5. /\ IsFiniteSet(Occurrences(g, m)) /\ Count(g, m) \in Nat
      /\ IsFiniteSet(Occurrences(f, m)) /\ Count(f, m) \in Nat
  BY <1>3, CountType
<1>6. Cardinality({k + i : i \in Occurrences(g, m)}) = Count(g, m)
  <2>1. Occurrences(g, m) \in SUBSET Nat
    BY DEF Occurrences
  <2> QED
    BY <1>5, <2>1, Moved DEF Count
<1>7. Count(g, m) <= Count(f, m)
  BY <1>4, <1>5, <1>6, FS_Subset DEF Count
<1> QED
  BY <1>2, <1>3, <1>7, Zenon

LEMMA CountDistinct ==
    ASSUME NEW S, NEW b \in Seq(S), Distinct(b), NEW m
    PROVE  Count(b, m) <= 1
<1>1. CASE Occurrences(b, m) = {}
  BY <1>1, FS_EmptySet DEF Count
<1>2. CASE Occurrences(b, m) # {}
  <2>1. PICK i : i \in Occurrences(b, m)
    BY <1>2
  <2>2. Occurrences(b, m) = {i}
    BY <2>1 DEF Occurrences, Distinct
  <2>3. Cardinality({i}) = 1
    BY FS_Singleton
  <2> QED
    BY <2>2, <2>3 DEF Count
<1> QED
  BY <1>1, <1>2

LEMMA CountAbsent ==
    ASSUME NEW S, NEW s \in Seq(S), NEW m, m \notin Names(s)
    PROVE  Count(s, m) = 0
<1>1. DOMAIN s = 1 .. Len(s)
  BY LenProperties
<1>2. Occurrences(s, m) = {}
  BY <1>1 DEF Occurrences, Names, ToSet
<1> QED
  BY <1>2, FS_EmptySet DEF Count

(* A list with one entry, and the empty one.                               *)
LEMMA CountShort ==
    ASSUME NEW n \in Node, NEW m
    PROVE  /\ <<n>> \in Seq(Node) /\ << >> \in Seq(Node)
           /\ Count(<< >>, m) = 0
           /\ Count(<<n>>, m) <= IF m = n THEN 1 ELSE 0
<1>1. <<n>> \in Seq(Node) /\ Len(<<n>>) = 1 /\ <<n>>[1] = n
  OBVIOUS
<1>2. << >> \in Seq(Node) /\ Names(<< >>) = {}
  BY EmptySeq DEF Names, ToSet
<1>3. Count(<< >>, m) = 0
  BY <1>2, CountAbsent
<1>4. Count(<<n>>, m) <= 1
  <2>1. Distinct(<<n>>)
    BY <1>1 DEF Distinct
  <2> QED
    BY <1>1, <2>1, CountDistinct
<1>5. m # n => Count(<<n>>, m) = 0
  <2>1. Names(<<n>>) = {n}
    BY <1>1 DEF Names, ToSet
  <2> QED
    BY <1>1, <2>1, CountAbsent
<1> QED
  BY <1>1, <1>2, <1>3, <1>4, <1>5

(* A batch is a set of names in some order.                                *)
LEMMA BatchDistinct ==
    ASSUME NEW names \in SUBSET Node, NEW batch \in SetToSeqs(names)
    PROVE  batch \in Seq(Node) /\ Distinct(batch) /\ Names(batch) \subseteq names
<1>1. batch \in Seq(Node) /\ Len(batch) \in Nat /\ DOMAIN batch = 1 .. Len(batch)
  BY BatchType, LenProperties
<1>2. /\ batch \in [1 .. Cardinality(names) -> names]
      /\ \A i, j \in 1 .. Cardinality(names) : i # j => batch[i] # batch[j]
  BY DEF SetToSeqs
<1>3. DOMAIN batch = 1 .. Cardinality(names)
  BY <1>2
<1>4. Distinct(batch)
  BY <1>1, <1>2, <1>3 DEF Distinct
<1>5. Names(batch) \subseteq names
  BY <1>2, <1>3 DEF Names, ToSet
<1> QED
  BY <1>1, <1>4, <1>5

-----------------------------------------------------------------------------
(* Few names are listed twice.  What an append that is still to be done    *)
(* will add has to be counted with the file: then a lost answer, after     *)
(* which it is done again, costs one failure for the one copy it adds.     *)

Appending == {"joinAppend", "append"}
Appended  == {"joinPublish", "serve", "publish"}

Allowed(n, m) == faults + (IF m = n THEN 2 ELSE 1)

Counted(n) ==
    /\ At(n, "own") => file[n] = << >> /\ proc[n].batch = <<n>>
    /\ proc[n].pc \in {"publishOwn", "join"} =>
           \A m \in Node : Count(file[n], m) <= IF m = n THEN 1 ELSE 0
    /\ proc[n].pc \in Appending =>
           /\ Distinct(proc[n].batch)
           /\ \A m \in Node : Count(file[n], m) + Count(proc[n].batch, m)
                                  <= Allowed(n, m)
    /\ proc[n].pc \in Appended =>
           \A m \in Node : Count(file[n], m) <= Allowed(n, m)

CountInv == \A n \in Node : Counted(n)

LEMMA AllowedGrows ==
    ASSUME faults \in Nat, faults' \in Nat, faults <= faults', NEW n, NEW m
    PROVE  /\ Allowed(n, m) \in Nat /\ Allowed(n, m)' \in Nat
           /\ Allowed(n, m) <= Allowed(n, m)'
<1>1. PICK c \in Nat : c = IF m = n THEN 2 ELSE 1
  OBVIOUS
<1>2. Allowed(n, m) = faults + c /\ Allowed(n, m)' = faults' + c
  BY <1>1 DEF Allowed
<1>3. /\ faults + c \in Nat /\ faults' + c \in Nat
      /\ faults + c <= faults' + c
  <2>1. \A x, y, z \in Nat : x <= y => /\ x + z \in Nat /\ y + z \in Nat
                                      /\ x + z <= y + z
    OBVIOUS
  <2> QED
    BY <2>1, Zenon
<1> QED
  BY <1>2, <1>3, Zenon

LEMMA Counts ==
    ASSUME TypeOK, NEW n \in Node
    PROVE  /\ file[n] \in Seq(Node) /\ proc[n].batch \in Seq(Node)
           /\ \A m : Count(file[n], m) \in Nat /\ Count(proc[n].batch, m) \in Nat
           /\ faults \in Nat /\ \A m : Allowed(n, m) \in Nat
<1>1. file[n] \in Seq(Node) /\ proc[n].batch \in Seq(Node)
  BY DEF TypeOK, Proc
<1>2. faults \in Nat /\ \A m : Allowed(n, m) \in Nat
  BY ConstantFacts DEF TypeOK, Allowed
<1> QED
  BY <1>1, <1>2, CountType

(* An append adds the names of the batch at most, whether or not it knows  *)
(* the size of the file.                                                   *)
LEMMA WriteCounts ==
    ASSUME TypeOK, NEW n \in Node, Write(n) \/ WriteUnsized(n) \/ WriteFails(n)
    PROVE  /\ \A m : Count(file'[n], m)
                         <= Count(file[n], m) + Count(proc[n].batch, m)
           /\ faults' \in Nat /\ faults <= faults'
           /\ WriteFails(n) => file'[n] = file[n] \/ faults' = faults + 1
           /\ \A m \in Node \ {n} : file'[m] = file[m]
<1> DEFINE f == file[n]
           b == proc[n].batch
<1>1. /\ f \in Seq(Node) /\ b \in Seq(Node) /\ file \in [Node -> Seq(Node)]
      /\ \A m : Count(f, m) \in Nat /\ Count(b, m) \in Nat
      /\ faults \in Nat
  BY Counts DEF TypeOK
<1>2. Len(f) \in Nat /\ Len(b) \in Nat
  BY <1>1, LenProperties
<1>3. WriteAt(f, Len(f), b) = f \o b
  BY <1>1, WriteAtEnd
<1>4. WriteAt(f, 0, b) = b \o SubSeq(f, Len(b) + 1, Len(f))
  <2>1. SubSeq(f, 1, 0) = << >> /\ 0 + Len(b) + 1 = Len(b) + 1
    BY <1>2, SubSeqEmpty
  <2>2. << >> \o b = b
    BY <1>1, ConcatEmptySeq
  <2> HIDE DEF f, b
  <2> QED
    BY <2>1, <2>2, Zenon DEF WriteAt
<1>5. ASSUME NEW m
      PROVE  /\ Count(WriteAt(f, Len(f), b), m) <= Count(f, m) + Count(b, m)
             /\ Count(WriteAt(f, 0, b), m) <= Count(f, m) + Count(b, m)
  <2>1. Count(f \o b, m) = Count(f, m) + Count(b, m)
    BY <1>1, CountAppended
  <2>2. PICK r : r = SubSeq(f, Len(b) + 1, Len(f))
    OBVIOUS
  <2>3. r \in Seq(Node) /\ Count(r, m) <= Count(f, m) /\ Count(r, m) \in Nat
    BY <1>1, <1>2, <2>2, CountRest, CountType
  <2>4. Count(b \o r, m) = Count(b, m) + Count(r, m)
    BY <1>1, <2>3, CountAppended
  <2>5. Count(WriteAt(f, Len(f), b), m) = Count(f, m) + Count(b, m)
    BY <1>3, <2>1, Zenon
  <2>6. Count(WriteAt(f, 0, b), m) = Count(b, m) + Count(r, m)
    BY <1>4, <2>2, <2>4, Zenon
  <2> HIDE DEF f, b
  <2> QED
    BY <1>1, <2>3, <2>5, <2>6
<1>6. \/ file' = file
      \/ file' = [file EXCEPT ![n] = WriteAt(f, Len(f), b)]
      \/ file' = [file EXCEPT ![n] = WriteAt(f, 0, b)]
  BY DEF Write, WriteUnsized, WriteFails
<1>7. /\ faults' \in Nat /\ faults <= faults'
      /\ WriteFails(n) => file'[n] = file[n] \/ faults' = faults + 1
  BY <1>1 DEF Write, WriteUnsized, WriteFails, Failing
<1>8. \/ file'[n] = f
      \/ file'[n] = WriteAt(f, Len(f), b)
      \/ file'[n] = WriteAt(f, 0, b)
  BY <1>1, <1>6
<1>9. ASSUME NEW m PROVE Count(file'[n], m) <= Count(f, m) + Count(b, m)
  <2>1. Count(f, m) <= Count(f, m) + Count(b, m)
    BY <1>1
  <2> QED
    BY <1>5, <1>8, <2>1, Zenon
<1> QED
  BY <1>1, <1>6, <1>7, <1>9

(* Failures elsewhere only allow for more.                                 *)
LEMMA CountedStays ==
    ASSUME TypeOK, NEW n \in Node, Counted(n), faults' \in Nat, faults <= faults',
           proc'[n] = proc[n], file'[n] = file[n]
    PROVE  Counted(n)'
<1>1. /\ faults \in Nat
      /\ \A m : Count(file[n], m) \in Nat /\ Count(proc[n].batch, m) \in Nat
  BY Counts
<1>2. \A m, x : x \in Nat /\ x <= Allowed(n, m) => x <= Allowed(n, m)'
  <2> SUFFICES ASSUME NEW m, NEW x, x \in Nat, x <= Allowed(n, m)
               PROVE  x <= Allowed(n, m)'
    OBVIOUS
  <2>1. /\ Allowed(n, m) \in Nat /\ Allowed(n, m)' \in Nat
        /\ Allowed(n, m) <= Allowed(n, m)'
    BY <1>1, AllowedGrows
  <2> QED
    BY <2>1
<1>3. \A m : Count(file[n], m) + Count(proc[n].batch, m) \in Nat
  BY <1>1
<1> QED
  BY <1>1, <1>2, <1>3 DEF Counted, At

(* Steps to a file as it was, or one of which the append has been done.    *)
LEMMA NowAppended ==
    ASSUME TypeOK, NEW n \in Node, faults' \in Nat, faults <= faults',
           proc'[n].pc \in Appended,
           \A m \in Node : Count(file'[n], m) \in Nat,
           \A m \in Node : Count(file'[n], m) <= Allowed(n, m)
    PROVE  Counted(n)'
<1>1. ASSUME NEW m \in Node PROVE Count(file'[n], m) <= Allowed(n, m)'
  <2>1. /\ Allowed(n, m) \in Nat /\ Allowed(n, m)' \in Nat
        /\ Allowed(n, m) <= Allowed(n, m)'
    BY Counts, AllowedGrows
  <2> QED
    BY <2>1
<1> QED
  BY <1>1 DEF Counted, At, Appended, Appending

LEMMA CountInit == Init => CountInv
<1> SUFFICES ASSUME Init, NEW n \in Node PROVE Counted(n)
  BY DEF CountInv
<1>1. proc[n].pc = "clean"
  BY DEF Init, NewProc
<1> QED
  BY <1>1 DEF Counted, At, Appended, Appending

(* Each action of a node, for itself and for the others.                   *)
LEMMA CountAction ==
    ASSUME TypeOK, TypeOK', NEW n \in Node, Counted(n), Step(n) \/ Failure(n)
    PROVE  /\ Counted(n)'
           /\ faults' \in Nat /\ faults <= faults'
           /\ \A m \in Node \ {n} : proc'[m] = proc[m] /\ file'[m] = file[m]
<1>0. /\ proc \in [Node -> Proc] /\ file \in [Node -> Seq(Node)]
      /\ file[n] \in Seq(Node) /\ proc[n].batch \in Seq(Node) /\ faults \in Nat
      /\ \A m : Count(file[n], m) \in Nat /\ Count(proc[n].batch, m) \in Nat
      /\ \A m : Allowed(n, m) \in Nat
  BY Counts DEF TypeOK
<1>a. \A m \in Node : Count(file'[n], m) \in Nat
  <2>1. file'[n] \in Seq(Node)
    BY DEF TypeOK
  <2> QED
    BY <2>1, CountType
<1> DEFINE Counting == faults' \in Nat /\ faults <= faults'
           Others == \A m \in Node \ {n} : proc'[m] = proc[m] /\ file'[m] = file[m]
<1> SUFFICES Counted(n)' /\ Counting /\ Others
  OBVIOUS
<1>b. ASSUME NEW kind, Failing(kind) \/ UNCHANGED faults PROVE Counting
  BY <1>0, <1>b DEF Failing
<1>1. CASE Clean(n)
  <2>1. /\ proc'[n].pc = "own" /\ proc'[n].batch = <<n>> /\ file'[n] = << >>
    BY <1>0, <1>1 DEF Clean, Proc
  <2>2. Others
    BY <1>0, <1>1 DEF Clean
  <2> QED
    BY <1>1, <1>b, <2>1, <2>2 DEF Clean, Counted, At, Appended, Appending
<1>2. CASE AppendOwn(n)
  <2>1. /\ proc'[n].pc = "publishOwn"
        /\ Write(n) \/ WriteUnsized(n)
        /\ \A m \in Node \ {n} : proc'[m] = proc[m]
    BY <1>0, <1>2 DEF AppendOwn, Goto, Proc
  <2>2. file[n] = << >> /\ proc[n].batch = <<n>>
    BY <1>2 DEF AppendOwn, Counted, At
  <2>3. /\ \A m : Count(file'[n], m)
                      <= Count(file[n], m) + Count(proc[n].batch, m)
        /\ Counting /\ \A m \in Node \ {n} : file'[m] = file[m]
    BY <2>1, WriteCounts
  <2>4. ASSUME NEW m \in Node PROVE Count(file'[n], m) <= IF m = n THEN 1 ELSE 0
    <3>1. /\ Count(file[n], m) = 0
          /\ Count(proc[n].batch, m) <= IF m = n THEN 1 ELSE 0
      BY <2>2, CountShort
    <3> QED
      BY <1>0, <1>a, <2>3, <3>1
  <2> QED
    BY <2>1, <2>3, <2>4 DEF Counted, At, Appended, Appending
<1>3. CASE AppendOwnFails(n) \/ LonelyInitFails(n) \/ Crash(n)
  <2>1. proc' = [proc EXCEPT ![n] = NewProc]
    BY <1>3 DEF AppendOwnFails, LonelyInitFails, Crash
  <2>2. proc'[n].pc = "clean" /\ \A m \in Node \ {n} : proc'[m] = proc[m]
    BY <1>0, <2>1 DEF NewProc
  <2>3. Counting /\ \A m \in Node \ {n} : file'[m] = file[m]
    <3>1. CASE AppendOwnFails(n)
      BY <3>1, WriteCounts DEF AppendOwnFails
    <3>2. CASE LonelyInitFails(n) \/ Crash(n)
      BY <1>b, <3>2 DEF LonelyInitFails, Crash
    <3> QED
      BY <1>3, <3>1, <3>2
  <2> QED
    BY <2>2, <2>3 DEF Counted, At, Appended, Appending
<1>4. CASE PublishOwn(n)
  <2>1. /\ proc[n].pc = "publishOwn" /\ proc'[n].pc = "join"
        /\ UNCHANGED <<file, faults>>
        /\ \A m \in Node \ {n} : proc'[m] = proc[m]
    BY <1>0, <1>4 DEF PublishOwn, At, Goto, Proc
  <2> QED
    BY <1>b, <2>1 DEF Counted, At, Appended, Appending
<1>5. CASE Join(n)
  <2>1. PICK names \in SUBSET Node :
            /\ Failing("validate") \/ UNCHANGED faults
            /\ \E batch \in SetToSeqs(names) :
                  proc' = [proc EXCEPT ![n].pc = "joinAppend",
                                       ![n].batch = batch, ![n].tries = 0]
    <3>1. PICK members \in SUBSET {p \in Node \ {n} : Serving(p)} :
              \E valid \in SUBSET UNION {Names(nodes[p]) : p \in members} :
                  /\ Failing("validate") \/ UNCHANGED faults
                  /\ \E batch \in SetToSeqs(valid) :
                        proc' = [proc EXCEPT ![n].pc = "joinAppend",
                                             ![n].batch = batch, ![n].tries = 0]
      BY <1>5 DEF Join, Validated
    <3>2. UNION {Names(nodes[p]) : p \in members} \subseteq Node
      BY NamesType DEF TypeOK
    <3> QED
      BY <3>1, <3>2
  <2>b. PICK batch \in SetToSeqs(names) :
            proc' = [proc EXCEPT ![n].pc = "joinAppend", ![n].batch = batch,
                                 ![n].tries = 0]
    BY <2>1
  <2>2. /\ proc[n].pc = "join" /\ file' = file
        /\ proc'[n].pc = "joinAppend" /\ proc'[n].batch = batch
        /\ \A m \in Node \ {n} : proc'[m] = proc[m]
    BY <1>0, <1>5, <2>b DEF Join, At, Proc
  <2>3. batch \in Seq(Node) /\ Distinct(batch)
    BY BatchDistinct
  <2>4. Counting
    BY <1>b, <2>1
  <2>5. ASSUME NEW m \in Node
        PROVE  Count(file[n], m) + Count(batch, m) <= Allowed(n, m)'
    <3>1. /\ Count(batch, m) \in Nat /\ Count(batch, m) <= 1
      BY <2>3, CountType, CountDistinct
    <3>2. Count(file[n], m) <= IF m = n THEN 1 ELSE 0
      BY <2>2 DEF Counted
    <3> QED
      BY <1>0, <2>4, <3>1, <3>2 DEF Allowed
  <2> QED
    BY <2>2, <2>3, <2>4, <2>5 DEF Counted, At, Appended, Appending
<1>6. CASE JoinSkipped(n)
  <2>1. /\ proc[n].pc = "join" /\ proc'[n].pc = "serve" /\ file' = file
        /\ Failing("members") /\ \A m \in Node \ {n} : proc'[m] = proc[m]
    BY <1>0, <1>6 DEF JoinSkipped, At, Goto, Proc
  <2>2. Counting
    BY <1>b, <2>1
  <2>3. ASSUME NEW m \in Node PROVE Count(file'[n], m) <= Allowed(n, m)
    <3>1. Count(file[n], m) <= IF m = n THEN 1 ELSE 0
      BY <2>1 DEF Counted
    <3> QED
      BY <1>0, <2>1, <3>1 DEF Allowed
  <2> QED
    BY <1>a, <2>1, <2>2, <2>3, NowAppended DEF Appended
<1>7. CASE JoinAppend(n) \/ AppendRecords(n)
  <2>1. /\ proc[n].pc \in Appending /\ proc'[n].pc \in Appended
        /\ Write(n) \/ WriteUnsized(n)
        /\ \A m \in Node \ {n} : proc'[m] = proc[m]
    BY <1>0, <1>7 DEF JoinAppend, AppendRecords, At, Goto, Proc,
                      Appended, Appending
  <2>2. /\ \A m : Count(file'[n], m)
                      <= Count(file[n], m) + Count(proc[n].batch, m)
        /\ Counting /\ \A m \in Node \ {n} : file'[m] = file[m]
    BY <2>1, WriteCounts
  <2>3. ASSUME NEW m \in Node PROVE Count(file'[n], m) <= Allowed(n, m)
    <3>1. Count(file[n], m) + Count(proc[n].batch, m) <= Allowed(n, m)
      BY <2>1 DEF Counted
    <3> QED
      BY <1>0, <1>a, <2>2, <3>1
  <2> QED
    BY <1>a, <2>1, <2>2, <2>3, NowAppended
<1>8. CASE JoinPublish(n) \/ Publish(n) \/ PublishFails(n) \/ Iterate(n)
  <2>1. /\ proc[n].pc \in Appended /\ proc'[n].pc \in Appended /\ file' = file
        /\ \A m \in Node \ {n} : proc'[m] = proc[m]
    <3>1. CASE Iterate(n)
      BY <1>0, <3>1 DEF Iterate, At, Proc, Appended
    <3>2. CASE JoinPublish(n) \/ Publish(n) \/ PublishFails(n)
      BY <1>0, <3>2 DEF JoinPublish, Publish, PublishFails, At, Goto, Proc,
                        Appended
    <3> QED
      BY <1>8, <3>1, <3>2
  <2>2. Counting
    BY <1>8, <1>b DEF JoinPublish, Publish, PublishFails, Iterate
  <2>3. \A m \in Node : Count(file'[n], m) <= Allowed(n, m)
    BY <2>1 DEF Counted
  <2> QED
    BY <1>a, <2>1, <2>2, <2>3, NowAppended
<1>9. ASSUME NEW p \in Node, Merge(n, p) \/ MergeSkipped(n, p)
      PROVE  Counted(n)' /\ Counting /\ Others
  <2>0. proc[n].pc = "serve" /\ file' = file
    BY <1>9 DEF Merge, MergeSkipped, At
  <2>1. \A m \in Node : Count(file[n], m) <= Allowed(n, m)
    BY <2>0 DEF Counted, Appended
  <2>2. CASE Merge(n, p)
    <3>a. PICK valid \in SUBSET Names(nodes[p]) :
              /\ Failing("validate") \/ UNCHANGED faults
              /\ \E batch \in SetToSeqs(NewNames(n, valid)) :
                    proc' = [proc EXCEPT ![n].pc = "append", ![n].batch = batch,
                                         ![n].tries = 0, ![n].todo = @ \ {p}]
      BY <2>2 DEF Merge, Validated
    <3>1. PICK batch \in SetToSeqs(NewNames(n, valid)) :
              proc' = [proc EXCEPT ![n].pc = "append", ![n].batch = batch,
                                   ![n].tries = 0, ![n].todo = @ \ {p}]
      BY <3>a
    <3>2. /\ proc'[n].pc = "append" /\ proc'[n].batch = batch
          /\ \A m \in Node \ {n} : proc'[m] = proc[m]
      BY <1>0, <3>1 DEF Proc
    <3>3. Counting
      BY <1>b, <3>a
    <3>4. NewNames(n, valid) \in SUBSET Node
      BY NamesType DEF TypeOK, NewNames
    <3>5. /\ batch \in Seq(Node) /\ Distinct(batch)
          /\ Names(batch) \cap Names(file[n]) = {}
      BY <3>4, BatchDistinct DEF NewNames
    <3>6. ASSUME NEW m \in Node
          PROVE  Count(file[n], m) + Count(batch, m) <= Allowed(n, m)'
      <4>1. Count(batch, m) \in Nat /\ Count(batch, m) <= 1
        BY <3>5, CountType, CountDistinct
      <4>2. /\ Allowed(n, m)' \in Nat /\ Allowed(n, m) <= Allowed(n, m)'
            /\ 1 <= Allowed(n, m)'
        <5>1. Allowed(n, m)' \in Nat /\ Allowed(n, m) <= Allowed(n, m)'
          BY <1>0, <3>3, AllowedGrows
        <5>2. 1 <= Allowed(n, m)
          BY <1>0 DEF Allowed
        <5> QED
          BY <1>0, <5>1, <5>2
      <4>3. CASE m \in Names(batch)
        <5>1. Count(file[n], m) = 0
          BY <1>0, <3>5, <4>3, CountAbsent
        <5> QED
          BY <4>1, <4>2, <5>1
      <4>4. CASE m \notin Names(batch)
        <5>1. Count(batch, m) = 0
          BY <3>5, <4>4, CountAbsent
        <5> QED
          BY <1>0, <2>1, <4>2, <5>1
      <4> QED
        BY <4>3, <4>4
    <3> QED
      BY <2>0, <3>2, <3>3, <3>5, <3>6 DEF Counted, At, Appended, Appending
  <2>3. CASE MergeSkipped(n, p)
    <3>1. /\ proc' = [proc EXCEPT ![n].todo = @ \ {p}]
          /\ Failing("read") \/ UNCHANGED faults
      BY <2>3 DEF MergeSkipped
    <3>2. proc'[n].pc = "serve" /\ \A m \in Node \ {n} : proc'[m] = proc[m]
      BY <1>0, <2>0, <3>1 DEF Proc
    <3>3. Counting
      BY <1>b, <3>1
    <3> QED
      BY <1>a, <2>0, <2>1, <3>2, <3>3, NowAppended DEF Appended
  <2> QED
    BY <1>9, <2>2, <2>3
<1>10. CASE AppendFails(n)
  <2>1. proc[n].pc \in Appending /\ WriteFails(n) /\ Retry(n)
    BY <1>10 DEF AppendFails, Appending
  <2>2. /\ \A m : Count(file'[n], m)
                      <= Count(file[n], m) + Count(proc[n].batch, m)
        /\ Counting
        /\ file'[n] = file[n] \/ faults' = faults + 1
        /\ \A m \in Node \ {n} : file'[m] = file[m]
    BY <2>1, WriteCounts
  <2>3. /\ Distinct(proc[n].batch)
        /\ \A m \in Node : Count(file[n], m) + Count(proc[n].batch, m)
                               <= Allowed(n, m)
    BY <2>1 DEF Counted
  <2>4. CASE proc[n].tries < MaxRetry
    <3>1. proc' = [proc EXCEPT ![n].tries = @ + 1]
      BY <2>1, <2>4 DEF Retry
    <3>2. /\ proc'[n].pc = proc[n].pc /\ proc'[n].batch = proc[n].batch
          /\ \A m \in Node \ {n} : proc'[m] = proc[m]
      BY <1>0, <3>1 DEF Proc
    <3>3. ASSUME NEW m \in Node
          PROVE  Count(file'[n], m) + Count(proc[n].batch, m) <= Allowed(n, m)'
      <4>1. Count(proc[n].batch, m) <= 1
        BY <1>0, <2>3, CountDistinct
      <4>2. /\ Allowed(n, m)' \in Nat /\ Allowed(n, m) <= Allowed(n, m)'
        BY <1>0, <2>2, AllowedGrows
      <4>3. CASE file'[n] = file[n]
        BY <1>0, <2>3, <4>2, <4>3
      <4>4. CASE faults' = faults + 1
        <5>1. Allowed(n, m)' = Allowed(n, m) + 1
          BY <1>0, <4>4 DEF Allowed
        <5> QED
          BY <1>0, <1>a, <2>2, <2>3, <4>1, <5>1
      <4> QED
        BY <2>2, <4>3, <4>4
    <3> QED
      BY <2>1, <2>2, <2>3, <3>2, <3>3 DEF Counted, At, Appended, Appending
  <2>5. CASE ~(proc[n].tries < MaxRetry)
    <3>1. proc'[n].pc = "serve" /\ \A m \in Node \ {n} : proc'[m] = proc[m]
      BY <1>0, <2>1, <2>5 DEF Retry, Goto, Proc
    <3>2. ASSUME NEW m \in Node PROVE Count(file'[n], m) <= Allowed(n, m)
      BY <1>0, <1>a, <2>2, <2>3
    <3> QED
      BY <1>a, <2>2, <3>1, <3>2, NowAppended DEF Appended
  <2> QED
    BY <2>4, <2>5
<1> QED
  BY <1>1, <1>2, <1>3, <1>4, <1>5, <1>6, <1>7, <1>8, <1>9, <1>10 DEF Step, Failure

LEMMA CountNext == TypeOK /\ CountInv /\ [Next]_vars => CountInv'
<1> SUFFICES ASSUME TypeOK, CountInv, [Next]_vars, NEW m \in Node
             PROVE  Counted(m)'
  BY DEF CountInv
<1>1. TypeOK'
  BY TypeNext
<1>2. ASSUME NEW n \in Node, Step(n) \/ Failure(n) PROVE Counted(m)'
  <2>1. CASE m = n
    BY <1>1, <1>2, <2>1, CountAction DEF CountInv
  <2>2. CASE m # n
    BY <1>1, <1>2, <2>2, CountAction, CountedStays DEF CountInv
  <2> QED
    BY <2>1, <2>2
<1>3. CASE UNCHANGED vars
  <2>1. faults' \in Nat /\ faults <= faults'
    BY <1>3, Counts DEF vars
  <2> QED
    BY <1>3, <2>1, CountedStays DEF vars, CountInv
<1> QED
  BY <1>2, <1>3 DEF Next

(* FewDuplicates, for any number of nodes and retries and whatever fails,  *)
(* a size query included.                                                  *)
THEOREM FewListedTwice == Spec => []FewDuplicates
<1>1. Init => TypeOK /\ CountInv
  BY TypeInit, CountInit
<1>2. TypeOK /\ CountInv /\ [Next]_vars => TypeOK' /\ CountInv'
  BY TypeNext, CountNext
<1>3. TypeOK /\ CountInv => FewDuplicates
  <2> SUFFICES ASSUME TypeOK, CountInv, NEW n \in Node, Serving(n), NEW m \in Node
               PROVE  Count(file[n], m) <= Allowed(n, m)
    BY DEF FewDuplicates, Count, Occurrences, Allowed
  <2>1. /\ Count(file[n], m) \in Nat /\ Count(proc[n].batch, m) \in Nat
        /\ Allowed(n, m) \in Nat
    BY Counts
  <2>2. CASE proc[n].pc \in Appended
    BY <2>2 DEF CountInv, Counted
  <2>3. CASE proc[n].pc \in Appending
    BY <2>1, <2>3 DEF CountInv, Counted
  <2> QED
    BY <2>2, <2>3 DEF Serving, Appended, Appending
<1> QED
  BY <1>1, <1>2, <1>3, PTL DEF Spec
=============================================================================
