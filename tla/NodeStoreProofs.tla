--------------------------- MODULE NodeStoreProofs ---------------------------
(***************************************************************************)
(* Theorems about the write path, for every value of its constants.  The   *)
(* first part holds for any number of handlers and any failures; the       *)
(* second assumes that handlers run one at a time (Serial), that no size   *)
(* query fails and that no publication outlives its call (Reliable).       *)
(***************************************************************************)
EXTENDS NodeStore, SequenceTheorems, TLAPS

-----------------------------------------------------------------------------
(* Lemmas about the operators.                                             *)

(* A write at an offset keeps what it does not overwrite, and makes the    *)
(* file at most one entry longer.                                          *)
LEMMA WriteAtProperties ==
    ASSUME NEW S, NEW f \in Seq(S), NEW n \in Nat, NEW e \in S
    PROVE  /\ WriteAt(f, n, e) \in Seq(S)
           /\ Len(WriteAt(f, n, e)) = IF n < Len(f) THEN Len(f) ELSE Len(f) + 1
           /\ \A i \in 1 .. Len(WriteAt(f, n, e)) :
                  \/ WriteAt(f, n, e)[i] = e
                  \/ i \in 1 .. Len(f) /\ WriteAt(f, n, e)[i] = f[i]
           /\ n = Len(f) => /\ WriteAt(f, n, e)[n + 1] = e
                            /\ \A i \in 1 .. Len(f) : WriteAt(f, n, e)[i] = f[i]
<1>1. Len(f) \in Nat
  BY LenProperties
<1>2. CASE n < Len(f)
  <2>1. n + 1 \in 1 .. Len(f)
    BY <1>1, <1>2
  <2>2. WriteAt(f, n, e) = [f EXCEPT ![n + 1] = e]
    BY <1>2 DEF WriteAt
  <2> QED
    BY <2>1, <2>2, <1>1, <1>2, ExceptSeq
<1>3. CASE ~(n < Len(f))
  <2>1. WriteAt(f, n, e) = Append(f, e)
    BY <1>3 DEF WriteAt
  <2> QED
    BY <2>1, <1>1, <1>3, AppendProperties
<1> QED
  BY <1>2, <1>3

(* What a write leaves on a page was there or is what it writes.           *)
LEMMA WriteAtItems ==
    ASSUME NEW S, NEW f \in Seq(S), NEW n \in Nat, NEW e \in S,
           NEW i \in 1 .. Len(WriteAt(f, n, e))
    PROVE  \/ WriteAt(f, n, e)[i] = e
           \/ i \in 1 .. Len(f) /\ WriteAt(f, n, e)[i] = f[i]
  BY WriteAtProperties

(* The empty directory is a directory.                                     *)
LEMMA EmptyDirType == EmptyDir \in Dir
  BY EmptySeq DEF EmptyDir, Dir

-----------------------------------------------------------------------------
(* Type correctness.  Typed strengthens TypeOK with what types the write:  *)
(* the entry of a call that has begun is an entry.                         *)

Typed ==
    /\ TypeOK
    /\ \A h \in Handler : ~At(h, "idle") => call[h].entry \in Entry

(* The counters of the model start within their bounds.                    *)
LEMMA ConstantFacts ==
    /\ 0 \in Page /\ 0 \in 0 .. MaxCalls /\ 0 \in 0 .. MaxFaults
    /\ PageCapacity \in Nat /\ PageCapacity > 0
  BY NodeStoreAssumption DEF Page

LEMMA NoCallType == NoCall \in Call /\ NoCall.pc = "idle"
  BY ConstantFacts, EmptyDirType DEF NoCall, Call, PC

LEMMA TypedInit == Init => Typed
<1> SUFFICES ASSUME Init PROVE Typed
  OBVIOUS
<1>1. call = [h \in Handler |-> NoCall]
  BY DEF Init
<1>2. TypeOK
  BY ConstantFacts, EmptyDirType, NoCallType, <1>1
     DEF Init, TypeOK
<1>3. \A h \in Handler : At(h, "idle")
  BY <1>1, NoCallType DEF At
<1> QED
  BY <1>2, <1>3 DEF Typed

LEMMA TypedDie == Typed /\ Die /\ faults' \in 0 .. MaxFaults => Typed'
<1> SUFFICES ASSUME Typed, Die, faults' \in 0 .. MaxFaults PROVE Typed'
  OBVIOUS
<1>1. call' = [h \in Handler |-> NoCall]
  BY DEF Die
<1>2. TypeOK'
  BY ConstantFacts, EmptyDirType, NoCallType, <1>1
     DEF Die, durable, Typed, TypeOK
<1>3. \A h \in Handler : At(h, "idle")'
  BY <1>1, NoCallType DEF At
<1> QED
  BY <1>2, <1>3 DEF Typed

(* Returning leaves the calls well typed.                                  *)
LEMMA TypedReturn ==
    ASSUME Typed, NEW h \in Handler, Return(h)
    PROVE  /\ call' \in [Handler -> Call]
           /\ \A g \in Handler : ~At(g, "idle")' => call'[g].entry \in Entry
  BY NoCallType DEF Typed, TypeOK, Return, At

(* The failures stay within their bound.                                   *)
LEMMA FailingType ==
    ASSUME Typed, NEW kind, Failing(kind) PROVE faults' \in 0 .. MaxFaults
  BY NodeStoreAssumption DEF Typed, TypeOK, Failing

LEMMA TypedWrite ==
    ASSUME Typed, NEW h \in Handler, At(h, "write"), WriteFile(h)
    PROVE  files' \in Dir
<1>1. call[h].entry \in Entry /\ call[h].offset \in Nat
  BY DEF Typed, TypeOK, Call, At
<1>2. \A p \in Page :
          WriteAt(files[p], call[h].offset, call[h].entry) \in Seq(Entry)
  <2> TAKE p \in Page
  <2>1. files[p] \in Seq(Entry)
    BY DEF Typed, TypeOK, Dir
  <2> QED
    BY <1>1, <2>1, WriteAtProperties
<1> QED
  BY <1>2 DEF Typed, TypeOK, Dir, WriteFile

LEMMA TypedNext == Typed /\ [Next]_vars => Typed'
<1> SUFFICES ASSUME Typed, [Next]_vars PROVE Typed'
  OBVIOUS
<1>0. /\ call \in [Handler -> Call]
      /\ numOfFullyUsedPages \in Page
      /\ files \in Dir
  BY DEF Typed, TypeOK
<1>1. CASE LonelyInit
  BY <1>1 DEF LonelyInit, memory, Typed, TypeOK, At
<1>2. ASSUME NEW h \in Handler, NEW k \in Key, NEW m \in Message,
             StoreBegin(h, k, m)
      PROVE  Typed'
  <2>1. [key |-> k, cid |-> m] \in Entry
    BY DEF Entry
  <2>2. call' \in [Handler -> Call]
    BY <1>0, <1>2, <2>1 DEF StoreBegin, Call, PC
  <2>3. \A g \in Handler : ~At(g, "idle")' => call'[g].entry \in Entry
    BY <1>2, <2>1 DEF StoreBegin, Typed, TypeOK, Call, At
  <2>4. calls' \in 0 .. MaxCalls
    BY <1>2, NodeStoreAssumption DEF StoreBegin, Typed, TypeOK
  <2> QED
    BY <1>2, <2>2, <2>3, <2>4 DEF StoreBegin, durable, memory, Typed, TypeOK
<1>3. ASSUME NEW h \in Handler, AddFile(h) PROVE Typed'
  <2>1. call' \in [Handler -> Call]
    BY <1>0, <1>3 DEF AddFile, Call, PC
  <2>2. \A g \in Handler : ~At(g, "idle")' => call'[g].entry \in Entry
    BY <1>3 DEF AddFile, Typed, TypeOK, Call, At
  <2>3. call[h].entry.cid \in Message
    BY <1>3 DEF AddFile, Typed, At, Entry
  <2> QED
    BY <1>3, <2>1, <2>2, <2>3 DEF AddFile, NoFailure, memory, Typed, TypeOK
<1>4. ASSUME NEW h \in Handler, StatFits(h) PROVE Typed'
  <2>0. SizeOf(h) \in Nat
    <3>1. files[call[h].page] \in Seq(Entry)
      BY DEF Typed, TypeOK, Call, Dir
    <3> QED
      BY <3>1, LenProperties DEF SizeOf
  <2>1. call' \in [Handler -> Call]
    BY <1>0, <1>4, <2>0 DEF StatFits, Call, PC
  <2>2. \A g \in Handler : ~At(g, "idle")' => call'[g].entry \in Entry
    BY <1>4, <2>0 DEF StatFits, Typed, TypeOK, Call, At
  <2> QED
    BY <1>4, <2>1, <2>2 DEF StatFits, NoFailure, durable, memory, Typed, TypeOK
<1>5. ASSUME NEW h \in Handler, StatFails(h) PROVE Typed'
  <2>1. call' \in [Handler -> Call]
    BY <1>0, <1>5 DEF StatFails, Call, PC
  <2>2. \A g \in Handler : ~At(g, "idle")' => call'[g].entry \in Entry
    BY <1>5 DEF StatFails, Typed, TypeOK, Call, At
  <2> QED
    BY <1>5, <2>1, <2>2, FailingType DEF StatFails, durable, memory, Typed, TypeOK
<1>6. ASSUME NEW h \in Handler, StatFull(h) PROVE Typed'
  <2>1. call' \in [Handler -> Call]
    BY <1>0, <1>6 DEF StatFull, Call, PC
  <2>2. \A g \in Handler : ~At(g, "idle")' => call'[g].entry \in Entry
    BY <1>6 DEF StatFull, Typed, TypeOK, Call, At
  <2> QED
    BY <1>6, <2>1, <2>2 DEF StatFull, NoFailure, durable, memory, Typed, TypeOK
<1>7. ASSUME NEW h \in Handler, Bump(h) PROVE Typed'
  <2>1. call' \in [Handler -> Call]
    BY <1>0, <1>7 DEF Bump, Goto, Call, PC
  <2>2. \A g \in Handler : ~At(g, "idle")' => call'[g].entry \in Entry
    BY <1>7 DEF Bump, Goto, Typed, TypeOK, Call, At
  <2>3. numOfFullyUsedPages' \in Page
    BY <1>7, NodeStoreAssumption DEF Bump, Page, Typed, TypeOK, Call
  <2> QED
    BY <1>7, <2>1, <2>2, <2>3 DEF Bump, NoFailure, durable, Typed, TypeOK
<1>8. ASSUME NEW h \in Handler, Repath(h) PROVE Typed'
  <2>1. call' \in [Handler -> Call]
    BY <1>0, <1>8 DEF Repath, Call, PC
  <2>2. \A g \in Handler : ~At(g, "idle")' => call'[g].entry \in Entry
    BY <1>8 DEF Repath, Typed, TypeOK, Call, At
  <2> QED
    BY <1>8, <2>1, <2>2 DEF Repath, NoFailure, durable, memory, Typed, TypeOK
<1>9. ASSUME NEW h \in Handler, Write(h) PROVE Typed'
  <2>1. call' \in [Handler -> Call]
    BY <1>0, <1>9 DEF Write, Goto, Call, PC
  <2>2. \A g \in Handler : ~At(g, "idle")' => call'[g].entry \in Entry
    BY <1>9 DEF Write, Goto, Typed, TypeOK, Call, At
  <2>3. files' \in Dir
    BY <1>9, TypedWrite DEF Write
  <2> QED
    BY <1>9, <2>1, <2>2, <2>3 DEF Write, WriteFile, NoFailure, memory, Typed, TypeOK
<1>10. ASSUME NEW h \in Handler, WriteUnanswered(h) PROVE Typed'
  <2>0. files' \in Dir
    BY <1>10, TypedWrite DEF WriteUnanswered
  <2>1. Return(h)
    BY <1>10 DEF WriteUnanswered
  <2> QED
    BY <1>10, <2>1, <2>0, FailingType, TypedReturn DEF WriteUnanswered, WriteFile, memory, Typed, TypeOK
<1>11. ASSUME NEW h \in Handler, DirStat(h) PROVE Typed'
  <2>1. call' \in [Handler -> Call]
    BY <1>0, <1>11 DEF DirStat, Call, PC
  <2>2. \A g \in Handler : ~At(g, "idle")' => call'[g].entry \in Entry
    BY <1>11 DEF DirStat, Typed, TypeOK, Call, At
  <2> QED
    BY <1>11, <2>1, <2>2 DEF DirStat, NoFailure, durable, memory, Typed, TypeOK
<1>12. ASSUME NEW h \in Handler, Publish(h) PROVE Typed'
  <2>1. call' \in [Handler -> Call]
    BY <1>0, <1>12 DEF Publish, Goto, Call, PC
  <2>2. \A g \in Handler : ~At(g, "idle")' => call'[g].entry \in Entry
    BY <1>12 DEF Publish, Goto, Typed, TypeOK, Call, At
  <2>3. call[h].dir \in Dir
    BY DEF Typed, TypeOK, Call
  <2> QED
    BY <1>12, <2>1, <2>2, <2>3 DEF Publish, NoFailure, memory, Typed, TypeOK
<1>13. ASSUME NEW h \in Handler, PublishTimesOut(h) PROVE Typed'
  <2>0. call[h].dir \in Dir
    BY DEF Typed, TypeOK, Call
  <2>1. Return(h)
    BY <1>13 DEF PublishTimesOut
  <2> QED
    BY <1>13, <2>1, <2>0, FailingType, TypedReturn DEF PublishTimesOut, durable, memory, Typed, TypeOK
<1>14. ASSUME NEW d \in late, LatePublish(d) PROVE Typed'
  BY <1>14 DEF LatePublish, memory, Typed, TypeOK, At
<1>15. ASSUME NEW h \in Handler, Finish(h) PROVE Typed'
  <2>0. /\ call[h].dir \in Dir
        /\ call[h].entry \in Entry
        /\ call[h].entry.cid \in Message
    BY <1>15 DEF Finish, Typed, TypeOK, At, Call, Entry
  <2>1. Return(h)
    BY <1>15 DEF Finish
  <2> QED
    BY <1>15, <2>1, <2>0, TypedReturn DEF Finish, NoFailure, durable, Typed, TypeOK
<1>16. ASSUME NEW h \in Handler, StoreError(h) PROVE Typed'
  <2>1. Return(h)
    BY <1>16 DEF StoreError
  <2> QED
    BY <1>16, <2>1, FailingType, TypedReturn DEF StoreError, durable, memory, Typed, TypeOK
<1>17. CASE Crash
  BY <1>17, TypedDie, FailingType DEF Crash
<1>18. ASSUME NEW h \in Handler, PublishPanics(h) PROVE Typed'
  BY <1>18, TypedDie, FailingType DEF PublishPanics
<1>19. CASE UNCHANGED vars
  BY <1>19 DEF vars, Typed, TypeOK, At
<1> QED
  BY <1>1, <1>2, <1>3, <1>4, <1>5, <1>6, <1>7, <1>8, <1>9, <1>10, <1>11,
     <1>12, <1>13, <1>14, <1>15, <1>16, <1>17, <1>18, <1>19
     DEF Next, Step, Failure

(* The state of the write path is well typed, for any number of handlers,  *)
(* pages, calls and failures.                                              *)
THEOREM TypeCorrect == Spec => []TypeOK
<1>1. Spec => []Typed
  BY TypedInit, TypedNext, PTL DEF Spec
<1>2. Typed => TypeOK
  BY DEF Typed
<1> QED
  BY <1>1, <1>2, PTL

-----------------------------------------------------------------------------
(* Part one: any interleaving of the handlers, any failure.                *)

LEMMA GoodDirGrows ==
    ASSUME NEW d, NEW B, NEW C, B \subseteq C, GoodDir(d, B)
    PROVE  GoodDir(d, C)
  BY DEF GoodDir, Good

LEMMA GoodCallGrows ==
    ASSUME NEW c, NEW B, NEW C, B \subseteq C, GoodCall(c, B)
    PROVE  GoodCall(c, C)
  BY GoodDirGrows DEF GoodCall

LEMMA GoodEmpty == \A B : GoodDir(EmptyDir, B) /\ GoodCall(NoCall, B)
<1>1. \A p \in Page : Len(EmptyDir[p]) = 0
  BY EmptySeq DEF EmptyDir
<1>2. \A B : GoodDir(EmptyDir, B)
  BY <1>1 DEF GoodDir
<1> QED
  BY <1>2 DEF GoodCall, NoCall

LEMMA StoreInvInit == Init => StoreInv
<1> SUFFICES ASSUME Init PROVE StoreInv
  OBVIOUS
<1>1. \A p \in Page : Len(EmptyDir[p]) = 0
  BY EmptySeq DEF EmptyDir
<1>2. PagesBounded
  BY <1>1, ConstantFacts DEF Init, PagesBounded
<1> QED
  BY <1>2, GoodEmpty DEF Init, StoreInv

(* A step that changes one call, to a good one, and none of the stored     *)
(* data leaves the invariant true.                                         *)
LEMMA StoreInvMove ==
    ASSUME Typed, StoreInv, NEW h \in Handler, NEW c, GoodCall(c, blobs),
           call' = [call EXCEPT ![h] = c],
           UNCHANGED <<files, ipns, late, blobs, keyToCid>>
    PROVE  StoreInv'
<1>1. \A g \in Handler : GoodCall(call'[g], blobs)
  BY DEF StoreInv, Typed, TypeOK
<1> QED
  BY <1>1 DEF StoreInv, PagesBounded

(* The end of the process loses no stored data.                            *)
LEMMA StoreInvDie == StoreInv /\ Die => StoreInv'
<1> SUFFICES ASSUME StoreInv, Die PROVE StoreInv'
  OBVIOUS
<1>1. \A h \in Handler : GoodCall(call'[h], blobs)
  BY GoodEmpty DEF Die
<1> QED
  BY <1>1 DEF Die, durable, StoreInv, PagesBounded

(* A write below the limit of a file within the limit.                     *)
LEMMA WriteFits ==
    \A n, len, limit \in Nat :
        n < limit /\ len <= limit =>
            (IF n < len THEN len ELSE len + 1) <= limit
  OBVIOUS

(* A write of a good entry below the limit of a page of good entries.      *)
LEMMA GoodWrite ==
    ASSUME NEW f \in Seq(Entry), NEW n \in Nat, NEW e \in Entry, NEW B,
           \A i \in 1 .. Len(f) : Good(f[i], B), Len(f) <= PageCapacity,
           Good(e, B), n < PageCapacity
    PROVE  /\ \A i \in 1 .. Len(WriteAt(f, n, e)) : Good(WriteAt(f, n, e)[i], B)
           /\ Len(WriteAt(f, n, e)) <= PageCapacity
<1>1. \A i \in 1 .. Len(WriteAt(f, n, e)) : Good(WriteAt(f, n, e)[i], B)
  BY WriteAtItems
<1>2. Len(WriteAt(f, n, e)) = IF n < Len(f) THEN Len(f) ELSE Len(f) + 1
  BY WriteAtProperties
<1>3. Len(f) \in Nat
  BY LenProperties
<1> QED
  BY <1>1, <1>2, <1>3, ConstantFacts, WriteFits

(* Only the write changes the pages: it puts a good entry where it fits.   *)
LEMMA StoreInvWrite ==
    ASSUME Typed, StoreInv, NEW h \in Handler, At(h, "write"), WriteFile(h)
    PROVE  GoodDir(files', blobs) /\ PagesBounded'
<1>1. /\ call[h].entry \in Entry /\ Good(call[h].entry, blobs)
      /\ call[h].offset \in Nat /\ call[h].offset < PageCapacity
  BY DEF Typed, TypeOK, Call, At, StoreInv, GoodCall, Good
<1>2. ASSUME NEW p \in Page
      PROVE  /\ \A i \in 1 .. Len(files'[p]) : Good(files'[p][i], blobs)
             /\ Len(files'[p]) <= PageCapacity
  <2>1. /\ files[p] \in Seq(Entry)
        /\ \A i \in 1 .. Len(files[p]) : Good(files[p][i], blobs)
        /\ Len(files[p]) <= PageCapacity
    BY DEF Typed, TypeOK, Dir, StoreInv, GoodDir, PagesBounded
  <2>2. \/ files'[p] = files[p]
        \/ files'[p] = WriteAt(files[p], call[h].offset, call[h].entry)
    BY DEF WriteFile, Typed, TypeOK, Dir
  <2> QED
    BY <1>1, <2>1, <2>2, GoodWrite
<1> QED
  BY <1>2 DEF GoodDir, PagesBounded

LEMMA StoreInvNext == Typed /\ StoreInv /\ [Next]_vars => StoreInv'
<1> SUFFICES ASSUME Typed, StoreInv, [Next]_vars PROVE StoreInv'
  OBVIOUS
<1>0. /\ call \in [Handler -> Call]
      /\ numOfFullyUsedPages \in Page
      /\ files \in Dir
  BY DEF Typed, TypeOK
<1>1. CASE LonelyInit
  BY <1>1 DEF LonelyInit, memory, StoreInv, PagesBounded
<1>2. ASSUME NEW h \in Handler, NEW k \in Key, NEW m \in Message,
             StoreBegin(h, k, m)
      PROVE  StoreInv'
  <2> DEFINE c == [call[h] EXCEPT !.pc = "add",
                                  !.entry = [key |-> k, cid |-> m]]
  <2>1. [key |-> k, cid |-> m] \in Entry
    BY DEF Entry
  <2>2. c \in Call /\ GoodCall(c, blobs)
    BY <1>0, <1>2, <2>1
       DEF StoreBegin, ValidateKey, StoreInv, GoodCall, Call, PC
  <2>3. call' = [call EXCEPT ![h] = c]
    BY <1>0, <1>2 DEF StoreBegin
  <2> QED
    BY <1>2, <2>2, <2>3, StoreInvMove DEF StoreBegin, durable, memory
<1>3. ASSUME NEW h \in Handler, AddFile(h) PROVE StoreInv'
  <2> DEFINE c == [call[h] EXCEPT !.pc = "stat", !.page = numOfFullyUsedPages]
  <2>1. call' = [call EXCEPT ![h] = c]
    BY <1>0, <1>3 DEF AddFile
  <2>2. blobs \subseteq blobs' /\ call[h].entry.cid \in blobs'
    BY <1>3 DEF AddFile
  <2>3. GoodCall(c, blobs')
    <3>1. GoodCall(call[h], blobs')
      BY <2>2, GoodCallGrows DEF StoreInv
    <3> QED
      BY <1>0, <1>3, <2>2, <3>1 DEF AddFile, At, GoodCall, Call, PC
  <2>4. \A g \in Handler : GoodCall(call'[g], blobs')
    <3> TAKE g \in Handler
    <3>1. GoodCall(call[g], blobs')
      BY <2>2, GoodCallGrows DEF StoreInv
    <3> QED
      BY <1>0, <2>1, <2>3, <3>1
  <2>5. \A d \in late \cup {files, ipns} : GoodDir(d, blobs')
    BY <2>2, GoodDirGrows DEF StoreInv
  <2> QED
    BY <1>3, <2>2, <2>4, <2>5
       DEF AddFile, memory, StoreInv, PagesBounded, Good
<1>4. ASSUME NEW h \in Handler, StatFits(h) PROVE StoreInv'
  <2> DEFINE c == [call[h] EXCEPT !.pc = "write", !.offset = SizeOf(h)]
  <2>0. SizeOf(h) \in Nat
    <3>1. files[call[h].page] \in Seq(Entry)
      BY <1>0 DEF Call, Dir
    <3> QED
      BY <3>1, LenProperties DEF SizeOf
  <2>3. SizeOf(h) < PageCapacity
    BY <1>4, <2>0, ConstantFacts DEF StatFits
  <2>1. c \in Call /\ GoodCall(c, blobs)
    BY <1>0, <1>4, <2>0, <2>3 DEF StatFits, At, StoreInv, GoodCall, Call, PC
  <2>2. call' = [call EXCEPT ![h] = c]
    BY <1>0, <1>4 DEF StatFits
  <2> QED
    BY <1>4, <2>1, <2>2, StoreInvMove DEF StatFits, durable, memory
<1>5. ASSUME NEW h \in Handler, StatFails(h) PROVE StoreInv'
  <2> DEFINE c == [call[h] EXCEPT !.pc = "write", !.offset = 0]
  <2>1. c \in Call /\ GoodCall(c, blobs)
    BY <1>0, <1>5, ConstantFacts DEF StatFails, At, StoreInv, GoodCall, Call, PC
  <2>2. call' = [call EXCEPT ![h] = c]
    BY <1>0, <1>5 DEF StatFails
  <2> QED
    BY <1>5, <2>1, <2>2, StoreInvMove DEF StatFails, durable, memory
<1>6. ASSUME NEW h \in Handler, StatFull(h) PROVE StoreInv'
  <2> DEFINE c == [call[h] EXCEPT !.pc = "bump", !.page = numOfFullyUsedPages]
  <2>1. c \in Call /\ GoodCall(c, blobs)
    BY <1>0, <1>6 DEF StatFull, At, StoreInv, GoodCall, Call, PC
  <2>2. call' = [call EXCEPT ![h] = c]
    BY <1>0, <1>6 DEF StatFull
  <2> QED
    BY <1>6, <2>1, <2>2, StoreInvMove DEF StatFull, durable, memory
<1>7. ASSUME NEW h \in Handler, Bump(h) PROVE StoreInv'
  <2> DEFINE c == [call[h] EXCEPT !.pc = "repath"]
  <2>1. c \in Call /\ GoodCall(c, blobs)
    BY <1>0, <1>7 DEF Bump, At, StoreInv, GoodCall, Call, PC
  <2>2. call' = [call EXCEPT ![h] = c]
    BY <1>0, <1>7 DEF Bump, Goto
  <2> QED
    BY <1>7, <2>1, <2>2, StoreInvMove DEF Bump, durable, memory
<1>8. ASSUME NEW h \in Handler, Repath(h) PROVE StoreInv'
  <2> DEFINE c == [call[h] EXCEPT !.pc = "stat", !.page = numOfFullyUsedPages]
  <2>1. c \in Call /\ GoodCall(c, blobs)
    BY <1>0, <1>8 DEF Repath, At, StoreInv, GoodCall, Call, PC
  <2>2. call' = [call EXCEPT ![h] = c]
    BY <1>0, <1>8 DEF Repath
  <2> QED
    BY <1>8, <2>1, <2>2, StoreInvMove DEF Repath, durable, memory
<1>9. ASSUME NEW h \in Handler, Write(h) PROVE StoreInv'
  <2> DEFINE c == [call[h] EXCEPT !.pc = "dirstat"]
  <2>1. GoodDir(files', blobs) /\ PagesBounded'
    BY <1>9, StoreInvWrite DEF Write
  <2>2. GoodCall(c, blobs)
    BY <1>0, <1>9 DEF Write, At, StoreInv, GoodCall, Call, PC
  <2>3. call' = [call EXCEPT ![h] = c]
    BY <1>0, <1>9 DEF Write, Goto
  <2>4. \A g \in Handler : GoodCall(call'[g], blobs)
    BY <1>0, <2>2, <2>3 DEF StoreInv
  <2> QED
    BY <1>9, <2>1, <2>4 DEF Write, WriteFile, memory, StoreInv
<1>10. ASSUME NEW h \in Handler, WriteUnanswered(h) PROVE StoreInv'
  <2>1. GoodDir(files', blobs) /\ PagesBounded'
    BY <1>10, StoreInvWrite DEF WriteUnanswered
  <2>2. \A g \in Handler : GoodCall(call'[g], blobs)
    BY <1>0, <1>10, GoodEmpty DEF WriteUnanswered, Return, StoreInv
  <2> QED
    BY <1>10, <2>1, <2>2 DEF WriteUnanswered, WriteFile, memory, StoreInv
<1>11. ASSUME NEW h \in Handler, DirStat(h) PROVE StoreInv'
  <2> DEFINE c == [call[h] EXCEPT !.pc = "publish", !.dir = files]
  <2>1. c \in Call /\ GoodCall(c, blobs)
    BY <1>0, <1>11 DEF DirStat, At, StoreInv, GoodCall, Call, PC
  <2>2. call' = [call EXCEPT ![h] = c]
    BY <1>0, <1>11 DEF DirStat
  <2> QED
    BY <1>11, <2>1, <2>2, StoreInvMove DEF DirStat, durable, memory
<1>12. ASSUME NEW h \in Handler, Publish(h) PROVE StoreInv'
  <2> DEFINE c == [call[h] EXCEPT !.pc = "finish"]
  <2>1. GoodCall(c, blobs)
    BY <1>0, <1>12 DEF Publish, At, StoreInv, GoodCall, Call, PC
  <2>2. call' = [call EXCEPT ![h] = c]
    BY <1>0, <1>12 DEF Publish, Goto
  <2>3. \A g \in Handler : GoodCall(call'[g], blobs)
    BY <1>0, <2>1, <2>2 DEF StoreInv
  <2>4. GoodDir(ipns', blobs)
    BY <1>12 DEF Publish, StoreInv, GoodCall
  <2> QED
    BY <1>12, <2>3, <2>4 DEF Publish, memory, StoreInv, PagesBounded
<1>13. ASSUME NEW h \in Handler, PublishTimesOut(h) PROVE StoreInv'
  <2>1. \A g \in Handler : GoodCall(call'[g], blobs)
    BY <1>0, <1>13, GoodEmpty DEF PublishTimesOut, Return, StoreInv
  <2>2. \A d \in late' : GoodDir(d, blobs)
    BY <1>13 DEF PublishTimesOut, StoreInv, GoodCall
  <2> QED
    BY <1>13, <2>1, <2>2
       DEF PublishTimesOut, durable, memory, StoreInv, PagesBounded
<1>14. ASSUME NEW d \in late, LatePublish(d) PROVE StoreInv'
  BY <1>14 DEF LatePublish, memory, StoreInv, PagesBounded
<1>15. ASSUME NEW h \in Handler, Finish(h) PROVE StoreInv'
  <2>1. \A g \in Handler : GoodCall(call'[g], blobs)
    BY <1>0, <1>15, GoodEmpty DEF Finish, Return, StoreInv
  <2>2. ASSUME NEW k \in Key, keyToCid'[k] # NoCid
        PROVE  Good([key |-> k, cid |-> keyToCid'[k]], blobs)
    <3>1. GoodCall(call[h], blobs) /\ call[h].pc = "finish"
      BY <1>15 DEF Finish, At, StoreInv
    <3>2. CASE k = call[h].entry.key
      BY <1>15, <3>1, <3>2 DEF Finish, Typed, TypeOK, GoodCall, Good
    <3>3. CASE k # call[h].entry.key
      BY <1>15, <2>2, <3>3 DEF Finish, Typed, TypeOK, StoreInv
    <3> QED
      BY <3>2, <3>3
  <2> QED
    BY <1>15, <2>1, <2>2 DEF Finish, durable, StoreInv, PagesBounded
<1>16. ASSUME NEW h \in Handler, StoreError(h) PROVE StoreInv'
  <2>1. \A g \in Handler : GoodCall(call'[g], blobs)
    BY <1>0, <1>16, GoodEmpty DEF StoreError, Return, StoreInv
  <2> QED
    BY <1>16, <2>1 DEF StoreError, durable, memory, StoreInv, PagesBounded
<1>17. CASE Crash
  BY <1>17, StoreInvDie DEF Crash
<1>18. ASSUME NEW h \in Handler, PublishPanics(h) PROVE StoreInv'
  BY <1>18, StoreInvDie DEF PublishPanics
<1>19. CASE UNCHANGED vars
  BY <1>19 DEF vars, StoreInv, PagesBounded
<1> QED
  BY <1>1, <1>2, <1>3, <1>4, <1>5, <1>6, <1>7, <1>8, <1>9, <1>10, <1>11,
     <1>12, <1>13, <1>14, <1>15, <1>16, <1>17, <1>18, <1>19
     DEF Next, Step, Failure

(* Under any interleaving and any failure, what the write path holds and   *)
(* is about to publish is good: backed by a message, under its own key.    *)
THEOREM StoreInvariant == Spec => []StoreInv
<1>1. Spec => [](Typed /\ StoreInv)
  BY TypedInit, TypedNext, StoreInvInit, StoreInvNext, PTL DEF Spec
<1> QED
  BY <1>1, PTL

(* The entries of a good directory are good.                               *)
LEMMA GoodEntries ==
    ASSUME NEW d, NEW B, GoodDir(d, B), NEW e \in Entries(d)
    PROVE  e \in Entry /\ Good(e, B)
  BY DEF Entries, GoodDir

(* No entry is ever visible before its message can be fetched.             *)
THEOREM MessagesBackEntries == Spec => []EntriesBacked
<1>1. StoreInv => EntriesBacked
  BY GoodEntries DEF StoreInv, EntriesBacked, Good
<1> QED
  BY <1>1, StoreInvariant, PTL

(* A key is never bound to two messages: what the checksum in the key      *)
(* buys, over all the copies of the mapping that a node holds.             *)
THEOREM KeysAreImmutable == Spec => []KeyBindsOneCid
<1>1. Typed /\ StoreInv => KeyBindsOneCid
  <2> SUFFICES ASSUME Typed, StoreInv PROVE KeyBindsOneCid
    OBVIOUS
  <2> DEFINE Bound == Entries(files) \cup Entries(ipns)
                      \cup {[key |-> k, cid |-> keyToCid[k]] : k \in Key}
  <2>1. ASSUME NEW e \in Bound, e.cid # NoCid
        PROVE  e.cid \in Message /\ e.key \in Key /\ KeyOf[e.cid] = e.key
    <3>1. CASE e \in Entries(files) \cup Entries(ipns)
      BY <3>1, GoodEntries DEF StoreInv, Good, Entry
    <3>2. CASE e \in {[key |-> k, cid |-> keyToCid[k]] : k \in Key}
      BY <2>1, <3>2 DEF StoreInv, Good, Typed, TypeOK
    <3> QED
      BY <3>1, <3>2
  <2> QED
    BY <2>1, CollisionFree DEF KeyBindsOneCid
<1>2. Spec => [](Typed /\ StoreInv)
  BY TypedInit, TypedNext, StoreInvInit, StoreInvNext, PTL DEF Spec
<1> QED
  BY <1>1, <1>2, PTL

(* However the size queries and the writes of concurrent calls interleave, *)
(* no page outgrows its limit.                                             *)
THEOREM PagesStayBounded == Spec => []PagesBounded
<1>1. StoreInv => PagesBounded
  BY DEF StoreInv
<1> QED
  BY <1>1, StoreInvariant, PTL

-----------------------------------------------------------------------------
(* Part two: one handler at a time, and no failure that outlives its call. *)

LEMMA ExtendsReflexive == \A d \in Dir : Extends(d, d)
<1> TAKE d \in Dir
<1>1. \A p \in Page : Len(d[p]) \in Nat
  BY LenProperties DEF Dir
<1> QED
  BY <1>1 DEF Extends

LEMMA ExtendsEntries ==
    ASSUME NEW d \in Dir, NEW e \in Dir, Extends(e, d)
    PROVE  Entries(d) \subseteq Entries(e)
<1> SUFFICES ASSUME NEW x \in Entry, NEW p \in Page, NEW i \in 1 .. Len(d[p]),
                    d[p][i] = x
             PROVE  \E j \in 1 .. Len(e[p]) : e[p][j] = x
  BY DEF Entries
<1>1. Len(d[p]) \in Nat /\ Len(e[p]) \in Nat
  BY LenProperties DEF Dir
<1>2. i \in 1 .. Len(e[p]) /\ e[p][i] = x
  BY <1>1 DEF Extends
<1> QED
  BY <1>2

(* Alone, a call writes at the end of the last page.                       *)
LEMMA SerialWrite ==
    ASSUME Typed, SerialInv, NEW h \in Handler, At(h, "write"), WriteFile(h)
    PROVE  LET q == numOfFullyUsedPages
           IN  /\ q \in Page
               /\ Len(files[q]) \in Nat /\ Len(files[q]) < PageCapacity
               /\ Len(files'[q]) = Len(files[q]) + 1
               /\ \A i \in 1 .. Len(files[q]) : files'[q][i] = files[q][i]
               /\ files'[q][Len(files[q]) + 1] = call[h].entry
               /\ \A p \in Page : p # q => files'[p] = files[p]
<1> DEFINE q == numOfFullyUsedPages
<1>1. /\ q \in Page /\ call[h].page = q
      /\ call[h].offset = Len(files[q]) /\ call[h].offset < PageCapacity
      /\ call[h].entry \in Entry
      /\ files \in Dir /\ files[q] \in Seq(Entry)
  BY DEF Typed, TypeOK, Dir, At, SerialInv, KnowsFiles
<1>2. files' = [files EXCEPT
                    ![q] = WriteAt(files[q], Len(files[q]), call[h].entry)]
  BY <1>1 DEF WriteFile, Dir
<1>3. Len(files[q]) \in Nat
  BY <1>1, LenProperties
<1>4. WriteAt(files[q], Len(files[q]), call[h].entry)
          = Append(files[q], call[h].entry)
  BY <1>3 DEF WriteAt
<1>5. files'[q] = Append(files[q], call[h].entry)
  BY <1>1, <1>2, <1>4 DEF Dir
<1>6. \A p \in Page : p # q => files'[p] = files[p]
  BY <1>1, <1>2 DEF Dir
<1>7. /\ Len(files'[q]) = Len(files[q]) + 1
      /\ \A i \in 1 .. Len(files[q]) : files'[q][i] = files[q][i]
      /\ files'[q][Len(files[q]) + 1] = call[h].entry
  BY <1>1, <1>5, AppendProperties
<1> QED
  BY <1>1, <1>3, <1>6, <1>7

LEMMA SerialWriteExtends ==
    ASSUME Typed, SerialInv, NEW h \in Handler, At(h, "write"), WriteFile(h)
    PROVE  /\ Extends(files', files)
           /\ Entries(files') = Entries(files) \cup {call[h].entry}
<1> DEFINE q == numOfFullyUsedPages
<1>1. /\ q \in Page
      /\ Len(files[q]) \in Nat
      /\ Len(files'[q]) = Len(files[q]) + 1
      /\ \A i \in 1 .. Len(files[q]) : files'[q][i] = files[q][i]
      /\ files'[q][Len(files[q]) + 1] = call[h].entry
      /\ \A p \in Page : p # q => files'[p] = files[p]
  BY SerialWrite
<1>2. \A p \in Page : Len(files[p]) \in Nat
  BY LenProperties DEF Typed, TypeOK, Dir
<1>3. Extends(files', files)
  <2> SUFFICES ASSUME NEW p \in Page
               PROVE  /\ Len(files[p]) <= Len(files'[p])
                      /\ \A i \in 1 .. Len(files[p]) :
                             files'[p][i] = files[p][i]
    BY DEF Extends
  <2> QED
    BY <1>1, <1>2
<1>4. Entries(files) \subseteq Entries(files')
  BY <1>3, ExtendsEntries, TypedWrite DEF Typed, TypeOK
<1>5. call[h].entry \in Entries(files')
  <2>1. Len(files[q]) + 1 \in 1 .. Len(files'[q])
    BY <1>1
  <2>2. call[h].entry \in Entry
    BY DEF Typed, At
  <2> QED
    BY <1>1, <2>1, <2>2 DEF Entries
<1>6. ASSUME NEW x \in Entries(files'), x # call[h].entry
      PROVE  x \in Entries(files)
  <2>1. x \in Entry
    BY <1>6 DEF Entries
  <2>2. PICK p \in Page : \E i \in 1 .. Len(files'[p]) : files'[p][i] = x
    BY <1>6 DEF Entries
  <2>3. PICK i \in 1 .. Len(files'[p]) : files'[p][i] = x
    BY <2>2
  <2>4. i \in 1 .. Len(files[p]) /\ files[p][i] = x
    <3>1. CASE p = q
      <4>1. i \in 1 .. Len(files[q]) + 1 /\ i # Len(files[q]) + 1
        BY <1>1, <1>6, <2>3, <3>1
      <4>2. i \in 1 .. Len(files[q])
        BY <1>1, <4>1
      <4> QED
        BY <1>1, <2>3, <3>1, <4>2
    <3>2. CASE p # q
      BY <1>1, <2>3, <3>2
    <3> QED
      BY <3>1, <3>2
  <2> QED
    BY <2>1, <2>4 DEF Entries
<1> QED
  BY <1>3, <1>4, <1>5, <1>6

LEMMA SerialWritePages ==
    ASSUME Typed, SerialInv, NEW h \in Handler, At(h, "write"), WriteFile(h)
    PROVE  PagesBounded' /\ PagesInOrder'
<1> DEFINE q == numOfFullyUsedPages
<1>1. /\ q \in Page
      /\ Len(files[q]) \in Nat /\ Len(files[q]) < PageCapacity
      /\ Len(files'[q]) = Len(files[q]) + 1
      /\ \A p \in Page : p # q => files'[p] = files[p]
  BY SerialWrite
<1>2. /\ \A p \in Page : Len(files[p]) <= PageCapacity
      /\ \A p \in Page \ {0} :
             files[p] # << >> => Len(files[p - 1]) = PageCapacity
      /\ \A p \in Page : p < q => Len(files[p]) = PageCapacity
  BY DEF SerialInv, PagesBounded, PagesInOrder
<1>3. PagesBounded'
  <2>1. Len(files[q]) + 1 <= PageCapacity
    BY <1>1, ConstantFacts
  <2> QED
    BY <1>1, <1>2, <2>1 DEF PagesBounded
<1>4. ASSUME NEW p \in Page \ {0}, files'[p] # << >>
      PROVE  Len(files'[p - 1]) = PageCapacity
  <2>1. p - 1 \in Page /\ p - 1 < p /\ p \in Nat /\ q \in Nat
    BY <1>1, NodeStoreAssumption DEF Page
  <2>2. CASE p = q
    BY <1>1, <1>2, <2>1, <2>2
  <2>3. CASE p # q
    <3>1. Len(files[p - 1]) = PageCapacity
      BY <1>1, <1>2, <1>4, <2>3
    <3>2. p - 1 # q
      BY <1>1, <3>1, ConstantFacts
    <3> QED
      BY <1>1, <2>1, <3>1, <3>2
  <2> QED
    BY <2>2, <2>3
<1>5. ASSUME NEW p \in Page, p < q PROVE Len(files'[p]) = PageCapacity
  <2>1. p # q
    BY <1>1, <1>5 DEF Page
  <2> QED
    BY <1>1, <1>2, <1>5, <2>1
<1>6. numOfFullyUsedPages' = q
  BY DEF WriteFile, memory
<1> QED
  BY <1>3, <1>4, <1>5, <1>6 DEF PagesInOrder

(* What the invariant says of a call, and of the pages.                    *)
LEMMA SerialCall ==
    ASSUME Typed, SerialInv, NEW h \in Handler
    PROVE  KnowsFiles(call[h]) /\ call[h] \in Call
  BY DEF SerialInv, Typed, TypeOK

(* A step that changes only the call of the one handler.                   *)
LEMMA SerialMove ==
    ASSUME Serial, SerialInv, NEW h \in Handler, KnowsFiles(call[h])',
           UNCHANGED <<files, ipns, late, acked, numOfFullyUsedPages>>
    PROVE  SerialInv'
<1>1. \A g \in Handler : KnowsFiles(call[g])'
  BY DEF Serial
<1> QED
  BY <1>1 DEF SerialInv, PagesBounded, PagesInOrder, AckedPublished

(* A call that has returned knows nothing.                                 *)
LEMMA SerialReturn ==
    ASSUME Typed, NEW h \in Handler, Return(h) PROVE KnowsFiles(call[h])'
  BY NoCallType DEF Typed, TypeOK, Return, KnowsFiles

(* When the process ends, the counter goes back to the first page.         *)
LEMMA SerialDie == SerialInv /\ Die => SerialInv'
<1> SUFFICES ASSUME SerialInv, Die PROVE SerialInv'
  OBVIOUS
<1>1. \A h \in Handler : KnowsFiles(call[h])'
  BY NoCallType DEF Die, KnowsFiles
<1>2. PagesInOrder'
  <2>1. \A p \in Page : ~(p < 0)
    BY DEF Page
  <2> QED
    BY <2>1 DEF Die, durable, SerialInv, PagesInOrder
<1> QED
  BY <1>1, <1>2 DEF Die, durable, SerialInv, PagesBounded, AckedPublished

(* Publishing the current pages publishes what is acknowledged.            *)
LEMMA SerialPublish ==
    ASSUME Typed, SerialInv, ipns' = files, UNCHANGED <<files, acked>>
    PROVE  AckedPublished' /\ Extends(files', ipns') /\ Extends(ipns', ipns)
<1>1. Entries(ipns) \subseteq Entries(files)
  BY ExtendsEntries DEF Typed, TypeOK, SerialInv
<1>2. Extends(files, files)
  BY ExtendsReflexive DEF Typed, TypeOK
<1> QED
  BY <1>1, <1>2 DEF SerialInv, AckedPublished

LEMMA SerialInit == Init => SerialInv
<1> SUFFICES ASSUME Init PROVE SerialInv
  OBVIOUS
<1>1. \A p \in Page : EmptyDir[p] = << >> /\ Len(EmptyDir[p]) = 0
  BY EmptySeq DEF EmptyDir
<1>2. Extends(files, ipns)
  BY ExtendsReflexive, EmptyDirType DEF Init
<1>3. PagesInOrder
  <2>1. \A p \in Page : ~(p < 0)
    BY DEF Page
  <2> QED
    BY <1>1, <2>1 DEF Init, PagesInOrder
<1>4. PagesBounded
  BY <1>1, ConstantFacts DEF Init, PagesBounded
<1>5. \A h \in Handler : KnowsFiles(call[h])
  BY NoCallType DEF Init, KnowsFiles
<1> QED
  BY <1>2, <1>3, <1>4, <1>5 DEF Init, SerialInv, AckedPublished

LEMMA SerialNext ==
    ASSUME Serial, Reliable, Typed, SerialInv, [Next]_vars
    PROVE  SerialInv'
<1>0. /\ call \in [Handler -> Call]
      /\ numOfFullyUsedPages \in Page
      /\ "stat" \notin Fault /\ "timeout" \notin Fault
  BY DEF Typed, TypeOK, Reliable
<1>1. CASE LonelyInit
  <2>1. AckedPublished' /\ Extends(files', ipns')
    BY <1>1, SerialPublish DEF LonelyInit
  <2>2. \A h \in Handler : KnowsFiles(call[h])'
    BY <1>1 DEF LonelyInit, memory, SerialInv, KnowsFiles
  <2> QED
    BY <1>1, <2>1, <2>2
       DEF LonelyInit, memory, SerialInv, PagesBounded, PagesInOrder
<1>2. ASSUME NEW h \in Handler, NEW k \in Key, NEW m \in Message,
             StoreBegin(h, k, m)
      PROVE  SerialInv'
  <2>1. KnowsFiles(call[h])'
    BY <1>0, <1>2 DEF StoreBegin, KnowsFiles, Call
  <2> QED
    BY <1>2, <2>1, SerialMove DEF StoreBegin, durable, memory
<1>3. ASSUME NEW h \in Handler, AddFile(h) PROVE SerialInv'
  <2>1. KnowsFiles(call[h])'
    BY <1>0, <1>3, SerialCall DEF AddFile, memory, At, KnowsFiles, Call
  <2> QED
    BY <1>3, <2>1, SerialMove DEF AddFile, memory
<1>4. ASSUME NEW h \in Handler, StatFits(h) PROVE SerialInv'
  <2>1. SizeOf(h) < PageCapacity
    <3>1. files[call[h].page] \in Seq(Entry)
      BY <1>0 DEF Call, Dir, Typed, TypeOK
    <3>2. SizeOf(h) \in Nat
      BY <3>1, LenProperties DEF SizeOf
    <3> QED
      BY <1>4, <3>2, ConstantFacts DEF StatFits
  <2>2. KnowsFiles(call[h])'
    BY <1>0, <1>4, <2>1, SerialCall
       DEF StatFits, SizeOf, durable, memory, At, KnowsFiles, Call
  <2> QED
    BY <1>4, <2>2, SerialMove DEF StatFits, durable, memory
<1>5. ASSUME NEW h \in Handler, StatFails(h) PROVE SerialInv'
  BY <1>0, <1>5 DEF StatFails, Failing
<1>6. ASSUME NEW h \in Handler, StatFull(h) PROVE SerialInv'
  <2>1. Len(files[call[h].page]) = PageCapacity
    <3>1. files[call[h].page] \in Seq(Entry) /\ call[h].page \in Page
      BY <1>0 DEF Call, Dir, Typed, TypeOK
    <3>2. Len(files[call[h].page]) \in Nat
      BY <3>1, LenProperties
    <3>3. Len(files[call[h].page]) <= PageCapacity
      BY <3>1 DEF SerialInv, PagesBounded
    <3>4. Len(files[call[h].page]) + 1 > PageCapacity
      BY <1>6 DEF StatFull, SizeOf
    <3> QED
      BY <3>2, <3>3, <3>4, ConstantFacts
  <2>2. KnowsFiles(call[h])'
    BY <1>0, <1>6, <2>1, SerialCall
       DEF StatFull, durable, memory, At, KnowsFiles, Call
  <2> QED
    BY <1>6, <2>2, SerialMove DEF StatFull, durable, memory
<1>7. ASSUME NEW h \in Handler, Bump(h) PROVE SerialInv'
  <2>1. /\ call[h].page = numOfFullyUsedPages
        /\ Len(files[numOfFullyUsedPages]) = PageCapacity
        /\ numOfFullyUsedPages' = numOfFullyUsedPages + 1
    BY <1>7, SerialCall DEF Bump, At, KnowsFiles
  <2>2. \A p \in Page : p < numOfFullyUsedPages' =>
            p < numOfFullyUsedPages \/ p = numOfFullyUsedPages
    BY <1>0, <2>1 DEF Page
  <2>3. KnowsFiles(call[h])'
    BY <1>0, <1>7, SerialCall DEF Bump, Goto, At, KnowsFiles, Call
  <2>4. \A g \in Handler : KnowsFiles(call[g])'
    BY <2>3 DEF Serial
  <2> QED
    BY <1>7, <2>1, <2>2, <2>4
       DEF Bump, durable, SerialInv, PagesBounded, PagesInOrder, AckedPublished
<1>8. ASSUME NEW h \in Handler, Repath(h) PROVE SerialInv'
  <2>1. KnowsFiles(call[h])'
    BY <1>0, <1>8, SerialCall DEF Repath, durable, memory, At, KnowsFiles, Call
  <2> QED
    BY <1>8, <2>1, SerialMove DEF Repath, durable, memory
<1>9. ASSUME NEW h \in Handler, WriteFile(h), At(h, "write"),
             Goto(h, "dirstat") \/ Return(h)
      PROVE  SerialInv'
  <2>1. PagesBounded' /\ PagesInOrder'
    BY <1>9, SerialWritePages
  <2>2. /\ Extends(files', files)
        /\ Entries(files') = Entries(files) \cup {call[h].entry}
    BY <1>9, SerialWriteExtends
  <2>3. Extends(files', ipns')
    <3>1. \A p \in Page : /\ Len(files'[p]) \in Nat
                          /\ Len(files[p]) \in Nat
                          /\ Len(ipns[p]) \in Nat
      BY <1>9, TypedWrite, LenProperties DEF Typed, TypeOK, Dir
    <3> QED
      BY <1>9, <2>2, <3>1 DEF WriteFile, SerialInv, Extends
  <2>4. KnowsFiles(call[h])'
    <3>1. CASE Return(h)
      BY <3>1, SerialReturn
    <3>2. CASE Goto(h, "dirstat")
      <4>1. call'[h].pc = "dirstat" /\ call'[h].entry = call[h].entry
        BY <1>0, <3>2 DEF Goto, Call
      <4>2. up'
        BY <1>9, SerialCall DEF WriteFile, At, KnowsFiles
      <4> QED
        BY <2>2, <4>1, <4>2 DEF KnowsFiles
    <3> QED
      BY <1>9, <3>1, <3>2
  <2>5. \A g \in Handler : KnowsFiles(call[g])'
    BY <2>4 DEF Serial
  <2> QED
    BY <1>9, <2>1, <2>3, <2>5 DEF WriteFile, SerialInv, AckedPublished
<1>10. ASSUME NEW h \in Handler, Write(h) \/ WriteUnanswered(h) PROVE SerialInv'
  BY <1>9, <1>10 DEF Write, WriteUnanswered
<1>11. ASSUME NEW h \in Handler, DirStat(h) PROVE SerialInv'
  <2>1. KnowsFiles(call[h])'
    BY <1>0, <1>11, SerialCall DEF DirStat, durable, memory, At, KnowsFiles, Call
  <2> QED
    BY <1>11, <2>1, SerialMove DEF DirStat, durable, memory
<1>12. ASSUME NEW h \in Handler, Publish(h) PROVE SerialInv'
  <2>1. call[h].dir = files
    BY <1>12, SerialCall DEF Publish, At, KnowsFiles
  <2>2. AckedPublished' /\ Extends(files', ipns')
    BY <1>12, <2>1, SerialPublish DEF Publish
  <2>3. KnowsFiles(call[h])'
    BY <1>0, <1>12, <2>1, SerialCall
       DEF Publish, Goto, memory, At, KnowsFiles, Call
  <2>4. \A g \in Handler : KnowsFiles(call[g])'
    BY <2>3 DEF Serial
  <2> QED
    BY <1>12, <2>2, <2>4
       DEF Publish, memory, SerialInv, PagesBounded, PagesInOrder
<1>13. ASSUME NEW h \in Handler, PublishTimesOut(h) PROVE SerialInv'
  BY <1>0, <1>13 DEF PublishTimesOut, Failing
<1>14. ASSUME NEW d \in late, LatePublish(d) PROVE SerialInv'
  BY <1>14 DEF SerialInv
<1>15. ASSUME NEW h \in Handler, Finish(h) PROVE SerialInv'
  <2>1. call[h].entry \in Entries(ipns)
    BY <1>15, SerialCall DEF Finish, At, KnowsFiles
  <2>2. AckedPublished'
    BY <1>15, <2>1 DEF Finish, durable, SerialInv, AckedPublished
  <2>3. \A g \in Handler : KnowsFiles(call[g])'
    BY <1>15, SerialReturn DEF Finish, Serial
  <2> QED
    BY <1>15, <2>2, <2>3
       DEF Finish, durable, SerialInv, PagesBounded, PagesInOrder
<1>16. ASSUME NEW h \in Handler, StoreError(h) PROVE SerialInv'
  BY <1>16, SerialReturn, SerialMove DEF StoreError, durable, memory
<1>17. CASE Crash
  BY <1>17, SerialDie DEF Crash
<1>18. ASSUME NEW h \in Handler, PublishPanics(h) PROVE SerialInv'
  BY <1>18, SerialDie DEF PublishPanics
<1>19. CASE UNCHANGED vars
  BY <1>19 DEF vars, SerialInv, PagesBounded, PagesInOrder, AckedPublished,
               KnowsFiles
<1> QED
  BY <1>1, <1>2, <1>3, <1>4, <1>5, <1>6, <1>7, <1>8, <1>10, <1>11, <1>12,
     <1>13, <1>14, <1>15, <1>16, <1>17, <1>18, <1>19 DEF Next, Step, Failure

(* What a lone handler knows of the pages, at every step of a call.        *)
THEOREM SerialInvariant ==
    ASSUME Serial, Reliable PROVE Spec => [](Typed /\ SerialInv)
<1>1. Init => Typed /\ SerialInv
  BY TypedInit, SerialInit
<1>2. Typed /\ SerialInv /\ [Next]_vars => (Typed /\ SerialInv)'
  BY TypedNext, SerialNext
<1> QED
  BY <1>1, <1>2, PTL DEF Spec

(* Alone, what Store has acknowledged is what other nodes find.            *)
THEOREM AcknowledgedIsPublished ==
    ASSUME Serial, Reliable PROVE Spec => []AckedPublished
<1>1. SerialInv => AckedPublished
  BY DEF SerialInv
<1> QED
  BY <1>1, SerialInvariant, PTL

(* Alone, the pages fill one after the other.                              *)
THEOREM PagesFillInOrder ==
    ASSUME Serial, Reliable PROVE Spec => []PagesInOrder
<1>1. SerialInv => PagesInOrder
  BY DEF SerialInv
<1> QED
  BY <1>1, SerialInvariant, PTL

(* The steps that change the pages or what is published.                   *)
LEMMA SerialStep ==
    ASSUME Serial, Reliable, Typed, SerialInv, [Next]_vars
    PROVE  \/ /\ ipns' = files
              /\ UNCHANGED <<files, acked>>
           \/ \E h \in Handler :
                 /\ At(h, "write") /\ WriteFile(h)
                 /\ UNCHANGED acked
           \/ \E h \in Handler :
                 /\ call[h].entry \in Entry \cap Entries(ipns)
                 /\ acked' = acked \cup {call[h].entry}
                 /\ UNCHANGED <<files, ipns>>
           \/ UNCHANGED <<files, ipns, acked>>
<1>1. CASE LonelyInit
  BY <1>1 DEF LonelyInit
<1>2. ASSUME NEW h \in Handler, Write(h) \/ WriteUnanswered(h)
      PROVE  At(h, "write") /\ WriteFile(h) /\ UNCHANGED acked
  BY <1>2 DEF Write, WriteUnanswered, WriteFile
<1>3. ASSUME NEW h \in Handler, Publish(h)
      PROVE  ipns' = files /\ UNCHANGED <<files, acked>>
  BY <1>3, SerialCall DEF Publish, At, KnowsFiles
<1>4. ASSUME NEW h \in Handler, Finish(h)
      PROVE  /\ call[h].entry \in Entry \cap Entries(ipns)
             /\ acked' = acked \cup {call[h].entry}
             /\ UNCHANGED <<files, ipns>>
  BY <1>4, SerialCall DEF Finish, durable, At, KnowsFiles, Typed
<1>5. ASSUME NEW d \in late, LatePublish(d) PROVE FALSE
  BY <1>5 DEF SerialInv
<1>6. ASSUME NEW h \in Handler, NEW k \in Key, NEW m \in Message,
             StoreBegin(h, k, m)
      PROVE  UNCHANGED <<files, ipns, acked>>
  BY <1>6 DEF StoreBegin, durable
<1>7. ASSUME NEW h \in Handler,
             AddFile(h) \/ StatFits(h) \/ StatFull(h) \/ Bump(h) \/ Repath(h)
      PROVE  UNCHANGED <<files, ipns, acked>>
  BY <1>7 DEF AddFile, StatFits, StatFull, Bump, Repath, durable
<1>8. ASSUME NEW h \in Handler,
             DirStat(h) \/ StatFails(h) \/ PublishTimesOut(h) \/ StoreError(h)
      PROVE  UNCHANGED <<files, ipns, acked>>
  BY <1>8 DEF DirStat, StatFails, PublishTimesOut, StoreError, durable
<1>9. ASSUME Crash \/ \E h \in Handler : PublishPanics(h)
      PROVE  UNCHANGED <<files, ipns, acked>>
  BY <1>9 DEF Crash, PublishPanics, Die, durable
<1>10. CASE UNCHANGED vars
  BY <1>10 DEF vars
<1> QED
  BY <1>1, <1>2, <1>3, <1>4, <1>5, <1>6, <1>7, <1>8, <1>9, <1>10
     DEF Next, Step, Failure

(* Alone, no step takes an entry away, from the pages or from what other   *)
(* nodes read.                                                             *)
THEOREM NothingIsLost ==
    ASSUME Serial, Reliable PROVE Spec => AppendOnly
<1>1. Typed /\ SerialInv /\ [Next]_vars =>
          [Extends(files', files) /\ Extends(ipns', ipns)]_vars
  <2> SUFFICES ASSUME Typed, SerialInv, [Next]_vars
               PROVE  Extends(files', files) /\ Extends(ipns', ipns)
    OBVIOUS
  <2>1. Extends(files, files) /\ Extends(ipns, ipns)
    BY ExtendsReflexive DEF Typed, TypeOK
  <2>2. CASE ipns' = files /\ UNCHANGED <<files, acked>>
    BY <2>1, <2>2 DEF SerialInv
  <2>3. ASSUME NEW h \in Handler, At(h, "write"), WriteFile(h)
        PROVE  Extends(files', files) /\ Extends(ipns', ipns)
    BY <2>1, <2>3, SerialWriteExtends DEF WriteFile
  <2>4. CASE UNCHANGED <<files, ipns>>
    BY <2>1, <2>4
  <2> QED
    BY <2>2, <2>3, <2>4, SerialStep
<1> QED
  BY <1>1, SerialInvariant, PTL DEF Spec, AppendOnly

(* Alone, the write path implements the ledger: every step keeps, publishes*)
(* or acknowledges entries, or changes nothing the ledger shows.           *)
THEOREM ImplementsLedger ==
    ASSUME Serial, Reliable PROVE Spec => LedgerSpec
<1>1. Init => Ledger!Init
  <2> SUFFICES ASSUME Init PROVE Ledger!Init
    OBVIOUS
  <2>1. \A p \in Page : Len(EmptyDir[p]) = 0
    BY EmptySeq DEF EmptyDir
  <2>2. Entries(EmptyDir) = {}
    BY <2>1 DEF Entries
  <2> QED
    BY <2>2 DEF Init, Ledger!Init
<1>2. Typed /\ SerialInv /\ [Next]_vars => [Ledger!Next]_(Ledger!vars)
  <2> SUFFICES ASSUME Typed, SerialInv, [Next]_vars
               PROVE  Ledger!Next \/ UNCHANGED Ledger!vars
    OBVIOUS
  <2>1. CASE ipns' = files /\ UNCHANGED <<files, acked>>
    BY <2>1 DEF Ledger!Next, Ledger!PublishAll
  <2>2. ASSUME NEW h \in Handler, At(h, "write"), WriteFile(h),
               UNCHANGED acked
        PROVE  Ledger!Next
    <3>1. call[h].entry \in Entry
      BY <2>2 DEF Typed, At
    <3>2. Ledger!Keep(call[h].entry)
      BY <2>2, SerialWriteExtends DEF WriteFile, Ledger!Keep
    <3> QED
      BY <3>1, <3>2 DEF Ledger!Next
  <2>3. ASSUME NEW e \in Entry, e \in Entries(ipns),
               acked' = acked \cup {e}, UNCHANGED <<files, ipns>>
        PROVE  Ledger!Next
    BY <2>3 DEF Ledger!Next, Ledger!Acknowledge
  <2>4. CASE UNCHANGED <<files, ipns, acked>>
    BY <2>4 DEF Ledger!vars
  <2> QED
    BY <2>1, <2>2, <2>3, <2>4, SerialStep
<1> QED
  BY <1>1, <1>2, SerialInvariant, PTL DEF Spec, LedgerSpec, Ledger!Spec

(* The ledger keeps its promise, whoever implements it.                    *)
THEOREM LedgerIsDurable == LedgerSpec => []Ledger!Durable
<1>1. Ledger!Init => Ledger!Durable
  BY DEF Ledger!Init, Ledger!Durable
<1>2. Ledger!Durable /\ [Ledger!Next]_(Ledger!vars) => Ledger!Durable'
  BY DEF Ledger!Durable, Ledger!Next, Ledger!PublishAll, Ledger!Keep,
         Ledger!Acknowledge, Ledger!vars
<1> QED
  BY <1>1, <1>2, PTL DEF LedgerSpec, Ledger!Spec

(* Alone, what Store has acknowledged stays on the pages for ever: what    *)
(* the concurrent runs refute holds without concurrency and failures.      *)
THEOREM AcknowledgedIsKept ==
    ASSUME Serial, Reliable PROVE Spec => []AckedKept
<1>1. Ledger!Durable => AckedKept
  BY DEF Ledger!Durable, AckedKept
<1> QED
  BY <1>1, ImplementsLedger, LedgerIsDurable, PTL
=============================================================================
