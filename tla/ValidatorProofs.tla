--------------------------- MODULE ValidatorProofs ---------------------------
(***************************************************************************)
(* Theorems about the validation of a directory, for every number of pages,*)
(* any texts on them, any retries and any failures.                        *)
(***************************************************************************)
EXTENDS Validator, RecordsProofs, TLAPS

LEMMA FaultsCounted ==
    ASSUME faults \in [FaultKind -> 0 .. MaxFaults], NEW kind, Failing(kind)
    PROVE  /\ faults' \in [FaultKind -> 0 .. MaxFaults]
           /\ \A f \in FaultKind : faults[f] <= faults'[f]
<1>1. /\ kind \in FaultKind
      /\ \A f \in FaultKind : faults[f] \in Nat /\ MaxFaults \in Nat
      /\ faults' = [faults EXCEPT ![kind] = faults[kind] + 1]
  BY ValidatorAssumption DEF Failing
<1>2. faults[kind] < MaxFaults
  BY <1>1 DEF Failing, FaultKind
<1> QED
  BY <1>1, <1>2

LEMMA NewTasks ==
    /\ NewPageTask \in PageTask
    /\ NewEntryTask \in EntryTask
    /\ [NewEntryTask EXCEPT !.pc = "run"] \in EntryTask
  BY DEF NewPageTask, PageTask, NewEntryTask, EntryTask, Outcome

LEMMA EntryTyped ==
    ASSUME TypeOK, NEW p \in Page, NEW e \in Entry,
           NEW out \in Outcome, EntryDone(p, e, out)
    PROVE  entry' \in [Page -> [Entry -> EntryTask]]
<1> DEFINE r == [entry[p][e] EXCEPT !.pc = "send", !.out = out]
           es == [entry[p] EXCEPT ![e] = r]
<1>1. entry[p] \in [Entry -> EntryTask] /\ entry[p][e] \in EntryTask
  BY DEF TypeOK
<1>2. r \in EntryTask
  BY <1>1 DEF EntryTask
<1>3. entry' = [entry EXCEPT ![p] = es]
  BY <1>1 DEF EntryDone, TypeOK, EntryTask
<1> HIDE DEF r
<1>4. es \in [Entry -> EntryTask]
  BY <1>1, <1>2
<1> HIDE DEF es
<1> QED
  BY <1>3, <1>4 DEF TypeOK

LEMMA AttemptTyped ==
    ASSUME TypeOK, NEW p \in Page
    PROVE  AttemptFailed(p) \in PageTask
<1>1. page[p] \in PageTask
  BY DEF TypeOK
<1>2. [page[p] EXCEPT !.pc = "send", !.out = "error"] \in PageTask
  BY <1>1 DEF PageTask, Outcome
<1>3. [NewPageTask EXCEPT !.tries = page[p].tries + 1] \in PageTask
  BY <1>1, NewTasks DEF PageTask
<1> QED
  BY <1>2, <1>3 DEF AttemptFailed

LEMMA PageTyped ==
    ASSUME TypeOK, NEW p \in Page, NEW r \in PageTask,
           page' = [page EXCEPT ![p] = r]
    PROVE  page' \in [Page -> PageTask]
  BY DEF TypeOK

LEMMA TypeInit == Init => TypeOK
<1> SUFFICES ASSUME Init PROVE TypeOK
  OBVIOUS
<1>1. 0 \in 0 .. MaxFaults
  BY ValidatorAssumption
<1>2. faults \in [FaultKind -> 0 .. MaxFaults]
  BY <1>1 DEF Init
<1>3. /\ page \in [Page -> PageTask]
      /\ entry \in [Page -> [Entry -> EntryTask]]
  BY NewTasks DEF Init
<1> QED
  BY <1>2, <1>3 DEF Init, TypeOK

LEMMA EntryStepsType ==
    ASSUME TypeOK, NEW p \in Page, NEW e \in Entry,
           Validate(p, e) \/ ValidateFails(p, e)
    PROVE  TypeOK'
<1>1. entry[p] \in [Entry -> EntryTask] /\ entry[p][e] \in EntryTask
  BY DEF TypeOK
<1>2. faults' \in [FaultKind -> 0 .. MaxFaults]
  BY FaultsCounted DEF TypeOK, Validate, ValidateFails, MessageFails
<1>3. entry' \in [Page -> [Entry -> EntryTask]]
  <2>1. CASE \E out \in Outcome : EntryDone(p, e, out)
    BY <2>1, EntryTyped
  <2>2. CASE entry' = [entry EXCEPT ![p][e].tries = @ + 1]
    <3> DEFINE r == [entry[p][e] EXCEPT !.tries = entry[p][e].tries + 1]
               es == [entry[p] EXCEPT ![e] = r]
    <3>1. r \in EntryTask
      BY <1>1 DEF EntryTask
    <3>2. entry' = [entry EXCEPT ![p] = es]
      BY <1>1, <2>2 DEF TypeOK, EntryTask
    <3> HIDE DEF r
    <3>3. es \in [Entry -> EntryTask]
      BY <1>1, <3>1
    <3> HIDE DEF es
    <3> QED
      BY <3>2, <3>3 DEF TypeOK
  <2> QED
    BY <2>1, <2>2 DEF Validate, ValidateFails, Outcome
<1> QED
  BY <1>2, <1>3 DEF TypeOK, Validate, ValidateFails

LEMMA ReadStepsType ==
    ASSUME TypeOK, NEW p \in Page,
           ReadPage(p) \/ ReadPageFails(p) \/ ReadPageBroken(p)
    PROVE  TypeOK'
<1>1. page[p] \in PageTask
  BY DEF TypeOK
<1>2. CASE ReadPage(p)
  <2>1. PICK samples \in SUBSET Population(p) :
            entry' = [entry EXCEPT ![p] = [e \in Entry |->
                 IF e \in samples THEN [NewEntryTask EXCEPT !.pc = "run"]
                                  ELSE NewEntryTask]]
    BY <1>2 DEF ReadPage
  <2>2. entry' \in [Page -> [Entry -> EntryTask]]
    BY <2>1, NewTasks DEF TypeOK
  <2> DEFINE r == [page[p] EXCEPT !.pc = "collect", !.received = {},
                                  !.out = "valid"]
  <2>3. r \in PageTask
    BY <1>1 DEF PageTask, Outcome
  <2>4. page' = [page EXCEPT ![p] = r]
    BY <1>1, <1>2 DEF ReadPage, TypeOK, PageTask
  <2> HIDE DEF r
  <2> QED
    BY <1>2, <2>2, <2>3, <2>4, PageTyped DEF TypeOK, ReadPage
<1>3. CASE ReadPageFails(p)
  <2> DEFINE r == [page[p] EXCEPT !.reads = page[p].reads + 1]
  <2>1. r \in PageTask
    BY <1>1 DEF PageTask
  <2>2. \/ page' = [page EXCEPT ![p] = r]
        \/ page' = [page EXCEPT ![p] = AttemptFailed(p)]
    BY <1>1, <1>3 DEF ReadPageFails, TypeOK, PageTask
  <2> HIDE DEF r
  <2>3. page' \in [Page -> PageTask]
    BY <2>1, <2>2, PageTyped, AttemptTyped
  <2>4. faults' \in [FaultKind -> 0 .. MaxFaults]
    BY <1>3, FaultsCounted DEF TypeOK, ReadPageFails
  <2> QED
    BY <1>3, <2>3, <2>4 DEF TypeOK, ReadPageFails
<1>4. CASE ReadPageBroken(p)
  <2> DEFINE r == [page[p] EXCEPT !.pc = "send", !.out = "invalid"]
  <2>1. r \in PageTask
    BY <1>1 DEF PageTask, Outcome
  <2>2. page' = [page EXCEPT ![p] = r]
    BY <1>1, <1>4 DEF ReadPageBroken, TypeOK, PageTask
  <2> HIDE DEF r
  <2>3. page' \in [Page -> PageTask]
    BY <2>1, <2>2, PageTyped
  <2>4. faults' \in [FaultKind -> 0 .. MaxFaults]
    BY <1>4, FaultsCounted DEF TypeOK, ReadPageBroken
  <2> QED
    BY <1>4, <2>3, <2>4 DEF TypeOK, ReadPageBroken
<1> QED
  BY <1>2, <1>3, <1>4

LEMMA CollectStepsType ==
    ASSUME TypeOK, NEW p \in Page, NEW e \in Entry,
           CollectEntry(p, e) \/ CollectEntryError(p, e)
    PROVE  TypeOK'
<1>1. /\ page[p] \in PageTask /\ page[p].received \subseteq Entry
      /\ page[p].out \in Outcome
      /\ entry[p] \in [Entry -> EntryTask] /\ entry[p][e] \in EntryTask
      /\ entry[p][e].out \in Outcome
  BY DEF TypeOK, PageTask, EntryTask
<1>2. CASE CollectEntry(p, e)
  <2> DEFINE r == [page[p] EXCEPT
                      !.received = page[p].received \cup {e},
                      !.out = Both(page[p].out, entry[p][e].out)]
             t == [entry[p][e] EXCEPT !.pc = "ended"]
             es == [entry[p] EXCEPT ![e] = t]
  <2>1. Both(page[p].out, entry[p][e].out) \in Outcome
    BY <1>1 DEF Both
  <2>2. r \in PageTask /\ t \in EntryTask
    BY <1>1, <2>1 DEF PageTask, EntryTask
  <2>3. page' = [page EXCEPT ![p] = r]
    BY <1>1, <1>2 DEF CollectEntry, TypeOK, PageTask
  <2>4. entry' = [entry EXCEPT ![p] = es]
    BY <1>1, <1>2 DEF CollectEntry, TypeOK, EntryTask
  <2> HIDE DEF r, t
  <2>5. es \in [Entry -> EntryTask]
    BY <1>1, <2>2
  <2> HIDE DEF es
  <2>6. entry' \in [Page -> [Entry -> EntryTask]]
    BY <2>4, <2>5 DEF TypeOK
  <2> QED
    BY <1>2, <2>2, <2>3, <2>6, PageTyped DEF TypeOK, CollectEntry
<1>3. CASE CollectEntryError(p, e)
  <2>1. entry' \in [Page -> [Entry -> EntryTask]]
    BY <1>3, NewTasks DEF CollectEntryError, TypeOK
  <2>2. page' \in [Page -> PageTask]
    BY <1>3, PageTyped, AttemptTyped DEF CollectEntryError
  <2>3. orphans' \in BOOLEAN
    BY <1>3 DEF CollectEntryError, TypeOK, LeavesBehind
  <2> QED
    BY <1>3, <2>1, <2>2, <2>3 DEF TypeOK, CollectEntryError
<1> QED
  BY <1>2, <1>3

LEMMA ReturnStepsType ==
    ASSUME TypeOK, NEW p \in Page,
           PageReturns(p) \/ CollectPage(p) \/ CollectPageError(p)
    PROVE  TypeOK'
<1>1. page[p] \in PageTask
  BY DEF TypeOK
<1>2. PICK s \in {"send", "ended"} : page' = [page EXCEPT ![p].pc = s]
  BY DEF PageReturns, CollectPage, CollectPageError
<1> DEFINE r == [page[p] EXCEPT !.pc = s]
<1>3. r \in PageTask
  BY <1>1 DEF PageTask
<1>4. page' = [page EXCEPT ![p] = r]
  BY <1>1, <1>2 DEF TypeOK, PageTask
<1> HIDE DEF r
<1>5. page' \in [Page -> PageTask]
  BY <1>3, <1>4, PageTyped
<1>6. orphans' \in BOOLEAN /\ received' \subseteq Page
      /\ verdict' \in Outcome \cup {"open"}
  BY DEF TypeOK, PageReturns, CollectPage, CollectPageError, Outcome
<1> QED
  BY <1>5, <1>6 DEF TypeOK, PageReturns, CollectPage, CollectPageError

LEMMA VerdictStepsType ==
    ASSUME TypeOK, Return \/ ResolveFails \/ Panic
    PROVE  TypeOK'
<1>1. CASE Return
  BY <1>1 DEF TypeOK, Return, Outcome
<1>2. CASE ResolveFails
  <2>1. faults' \in [FaultKind -> 0 .. MaxFaults]
    BY <1>2, FaultsCounted DEF TypeOK, ResolveFails
  <2>2. [NewPageTask EXCEPT !.pc = "ended"] \in PageTask
    BY NewTasks DEF PageTask
  <2> QED
    BY <1>2, <2>1, <2>2 DEF TypeOK, ResolveFails, Outcome
<1>3. CASE Panic
  BY <1>3 DEF TypeOK, Panic
<1> QED
  BY <1>1, <1>2, <1>3

LEMMA TypeStep == TypeOK /\ [Next]_vars => TypeOK'
<1> SUFFICES ASSUME TypeOK, [Next]_vars PROVE TypeOK'
  OBVIOUS
<1>1. CASE UNCHANGED vars
  BY <1>1 DEF vars, TypeOK
<1>2. CASE Step
  BY <1>2, EntryStepsType, ReadStepsType, CollectStepsType, ReturnStepsType,
     VerdictStepsType DEF Step
<1> QED
  BY <1>1, <1>2 DEF Next

(* TypeOK of the validation, whatever fails.                               *)
THEOREM TypeCorrect == Spec => []TypeOK
  BY TypeInit, TypeStep, PTL DEF Spec

-----------------------------------------------------------------------------
(* What is wrong with a page that may be found invalid without a failure.  *)
Unfit(p) == ParseFails(text[p]) \/ \E e \in Population(p) : ~Validates(p, e)

Unbroken == faults["short"] = 0

(* A sample of the required size, all of which fits.                       *)
Fit(p) ==
    /\ Cardinality(Sampled(p)) = sampleSize(p)
    /\ \A e \in Sampled(p) : Validates(p, e)

(* What an entry reports is so.                                            *)
EntryJudged(p, e) ==
    entry[p][e].pc \in {"send", "ended"} =>
        /\ entry[p][e].out = "valid" => Validates(p, e)
        /\ entry[p][e].out = "invalid" /\ Unbroken => ~Validates(p, e)

(* What has been added up of a page is so of the entries heard.            *)
PageCollects(p) ==
    page[p].pc = "collect" =>
        /\ Cardinality(Sampled(p)) = sampleSize(p)
        /\ page[p].received \subseteq Sampled(p)
        /\ page[p].out # "error"
        /\ page[p].out = "valid" =>
               \A e \in page[p].received : Validates(p, e)
        /\ page[p].out = "invalid" /\ Unbroken => Unfit(p)

(* What a page reports, or has reported, is so.                            *)
PageJudged(p) ==
    page[p].pc = "send" \/ p \in received =>
        /\ page[p].out = "valid" => Fit(p)
        /\ page[p].out = "invalid" /\ Unbroken => Unfit(p)

PageHeard(p) ==
    p \in received =>
        /\ page[p].pc = "ended"
        /\ verdict = "open" => page[p].out # "error"

VerdictJudged ==
    /\ verdict = "valid" /\ faults["links"] = 0 =>
           \A p \in Page : p \in received /\ page[p].out = "valid"
    /\ verdict = "invalid" /\ Unbroken /\ faults["unknown"] = 0 =>
           \E p \in Page : Unfit(p)

PageInv(p) ==
    /\ Sampled(p) \subseteq Population(p)
    /\ \A e \in Entry : EntryJudged(p, e)
    /\ PageCollects(p)
    /\ PageJudged(p)
    /\ PageHeard(p)

JudgeInv == VerdictJudged /\ \A p \in Page : PageInv(p)

LEMMA InitJudged == Init => JudgeInv
<1> SUFFICES ASSUME Init PROVE JudgeInv
  OBVIOUS
<1>1. VerdictJudged
  BY DEF Init, VerdictJudged
<1>2. ASSUME NEW p \in Page PROVE PageInv(p)
  <2>1. page[p].pc = "read" /\ received = {}
        /\ \A e \in Entry : entry[p][e].pc = "idle"
    BY DEF Init, NewPageTask, NewEntryTask
  <2> QED
    BY <2>1 DEF PageInv, Sampled, EntryJudged, PageCollects, PageJudged,
                PageHeard
<1> QED
  BY <1>1, <1>2 DEF JudgeInv

(* The texts do not change, so neither does what fits them; and a transfer *)
(* that broke off stays counted.                                           *)
LEMMA TextsStay ==
    ASSUME TypeOK, text' = text, UNCHANGED faults \/ \E f \in FaultKind : Failing(f)
    PROVE  /\ \A p \in Page : /\ Population(p)' = Population(p)
                              /\ sampleSize(p)' = sampleSize(p)
                              /\ Unfit(p)' = Unfit(p)
                              /\ \A e : Validates(p, e)' = Validates(p, e)
           /\ Unbroken' => Unbroken
           /\ faults'["unknown"] = 0 => faults["unknown"] = 0
           /\ faults'["links"] = 0 => faults["links"] = 0
<1>1. ASSUME NEW p \in Page
      PROVE  /\ Population(p)' = Population(p)
             /\ \A e : Validates(p, e)' = Validates(p, e)
  BY DEF Population, Validates, CidOf
<1>2. ASSUME NEW p \in Page
      PROVE  Unfit(p)' = Unfit(p) /\ sampleSize(p)' = sampleSize(p)
  BY <1>1 DEF Unfit, sampleSize, ParseFails
<1>3. \A f \in FaultKind : faults'[f] = 0 => faults[f] = 0
  <2>1. \A f \in FaultKind : faults[f] \in Nat
    BY ValidatorAssumption DEF TypeOK
  <2>2. CASE UNCHANGED faults
    BY <2>2
  <2>3. CASE \E f \in FaultKind : Failing(f)
    BY <2>1, <2>3, FaultsCounted, ValidatorAssumption DEF TypeOK
  <2> QED
    BY <2>2, <2>3
<1> QED
  BY <1>1, <1>2, <1>3 DEF Unbroken, FaultKind

(* A page whose tasks are as they were stays judged.                       *)
LEMMA PageStays ==
    ASSUME TypeOK, text' = text, UNCHANGED faults \/ \E f \in FaultKind : Failing(f),
           NEW p \in Page, PageInv(p), page'[p] = page[p], entry'[p] = entry[p],
           p \in received' <=> p \in received,
           verdict' = "open" => verdict = "open"
    PROVE  PageInv(p)'
<1>1. Sampled(p)' = Sampled(p)
  BY DEF Sampled
<1>2. Population(p)' = Population(p) /\ sampleSize(p)' = sampleSize(p)
      /\ Unfit(p)' = Unfit(p) /\ (\A e : Validates(p, e)' = Validates(p, e))
      /\ (Unbroken' => Unbroken)
  BY TextsStay
<1>3. \A e \in Entry : EntryJudged(p, e)'
  BY <1>2 DEF PageInv, EntryJudged
<1>4. PageCollects(p)'
  BY <1>1, <1>2 DEF PageInv, PageCollects
<1>5. PageJudged(p)'
  BY <1>1, <1>2 DEF PageInv, PageJudged, Fit
<1>6. PageHeard(p)'
  BY DEF PageInv, PageHeard
<1> QED
  BY <1>1, <1>2, <1>3, <1>4, <1>5, <1>6 DEF PageInv

(* While the verdict stays, and the pages heard with it, it stays so.      *)
LEMMA VerdictStays ==
    ASSUME TypeOK, text' = text, UNCHANGED faults \/ \E f \in FaultKind : Failing(f),
           JudgeInv, UNCHANGED <<verdict, received>>,
           \A p \in received : page'[p] = page[p]
    PROVE  VerdictJudged'
  BY TextsStay DEF JudgeInv, VerdictJudged

LEMMA EntryStepsJudge ==
    ASSUME TypeOK, JudgeInv, NEW p \in Page, NEW e \in Entry,
           Validate(p, e) \/ ValidateFails(p, e)
    PROVE  JudgeInv'
<1>0. /\ text' = text /\ UNCHANGED <<verdict, received, page>>
      /\ UNCHANGED faults \/ \E f \in FaultKind : Failing(f)
      /\ entry[p][e].pc = "run"
  BY DEF Validate, ValidateFails, MessageFails, FaultKind
<1>1. VerdictJudged'
  BY <1>0, VerdictStays
<1>2. ASSUME NEW q \in Page, q # p PROVE PageInv(q)'
  <2>1. entry'[q] = entry[q]
    BY <1>2 DEF Validate, ValidateFails, EntryDone, TypeOK
  <2> QED
    BY <1>0, <2>1, PageStays DEF JudgeInv
<1>3. PageInv(p)'
  <2>0. /\ PageInv(p)
        /\ Population(p)' = Population(p) /\ sampleSize(p)' = sampleSize(p)
        /\ Unfit(p)' = Unfit(p) /\ (\A x : Validates(p, x)' = Validates(p, x))
        /\ (Unbroken' => Unbroken)
    BY <1>0, TextsStay DEF JudgeInv
  <2>1. /\ entry'[p][e].pc \in {"run", "send"}
        /\ entry'[p][e].pc = "send" =>
              /\ entry'[p][e].out = "valid" => Validates(p, e)
              /\ entry'[p][e].out = "invalid" /\ Unbroken' => ~Validates(p, e)
        /\ \A x \in Entry \ {e} : entry'[p][x] = entry[p][x]
    <3>1. entry[p] \in [Entry -> EntryTask] /\ entry[p][e] \in EntryTask
      BY DEF TypeOK
    <3>2. ASSUME NEW out \in Outcome, EntryDone(p, e, out)
          PROVE  /\ entry'[p][e].pc = "send" /\ entry'[p][e].out = out
                 /\ \A x \in Entry \ {e} : entry'[p][x] = entry[p][x]
      BY <3>1, <3>2 DEF EntryDone, TypeOK, EntryTask
    <3>3. CASE Validate(p, e) /\ UNCHANGED faults
               /\ EntryDone(p, e, IF Validates(p, e) THEN "valid" ELSE "invalid")
      BY <3>2, <3>3 DEF Outcome
    <3>4. CASE Validate(p, e) /\ EntryDone(p, e, "invalid") /\ Failing("short")
      <4>1. faults'["short"] = faults["short"] + 1 /\ faults["short"] \in Nat
        BY <3>4, ValidatorAssumption DEF Failing, TypeOK, FaultKind
      <4> QED
        BY <3>2, <3>4, <4>1 DEF Outcome, Unbroken
    <3>5. CASE ValidateFails(p, e)
      <4>1. CASE EntryDone(p, e, "error")
        BY <3>2, <4>1 DEF Outcome
      <4>2. CASE entry' = [entry EXCEPT ![p][e].tries = @ + 1]
        BY <1>0, <3>1, <4>2 DEF TypeOK, EntryTask
      <4> QED
        BY <3>5, <4>1, <4>2 DEF ValidateFails
    <3> QED
      BY <3>3, <3>4, <3>5 DEF Validate
  <2>2. Sampled(p)' = Sampled(p)
    BY <1>0, <2>1 DEF Sampled
  <2>3. \A x \in Entry : EntryJudged(p, x)'
    BY <2>0, <2>1 DEF PageInv, EntryJudged
  <2>4. PageCollects(p)'
    BY <1>0, <2>0, <2>2 DEF PageInv, PageCollects
  <2>5. PageJudged(p)'
    BY <1>0, <2>0, <2>2 DEF PageInv, PageJudged, Fit
  <2> QED
    BY <1>0, <2>0, <2>2, <2>3, <2>4, <2>5 DEF PageInv, PageHeard
<1> QED
  BY <1>1, <1>2, <1>3 DEF JudgeInv

LEMMA ReadStepsJudge ==
    ASSUME TypeOK, JudgeInv, NEW p \in Page,
           ReadPage(p) \/ ReadPageFails(p) \/ ReadPageBroken(p)
    PROVE  JudgeInv'
<1>0. /\ text' = text /\ UNCHANGED <<verdict, received>>
      /\ UNCHANGED faults \/ \E f \in FaultKind : Failing(f)
      /\ page[p].pc = "read" /\ page[p] \in PageTask
  BY DEF ReadPage, ReadPageFails, ReadPageBroken, FaultKind, TypeOK
<1>1. ASSUME NEW q \in Page, q # p
      PROVE  page'[q] = page[q] /\ entry'[q] = entry[q]
  BY <1>1 DEF ReadPage, ReadPageFails, ReadPageBroken, TypeOK
<1>2. PageInv(p) /\ p \notin received
  BY <1>0 DEF JudgeInv, PageInv, PageHeard
<1>3. VerdictJudged'
  BY <1>0, <1>1, <1>2, VerdictStays DEF TypeOK
<1>4. \A q \in Page \ {p} : PageInv(q)'
  BY <1>0, <1>1, PageStays DEF JudgeInv
<1>5. /\ Population(p)' = Population(p) /\ sampleSize(p)' = sampleSize(p)
      /\ Unfit(p)' = Unfit(p) /\ (\A x : Validates(p, x)' = Validates(p, x))
      /\ (Unbroken' => Unbroken)
  BY <1>0, TextsStay
<1>6. CASE ReadPage(p)
  <2>1. PICK samples \in SUBSET Population(p) :
            /\ Cardinality(samples) = sampleSize(p)
            /\ entry' = [entry EXCEPT ![p] = [e \in Entry |->
                 IF e \in samples THEN [NewEntryTask EXCEPT !.pc = "run"]
                                  ELSE NewEntryTask]]
    BY <1>6 DEF ReadPage
  <2>2. samples \subseteq Entry
    BY TextAssumption DEF Population, TypeOK
  <2>3. \A e \in Entry : entry'[p][e].pc = IF e \in samples THEN "run" ELSE "idle"
    BY <2>1 DEF TypeOK, NewEntryTask
  <2>4. Sampled(p)' = samples
    BY <2>2, <2>3 DEF Sampled
  <2>5. page'[p].pc = "collect" /\ page'[p].received = {} /\ page'[p].out = "valid"
    BY <1>0, <1>6 DEF ReadPage, TypeOK, PageTask
  <2>6. PageInv(p)'
    BY <1>0, <1>2, <1>5, <2>1, <2>3, <2>4, <2>5
       DEF PageInv, EntryJudged, PageCollects, PageJudged, PageHeard
  <2> QED
    BY <1>3, <1>4, <2>6 DEF JudgeInv
<1>7. CASE ReadPageFails(p) \/ ReadPageBroken(p)
  <2>1. \/ page'[p].pc = "read"
        \/ page'[p].pc = "send" /\ page'[p].out = "error"
        \/ /\ page'[p].pc = "send" /\ page'[p].out = "invalid"
           /\ Unbroken' => Unfit(p)
    <3>1. CASE ReadPageFails(p)
      BY <1>0, <3>1 DEF ReadPageFails, AttemptFailed, NewPageTask, TypeOK, PageTask
    <3>2. CASE ReadPageBroken(p)
      <4>1. page'[p].pc = "send" /\ page'[p].out = "invalid"
        BY <1>0, <3>2 DEF ReadPageBroken, TypeOK, PageTask
      <4>2. ParseFails(text[p]) \/ ~Unbroken'
        BY <3>2, ValidatorAssumption
           DEF ReadPageBroken, Failing, Unbroken, TypeOK, FaultKind
      <4> QED
        BY <4>1, <4>2 DEF Unfit
    <3> QED
      BY <1>7, <3>1, <3>2
  <2>2. entry' = entry
    BY <1>7 DEF ReadPageFails, ReadPageBroken
  <2>3. Sampled(p)' = Sampled(p)
    BY <2>2 DEF Sampled
  <2>4. PageInv(p)'
    BY <1>0, <1>2, <1>5, <2>1, <2>2, <2>3
       DEF PageInv, EntryJudged, PageCollects, PageJudged, PageHeard
  <2> QED
    BY <1>3, <1>4, <2>4 DEF JudgeInv
<1> QED
  BY <1>6, <1>7

LEMMA CollectStepsJudge ==
    ASSUME TypeOK, JudgeInv, NEW p \in Page, NEW e \in Entry,
           CollectEntry(p, e) \/ CollectEntryError(p, e)
    PROVE  JudgeInv'
<1>0. /\ text' = text /\ UNCHANGED <<verdict, received, faults>>
      /\ page[p].pc = "collect" /\ entry[p][e].pc = "send"
      /\ page[p] \in PageTask /\ page[p].out \in Outcome
      /\ entry[p] \in [Entry -> EntryTask] /\ entry[p][e] \in EntryTask
      /\ entry[p][e].out \in Outcome
  BY DEF CollectEntry, CollectEntryError, TypeOK, PageTask, EntryTask
<1>1. ASSUME NEW q \in Page, q # p
      PROVE  page'[q] = page[q] /\ entry'[q] = entry[q]
  BY <1>1 DEF CollectEntry, CollectEntryError, TypeOK
<1>2. PageInv(p) /\ p \notin received
  BY <1>0 DEF JudgeInv, PageInv, PageHeard
<1>3. VerdictJudged'
  BY <1>0, <1>1, <1>2, VerdictStays DEF TypeOK
<1>4. \A q \in Page \ {p} : PageInv(q)'
  BY <1>0, <1>1, PageStays DEF JudgeInv
<1>5. /\ Population(p)' = Population(p) /\ sampleSize(p)' = sampleSize(p)
      /\ Unfit(p)' = Unfit(p) /\ (\A x : Validates(p, x)' = Validates(p, x))
      /\ Unbroken' = Unbroken
  BY <1>0, TextsStay DEF Unbroken
<1>6. CASE CollectEntry(p, e)
  <2>1. /\ page'[p].pc = "collect"
        /\ page'[p].received = page[p].received \cup {e}
        /\ page'[p].out = Both(page[p].out, entry[p][e].out)
    BY <1>0, <1>6 DEF CollectEntry, TypeOK, PageTask
  <2>2. /\ entry'[p][e].pc = "ended" /\ entry'[p][e].out = entry[p][e].out
        /\ \A x \in Entry \ {e} : entry'[p][x] = entry[p][x]
        /\ entry[p][e].out # "error"
    BY <1>0, <1>6 DEF CollectEntry, TypeOK, EntryTask
  <2>3. Sampled(p)' = Sampled(p) /\ e \in Sampled(p)
    BY <1>0, <2>2 DEF Sampled
  <2>4. \A x \in Entry : EntryJudged(p, x)'
    BY <1>0, <1>2, <1>5, <2>2 DEF PageInv, EntryJudged
  <2>5. PageCollects(p)'
    <3>1. entry[p][e].out = "valid" => Validates(p, e)
      BY <1>0, <1>2 DEF PageInv, EntryJudged
    <3>2. entry[p][e].out = "invalid" /\ Unbroken => Unfit(p)
      BY <1>0, <1>2, <2>3 DEF PageInv, EntryJudged, Unfit
    <3> QED
      BY <1>0, <1>2, <1>5, <2>1, <2>2, <2>3, <3>1, <3>2
         DEF PageInv, PageCollects, Both, Outcome
  <2> QED
    BY <1>0, <1>2, <1>3, <1>4, <1>5, <2>1, <2>3, <2>4, <2>5
       DEF JudgeInv, PageInv, PageJudged, PageHeard
<1>7. CASE CollectEntryError(p, e)
  <2>1. \/ page'[p].pc = "read"
        \/ page'[p].pc = "send" /\ page'[p].out = "error"
    BY <1>0, <1>7
       DEF CollectEntryError, AttemptFailed, NewPageTask, TypeOK, PageTask
  <2>2. \A x \in Entry : entry'[p][x].pc = "idle"
    BY <1>7 DEF CollectEntryError, TypeOK, NewEntryTask
  <2>3. Sampled(p)' = {}
    BY <2>2 DEF Sampled
  <2>4. PageInv(p)'
    BY <1>0, <1>2, <2>1, <2>2, <2>3
       DEF PageInv, EntryJudged, PageCollects, PageJudged, PageHeard
  <2> QED
    BY <1>3, <1>4, <2>4 DEF JudgeInv
<1> QED
  BY <1>6, <1>7

LEMMA ReturnStepsJudge ==
    ASSUME TypeOK, JudgeInv, NEW p \in Page,
           PageReturns(p) \/ CollectPage(p) \/ CollectPageError(p)
    PROVE  JudgeInv'
<1>0. /\ text' = text /\ UNCHANGED <<entry, faults>>
      /\ page[p].pc \in {"collect", "send"} /\ page[p] \in PageTask
  BY DEF PageReturns, CollectPage, CollectPageError, TypeOK
<1>1. ASSUME NEW q \in Page, q # p
      PROVE  /\ page'[q] = page[q] /\ entry'[q] = entry[q]
             /\ q \in received' <=> q \in received
             /\ verdict' = "open" => verdict = "open"
  BY <1>1 DEF PageReturns, CollectPage, CollectPageError, TypeOK
<1>2. PageInv(p) /\ p \notin received
  BY <1>0 DEF JudgeInv, PageInv, PageHeard
<1>3. VerdictJudged'
  <2>1. CASE PageReturns(p)
    BY <1>0, <1>1, <1>2, <2>1, VerdictStays DEF TypeOK, PageReturns
  <2>2. CASE CollectPage(p) \/ CollectPageError(p)
    BY <2>2 DEF CollectPage, CollectPageError, VerdictJudged
  <2> QED
    BY <2>1, <2>2
<1>4. \A q \in Page \ {p} : PageInv(q)'
  BY <1>0, <1>1, PageStays DEF JudgeInv
<1>5. /\ Population(p)' = Population(p) /\ sampleSize(p)' = sampleSize(p)
      /\ Unfit(p)' = Unfit(p) /\ (\A x : Validates(p, x)' = Validates(p, x))
      /\ Unbroken' = Unbroken /\ Sampled(p)' = Sampled(p)
  BY <1>0, TextsStay DEF Unbroken, Sampled
<1>6. /\ page'[p].out = page[p].out /\ page'[p].pc \in {"send", "ended"}
      /\ page'[p].pc = "send" => PageReturns(p) /\ p \notin received'
      /\ page'[p].pc = "ended" =>
            /\ page[p].pc = "send"
            /\ verdict' = "open" => page[p].out # "error"
  BY <1>0, <1>2 DEF PageReturns, CollectPage, CollectPageError, TypeOK, PageTask
<1>7. \A e \in Entry : EntryJudged(p, e)'
  BY <1>0, <1>2, <1>5 DEF PageInv, EntryJudged
<1>8. PageJudged(p)'
  <2>1. CASE PageReturns(p)
    BY <1>2, <1>5, <1>6, <2>1
       DEF PageInv, PageReturns, PageCollects, PageJudged, Fit
  <2>2. CASE page'[p].pc = "ended"
    BY <1>2, <1>5, <1>6, <2>2 DEF PageInv, PageJudged, Fit
  <2> QED
    BY <1>6, <2>1, <2>2
<1>9. PageCollects(p)' /\ PageHeard(p)'
  BY <1>6 DEF PageCollects, PageHeard
<1> QED
  BY <1>2, <1>3, <1>4, <1>5, <1>7, <1>8, <1>9 DEF JudgeInv, PageInv

LEMMA VerdictStepsJudge ==
    ASSUME TypeOK, JudgeInv, Return \/ ResolveFails \/ Panic
    PROVE  JudgeInv'
<1>0. text' = text /\ entry' = entry
      /\ (UNCHANGED faults \/ \E f \in FaultKind : Failing(f))
  BY DEF Return, ResolveFails, Panic, FaultKind
<1>1. CASE Return
  <2>1. /\ UNCHANGED <<page, received, faults>> /\ verdict = "open"
        /\ received = Page /\ verdict' # "open"
    BY <1>1 DEF Return
  <2>2. \A p \in Page : PageInv(p)'
    BY <1>0, <2>1, PageStays DEF JudgeInv
  <2>3. \A p \in Page : page[p].out \in {"valid", "invalid"}
    BY <2>1 DEF JudgeInv, PageInv, PageHeard, TypeOK, PageTask, Outcome
  <2>4. verdict' = "invalid" /\ Unbroken => \E p \in Page : Unfit(p)
    BY <1>1, <2>1, <2>3 DEF Return, JudgeInv, PageInv, PageJudged
  <2>5. VerdictJudged'
    BY <1>0, <1>1, <2>1, <2>4, TextsStay DEF VerdictJudged, Return
  <2> QED
    BY <2>2, <2>5 DEF JudgeInv
<1>2. CASE ResolveFails
  <2>1. /\ received' = received /\ \A p \in Page : page[p].pc = "read"
        /\ \A p \in Page : page'[p].pc = "ended" /\ page'[p].out = "valid"
        /\ \/ verdict' = "error"
           \/ verdict' = "invalid" /\ Failing("unknown")
           \/ verdict' = "valid" /\ Failing("links")
    BY <1>2 DEF ResolveFails, NewPageTask
  <2>2. received = {}
    BY <2>1 DEF JudgeInv, PageInv, PageHeard, TypeOK
  <2>3. ASSUME NEW p \in Page PROVE PageInv(p)'
    <3>1. Population(p)' = Population(p) /\ (\A e : Validates(p, e)' = Validates(p, e))
          /\ Sampled(p)' = Sampled(p) /\ (Unbroken' => Unbroken)
      BY <1>0, TextsStay DEF Sampled
    <3>2. \A e \in Entry : EntryJudged(p, e)'
      BY <1>0, <3>1 DEF JudgeInv, PageInv, EntryJudged
    <3> QED
      BY <2>1, <2>2, <3>1, <3>2
         DEF JudgeInv, PageInv, PageCollects, PageJudged, PageHeard
  <2>4. /\ Failing("unknown") => faults'["unknown"] # 0
        /\ Failing("links") => faults'["links"] # 0
    BY ValidatorAssumption DEF Failing, TypeOK, FaultKind
  <2> QED
    BY <2>1, <2>3, <2>4 DEF JudgeInv, VerdictJudged
<1>3. CASE Panic
  <2>1. UNCHANGED <<page, received, verdict, faults>>
    BY <1>3 DEF Panic
  <2> QED
    BY <1>0, <2>1, PageStays, VerdictStays DEF JudgeInv
<1> QED
  BY <1>1, <1>2, <1>3

LEMMA JudgeStep == TypeOK /\ JudgeInv /\ [Next]_vars => JudgeInv'
<1> SUFFICES ASSUME TypeOK, JudgeInv, [Next]_vars PROVE JudgeInv'
  OBVIOUS
<1>1. CASE UNCHANGED vars
  <2>1. UNCHANGED <<text, verdict, received, page, entry, faults>>
    BY <1>1 DEF vars
  <2> QED
    BY <2>1, PageStays, VerdictStays DEF JudgeInv
<1>2. CASE Step
  BY <1>2, EntryStepsJudge, ReadStepsJudge, CollectStepsJudge, ReturnStepsJudge,
     VerdictStepsJudge DEF Step
<1> QED
  BY <1>1, <1>2 DEF Next

(* Whatever goroutines report, in whatever order and attempt, it is so.    *)
THEOREM JudgeInvariant == Spec => [](TypeOK /\ JudgeInv)
  BY TypeInit, TypeStep, InitJudged, JudgeStep, PTL DEF Spec

LEMMA ValidIsFit == JudgeInv => AcceptsValidated
  BY DEF JudgeInv, VerdictJudged, AcceptsValidated, PageInv, PageJudged, Fit

(* A directory is found valid only after a sample of the required size of  *)
(* each of its pages has been found to fit, or when its links were lost.   *)
THEOREM AcceptedIsValidated == Spec => []AcceptsValidated
  BY JudgeInvariant, ValidIsFit, PTL

LEMMA InvalidIsUnfit == TypeOK /\ JudgeInv => ErrorsRejectNothing
<1> SUFFICES ASSUME TypeOK, JudgeInv,
                    verdict = "invalid", faults["short"] + faults["unknown"] = 0
             PROVE  \E p \in Page : Unfit(p)
  BY DEF ErrorsRejectNothing, Unfit
<1>1. faults["short"] \in Nat /\ faults["unknown"] \in Nat
  BY ValidatorAssumption DEF TypeOK, FaultKind
<1>2. Unbroken /\ faults["unknown"] = 0
  BY <1>1 DEF Unbroken
<1> QED
  BY <1>2 DEF JudgeInv, VerdictJudged

(* Failed calls, however many, do not make a directory invalid.            *)
THEOREM ErrorsAreNoVerdict == Spec => []ErrorsRejectNothing
  BY JudgeInvariant, InvalidIsUnfit, PTL
-----------------------------------------------------------------------------
(* What a page has come to has taken so many failed calls: each attempt at *)
(* it that failed took a task of it MaxRetry + 1 of them, and the tasks of *)
(* this attempt have taken some.                                           *)
Errors == faults["error"]

Spent(tries) == tries * (MaxRetry + 1)

EntryCosts(p, e) ==
    /\ entry[p][e].tries <= MaxRetry
    /\ entry[p][e].pc = "run" =>
           Spent(page[p].tries) + entry[p][e].tries <= Errors
    /\ entry[p][e].pc = "send" /\ entry[p][e].out = "error" =>
           Spent(page[p].tries + 1) <= Errors

PageCosts(p) ==
    /\ page[p].tries <= MaxRetry /\ page[p].reads <= MaxRetry
    /\ Spent(page[p].tries) <= Errors
    /\ page[p].pc = "read" => Spent(page[p].tries) + page[p].reads <= Errors
    /\ page[p].pc = "collect" => \A e \in Entry : EntryCosts(p, e)
    /\ page[p].out = "error" => Spent(MaxRetry + 1) <= Errors

CostInv ==
    /\ \A p \in Page : PageCosts(p)
    /\ orphans \/ crashed => MaxRetry + 1 <= Errors

LEMMA Costs ==
    ASSUME NEW t \in Nat
    PROVE  /\ Spent(t) \in Nat
           /\ Spent(t + 1) = Spent(t) + MaxRetry + 1
  BY ValidatorAssumption DEF Spent

LEMMA FirstCost == Spent(0) = 0 /\ \A t \in Nat : MaxRetry + 1 <= Spent(t + 1)
<1>1. Spent(0) = 0
  BY ValidatorAssumption DEF Spent
<1>2. ASSUME NEW t \in Nat PROVE MaxRetry + 1 <= Spent(t + 1)
  <2>1. Spent(t) \in Nat /\ Spent(t + 1) = Spent(t) + MaxRetry + 1
    BY Costs
  <2> QED
    BY <2>1, ValidatorAssumption
<1> QED
  BY <1>1, <1>2

(* Failed calls are only counted up.                                       *)
LEMMA ErrorsCounted ==
    ASSUME TypeOK, UNCHANGED faults \/ \E f \in FaultKind : Failing(f)
    PROVE  /\ Errors \in Nat /\ Errors' \in Nat /\ Errors <= Errors'
           /\ Failing("error") => Errors' = Errors + 1
<1>1. "error" \in FaultKind
  BY DEF FaultKind
<1>2. Errors \in Nat
  BY <1>1, ValidatorAssumption DEF TypeOK, Errors
<1>3. ASSUME NEW f \in FaultKind, Failing(f)
      PROVE  Errors' \in Nat /\ Errors <= Errors'
  BY <1>1, <1>3, FaultsCounted, ValidatorAssumption DEF TypeOK, Errors
<1>4. Failing("error") => Errors' = Errors + 1
  BY <1>1 DEF Failing, TypeOK, Errors
<1> QED
  BY <1>2, <1>3, <1>4 DEF Errors

LEMMA PageCostsStay ==
    ASSUME TypeOK, UNCHANGED faults \/ \E f \in FaultKind : Failing(f),
           NEW p \in Page, PageCosts(p), page'[p] = page[p], entry'[p] = entry[p]
    PROVE  PageCosts(p)'
<1>1. Errors \in Nat /\ Errors' \in Nat /\ Errors <= Errors'
  BY ErrorsCounted
<1>2. page[p].tries \in Nat /\ page[p].reads \in Nat
      /\ \A e \in Entry : entry[p][e].tries \in Nat
  BY DEF TypeOK, PageTask, EntryTask
<1>3. /\ Spent(page[p].tries) \in Nat /\ Spent(page[p].tries + 1) \in Nat
      /\ Spent(MaxRetry + 1) \in Nat
  BY <1>2, Costs, ValidatorAssumption
<1>4. \A e \in Entry : EntryCosts(p, e) => EntryCosts(p, e)'
  BY <1>1, <1>2, <1>3 DEF EntryCosts, Spent
<1> QED
  BY <1>1, <1>2, <1>3, <1>4 DEF PageCosts, Spent

LEMMA InitCosts == Init => CostInv
<1> SUFFICES ASSUME Init PROVE CostInv
  OBVIOUS
<1>1. Errors = 0 /\ ~orphans /\ ~crashed
  BY DEF Init, Errors, FaultKind
<1>2. ASSUME NEW p \in Page PROVE PageCosts(p)
  <2>1. /\ page[p].tries = 0 /\ page[p].reads = 0 /\ page[p].pc = "read"
        /\ page[p].out = "valid"
    BY DEF Init, NewPageTask
  <2> QED
    BY <1>1, <2>1, FirstCost, ValidatorAssumption DEF PageCosts
<1> QED
  BY <1>1, <1>2 DEF CostInv

(* An attempt that fails has cost a task of it all its tries.              *)
LEMMA AttemptCosts ==
    ASSUME TypeOK, NEW p \in Page, PageCosts(p), Errors' \in Nat,
           Spent(page[p].tries + 1) <= Errors', page'[p] = AttemptFailed(p)
    PROVE  PageCosts(p)'
<1>1. page[p] \in PageTask /\ page[p].tries \in Nat /\ page[p].reads \in Nat
  BY DEF TypeOK, PageTask
<1>2. /\ Spent(page[p].tries) \in Nat
      /\ Spent(page[p].tries + 1) = Spent(page[p].tries) + MaxRetry + 1
  BY <1>1, Costs
<1>3. CASE page[p].tries < MaxRetry
  <2>1. /\ page'[p].tries = page[p].tries + 1 /\ page'[p].reads = 0
        /\ page'[p].pc = "read" /\ page'[p].out = "valid"
    BY <1>3 DEF AttemptFailed, NewPageTask
  <2> QED
    BY <1>1, <1>2, <1>3, <2>1, ValidatorAssumption DEF PageCosts, Spent
<1>4. CASE page[p].tries = MaxRetry
  <2>1. /\ page'[p].tries = page[p].tries /\ page'[p].reads = page[p].reads
        /\ page'[p].pc = "send" /\ page'[p].out = "error"
    BY <1>1, <1>4, ValidatorAssumption DEF AttemptFailed, PageTask
  <2> QED
    BY <1>1, <1>2, <1>4, <2>1, ValidatorAssumption DEF PageCosts, Spent
<1> QED
  BY <1>1, <1>3, <1>4, ValidatorAssumption DEF PageCosts

LEMMA EntryStepsCost ==
    ASSUME TypeOK, CostInv, NEW p \in Page, NEW e \in Entry, ~Unreadable(p, e),
           Validate(p, e) \/ ValidateFails(p, e)
    PROVE  CostInv'
<1>1. /\ UNCHANGED <<page, orphans, crashed>> /\ entry[p][e].pc = "run"
      /\ UNCHANGED faults \/ \E f \in FaultKind : Failing(f)
  BY DEF Validate, ValidateFails, MessageFails, FaultKind
<1>2. Errors \in Nat /\ Errors' \in Nat /\ Errors <= Errors'
  BY <1>1, ErrorsCounted
<1>3. /\ entry[p] \in [Entry -> EntryTask] /\ entry[p][e] \in EntryTask
      /\ page[p].tries \in Nat /\ page[p].reads \in Nat
      /\ \A x \in Entry : entry[p][x].tries \in Nat
  BY DEF TypeOK, PageTask, EntryTask
<1>4. /\ Spent(page[p].tries) \in Nat /\ Spent(MaxRetry + 1) \in Nat
      /\ Spent(page[p].tries + 1) = Spent(page[p].tries) + MaxRetry + 1
  BY <1>3, Costs, ValidatorAssumption
<1>5. PageCosts(p)
  BY DEF CostInv
<1>6. ASSUME NEW q \in Page, q # p PROVE PageCosts(q)'
  <2>1. entry'[q] = entry[q]
    BY <1>6 DEF Validate, ValidateFails, EntryDone, TypeOK
  <2> QED
    BY <1>1, <2>1, PageCostsStay DEF CostInv
<1>7. ASSUME NEW x \in Entry \ {e} PROVE entry'[p][x] = entry[p][x]
  BY <1>3 DEF Validate, ValidateFails, EntryDone, TypeOK
<1>8. ASSUME NEW out \in Outcome, EntryDone(p, e, out)
      PROVE  /\ entry'[p][e].pc = "send" /\ entry'[p][e].out = out
             /\ entry'[p][e].tries = entry[p][e].tries
  BY <1>3, <1>8 DEF EntryDone, TypeOK, EntryTask
<1>9. page[p].pc = "collect" => EntryCosts(p, e)'
  <2> SUFFICES ASSUME page[p].pc = "collect", EntryCosts(p, e)
               PROVE  EntryCosts(p, e)'
    BY <1>5 DEF PageCosts
  <2>1. /\ entry[p][e].tries <= MaxRetry
        /\ Spent(page[p].tries) + entry[p][e].tries <= Errors
    BY <1>1 DEF EntryCosts
  <2>2. CASE \E out \in {"valid", "invalid"} : EntryDone(p, e, out)
    BY <1>8, <2>1, <2>2 DEF EntryCosts, Outcome
  <2>3. CASE ValidateFails(p, e)
    <3>1. Errors' = Errors + 1
      BY <1>1, <2>3, ErrorsCounted DEF ValidateFails, MessageFails
    <3>2. CASE entry[p][e].tries < MaxRetry
      <4>1. entry' = [entry EXCEPT ![p][e].tries = @ + 1]
        BY <2>3, <3>2 DEF ValidateFails
      <4>2. /\ entry'[p][e].tries = entry[p][e].tries + 1
            /\ entry'[p][e].pc = "run"
        BY <1>1, <1>3, <4>1 DEF TypeOK, EntryTask
      <4> QED
        BY <1>1, <1>2, <1>3, <1>4, <2>1, <3>1, <3>2, <4>2, ValidatorAssumption
           DEF EntryCosts, Spent
    <3>3. CASE ~(entry[p][e].tries < MaxRetry)
      <4>1. entry'[p][e].pc = "send" /\ entry'[p][e].tries = entry[p][e].tries
        BY <1>8, <2>3, <3>3 DEF ValidateFails, Outcome
      <4>2. entry[p][e].tries = MaxRetry
        BY <1>3, <2>1, <3>3, ValidatorAssumption
      <4>3. Spent(page[p].tries + 1) <= Errors'
        BY <1>2, <1>4, <2>1, <3>1, <4>2, ValidatorAssumption
      <4> QED
        BY <1>1, <2>1, <4>1, <4>3 DEF EntryCosts, Spent
    <3> QED
      BY <3>2, <3>3
  <2> QED
    BY <2>2, <2>3 DEF Validate
<1>10. ASSUME page[p].pc = "collect", NEW x \in Entry PROVE EntryCosts(p, x)'
  <2>1. EntryCosts(p, x)
    BY <1>5, <1>10 DEF PageCosts
  <2>2. CASE x # e
    BY <1>1, <1>2, <1>3, <1>4, <1>7, <2>1, <2>2, ValidatorAssumption
       DEF EntryCosts, Spent
  <2> QED
    BY <1>9, <1>10, <2>2
<1>11. PageCosts(p)'
  <2>1. /\ Spent(page[p].tries) <= Errors'
        /\ page[p].pc = "read" => Spent(page[p].tries) + page[p].reads <= Errors'
        /\ page[p].out = "error" => Spent(MaxRetry + 1) <= Errors'
    BY <1>2, <1>3, <1>4, <1>5 DEF PageCosts
  <2> QED
    BY <1>1, <1>5, <1>10, <2>1 DEF PageCosts, Spent
<1> QED
  BY <1>1, <1>2, <1>6, <1>11, ValidatorAssumption DEF CostInv

LEMMA ReadStepsCost ==
    ASSUME TypeOK, CostInv, NEW p \in Page,
           ReadPage(p) \/ ReadPageFails(p) \/ ReadPageBroken(p)
    PROVE  CostInv'
<1>1. /\ UNCHANGED <<orphans, crashed>> /\ page[p].pc = "read"
      /\ UNCHANGED faults \/ \E f \in FaultKind : Failing(f)
  BY DEF ReadPage, ReadPageFails, ReadPageBroken, FaultKind
<1>2. Errors \in Nat /\ Errors' \in Nat /\ Errors <= Errors'
  BY <1>1, ErrorsCounted
<1>3. page[p] \in PageTask /\ page[p].tries \in Nat /\ page[p].reads \in Nat
  BY DEF TypeOK, PageTask
<1>4. /\ Spent(page[p].tries) \in Nat
      /\ Spent(page[p].tries + 1) = Spent(page[p].tries) + MaxRetry + 1
  BY <1>3, Costs
<1>5. ASSUME NEW q \in Page, q # p PROVE PageCosts(q)'
  <2>1. page'[q] = page[q] /\ entry'[q] = entry[q]
    BY <1>5 DEF ReadPage, ReadPageFails, ReadPageBroken, TypeOK
  <2> QED
    BY <1>1, <2>1, PageCostsStay DEF CostInv
<1>6. /\ PageCosts(p) /\ page[p].reads <= MaxRetry
      /\ Spent(page[p].tries) + page[p].reads <= Errors
  BY <1>1 DEF CostInv, PageCosts
<1>7. CASE ReadPage(p)
  <2>1. /\ page'[p].pc = "collect" /\ page'[p].out = "valid"
        /\ page'[p].tries = page[p].tries /\ page'[p].reads = page[p].reads
    BY <1>3, <1>7 DEF ReadPage, TypeOK, PageTask
  <2>2. \A x \in Entry : entry'[p][x].pc \in {"idle", "run"}
                         /\ entry'[p][x].tries = 0
    BY <1>7 DEF ReadPage, NewEntryTask, TypeOK
  <2>3. Spent(page[p].tries) <= Errors /\ Errors' = Errors
    BY <1>2, <1>3, <1>4, <1>6, <1>7 DEF ReadPage, Errors
  <2>4. ASSUME NEW x \in Entry PROVE EntryCosts(p, x)'
    <3>1. Spent(page'[p].tries) + entry'[p][x].tries <= Errors'
      BY <1>4, <2>1, <2>2, <2>3
    <3> QED
      BY <2>2, <3>1, ValidatorAssumption DEF EntryCosts, Spent
  <2> QED
    BY <2>1, <2>3, <2>4, <1>1, <1>2, <1>5, <1>6, ValidatorAssumption
       DEF CostInv, PageCosts, Spent
<1>8. CASE ReadPageFails(p)
  <2>1. Errors' = Errors + 1
    BY <1>1, <1>8, ErrorsCounted DEF ReadPageFails
  <2>2. CASE page[p].reads < MaxRetry
    <3>1. page' = [page EXCEPT ![p].reads = @ + 1]
      BY <1>8, <2>2 DEF ReadPageFails
    <3>2. /\ page'[p].pc = "read" /\ page'[p].out = page[p].out
          /\ page'[p].tries = page[p].tries /\ page'[p].reads = page[p].reads + 1
      BY <1>1, <1>3, <3>1 DEF TypeOK, PageTask
    <3>3. /\ Spent(page'[p].tries) = Spent(page[p].tries)
          /\ Spent(page'[p].tries) + page'[p].reads <= Errors'
      BY <1>2, <1>3, <1>4, <1>6, <2>1, <3>2
    <3>4. Spent(page[p].tries) <= Errors'
      BY <1>2, <1>3, <1>4, <1>6
    <3>5. page'[p].out = "error" => Spent(MaxRetry + 1)' <= Errors'
      <4>1. Spent(MaxRetry + 1) \in Nat /\ Spent(MaxRetry + 1)' = Spent(MaxRetry + 1)
        BY Costs, ValidatorAssumption DEF Spent
      <4>2. page[p].out = "error" => Spent(MaxRetry + 1) <= Errors
        BY <1>6 DEF PageCosts
      <4> QED
        BY <1>2, <3>2, <4>1, <4>2
    <3>6. Spent(page[p].tries)' = Spent(page'[p].tries)
      BY DEF Spent
    <3>7. PageCosts(p)'
      BY <1>3, <1>6, <2>2, <3>2, <3>3, <3>4, <3>5, <3>6, ValidatorAssumption
         DEF PageCosts
    <3> QED
      BY <1>1, <1>2, <1>5, <3>7, ValidatorAssumption DEF CostInv
  <2>3. CASE ~(page[p].reads < MaxRetry)
    <3>1. page'[p] = AttemptFailed(p)
      BY <1>8, <2>3 DEF ReadPageFails, TypeOK
    <3>2. page[p].reads = MaxRetry
      BY <1>3, <1>6, <2>3, ValidatorAssumption
    <3>3. Spent(page[p].tries + 1) <= Errors'
      BY <1>2, <1>4, <1>6, <2>1, <3>2, ValidatorAssumption
    <3>4. PageCosts(p)'
      BY <1>2, <1>6, <3>1, <3>3, AttemptCosts
    <3> QED
      BY <1>1, <1>2, <1>5, <3>4, ValidatorAssumption DEF CostInv
  <2> QED
    BY <2>2, <2>3
<1>9. CASE ReadPageBroken(p)
  <2>1. /\ page'[p].pc = "send" /\ page'[p].out = "invalid"
        /\ page'[p].tries = page[p].tries /\ page'[p].reads = page[p].reads
    BY <1>3, <1>9 DEF ReadPageBroken, TypeOK, PageTask
  <2>2. PageCosts(p)'
    BY <1>2, <1>3, <1>4, <1>6, <2>1 DEF PageCosts, Spent
  <2> QED
    BY <1>1, <1>2, <1>5, <2>2, ValidatorAssumption DEF CostInv
<1> QED
  BY <1>7, <1>8, <1>9

LEMMA CollectStepsCost ==
    ASSUME TypeOK, CostInv, NEW p \in Page, NEW e \in Entry,
           CollectEntry(p, e) \/ CollectEntryError(p, e)
    PROVE  CostInv'
<1>1. /\ UNCHANGED <<crashed, faults>> /\ page[p].pc = "collect"
      /\ entry[p][e].pc = "send" /\ Errors' = Errors
  BY DEF CollectEntry, CollectEntryError, Errors
<1>2. Errors \in Nat
  BY <1>1, ErrorsCounted
<1>3. /\ page[p] \in PageTask /\ page[p].tries \in Nat /\ page[p].reads \in Nat
      /\ entry[p] \in [Entry -> EntryTask] /\ entry[p][e] \in EntryTask
  BY DEF TypeOK, PageTask
<1>4. ASSUME NEW q \in Page, q # p PROVE PageCosts(q)'
  <2>1. page'[q] = page[q] /\ entry'[q] = entry[q]
    BY <1>4 DEF CollectEntry, CollectEntryError, TypeOK
  <2> QED
    BY <1>1, <2>1, PageCostsStay DEF CostInv
<1>5. PageCosts(p) /\ \A x \in Entry : EntryCosts(p, x)
  BY <1>1 DEF CostInv, PageCosts
<1>6. CASE CollectEntry(p, e)
  <2>1. /\ page'[p].pc = "collect"
        /\ page'[p].tries = page[p].tries /\ page'[p].reads = page[p].reads
        /\ page'[p].out = Both(page[p].out, entry[p][e].out)
        /\ entry[p][e].out # "error" /\ orphans' = orphans
    BY <1>1, <1>3, <1>6 DEF CollectEntry, TypeOK, PageTask
  <2>2. /\ entry'[p][e].pc = "ended" /\ entry'[p][e].tries = entry[p][e].tries
        /\ \A x \in Entry \ {e} : entry'[p][x] = entry[p][x]
    BY <1>3, <1>6 DEF CollectEntry, TypeOK, EntryTask
  <2>3. page'[p].out = "error" => page[p].out = "error"
    BY <2>1 DEF Both
  <2>4. \A x \in Entry : EntryCosts(p, x)'
    BY <1>1, <1>5, <2>1, <2>2 DEF EntryCosts, Spent
  <2>5. PageCosts(p)'
    BY <1>1, <1>5, <2>1, <2>3, <2>4 DEF PageCosts, Spent
  <2> QED
    BY <1>1, <1>4, <2>1, <2>5 DEF CostInv
<1>7. CASE CollectEntryError(p, e)
  <2>1. entry[p][e].out = "error" /\ page'[p] = AttemptFailed(p)
    BY <1>7 DEF CollectEntryError, TypeOK
  <2>2. Spent(page[p].tries + 1) <= Errors
    BY <1>1, <1>5, <2>1 DEF EntryCosts
  <2>3. PageCosts(p)'
    BY <1>1, <1>2, <1>5, <2>1, <2>2, AttemptCosts
  <2>4. MaxRetry + 1 <= Spent(page[p].tries + 1) /\ Spent(page[p].tries + 1) \in Nat
    BY <1>3, FirstCost, Costs
  <2>5. MaxRetry + 1 <= Errors'
    BY <1>1, <1>2, <2>2, <2>4, ValidatorAssumption
  <2> QED
    BY <1>4, <2>3, <2>5 DEF CostInv
<1> QED
  BY <1>6, <1>7

LEMMA OtherStepsCost ==
    ASSUME TypeOK, CostInv,
           \/ \E p \in Page : PageReturns(p) \/ CollectPage(p) \/ CollectPageError(p)
           \/ Return \/ ResolveFails \/ Panic
    PROVE  CostInv'
<1>1. UNCHANGED faults \/ \E f \in FaultKind : Failing(f)
  BY DEF PageReturns, CollectPage, CollectPageError, Return, ResolveFails, Panic,
         FaultKind
<1>2. Errors \in Nat /\ Errors' \in Nat /\ Errors <= Errors'
  BY <1>1, ErrorsCounted
<1>3. CASE \E p \in Page : PageReturns(p) \/ CollectPage(p) \/ CollectPageError(p)
  <2>1. PICK p \in Page : PageReturns(p) \/ CollectPage(p) \/ CollectPageError(p)
    BY <1>3
  <2>2. /\ entry' = entry /\ crashed' = crashed /\ Errors' = Errors
        /\ page[p] \in PageTask
    BY <2>1 DEF PageReturns, CollectPage, CollectPageError, Errors, TypeOK
  <2>3. \A q \in Page \ {p} : page'[q] = page[q]
    BY <2>1 DEF PageReturns, CollectPage, CollectPageError, TypeOK
  <2>4. /\ page'[p].pc \in {"send", "ended"} /\ page'[p].out = page[p].out
        /\ page'[p].tries = page[p].tries /\ page'[p].reads = page[p].reads
    BY <2>1, <2>2 DEF PageReturns, CollectPage, CollectPageError, TypeOK, PageTask
  <2>5. \A q \in Page \ {p} : PageCosts(q)'
    BY <1>1, <2>2, <2>3, PageCostsStay DEF CostInv
  <2>6. PageCosts(p)'
    BY <2>2, <2>4 DEF CostInv, PageCosts, Spent
  <2>7. orphans' => orphans \/ page[p].out = "error"
    BY <2>1 DEF PageReturns, CollectPage, CollectPageError
  <2>8. page[p].out = "error" => MaxRetry + 1 <= Errors
    <3>1. page[p].out = "error" => Spent(MaxRetry + 1) <= Errors
      BY DEF CostInv, PageCosts
    <3>2. MaxRetry + 1 <= Spent(MaxRetry + 1) /\ Spent(MaxRetry + 1) \in Nat
      BY FirstCost, Costs, ValidatorAssumption
    <3> QED
      BY <1>2, <3>1, <3>2, ValidatorAssumption
  <2> QED
    BY <2>2, <2>5, <2>6, <2>7, <2>8 DEF CostInv
<1>4. CASE ResolveFails
  <2>1. /\ UNCHANGED <<entry, orphans, crashed>>
        /\ \A p \in Page : /\ page'[p].pc = "ended" /\ page'[p].out = "valid"
                           /\ page'[p].tries = 0 /\ page'[p].reads = 0
    BY <1>4 DEF ResolveFails, NewPageTask
  <2>2. \A p \in Page : PageCosts(p)'
    BY <1>2, <2>1, FirstCost, ValidatorAssumption DEF PageCosts, Spent
  <2> QED
    BY <1>2, <2>1, <2>2, ValidatorAssumption DEF CostInv
<1>5. CASE Return \/ Panic
  <2>1. /\ UNCHANGED <<page, entry, orphans, faults>>
        /\ crashed' => crashed \/ orphans
    BY <1>5 DEF Return, Panic
  <2> QED
    BY <2>1, PageCostsStay DEF CostInv, Errors
<1> QED
  BY <1>3, <1>4, <1>5

(* A task validates an entry of its page, so there is a message behind it. *)
LEMMA CostStep == TypeOK /\ JudgeInv /\ AllReadable /\ CostInv /\ [Next]_vars
                  => CostInv'
<1> SUFFICES ASSUME TypeOK, JudgeInv, AllReadable, CostInv, [Next]_vars
             PROVE  CostInv'
  OBVIOUS
<1>1. CASE UNCHANGED vars
  <2>1. UNCHANGED <<page, entry, orphans, crashed, faults>>
    BY <1>1 DEF vars
  <2> QED
    BY <2>1, PageCostsStay DEF CostInv, Errors
<1>2. ASSUME NEW p \in Page, NEW e \in Entry,
             Validate(p, e) \/ ValidateFails(p, e)
      PROVE  CostInv'
  <2>1. e \in Sampled(p)
    BY <1>2 DEF Validate, ValidateFails, Sampled
  <2>2. ~Unreadable(p, e)
    BY <2>1 DEF JudgeInv, PageInv, AllReadable
  <2> QED
    BY <1>2, <2>2, EntryStepsCost
<1>3. CASE Step
  BY <1>2, <1>3, ReadStepsCost, CollectStepsCost, OtherStepsCost DEF Step
<1> QED
  BY <1>1, <1>3 DEF Next

(* The texts do not change, so they stay readable, or unreadable.          *)
LEMMA ReadableStays == [Next]_vars => (AllReadable' <=> AllReadable)
<1> SUFFICES ASSUME [Next]_vars PROVE AllReadable' <=> AllReadable
  OBVIOUS
<1>1. text' = text
  BY DEF Next, Step, vars, Validate, ValidateFails, ReadPage, ReadPageFails,
         ReadPageBroken, CollectEntry, CollectEntryError, PageReturns,
         CollectPage, CollectPageError, Return, ResolveFails, Panic
<1> QED
  BY <1>1 DEF AllReadable, Unreadable, Population, CidOf

LEMMA CostsAbsorb == TypeOK /\ (AllReadable => CostInv) => RetriesAbsorb
<1> SUFFICES ASSUME TypeOK, AllReadable, CostInv PROVE RetriesAbsorb
  BY DEF RetriesAbsorb
<1>1. Errors \in Nat
  BY ValidatorAssumption DEF TypeOK, Errors, FaultKind
<1>2. Spent(MaxRetry + 1) = (MaxRetry + 1) * (MaxRetry + 1)
      /\ Spent(MaxRetry + 1) \in Nat
  BY Costs, ValidatorAssumption DEF Spent
<1>3. Errors <= MaxRetry => ~crashed
  BY <1>1, ValidatorAssumption DEF CostInv
<1>4. Errors < Spent(MaxRetry + 1) => \A p \in Page : page[p].out # "error"
  BY <1>1, <1>2 DEF CostInv, PageCosts
<1> QED
  BY <1>2, <1>3, <1>4 DEF RetriesAbsorb, Errors

(* While there is a message behind every entry, MaxRetry failed calls end  *)
(* nothing, and no page is given up before a task has failed in each of    *)
(* its attempts as often as it is tried, for every number of pages,        *)
(* entries and retries.                                                    *)
THEOREM ErrorsAreAbsorbed == Spec => []RetriesAbsorb
<1>1. Spec => [](AllReadable => CostInv)
  BY JudgeInvariant, InitCosts, CostStep, ReadableStays, PTL DEF Spec
<1> QED
  BY <1>1, TypeCorrect, CostsAbsorb, PTL
-----------------------------------------------------------------------------
(* LosesOnlyDamaged of the validation, for every text of the pages: the    *)
(* sample has been drawn from the entries, and these are the records that  *)
(* stand on the page as they were written.                                 *)
THEOREM OnlyDamagedLost == Spec => []LosesOnlyDamaged
<1>1. TypeOK /\ JudgeInv => LosesOnlyDamaged
  <2> SUFFICES ASSUME TypeOK, JudgeInv, NEW p \in Page,
                      page[p].pc = "collect", CidsWhole(text[p])
               PROVE  /\ Sampled(p) \subseteq IntactPlaces(text[p])
                      /\ Cardinality(Sampled(p)) =
                            (Cardinality(IntactAt(text[p])) * Percentage) \div 100
    BY DEF LosesOnlyDamaged, IntactPlaces
  <2>1. text[p] \in Seq(Token)
    BY TextAssumption DEF TypeOK
  <2>2. Population(p) = IntactPlaces(text[p])
    BY <2>1, IntactPlacesAreRead DEF Population
  <2>3. Cardinality(Population(p)) = Cardinality(IntactAt(text[p]))
    BY <2>1, <2>2, IntactPlacesCount, Zenon
  <2>4. /\ Sampled(p) \subseteq Population(p)
        /\ Cardinality(Sampled(p)) = sampleSize(p)
    BY DEF JudgeInv, PageInv, PageCollects
  <2> QED
    BY <2>2, <2>3, <2>4, Zenon DEF sampleSize
<1> QED
  BY <1>1, TypeCorrect, JudgeInvariant, PTL
=============================================================================
