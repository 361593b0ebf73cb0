------------------------------ MODULE Validator ------------------------------
(***************************************************************************)
(* One call of validateMappingsIPNS: a goroutine per page of the directory *)
(* (validateMappingsPage), and in each a goroutine per sampled entry       *)
(* (validateMapping).  Results and errors come up on channels without room;*)
(* whoever collects them returns at the first error, and closes the        *)
(* channels when it returns.  A goroutine that is about to send, or waits  *)
(* to, on a closed channel panics, and a panic ends the process.           *)
(*                                                                         *)
(* Each goroutine tries its own task again when it fails, MaxRetry times;  *)
(* that of a page does so in each attempt with the reading of the page.    *)
(***************************************************************************)
EXTENDS Naturals, FiniteSets, Records

CONSTANTS
    Page,        \* pages of the directory
    Text,        \* bound: texts that a page may have
    Entry,       \* bound: places of a page where an entry may stand
    Fits,        \* keys and CIDs: the message is valid for the key
    Long,        \* and of these, those whose message exceeds MessageSize
    Unread,      \* CIDs whose message cannot be read: nobody has it, or it
                 \* is empty
    Percentage,  \* of the entries of a page that are sampled
    MaxRetry,    \* retries of a failed task (3)
    Fault,       \* kinds of failure the environment may produce
    MaxFaults    \* bound: failures of a behaviour

(* A call to the daemon fails, a read returns a part only, the name is not *)
(* published any more, or getDAGLinks takes the empty links that are sent  *)
(* after an error.                                                         *)
FaultKind == {"error", "short", "unknown", "links"}

ASSUME TextAssumption ==
    /\ Text \subseteq Seq(Token)
    /\ \A t \in Text : parseMappings(t) \subseteq Entry

ASSUME ValidatorAssumption ==
    /\ IsFiniteSet(Page)
    /\ Long \subseteq Fits /\ Fits \subseteq KeyText \X (CidText \ Unread)
    /\ Percentage \in 0 .. 100
    /\ MaxRetry \in Nat
    /\ Fault \subseteq FaultKind
    /\ MaxFaults \in Nat

VARIABLES
    text,      \* per page: what is on it
    verdict,   \* what validateMappingsIPNS returns
    received,  \* pages whose result has been taken
    page,      \* per page: the goroutine of validateMappingsPage
    entry,     \* per page and entry: the goroutine of validateMapping
    orphans,   \* is there a goroutine whose channels are closed?
    crashed,   \* has one panicked?
    faults     \* per kind: number of failures so far

vars == <<text, verdict, received, page, entry, orphans, crashed, faults>>

(* "open" until the function returns; an outcome is a result or an error.  *)
Outcome == {"valid", "invalid", "error"}

(* tries counts the attempts at the page that failed, reads the failed     *)
(* reads of this attempt.                                                  *)
PageTask == [pc : {"read", "collect", "send", "ended"}, tries : Nat,
             reads : Nat, received : SUBSET Entry, out : Outcome]
NewPageTask == [pc |-> "read", tries |-> 0, reads |-> 0, received |-> {},
                out |-> "valid"]

EntryTask == [pc : {"idle", "run", "send", "ended"}, tries : Nat,
              out : Outcome]
NewEntryTask == [pc |-> "idle", tries |-> 0, out |-> "valid"]

TypeOK ==
    /\ text \in [Page -> Text]
    /\ verdict \in Outcome \cup {"open"}
    /\ received \subseteq Page
    /\ page \in [Page -> PageTask]
    /\ entry \in [Page -> [Entry -> EntryTask]]
    /\ orphans \in BOOLEAN
    /\ crashed \in BOOLEAN
    /\ faults \in [FaultKind -> 0 .. MaxFaults]

Population(p) == parseMappings(text[p])

sampleSize(p) == (Cardinality(Population(p)) * Percentage) \div 100

(* MessageSize bytes of the message are read and compared with the key.    *)
Validates(p, e) ==
    LET slice == Cut(text[p], e)
    IN  \E pair \in Fits \ Long :
            slice[1] = pair[1] /\ CidOf(slice) = <<pair[2]>>

(* Reading the message of such an entry ends in an error, however often it *)
(* is tried.                                                               *)
Unreadable(p, e) == \E cid \in Unread : CidOf(Cut(text[p], e)) = <<cid>>

Sampled(p) == {e \in Entry : entry[p][e].pc # "idle"}

Init ==
    /\ text \in [Page -> Text]
    /\ verdict = "open"
    /\ received = {}
    /\ page = [p \in Page |-> NewPageTask]
    /\ entry = [p \in Page |-> [e \in Entry |-> NewEntryTask]]
    /\ orphans = FALSE
    /\ crashed = FALSE
    /\ faults = [f \in FaultKind |-> 0]

Failing(kind) ==
    /\ kind \in Fault
    /\ faults["error"] + faults["short"] + faults["unknown"] + faults["links"]
           < MaxFaults
    /\ faults' = [faults EXCEPT ![kind] = @ + 1]

-----------------------------------------------------------------------------
(* validateMapping: the message is read and compared with the key.  A      *)
(* partial read leaves a message that does not fit.                        *)

EntryDone(p, e, out) ==
    entry' = [entry EXCEPT ![p][e].pc = "send", ![p][e].out = out]

Validate(p, e) ==
    /\ entry[p][e].pc = "run" /\ ~Unreadable(p, e)
    /\ \/ EntryDone(p, e, IF Validates(p, e) THEN "valid" ELSE "invalid")
          /\ UNCHANGED faults
       \/ EntryDone(p, e, "invalid") /\ Failing("short")
    /\ UNCHANGED <<text, verdict, received, page, orphans, crashed>>

(* A call fails, or there is nothing to read.                              *)
MessageFails(p, e) == (Unreadable(p, e) /\ UNCHANGED faults) \/ Failing("error")

(* Mutants: a failure is not tried again, and taken for a verdict.         *)
ValidateOnce(p, e) ==
    /\ entry[p][e].pc = "run"
    /\ MessageFails(p, e)
    /\ EntryDone(p, e, "error")
    /\ UNCHANGED <<text, verdict, received, page, orphans, crashed>>

ValidateFailsInvalid(p, e) ==
    /\ entry[p][e].pc = "run"
    /\ MessageFails(p, e)
    /\ EntryDone(p, e, "invalid")
    /\ UNCHANGED <<text, verdict, received, page, orphans, crashed>>

ValidateFails(p, e) ==
    /\ entry[p][e].pc = "run"
    /\ MessageFails(p, e)
    /\ IF entry[p][e].tries < MaxRetry
       THEN entry' = [entry EXCEPT ![p][e].tries = @ + 1]
       ELSE EntryDone(p, e, "error")
    /\ UNCHANGED <<text, verdict, received, page, orphans, crashed>>

-----------------------------------------------------------------------------
(* validateMappingsPage: the page is read and a sample of it validated.    *)

ReadPage(p) ==
    /\ page[p].pc = "read"
    /\ ~ParseFails(text[p])
    /\ \E samples \in SUBSET Population(p) :
          /\ Cardinality(samples) = sampleSize(p)
          /\ entry' = [entry EXCEPT ![p] = [e \in Entry |->
                 IF e \in samples THEN [NewEntryTask EXCEPT !.pc = "run"]
                                  ELSE NewEntryTask]]
    /\ page' = [page EXCEPT ![p].pc = "collect", ![p].received = {},
                            ![p].out = "valid"]
    /\ UNCHANGED <<text, verdict, received, orphans, crashed, faults>>

(* What the goroutine of p does when its attempt fails.                    *)
AttemptFailed(p) ==
    IF page[p].tries < MaxRetry
    THEN [NewPageTask EXCEPT !.tries = page[p].tries + 1]
    ELSE [page[p] EXCEPT !.pc = "send", !.out = "error"]

(* Mutant: the retries are counted down.                                   *)
ReadPageFailsDown(p) ==
    /\ page[p].pc = "read"
    /\ Failing("error")
    /\ page' = IF page[p].reads < MaxRetry
               THEN [page EXCEPT ![p].reads = @ - 1]
               ELSE [page EXCEPT ![p] = AttemptFailed(p)]
    /\ UNCHANGED <<text, verdict, received, entry, orphans, crashed>>

ReadPageFails(p) ==
    /\ page[p].pc = "read"
    /\ Failing("error")
    /\ page' = IF page[p].reads < MaxRetry
               THEN [page EXCEPT ![p].reads = @ + 1]
               ELSE [page EXCEPT ![p] = AttemptFailed(p)]
    /\ UNCHANGED <<text, verdict, received, entry, orphans, crashed>>

(* A page that breaks off, or cannot be parsed, is malformed.              *)
ReadPageBroken(p) ==
    /\ page[p].pc = "read"
    /\ Failing("short") \/ (ParseFails(text[p]) /\ UNCHANGED faults)
    /\ page' = [page EXCEPT ![p].pc = "send", ![p].out = "invalid"]
    /\ UNCHANGED <<text, verdict, received, entry, orphans, crashed>>

(* Mutant: the last result counts.                                         *)
BothLast(a, b) == b

Both(a, b) == IF a = "valid" THEN b ELSE a

(* A result of an entry is taken and added up.                             *)
CollectEntry(p, e) ==
    /\ page[p].pc = "collect"
    /\ entry[p][e].pc = "send"
    /\ entry[p][e].out # "error"
    /\ entry' = [entry EXCEPT ![p][e].pc = "ended"]
    /\ page' = [page EXCEPT ![p].received = @ \cup {e},
                            ![p].out = Both(@, entry[p][e].out)]
    /\ UNCHANGED <<text, verdict, received, orphans, crashed, faults>>

(* Mutant: one more result is awaited.                                     *)
PageReturnsLate(p) ==
    /\ page[p].pc = "collect"
    /\ Cardinality(page[p].received) = sampleSize(p) + 1
    /\ page' = [page EXCEPT ![p].pc = "send"]
    /\ UNCHANGED <<text, verdict, received, entry, orphans, crashed, faults>>

PageReturns(p) ==
    /\ page[p].pc = "collect"
    /\ page[p].received = Sampled(p)
    /\ page' = [page EXCEPT ![p].pc = "send"]
    /\ UNCHANGED <<text, verdict, received, entry, orphans, crashed, faults>>

(* Are there goroutines of page p that have not been heard yet?            *)
LeavesBehind(p, e) == Sampled(p) \ (page[p].received \cup {e}) # {}

(* An error of an entry: the function returns, and the page is tried again.*)
CollectEntryError(p, e) ==
    /\ page[p].pc = "collect"
    /\ entry[p][e].pc = "send"
    /\ entry[p][e].out = "error"
    /\ orphans' = (orphans \/ LeavesBehind(p, e))
    /\ entry' = [entry EXCEPT ![p] = [x \in Entry |-> NewEntryTask]]
    /\ page' = [page EXCEPT ![p] = AttemptFailed(p)]
    /\ UNCHANGED <<text, verdict, received, crashed, faults>>

-----------------------------------------------------------------------------
(* validateMappingsIPNS.                                                   *)

CollectPage(p) ==
    /\ verdict = "open"
    /\ page[p].pc = "send"
    /\ page[p].out # "error"
    /\ page' = [page EXCEPT ![p].pc = "ended"]
    /\ received' = received \cup {p}
    /\ UNCHANGED <<text, verdict, entry, orphans, crashed, faults>>

CollectPageError(p) ==
    /\ verdict = "open"
    /\ page[p].pc = "send"
    /\ page[p].out = "error"
    /\ page' = [page EXCEPT ![p].pc = "ended"]
    /\ received' = received \cup {p}
    /\ verdict' = "error"
    /\ orphans' = (orphans \/ received' # Page)
    /\ UNCHANGED <<text, entry, crashed, faults>>

Return ==
    /\ verdict = "open"
    /\ received = Page
    /\ verdict' = IF \A p \in Page : page[p].out = "valid"
                  THEN "valid" ELSE "invalid"
    /\ UNCHANGED <<text, received, page, entry, orphans, crashed, faults>>

(* The name cannot be resolved, or the links cannot be read; without links *)
(* there is no page to wait for.                                           *)
ResolveFails ==
    /\ verdict = "open"
    /\ \A p \in Page : page[p] = NewPageTask
    /\ \/ Failing("error") /\ verdict' = "error"
       \/ Failing("unknown") /\ verdict' = "invalid"
       \/ Failing("links") /\ verdict' = "valid"
    /\ page' = [p \in Page |-> [NewPageTask EXCEPT !.pc = "ended"]]
    /\ UNCHANGED <<text, received, entry, orphans, crashed>>

(* A goroutine that nobody collects comes to send.                         *)
Panic ==
    /\ orphans
    /\ crashed' = TRUE
    /\ UNCHANGED <<text, verdict, received, page, entry, orphans, faults>>

-----------------------------------------------------------------------------
Step ==
    \/ \E p \in Page :
          \/ ReadPage(p) \/ ReadPageFails(p) \/ ReadPageBroken(p)
          \/ PageReturns(p) \/ CollectPage(p) \/ CollectPageError(p)
          \/ \E e \in Entry :
                \/ Validate(p, e) \/ ValidateFails(p, e)
                \/ CollectEntry(p, e) \/ CollectEntryError(p, e)
    \/ Return \/ ResolveFails \/ Panic

Next == ~crashed /\ Step

Spec == Init /\ [][Next]_vars

FairSpec == Spec /\ WF_vars(Next)
-----------------------------------------------------------------------------
(* A directory that is found valid has had a sample of the required size   *)
(* of every page, and all of it fits, unless its links were lost.          *)
AcceptsValidated ==
    verdict = "valid" /\ faults["links"] = 0 =>
        \A p \in Page :
            /\ Cardinality(Sampled(p)) = sampleSize(p)
            /\ \A e \in Sampled(p) : Validates(p, e)

(* A damaged record costs the records it runs into, and no other: the      *)
(* sample is drawn from the records that stand on the page just as they    *)
(* were written, and all of those count, as long as nothing else on the    *)
(* page looks like a record (parser.go:155-173).                           *)
LosesOnlyDamaged ==
    \A p \in Page : page[p].pc = "collect" /\ CidsWhole(text[p]) =>
        /\ Sampled(p) \subseteq {<<i, i + 3>> : i \in IntactAt(text[p])}
        /\ Cardinality(Sampled(p)) =
               (Cardinality(IntactAt(text[p])) * Percentage) \div 100

(* When no transfer broke off and the name was still there, a directory is *)
(* found invalid, without an error, only if a page of it is broken or an   *)
(* entry does not fit: failed calls, however many, and damaged records     *)
(* beside good ones are not taken for an attack.  (A message longer than   *)
(* MessageSize does not fit, though Store accepts it.)                     *)
ErrorsRejectNothing ==
    verdict = "invalid" /\ faults["short"] + faults["unknown"] = 0 =>
        \E p \in Page :
            ParseFails(text[p]) \/ \E e \in Population(p) : ~Validates(p, e)

(* Can the messages of all entries of the pages be read?                   *)
AllReadable == \A p \in Page : \A e \in Population(p) : ~Unreadable(p, e)

(* As long as there is a message behind every entry, a task that fails     *)
(* MaxRetry times has one attempt left, so MaxRetry failed calls end       *)
(* nothing at all, and a page is given up only when each of its attempts   *)
(* has failed, which takes a task of it as many failures as that has       *)
(* attempts (validator.go:57,107,179).                                     *)
RetriesAbsorb ==
    AllReadable =>
        /\ faults["error"] <= MaxRetry => ~crashed
        /\ faults["error"] < (MaxRetry + 1) * (MaxRetry + 1) =>
               \A p \in Page : page[p].out # "error"

(* An error of one goroutine does not end the process: it is returned      *)
(* (validator.go:124).                                                     *)
NoPanic == ~crashed

(* The validation comes to an end, and leaves no goroutine behind.         *)
ValidationEnds ==
    <>(\/ crashed
       \/ /\ verdict # "open"
          /\ \A p \in Page : page[p].pc = "ended"
          /\ \A p \in Page, e \in Entry : entry[p][e].pc \in {"idle", "ended"})
=============================================================================
