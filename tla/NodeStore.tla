------------------------------ MODULE NodeStore ------------------------------
(***************************************************************************)
(* The write path of one node: the Store operation of package ipfs, run by *)
(* any number of gRPC handler goroutines at once, over the /mappings       *)
(* directory that the node keeps in the mutable file system (MFS) of its   *)
(* IPFS daemon.                                                            *)
(*                                                                         *)
(* A Store call adds the message to IPFS, appends a <key>,<cid>; entry to  *)
(* the last mapping page, reads the new CID of /mappings, publishes that   *)
(* CID under the node's IPNS name and records the pair in keyToCid.  No    *)
(* lock is held between these calls: each of them is a step here.          *)
(*                                                                         *)
(* What survives the process: the files, the messages and the IPNS record  *)
(* (the daemon keeps them).  What does not: keyToCid, discoverProgress,    *)
(* numOfFullyUsedPages and the calls under way.                            *)
(*                                                                         *)
(* Data.  A CID is the address of a content, so a message stands for its   *)
(* own CID and a directory value for the CID of that directory.  All the   *)
(* entries have one size (a key is 64 characters in base64, a CID 46), so  *)
(* a page is a sequence of entries and a byte offset an entry index.       *)
(***************************************************************************)
EXTENDS Naturals, Sequences

CONSTANTS
    Key,           \* the 48 byte keys
    Message,       \* the byte strings an application may ask to store
    KeyOf,         \* KeyOf[m]: the one key m is valid for, or NoKey
    NoKey,         \* m carries no valid header
    NoCid,         \* the empty CID
    Handler,       \* goroutines of the application gRPC server
    PageCapacity,  \* entries that fit in mappingPageMaxSize (512)
    MaxPages,      \* bound: page files of the model
    MaxCalls,      \* bound: Store calls of a behaviour
    Fault,         \* kinds of failure the environment may produce
    MaxFaults      \* bound: failures of a behaviour

FaultKind == {"add", "stat", "write", "dirstat", "publish", "timeout", "crash"}

ASSUME NodeStoreAssumption ==
    /\ KeyOf \in [Message -> Key \cup {NoKey}]
    /\ NoKey \notin Key
    /\ NoCid \notin Message
    /\ PageCapacity \in Nat \ {0}
    /\ MaxPages \in Nat \ {0}
    /\ MaxCalls \in Nat
    /\ Fault \subseteq FaultKind
    /\ MaxFaults \in Nat

(* SHA-256 does not collide: two messages are never valid for one key.     *)
ASSUME CollisionFree ==
    \A m, n \in Message : KeyOf[m] = KeyOf[n] /\ KeyOf[m] \in Key => m = n

Page  == 0 .. MaxPages - 1
Entry == [key : Key, cid : Message]
Dir   == [Page -> Seq(Entry)]          \* a /mappings directory, and its CID
EmptyDir == [p \in Page |-> << >>]     \* an empty sequence: no such file
NoEntry  == [key |-> NoKey, cid |-> NoCid]

VARIABLES
    files,      \* /mappings in the MFS of the daemon
    blobs,      \* messages added to IPFS
    ipns,       \* the directory the node's mappings IPNS name points to
    late,       \* directories whose publication timed out and may yet land
    up,         \* the process has passed lonelyInit and serves
    numOfFullyUsedPages,
    keyToCid,
    lastCommitCID,  \* discoverProgress[own mappingsIPNS].lastCommitCID
    call,       \* per handler: the Store call under way
    acked,      \* history: entries whose Store call has returned nil
    calls,      \* number of Store calls begun
    faults      \* number of failures so far

durable == <<files, blobs, ipns>>
memory  == <<numOfFullyUsedPages, keyToCid, lastCommitCID>>
vars == <<files, blobs, ipns, late, up, numOfFullyUsedPages, keyToCid,
          lastCommitCID, call, acked, calls, faults>>

PC == {"idle", "add", "stat", "bump", "repath", "write", "dirstat",
       "publish", "finish"}

Call == [pc : PC, entry : Entry \cup {NoEntry}, page : Page, offset : Nat,
         dir : Dir]

NoCall == [pc |-> "idle", entry |-> NoEntry, page |-> 0, offset |-> 0,
           dir |-> EmptyDir]

TypeOK ==
    /\ files \in Dir
    /\ blobs \subseteq Message
    /\ ipns \in Dir
    /\ late \subseteq Dir
    /\ up \in BOOLEAN
    /\ numOfFullyUsedPages \in Page
    /\ keyToCid \in [Key -> Message \cup {NoCid}]
    /\ lastCommitCID \in Dir
    /\ call \in [Handler -> Call]
    /\ acked \subseteq Entry
    /\ calls \in 0 .. MaxCalls
    /\ faults \in 0 .. MaxFaults

(* The entries that the pages of a directory hold.                         *)
Entries(d) ==
    {e \in Entry : \E p \in Page : \E i \in 1 .. Len(d[p]) : d[p][i] = e}

-----------------------------------------------------------------------------
(* Environment failures are counted, so that a behaviour has finitely many.*)

Failing(kind) ==
    /\ kind \in Fault
    /\ faults < MaxFaults
    /\ faults' = faults + 1

NoFailure == UNCHANGED faults

Init ==
    /\ files = EmptyDir
    /\ blobs = {}
    /\ ipns = EmptyDir
    /\ late = {}
    /\ up = FALSE
    /\ numOfFullyUsedPages = 0
    /\ keyToCid = [k \in Key |-> NoCid]
    /\ lastCommitCID = EmptyDir
    /\ call = [h \in Handler |-> NoCall]
    /\ acked = {}
    /\ calls = 0
    /\ faults = 0

(* A bug: the node starts over with a fresh, empty directory.              *)
LonelyInitAfresh ==
    /\ ~up
    /\ up' = TRUE
    /\ ipns' = EmptyDir
    /\ UNCHANGED <<files, blobs, late, memory, call, acked, calls, faults>>

(* lonelyInit, for /mappings: create the directory unless it exists, read  *)
(* its CID and publish it.  Nothing else runs on the node yet.             *)
LonelyInit ==
    /\ ~up
    /\ up' = TRUE
    /\ ipns' = files
    /\ UNCHANGED <<files, blobs, late, memory, call, acked, calls, faults>>

-----------------------------------------------------------------------------
(* The Store operation, one action per call to the daemon.                 *)

At(h, label) == call[h].pc = label

Goto(h, label) == call' = [call EXCEPT ![h].pc = label]

Return(h) == call' = [call EXCEPT ![h] = NoCall]

(* A bug: the checksum is not compared.                                    *)
ValidateNothing(key, message) == KeyOf[message] # NoKey

(* The header of the message is the key, and the checksum in the key is    *)
(* that of the message: a message has this for one key at most.            *)
ValidateKey(key, message) == KeyOf[message] = key

(* Step 1.  A call that fails the validation returns and changes nothing.  *)
StoreBegin(h, key, message) ==
    /\ up
    /\ At(h, "idle")
    /\ calls < MaxCalls
    /\ ValidateKey(key, message)
    /\ call' = [call EXCEPT ![h].pc = "add",
                            ![h].entry = [key |-> key, cid |-> message]]
    /\ calls' = calls + 1
    /\ UNCHANGED <<durable, late, up, memory, acked, faults>>

(* A bug: the entry is made from a CID computed locally, the message is    *)
(* never sent to IPFS.                                                     *)
AddNothing(h) ==
    /\ At(h, "add")
    /\ call' = [call EXCEPT ![h].pc = "stat",
                            ![h].page = numOfFullyUsedPages]
    /\ NoFailure
    /\ UNCHANGED <<durable, late, up, memory, acked, calls>>

(* Step 2, and the path of the page to append to.                          *)
AddFile(h) ==
    /\ At(h, "add")
    /\ blobs' = blobs \cup {call[h].entry.cid}
    /\ call' = [call EXCEPT ![h].pc = "stat",
                            ![h].page = numOfFullyUsedPages]
    /\ NoFailure
    /\ UNCHANGED <<files, ipns, late, up, memory, acked, calls>>

(* appendStringToFile, first half: the size of the page is the offset to   *)
(* write at.  The error of that call is dropped, and leaves offset 0.      *)
SizeOf(h) == Len(files[call[h].page])

StatFits(h) ==
    /\ At(h, "stat")
    /\ SizeOf(h) + 1 <= PageCapacity
    /\ call' = [call EXCEPT ![h].pc = "write", ![h].offset = SizeOf(h)]
    /\ NoFailure
    /\ UNCHANGED <<durable, late, up, memory, acked, calls>>

StatFails(h) ==
    /\ At(h, "stat")
    /\ Failing("stat")
    /\ call' = [call EXCEPT ![h].pc = "write", ![h].offset = 0]
    /\ UNCHANGED <<durable, late, up, memory, acked, calls>>

(* A bug: >= for >, a page is given up with room for one more entry.       *)
StatFullEarly(h) ==
    /\ At(h, "stat")
    /\ SizeOf(h) + 1 >= PageCapacity
    /\ call' = [call EXCEPT ![h].pc = "bump",
                            ![h].page = numOfFullyUsedPages]
    /\ NoFailure
    /\ UNCHANGED <<durable, late, up, memory, acked, calls>>

(* errExceedFileSizeLimit: the loop of Store moves on to the next page.    *)
(* numOfFullyUsedPages is shared and unlocked: it is read here, written in *)
(* Bump and read again in Repath.                                          *)
StatFull(h) ==
    /\ At(h, "stat")
    /\ SizeOf(h) + 1 > PageCapacity
    /\ call' = [call EXCEPT ![h].pc = "bump",
                            ![h].page = numOfFullyUsedPages]
    /\ NoFailure
    /\ UNCHANGED <<durable, late, up, memory, acked, calls>>

(* A bug: the loop tries the same page again.                              *)
BumpNothing(h) ==
    /\ At(h, "bump")
    /\ Goto(h, "repath")
    /\ NoFailure
    /\ UNCHANGED <<durable, late, up, memory, acked, calls>>

Bump(h) ==
    /\ At(h, "bump")
    /\ call[h].page + 1 < MaxPages
    /\ numOfFullyUsedPages' = call[h].page + 1
    /\ Goto(h, "repath")
    /\ NoFailure
    /\ UNCHANGED <<durable, late, up, keyToCid, lastCommitCID, acked, calls>>

(* A bug: the counter moves on, the path does not.                         *)
RepathNothing(h) ==
    /\ At(h, "repath")
    /\ Goto(h, "stat")
    /\ NoFailure
    /\ UNCHANGED <<durable, late, up, memory, acked, calls>>

Repath(h) ==
    /\ At(h, "repath")
    /\ call' = [call EXCEPT ![h].pc = "stat",
                            ![h].page = numOfFullyUsedPages]
    /\ NoFailure
    /\ UNCHANGED <<durable, late, up, memory, acked, calls>>

(* A bug: the offset is that of the last entry and not the end.            *)
WriteAtLast(file, offset, entry) ==
    IF offset \in DOMAIN file THEN [file EXCEPT ![offset] = entry]
                              ELSE Append(file, entry)

(* A bug: the write ignores the offset that was checked.                   *)
WriteAtEnd(file, offset, entry) == Append(file, entry)

(* appendStringToFile, second half: write at the offset found before.      *)
WriteAt(file, offset, entry) ==
    IF offset < Len(file) THEN [file EXCEPT ![offset + 1] = entry]
                          ELSE Append(file, entry)

WriteFile(h) ==
    /\ files' = [files EXCEPT
           ![call[h].page] = WriteAt(@, call[h].offset, call[h].entry)]
    /\ UNCHANGED <<blobs, ipns, late, up, memory, acked, calls>>

Write(h) ==
    /\ At(h, "write")
    /\ WriteFile(h)
    /\ Goto(h, "dirstat")
    /\ NoFailure

(* The daemon has written, but the answer is lost: Store returns an error. *)
WriteUnanswered(h) ==
    /\ At(h, "write")
    /\ Failing("write")
    /\ WriteFile(h)
    /\ Return(h)

(* A bug: the CID to publish is the one that the name points to already.   *)
DirStatPublished(h) ==
    /\ At(h, "dirstat")
    /\ call' = [call EXCEPT ![h].pc = "publish", ![h].dir = ipns]
    /\ NoFailure
    /\ UNCHANGED <<durable, late, up, memory, acked, calls>>

(* Step 4: read the CID of /mappings, then publish it.                     *)
DirStat(h) ==
    /\ At(h, "dirstat")
    /\ call' = [call EXCEPT ![h].pc = "publish", ![h].dir = files]
    /\ NoFailure
    /\ UNCHANGED <<durable, late, up, memory, acked, calls>>

Publish(h) ==
    /\ At(h, "publish")
    /\ ipns' = call[h].dir
    /\ Goto(h, "finish")
    /\ NoFailure
    /\ UNCHANGED <<files, blobs, late, up, memory, acked, calls>>

(* The caller stops waiting; the request goes on in its goroutine.         *)
PublishTimesOut(h) ==
    /\ At(h, "publish")
    /\ Failing("timeout")
    /\ late' = late \cup {call[h].dir}
    /\ Return(h)
    /\ UNCHANGED <<durable, up, memory, acked, calls>>

LatePublish(d) ==
    /\ ipns' = d
    /\ late' = late \ {d}
    /\ UNCHANGED <<files, blobs, up, memory, call, acked, calls, faults>>

(* A bug: the index maps the key to itself.                                *)
FinishKey(h) ==
    /\ At(h, "finish")
    /\ keyToCid' = [keyToCid EXCEPT ![call[h].entry.key] = call[h].entry.key]
    /\ lastCommitCID' = call[h].dir
    /\ acked' = acked \cup {call[h].entry}
    /\ Return(h)
    /\ NoFailure
    /\ UNCHANGED <<durable, late, up, numOfFullyUsedPages, calls>>

(* Steps 5 and 6.  The notification of other nodes is optional and changes *)
(* nothing here.                                                           *)
Finish(h) ==
    /\ At(h, "finish")
    /\ keyToCid' = [keyToCid EXCEPT ![call[h].entry.key] = call[h].entry.cid]
    /\ lastCommitCID' = call[h].dir
    /\ acked' = acked \cup {call[h].entry}
    /\ Return(h)
    /\ NoFailure
    /\ UNCHANGED <<durable, late, up, numOfFullyUsedPages, calls>>

(* A call to the daemon fails: Store returns the error and rolls nothing   *)
(* back.                                                                   *)
StoreError(h) ==
    /\ call[h].pc \in {"add", "write", "dirstat"}
    /\ Failing(call[h].pc)
    /\ Return(h)
    /\ UNCHANGED <<durable, late, up, memory, acked, calls>>

-----------------------------------------------------------------------------
(* The end of the process: a crash, or one of the fatal errors the Go      *)
(* runtime raises (unsynchronised map writes, the nil response that        *)
(* publishIPNSPointer dereferences after an error, the header that         *)
(* ValidateKey cuts out of a message shorter than one).                    *)

Die ==
    /\ up' = FALSE
    /\ numOfFullyUsedPages' = 0
    /\ keyToCid' = [k \in Key |-> NoCid]
    /\ lastCommitCID' = EmptyDir
    /\ call' = [h \in Handler |-> NoCall]
    /\ UNCHANGED <<durable, late, acked, calls>>

Crash == up /\ Failing("crash") /\ Die

PublishPanics(h) == At(h, "publish") /\ Failing("publish") /\ Die

-----------------------------------------------------------------------------
Step(h) ==
    \/ AddFile(h) \/ StatFits(h) \/ StatFull(h) \/ Bump(h) \/ Repath(h)
    \/ Write(h) \/ DirStat(h) \/ Publish(h) \/ Finish(h)

Failure(h) ==
    \/ StatFails(h) \/ WriteUnanswered(h) \/ PublishTimesOut(h)
    \/ PublishPanics(h) \/ StoreError(h)

Next ==
    \/ LonelyInit
    \/ \E h \in Handler, k \in Key, m \in Message : StoreBegin(h, k, m)
    \/ \E h \in Handler : Step(h)
    \/ \E h \in Handler : Failure(h)
    \/ \E d \in late : LatePublish(d)
    \/ Crash

Spec == Init /\ [][Next]_vars

(* A goroutine that can run is scheduled; main calls New when it starts.   *)
Fairness == WF_vars(LonelyInit) /\ \A h \in Handler : WF_vars(Step(h))

FairSpec == Spec /\ Fairness
-----------------------------------------------------------------------------
(* What holds whatever the interleaving of the handlers and the failures.  *)

(* A mapping never precedes its message: the message of every entry that a *)
(* page, the published directory or keyToCid holds is already on IPFS, so  *)
(* a reader that follows the CID of an entry finds something to fetch.     *)
(* Store adds the file before it appends (ipfs.go:308, 318).               *)
EntriesBacked ==
    /\ \A e \in Entries(files) \cup Entries(ipns) : e.cid \in blobs
    /\ \A k \in Key : keyToCid[k] # NoCid => keyToCid[k] \in blobs

(* The key is bound to one message for ever: the pages, the published      *)
(* directory and keyToCid never give two CIDs for a key, over any number   *)
(* of retries, crashes and concurrent calls.                               *)
KeyBindsOneCid ==
    \A e, f \in Entries(files) \cup Entries(ipns)
                \cup {[key |-> k, cid |-> keyToCid[k]] : k \in Key} :
        e.key = f.key /\ e.cid # NoCid /\ f.cid # NoCid => e.cid = f.cid

(* The size of a page is read in one call and written in another, and yet  *)
(* no page outgrows mappingPageMaxSize: the write goes to the offset that  *)
(* was checked, never to the end that others have moved meanwhile.         *)
PagesBounded == \A p \in Page : Len(files[p]) <= PageCapacity

(* The inductive invariant behind these three: what every call, finished   *)
(* or under way, and every directory, published or yet to be, may hold.    *)
Good(e, added) == e.cid \in added /\ KeyOf[e.cid] = e.key

GoodDir(d, added) ==
    \A p \in Page : \A i \in 1 .. Len(d[p]) : Good(d[p][i], added)

GoodCall(c, added) ==
    /\ GoodDir(c.dir, added)
    /\ c.pc # "idle" => c.entry \in Entry /\ KeyOf[c.entry.cid] = c.entry.key
    /\ c.pc \notin {"idle", "add"} => c.entry.cid \in added
    /\ c.pc = "write" => c.offset < PageCapacity

StoreInv ==
    /\ \A d \in late \cup {files, ipns} : GoodDir(d, blobs)
    /\ \A h \in Handler : GoodCall(call[h], blobs)
    /\ \A k \in Key :
           keyToCid[k] # NoCid => Good([key |-> k, cid |-> keyToCid[k]], blobs)
    /\ PagesBounded

-----------------------------------------------------------------------------
(* What holds when one handler runs at a time, no size query fails and no  *)
(* publication outlives its call.                                          *)

Serial == \A g, h \in Handler : g = h

Reliable == Fault \cap {"stat", "timeout"} = {}

(* d is a prefix of e, page by page.                                       *)
Extends(e, d) ==
    \A p \in Page : /\ Len(d[p]) <= Len(e[p])
                    /\ \A i \in 1 .. Len(d[p]) : e[p][i] = d[p][i]

(* Every entry that Store has acknowledged is in the directory other nodes *)
(* resolve from the IPNS name, through crashes and failed calls.           *)
AckedPublished == acked \subseteq Entries(ipns)

(* What Store returned nil for stays where it was stored: every            *)
(* acknowledged entry is on a page of the node.  Two calls that read one   *)
(* size, or one size query that fails, overwrite it.                       *)
AckedKept == acked \subseteq Entries(files)

(* A page is opened only when the one before it is full, and the counter   *)
(* never counts a page that has room.  A reader takes the number of files  *)
(* for the highest page, so a gap would hide the pages behind it.          *)
PagesInOrder ==
    /\ \A p \in Page \ {0} :
           files[p] # << >> => Len(files[p - 1]) = PageCapacity
    /\ \A p \in Page :
           p < numOfFullyUsedPages => Len(files[p]) = PageCapacity

(* No step removes or changes an entry, on the pages or under the IPNS     *)
(* name: readers that have counted a page as read lose nothing.            *)
AppendOnly == [][Extends(files', files) /\ Extends(ipns', ipns)]_vars

(* A Store call that has begun ends, with or without an error.             *)
StoreReturns == \A h \in Handler : ~At(h, "idle") ~> At(h, "idle")

(* The ledger that the node keeps: entries are kept, then published, then  *)
(* acknowledged.                                                           *)
Ledger == INSTANCE MappingLedger
            WITH kept <- Entries(files), published <- Entries(ipns)

LedgerSpec == Ledger!Spec

(* The inductive invariant behind the properties of this section: what     *)
(* each step of a call knows of the files while no other call runs.        *)
KnowsFiles(c) ==
    /\ ~up => c.pc = "idle"
    /\ c.pc \in {"stat", "write", "bump"} => c.page = numOfFullyUsedPages
    /\ c.pc = "bump" => Len(files[c.page]) = PageCapacity
    /\ c.pc = "write" => /\ c.offset = Len(files[c.page])
                         /\ c.offset < PageCapacity
    /\ c.pc \in {"dirstat", "publish", "finish"} => c.entry \in Entries(files)
    /\ c.pc \in {"publish", "finish"} => c.dir = files
    /\ c.pc = "finish" => ipns = files

SerialInv ==
    /\ late = {}
    /\ PagesBounded
    /\ PagesInOrder
    /\ AckedPublished
    /\ Extends(files, ipns)
    /\ \A h \in Handler : KnowsFiles(call[h])
=============================================================================
