# immutable-storage in TLA+

Specifications of the Go program in `src/`: a node of a cluster that stores
messages under self-certifying keys, on top of an IPFS daemon. They are
model-checked with TLC; every invariant that a passing run checks is also proved with
TLAPS. Paths and line numbers below are
those of the repository. `PROJECT.json` maps every
definition to the lines it stands for, and lists the runs, the mutants (a
plausible bug for each property, which the run must notice), the findings and
the hazards.

## 1. The system

A node is one process beside an IPFS daemon and a node-discovery service.
Applications call `Store`, `Read`, `AvailableKeys` and `IsDiscovered`
(`server/app.go`, port 3100). Nodes call `PropagateWrite`, `Sync` and
`GetNodetxtIPNS` on each other (`ipfs/clusterserver.go`, port 3101).
What a node has stored it publishes through IPFS: its directory `/mappings`
holds page files of `<key>,<cid>;` entries, its file `/nodes.txt` the mappings
names of the nodes it knows. Both are in the mutable file system of the daemon
and each is published under an IPNS name, which others resolve.

| Component | State | Operations | Interacts with |
| --- | --- | --- | --- |
| Application server, `server/app.go` | none | the four calls | `IPFS` methods, one goroutine per call |
| Write path, `ipfs.go:302-353`, `client_ipfs.go:81-145` | page files, IPNS record (daemon); `numOfFullyUsedPages`, `keyToCid`, `discoverProgress` (memory) | `Store` | other `Store` calls through files and memory; readers through the IPNS name |
| Discovery, `ipfs.go:460-517`, `workers.go:186-229` | `keyToCid`, `discoverProgress` | `checkPullIsRequired`, `pullRemoteState` | names of other nodes; overlapping pulls of one node |
| Propagation, `ipfs.go:519-575` | none | `propagateWriteExternal/Internal` | a goroutine per member, started and forgotten |
| Queries, `ipfs.go:362-458,675-681` | `keyToCid` | `Read`, `IsDiscovered`, `AvailableKeys`, `sync` | `Sync` calls, which may call back |
| Index directory, `workers.go:36-174` | `/nodes.txt`, nodes IPNS record | `updateIndexDirectoryIteration` | `nodes.txt` of every member |
| Initialisation, `ipfs.go:61-97,131-263,587-672` | all of it | `New`, `lonelyInit`, `groupInit`, `initNodestxt` | up to three members |
| IPFS client, `client_ipfs.go` | channels per call | requests to the daemon, timeouts | goroutines that outlive their call |
| Validation, `validator.go` | goroutines and channels per call | `validateMappingsIPNS/Page`, `validateMapping` | pages and messages of other nodes |
| Parsers, `parser.go` | none | `parseNodestxt`, `parseMappings`, `parseMessage` | |
| Life cycle, `main.go`, `workers.go:11-23` | context, two servers | start, SIGINT | |

Generated code (`*.pb.go`), scripts and drafts have no behaviour of their own.
`loadConfig` and `parseConfig` have no caller.

**What is hard.** There is no lock anywhere: `Store` handlers, `PropagateWrite`
handlers, `Sync` handlers and the two workers share the maps, the page counter
and the files. Every call to the daemon may fail, time out, or succeed with
its answer lost; nothing is rolled back; a timed out publication still runs.
IPNS resolution may give an older value. A process may end at any step (and the
Go runtime ends it at an unsynchronised map write or a panic in any goroutine)
and comes back with the daemon's state and empty memory.

**What makes the components correct.**

- Write path: a key has one message for ever; nothing visible without its
  message on IPFS; an acknowledged entry is published and never lost; pages
  are filled in order and within their limit; every call returns.
- Discovery: an index entry names a node that has the key; progress never
  claims what was not read; no page of a committed directory was left out; what is
  published is discovered; propagation dies out.
- Index directory: a node lists itself; what it serves is a prefix of what it
  has; records are not lost and hardly repeated; all nodes end up listed.
- Queries: every call returns, circles of `Sync` calls included; nobody finds what
  was never stored; `Read` uses the CID it has found; a node that is told to stop
  answers its applications and stops.
- Client calls and validation: an error is never taken for an answer or a
  verdict; calls return; goroutines end; nothing panics; what is accepted has
  been sampled; a damaged record costs no others.

## 2. The modules

| Module | Models | Runs | Proofs |
| --- | --- | --- | --- |
| `NodeStore` | `Store` on one node, handlers at once, failures, crashes | `Store*.cfg` | `NodeStoreProofs` |
| `MappingLedger` | what the write path promises: kept, published, acknowledged | refined by `NodeStore` | `LedgerIsDurable` |
| `Discovery` | reading: pulls, propagation, sync, restart, in a cluster | `Discovery*.cfg` | `DiscoveryProofs` |
| `KeyDirectory` | what the cluster promises about keys | refined by `Discovery` | `ImplementsDirectory` |
| `NodeIndex` | `/nodes.txt`: `lonelyInit`, `groupInit`, merging | `Index.cfg` | `NodeIndexProofs` |
| `Queries` | `Read`, `IsDiscovered`, chains of `Sync` calls with deadlines, SIGINT | `Queries.cfg`, `ReadShadow.cfg` | `QueriesProofs`, `DeadlinesProofs` |
| `IpfsCalls` | the three wrappers that put a timeout around a query | `Calls.cfg` | `IpfsCallsProofs` |
| `Records` | the text of a mapping page: writing and parsing it | through `Validator` | `RecordsProofs` |
| `Validator` | one call of `validateMappingsIPNS` with its goroutines | `Validation.cfg`, `ValidatorPanic.cfg` | `ValidatorProofs` |

Each `MCx` module gives the constants of `x` finite values. An operator whose
comment begins with "A bug" or "Mutant" is a mutated form of the definition it
stands beside; no specification uses it.

The modules meet in three places. `Discovery` takes the write path as
`NodeStore` leaves it *with one handler at a time*: a log per node that only
grows (`AppendOnly`), fills pages in order (`PagesInOrder`) and is published
before it is acknowledged (`AckedPublished`), the three facts that
`NodeStoreProofs` establishes. And it takes the growth of `nodes.txt` as
`NodeIndex` leaves it (`OnlyGrows` while the process runs, `OwnListed`, both
proved). `Queries` takes discovery by pulling as one step, which adds a published
key; what its answers do to the index, at any later time, is `SyncRecord` in
`Discovery`.

### NodeStore

One action per call to the daemon. For handler `h`: `StoreBegin` (lines
302-306), `AddFile` (308, and reading the counter for the path), `StatFits` /
`StatFull` / `StatFails` (the size query and limit test in
`appendStringToFile`), `Bump` and `Repath` (321 and 322), `Write`, `DirStat`
(329), `Publish` (333), `Finish` (344-350). The increment in line 321 is a read
(in `StatFull`) and a write (`Bump`), as other handlers may come between them.

Data: a message stands for its CID, a directory value for the CID of that
directory, since CIDs are addresses of contents. All entries have one size (64
characters of base64 key, one CID length), so a page is a sequence and an
offset an index. `KeyOf` says which key a message is valid for; that two
messages are not valid for one key is the assumption `CollisionFree`.
Failures, each counted and enabled by `Fault`: a failed `add`, a size query
that fails (`stat`), a write that fails or is done unanswered, a failed
`dirstat`, a publication answered with an error (`publish`, which panics:
see section 3) or timed out (`timeout`, which leaves the directory in `late`, to
land at any later time), and `crash`. `acked` is history: entries whose call
has returned nil.

### Discovery

A node stands for its mappings name, and a directory version for its CID: the
number of entries in it. Threads of a node are its worker and the handlers of
`PropagateWrite`; each goes through `checkPullIsRequired` (`Check`, `Compare`)
and `pullRemoteState` (`Begin`, `Resolve`, `ReadPage` per page, `Commits`,
or an error path that saves the progress too). A pull works on its own copy of
the progress, and overwrites the shared one when it ends.
The resolution of a name and the links of the result are one step, because the
links are a function of the CID; the entries of one page are recorded in one
step. (`ReadPage` does not add what a concurrent pull could see half way:
entries are only added and readers of the index look at one key at a time.)
`Store` ends by recording the bare CID as `lastCommitCID`, whereas pulls compare
with what `resolveIPNSPointer` returns, the path `/ipfs/<cid>`; the two are never
equal, so the model records `NoCommit` there. `LinksEmpty` is the empty answer
that `getDAGLinks` may give after an error, as in `IpfsCalls`; `linksLost` remembers
that it happened. `Restart` covers a crash and the next
start; what `groupInit` takes over is any set of names that peers list.
`msgs` is a set: of two equal `PropagateWrite` calls that wait for one node, the second
would only make the same check again, and pulls of one name that overlap already come
from the worker and a handler.

### NodeIndex

One goroutine per node: `Clean`, `AppendOwn`, `PublishOwn` (lonelyInit; any
error starts it over), `Join`, `JoinAppend`, `JoinPublish` (groupInit), then for
ever `Iterate`, and for each member `Merge`, `AppendRecords`, `Publish`. `MergeSkipped` leaves a member
out that does not answer, or whose file, or the local one, cannot be read; an older version
of its file gives fewer names, as a failed validation does.
`AppendFails` retries with the same content, at most `MaxRetry` times. All names
have one length. A publication that times out happens before the function
returns, or never; one that lands later is left to `NodeStore`. The order in
which `memberIPs` comes is left open.

### Queries

One key. A slot of `call` is a call under way: a `Read` or `IsDiscovered` of an
application, or a `Sync` that a member serves. Its `job` says which of the
look-ups of `Read` it is at (line 382 looks again, and asks again). `StartJob` takes
the members and starts the deadline; `Ask` calls the next member, which becomes a
call of its own; `AnswerPeer` gives its answer; `Expire` passes the deadline, and
`GiveUp` ends the job. The
deadlines are all ten seconds, so they pass in the order in which the jobs began:
`earlier` gives for each job those that began before it. The server of a `Sync` call does not use the context of its
caller: it goes on, with a deadline of its own, when the caller has given up
(`Orphaned`). A job that has run into its deadline is `"late"`: the members that are left
are only dialled, for up to ten seconds each, as the context of every further call has
expired, so late jobs end in any order, and others go on meanwhile. (The test at line 417 does not
recognise the error, which is a gRPC status; that makes no other difference.)
A member that accepts no connections is dialled until the deadline (`Dial`).
`Interrupt`, `CtrlC` and `Exit` follow `main`: the application server drains, the
context is cancelled, the process ends; the cluster server answers until then.
`QueryShort` is the panic of `IsDiscovered` on a key shorter than 48 bytes, which
ends the process.

Two things here differ from what the code's comments lead to expect. Nodes that list each
other go on asking each other for an unknown key. Each of these calls ends by its own
deadline (`QueriesReturn`), but a server does not use the context of its caller and
starts a job of its own, so the chain of new calls as a whole need not die out: nothing ends
it but that a node comes to know the key, a failed call, or the end of a process. And
`ipfs.go:359` and `ipfs.go:401` say that `Sync` is repeatedly called on other nodes, but
since a member asks its own members before it answers, and its deadline comes after that
of its caller, the others of a list are not asked at all as long as nothing fails and
every node has members
(`FirstMemberDecides`, which TLC checks and TLAPS proves). A member further down the list
that has the key does not help.

`ReadUsesFoundCid` is about the second request of `Read`, which finds the CID and assigns it
to the `cid` of the inner block (`After`). In its run only the other node pulls (`Puller`), so
that nothing but this request can find the key. A key that a pull finds just before line
382 looks again is opened with the empty CID too, as `cid` is not read again there;
the property does not speak of that.

### IpfsCalls

The caller (`asker`) and the goroutine (`fetcher`) of each call, with the two
channels. A send to a parked caller is one step. What Go's `select` does with
several ready cases is a free choice, which matters only for a caller that
reaches its select late (`Slow`). The timer fires only for a parked
caller: the timeouts are minutes, and a running caller has a ready case or
parks.

### Records and Validator

A page is a sequence of tokens: a key, a CID, the two delimiters, anything else
(`Junk`), or a text larger than the buffer of the reader, at which `ReadSlice` fails.
`Format` is what `Store` appends; `parseMappings` cuts the text at the semicolons
and keeps the slices that are mappings. An entry is known by its place, the first
token of its slice and the delimiter behind it: two entries of a page may be equal,
and the order in which they are read makes no difference. `IntactAt` is the reference it is
checked against: the places at which a record stands as `Store` wrote it.
`LosesOnlyDamaged` compares the two on pages whose entries name one whole CID
each (`CidsWhole`): `parseMapping` takes any text behind the comma for a CID, so
what is no CID counts as an entry, which the validation then refuses.

Per page a task, per sampled entry a task. Three loops try again, each up to
`MaxRetry` times: that of an entry (`tries` of `EntryTask`), that of the read of a page
(`reads`, `validator.go:57`), and that of a whole page (`tries` of `PageTask`,
`validator.go:179`), which starts the others anew (`AttemptFailed`). A collector that returns at its first
error closes the channels; if others have not reported yet (`orphans`) they
panic when they come to send, which may be at any later time. The attempt is
replaced in the model by the next one; the abandoned goroutines are only in
`orphans`. `unknown` is a name that the daemon says is not published. Reading a message
that nobody has, or an empty one, fails at every attempt (`Unread`). `links` is the empty
answer that `getDAGLinks` offers after an error: with it `validateMappingsIPNS` has no page
to wait for, and returns true.

## 3. The runs

| Run (cfg) | Shows | Instance |
| --- | --- | --- |
| `StoreSerial` | the inductive `SerialInv`, `AckedPublished`, `PagesInOrder`, `AppendOnly`, refinement of `MappingLedger` | 1 handler, 2 keys, pages of 2, 4 calls, 2 failures |
| `StoreConcurrent` | `StoreInv` (with `PagesBounded`), `EntriesBacked`, `KeyBindsOneCid`, `StoreReturns` | 2 handlers, pages of 2, 4 calls, 1 failure of any kind |
| `DiscoverySafe` | `SourceHolds`, `ProgressHonest`, `CommitReadsPages`, refinement of `KeyDirectory` | 2 nodes, 2 keys, pages of 1, worker and handler, 2 stores, any one failure |
| `DiscoveryLive` | `Discovered`, `PropagationEnds` | 2 nodes, both members, 2 keys, pages of 1, 2 stores, no failure |
| `Index` | `OwnListed`, `ServesPrefix`, `FewDuplicates`, `OnlyGrows`, `Converges` | 2 nodes, files of 4, 4 failures of any kind but a failed size query |
| `Queries` | `AnswersKnown`, `FirstMemberDecides`, `ApplicationsFirst`, `QueriesReturn`, `StopCompletes` | 3 nodes, the first knows both others, which know it; 1 query, 3 calls at once, 1 failure, interrupt or short key |
| `Calls` | `AnswerFits`, `ReadsNeverPanic`, `CallsReturn`, `GoroutinesEnd` | 2 calls of any of 3 kinds, one with a slow caller |
| `Validation` | `AcceptsValidated`, `LosesOnlyDamaged`, `ErrorsRejectNothing`, `RetriesAbsorb`, `ValidationEnds` | 2 pages with five texts (good, forged, torn, malformed and too long records, entries without message, a text without delimiter), sampled at 75 per cent, 4 failures of any kind |

Four runs end in a counterexample; each is a finding:

| Run | Property | What happens |
| --- | --- | --- |
| `StoreOverwrite` | `AckedKept` | two `Store` calls read one page size and write at one offset; the entry of one that has returned nil is gone |
| `DiscoveryPartial` | `CommitComplete` | a page read half full is not read again; its second key is never discovered by pulling |
| `ValidatorPanic` | `NoPanic` | a task that fails for good closes the channels on which the others will send |
| `ReadShadow` | `ReadUsesFoundCid` | the first request of `Read` ends at its deadline, the second finds the CID, and the message is fetched with an empty one (`ipfs.go:373` declares a second `cid`) |

The passing runs say as plainly what they leave out, and why. These are the
conditions under which the code does *not* keep what is checked; each is
a behaviour of the models, and changing the constant named here shows it:

- Two handlers (`Handler`): besides the overwritten entry, a directory read
  earlier may be published later (`AckedPublished`), and `numOfFullyUsedPages`
  may be incremented twice for one full page (`PagesInOrder`).
- A failed size query (`"stat"` in `Fault` of `StoreSerial` or `Index`): its
  error is dropped at `client_ipfs.go:99` and the append writes at offset 0.
- A publication that lands late (`"timeout"` in `StoreSerial`).
- Lost links (`linksLost` in `CommitReadsPages`, `"links"` in `AcceptsValidated`):
  `getDAGLinks` offers an empty map after an error (`client_ipfs.go:227`), and a directory
  is committed, or found valid, unread.
- A page that is read before it is full: its later entries are never pulled, though the
  directory is committed (`DiscoveryPartial`). `CommitReadsPages` speaks of the pages, not
  of all entries on them.
- A slow caller (`Slow` in `Calls`): it may find the empty map, or nil from a
  closed channel, ready.
- A publication that the daemon refuses: `publishIPNSPointer` reads `res.Name`
  of a nil response (`client_ipfs.go:260`), a panic (`Deref` in `IpfsCalls`,
  `PublishPanics` in `NodeStore`, `Crash` in `NodeIndex`).
- A read that returns a part of a message or breaks off within a page
  (`"short"` in `Validation`): a good directory is found invalid
  (`validator.go:41`).
- A message longer than `MessageSize` (`Long`): `Store` accepts it, the validation
  reads a part of it, and its directory is found invalid (`validator.go:40`).
- An entry whose message cannot be read (`AllReadable` in `RetriesAbsorb`): it uses up the
  retries without any failure of the environment.
- A failure or a stopped member among those asked (`events` in
  `FirstMemberDecides`): the next one is then asked.
- A page of fewer than ten entries, at the 10 per cent that all callers use, and of one
  entry, at the 75 per cent of `Validation`: `sampleSize` is 0, so nothing of it is validated
  (`validator.go:80`).

**Bounds.** Two handlers suffice for a race between two calls. In `StoreConcurrent` four
calls are needed: two fill the first page, and the two others then come to it at once, so
that both are in the loop of `ipfs.go:319` over one counter, which may skip a page; hence
three pages. Pages of one or two entries make
a page full, half full and skipped within these calls; 512 adds only length.
With one entry per page a page is full when first seen, so
`Discovered` can hold; with two it does not, nor does `CommitComplete`, as `DiscoveryPartial` shows.
In `Discovery`, `Writer` is the nodes on which `Store` is called, `Reader` those
whose two workers run, `Asker` those on which unknown keys are asked for, `Member`
those that can be told of a write:
in the runs with two nodes one writes and one reads, and both may restart
and answer `Sync` calls, which in `DiscoverySafe` the writer makes, who may
store the key meanwhile. `Input` gives the keys of each `Store` call, and so their number; `MaxCalls` does so in `NodeStore`.
In `NodeIndex` the `Limit` of four entries lets each name be there twice, and makes
files full.
In `Queries`, three calls at once are a query, the `Sync` call it makes and the one
that this makes back; a further one waits for a free slot, as it would for the
deadline. Only `Asker` has applications and is stopped, only `Puller` finds keys by pulling; the
other nodes may know the key from the start.
In `Validation` `Percentage` is 75, so that a page of one entry has an empty sample, one of
two a sample of one, and one of three a sample of two that report at once; `Entry` is the
places at which the texts of the run have entries. Of the two pages the second has no more
entries than the first, and two at most (`LongFirst`): nothing else tells the pages apart, so
this leaves out only the pair of long ones.
`MaxFaults` is a number of failures per behaviour, of any allowed kind at any
step; `MaxRetry` is 1 instead of 3 so that retries run out within it: a page is
given up after two attempts of two reads, hence the four failures of `Validation`.
`MaxPages` exceeds what the calls can fill. Symmetry is used only in runs
without liveness properties. Deadlock is not checked, because a node may stop
when the calls of the bound are used up; that calls do not get stuck is stated
by the liveness properties.

**Fairness.** Weak fairness of each goroutine's own steps: the Go scheduler runs
what can run. The worker loops for ever (`workers.go:12`) and takes every name of
its copy of `nodes.txt` before it takes the next copy, so fairness of the worker
as a whole is enough. A step that stands for a request happens because each
request is answered or times out, in the client or in the daemon, and the
alternatives are failures. For resolving a name, adding a message and reading its body
(`sh.Resolve`, `sh.Add`, the reader that `readFileWithCID` returns) the client has no
timeout, so that these end is an assumption on the daemon. Nothing is assumed of failures, of crashes, or of
applications (`StoreBegin`, `StoreAppend`, `Sync`). `Calls` does not even assume
that the daemon answers: `CallsReturn` rests on the timer alone, and
`GoroutinesEnd` is about goroutines that have been answered. In `NodeIndex`
a node that was interrupted goes on by itself: `New` retries `lonelyInit` for
ever and starts the worker whatever `groupInit` returned. In `Queries` each call
makes its steps, deadlines pass, and a node that was told to stop goes on to do so;
nothing is assumed of applications, failures, discoveries and signals.

## 4. What is proved

`NodeStoreProofs` holds for every number of handlers, keys, messages, pages,
calls and failures.

- `TypeCorrect`: `TypeOK`.
- `StoreInvariant`: `StoreInv` is inductive together with `TypeOK`, under any
  interleaving and all failures. It says of everything a call has in hand, of
  every directory on its way, and of the index, that each entry is backed by
  its message and bound to its key; and that an offset that passed the limit
  test is below the limit. From it: `MessagesBackEntries`,
  `KeysAreImmutable` (with `CollisionFree`), `PagesStayBounded`.
- `SerialInvariant`: `SerialInv` is inductive *under the assumptions* `Serial`
  (one handler) and `Reliable` (no failed size query, no publication that
  outlives its call), without which it is false (section 3). Its core is `KnowsFiles`: what a call learned of the
  files at one step is still so at the next, because no other call runs. From
  it: `AcknowledgedIsPublished`, `PagesFillInOrder`, `NothingIsLost`
  (`AppendOnly`), `ImplementsLedger`, `AcknowledgedIsKept`.

`NodeIndexProofs` holds for every number of nodes, entries, retries and failures.

- `TypeCorrect`: `TypeOK`, without further hypotheses.
- `IndexInvariant`, under the hypothesis that no size query fails
  (`"stat" \notin Fault`): `IndexInv` is inductive. It adds to `OwnListed` and
  `ServesPrefix` what `lonelyInit` is about to write; the rest is that no node
  touches the files of another, and that a write at the end of a file
  keeps what is before it (`FileGrows`). From it: `OwnNameListed`,
  `ServedIsPrefix`, `ListedForEver` (`OnlyGrows`).
- `FewListedTwice` (`FewDuplicates`), *without* that hypothesis: the inductive
  `CountInv` counts, for each name, the file together with the append that is still
  to be done (`Counted`). An append that is retried after a lost answer adds its
  names once more, for one failure more; a write at offset 0 adds no more than one
  at the end of the file would have.

`DiscoveryProofs` holds for every number of nodes, keys, handlers, entries per page,
`Store` calls and failures of any kind, without further hypotheses except where
named.

- `TypeCorrect`: `TypeOK`, with what calls under way have in hand (a key, a node)
  being named.
- `SourcesHold`: `SourceInv` is inductive. A log only grows and a name only moves on
  (`Grows`), so what was published stays so; a resolved version, even a stale one,
  is no later than what its name points to now (`Ordered`, `Resolved`); hence every
  entry that a step adds is traced to a node that has published it (`EntriesTraced`).
- `ImplementsDirectory`: with that, a step that changes the index is a `Discover` or
  a `Restart` of `KeyDirectory`, and any other one a `Publish`.
- `ProgressIsHonest`: `AllHonest` says it of every page number that a node remembers
  *or that one of its pulls has in hand*, which is what makes it inductive: a pull
  that saves late puts back a number that was honest when it was taken, and what
  was read stays read until a restart, which forgets both.
- `CommitsReadPages` (`CommitReadsPages`): `AllWhole` says of every progress, shared or
  in hand, that it has read as many pages as its commit has, until links are lost. With
  `ProgressIsHonest` these pages have been read. No hypothesis is made on the size of pages.

`IpfsCallsProofs` holds for every number of calls, each of any kind, prompt or slow.

- `TypeCorrect`: `TypeOK`.
- `PromptAnswersFit`, `PromptReadsNeverPanic`: the inductive `CallsInv` says that the
  first thing sent to a prompt caller is what it returns, so that what a goroutine
  sends or closes after its error finds the caller gone.

`ValidatorProofs` holds for every number of pages, all texts, retries and failures.

- `TypeCorrect`: `TypeOK`.
- `JudgeInvariant`: what an entry reports, what has been added up of a page and what
  the page reports is so (`EntryJudged`, `PageCollects`, `PageJudged`). An attempt that
  fails leaves no result behind in the next one, because `ReadPage` begins
  with new tasks and new channels; a page that was heard has ended (`PageHeard`).
  From it: `AcceptedIsValidated`, `ErrorsAreNoVerdict` (`ErrorsRejectNothing`).
- `ErrorsAreAbsorbed` (`RetriesAbsorb`): as long as every entry has a message that can be
  read, the inductive `CostInv` charges the failed
  calls to those whose attempts they ended. An attempt at a page has cost
  `MaxRetry + 1` of them (`Spent`), whether its read or one of its entries failed
  for good, and what has been spent on one task never exceeds what has failed in all.
- `OnlyDamagedLost` (`LosesOnlyDamaged`), from `RecordsProofs`: on any text, a record
  that stands as it was written is read (`IntactIsRead`), and on one whose entries
  name whole CIDs nothing else is (`IntactPlacesAreRead`), so the places of the two
  are one set and the sample is taken of as many.

`QueriesProofs` and `DeadlinesProofs` hold for every number of nodes and of calls, and
for any members that the nodes are told of, in circles or not.

- `QueriesInvariant`: `Links` says that a call that has somebody to answer is what that
  call waits for; so an answer is for the job that asked for it, also after deadlines, ends of
  processes and new calls in old slots. From it: `AnswersAreKnown`
  (`AnswersKnown`), `ApplicationsAreFirst` (`ApplicationsFirst`).
- `JobsInvariant` adds the jobs: their deadlines are in one order (`DeadlinesOrdered`),
  through ends of calls, of several at once when a process ends, and new ones. From it
  and `Links`: `TypeCorrect` (`TypeOK`). And `SomeDeadlineIsDue`: the order of finitely many jobs has
  a first one, so that circles of `Sync` calls always have a way out. That it
  is taken is `QueriesReturn`, which TLC checks.
- `FirstMember` (`FirstMemberDecides`), by `Decisive`: as long as nothing has failed, a
  job that is asked by another one has the asker's deadline before its own, so it cannot
  run into its own while it is waited for. Hence it answers only what it has found,
  and the asker asks no further member.

The proofs have one step per action and, where an action disturbs several
conjuncts, one per conjunct. Facts about the page operators (`WriteAt`,
`Entries`, `Extends`, `GoodDir`) are lemmas of their own.

The assumptions are those named in the modules: `NodeStoreAssumption`,
`CollisionFree`, `IndexAssumption`, `DiscoveryAssumption`, `CallsAssumption`,
`DelimiterAssumption`, `TextAssumption`, `ValidatorAssumption` and `QueriesAssumption`; `Serial`, `Reliable` and
the absence of failed size queries are hypotheses of theorems.

Only model-checked: all liveness (temporal proofs with fairness and `ENABLED`
are beyond the prover used), that is `StoreReturns`, `Discovered`,
`PropagationEnds`, `Converges`, `QueriesReturn`, `StopCompletes`, `CallsReturn`,
`GoroutinesEnd` and `ValidationEnds`. Induction theorems of the library that take a
predicate cannot be used either; where a finite set has to have a least member, the
proof takes it from `WFMin`, which speaks of sets (`SmallestSet` in
`DeadlinesProofs`).

## 5. What is not modelled, and the plan

Not modelled: the contents of files other than mapping pages; formatting and
logging; the DHT and caches of IPFS beyond "an older CID"; corruption of Go maps
by races (their detection, which ends the process, is a crash); connections,
which are left open when a key was found (`ipfs.go:424`) and whose number has no
bound; key generation in `lonelyInit` (idempotent); `loadConfig` and `parseConfig`,
which nothing calls; generated code.

Plan, the most important first:

1. `Cluster`: several writers per node in `Discovery`, with pages skipped, to
   follow the findings on the write path through to the readers.
2. Connections in `Queries`, opened by `Ask` and closed where the code does.
