# TLA+ models of TokenLighten

TokenLighten is an MCP server that gives coding agents reading, searching and
editing tools over a workspace. Most of the repository is sequential text
processing. What is hard to get right in it, and hard to test, is what several
server processes, several calls of one process, a user's editor and a kill at a
bad moment do to the state they share. This directory models that part, checks
it with TLC and proves some of it with TLAPS.

Source paths below are relative to `packages/mcp-server/src/` unless they begin
with `packages/`. The definitions carry the names of the code where TLA+ allows
it; `PROJECT.json` maps each one to its lines.

1. [The system](#1-the-system)
2. [The modules and the code](#2-the-modules-and-the-code)
3. [The runs](#3-the-runs)
4. [Where the code disagrees with its own words](#4-where-the-code-disagrees-with-its-own-words)
5. [What is proved](#5-what-is-proved)
6. [What is not covered](#6-what-is-not-covered)
7. [Plan](#7-plan)

## 1. The system

A client (an agent's host) starts one server process per session and speaks
JSON-RPC with it over stdio. Several sessions on one workspace are several
processes. They share the working tree, a directory of state files per
workspace, and one key file per installation. They share no memory, and their
only means of coordination is the writer lock.

```
 client --stdio--> transport --> tool dispatch --> edit-transaction --> applyEditsMulti --> files
                    (cancel)        |                   |                                     ^
                                    v                   v                                     |
                              read-call lanes ----> state store --> writer lock          user, other
                              and plans, paged      (meta, snapshot, journal)              servers
                              read requests                                                   |
                                    |                                                         v
                              served-line ledger                     source index (manifest, journal, graph)
```

| Part | State it keeps | Operations | What is hard | What makes it correct |
|---|---|---|---|---|
| Writer lock (`state/writerLock.ts`) | one lock file holding pid, host and time; the path of the holder's handle | acquire (with a deadline), break a stale lock, heartbeat, release | the judgement and the unlink are separate system calls; a creator may die before it has written; pids come back | at most one holder; a live holder keeps its file; a dead one's file is broken; acquire returns |
| State store (`state/stateStore.ts`) | per process: table, epoch, fingerprint of the files; on disk: meta, snapshot, journal | open, get, put (compare and set), delete, compact, reset, operation table | kills and torn appends between file operations; memory overtaken by others; lock-free open | mutations decide on what is on disk; versions grow by one; what is lost is lost with the epoch |
| Operation replay (`serverOwned/edit-transaction.ts`) | claims in flight (process), outcomes (store) | look up, claim, run, record, replay, refuse | two calls overlap across the await of the edit; a kill between edit and record; a table with a cap | an operation is applied once per process life; an answer belongs to the request |
| Batch edits (`tools/applyEditsMulti.ts`) | nothing between calls; the files | validate, commit point, write each file, roll back, report | a write fails after others have landed, and so may the rollback; other writers | the batch lands whole or leaves nothing, or says what it left |
| Read-call continuations (`state/readCallDispatch.ts`, `state/readCallContinuationStore.ts`, `protocol/readCallContinuation.ts`) | lanes: generation, running calls, lease; plans and their markers (store) | enter a lane, hold or follow a lease, mint, claim, replay | calls that wait and wake; restarts that drop the lanes and keep the plans | a plan runs once; a query plan runs only directly after its mint |
| Read-call batch groups (`state/readCallBatchGroup.ts`) | queue per group, taint, inherited version | join, wait, inherit, taint | version inherited across other mutations; full queue | a member runs only if nothing but its group has written the task since |
| Signing keys (`state/handleKeys.ts`, `state/handles.ts`) | key file of the installation, ring per process | read, create, preserve a corrupt file, sign, verify | two first starts | one installation converges on one key |
| Transport (`mcp/transport/legacyStdio.ts`, `util/requestCancellation.ts`) | queue of requests, live requests by id | read a line, enqueue, run, cancel, untrack | cancellation at any point; ids used again | one answer per request; a cancelled one neither writes nor answers, and no other is cancelled |
| Read and search cursors (`state/readRequestStore.ts`, `protocol/readRequestContinuation.ts`) | the request in the store: what is left, its pages and what they shipped | open, fix a page, settle, rebase on a conflict | two calls serve one cursor; a response is cut after the page was chosen; restarts | a request that ends has delivered every line; a cursor means one page |
| Served-line ledger (`state/session.ts`) and compaction marker (`state/compactionEpoch.ts`) | spans of lines the client holds, settled or provisional; the marker seen last | book, settle by the response, answer with a receipt, forget | booked before delivery; the client forgets; dropped responses | a receipt speaks of lines the client has |
| Snapshots (`state/snapshotStore.ts`) | blobs and records | store, sweep | sweep in another process | a record's blob exists |
| Source index (`packages/skeleton-engine`, `tools/sourceIndexAccess.ts`) | on disk manifest, graph, publish journal; per process a memo, its epoch, the build under way | look up, build, publish, invalidate | a kill or failure between two files; an edit during a build; two builders | an answer is not older than its build; the files on disk follow the answers, or the journal says that they do not |
| Obligation ledger, task state | records with a cap, versioned deltas | add, discharge | capacity, conflicts | discharged means discharged |

`PROJECT.json` lists all components, the pure ones included (those that are
large by their principal files), and the hazards of
this code line by line with the properties that watch them.

How they interact: `edit-transaction` calls the edit between two visits to the
store. The store wraps each mutation in the writer lock and refreshes its
memory from disk as the first thing under it. Read-call plans are records of
the store, so the claim of a plan is a compare-and-set of the store; so is every
change of a paged read request. A cancel is read by the transport while a handler
runs: it stops a write before its commit point (`EditBatch`) and lets a read run
to its end (`ReadPages`). An edit through the server invalidates the memo of the
source index in its own process. The modules
are cut along these calls: `StateStore` takes from `WriterLock` that the lock
excludes (`Acquire` waits for `holders = {}`); `OperationReplay`, `ReadCallLane`, `ReadCallBatchGroup` and `ReadPages` take
from `StateStore` that a mutation is one step on the table on disk, and
`ReadPages` takes from `StdioTransport` that calls run in turn on stdio.

## 2. The modules and the code

| Module | Models |
|---|---|
| `WriterLock` | `state/writerLock.ts`, all of it |
| `VersionedStore` | the promise of the store, no code: a table of versioned records under a generation |
| `StateStore` | `state/stateStore.ts`: open, loads, get, put, delete, compact, reset, resync, eviction |
| `OperationReplay` | `runEditWithOperationId` and the operation table of the store |
| `EditBatch` | `applyEditsMulti` with `createFileCore`'s publication of new files |
| `ReadCallLane` | the lanes, the lease, mint and claim of a plan, the decision to publish one |
| `ReadCallBatchGroup` | a batch group on top of `ReadCallLane`, with the calls that queue, the task record and another server that writes it |
| `ReadPages` | one paged read of a file, from the cursor to the response: `readRequestStore.ts`, the ledger of `session.ts`, `compactionEpoch.ts`, the doors in `dispatchRead.ts` and `slice.ts`, the tail of `emit.ts` |
| `StdioTransport` | `legacyStdio.ts` with the signal of `requestCancellation.ts` |
| `SourceIndex` | `loadOrBuildSourceIndex` with its journal and graph, asked through `sourceIndexAccess.ts` |
| `WriterLockProofs`, `StateStoreProofs`, `OperationReplayProofs`, `EditBatchProofs`, `ReadCallLaneProofs` (with batch groups), `StdioTransportProofs`, `SourceIndexProofs`, `ReadPagesProofs` | theorems |
| `MC...` | instances for TLC: sets, bounds, symmetry |

**WriterLock.** A lock file is an inode under a name. `linked` is the inode the
name leads to, and a step is a system call: the exclusive create, the write of
the content, and, on the side of a contender, stat, read, probe of the pid
and the unlink *by name*. A process keeps what it has learned
in a note until it acts on it, so the file may change under it. The holder's
heartbeat and its comparison of the marker before it unlinks are steps too.
Age is not a number but a fact about a file (old enough or not) that the action
`Age` changes. `Prompt` says that a creator writes before its file is old, and
`ProbeWorks` that a probe of a pid on its own machine answers truly; both are
assumptions on the machine, named and turned off where a run or a proof wants
to know what they carry. `HostOf` puts processes in pid namespaces. `misfired`
is a history variable: it becomes true when an unlink removes a file other than
the one that was judged.

**StateStore.** Each read or write of a file is a step, inside and outside the
lock. The journal is kept as what replaying it does to a table, with its number
of lines and the shape of its end (whole, without its newline, cut off in the
middle), because that is all that the loader can tell. Records carry a version
and an identity `id`, which no code sees, so that a record may be told from
another one with the same version. The fingerprint (`stamp`) is the state of
the files it was taken from; the code's mtime, size and inode are assumed to
tell two states apart. The refinement mapping is at the end of the module: the
abstract table is what a loader would find on disk while the store is served,
and the generation is that of meta.

**OperationReplay.** A step is a stretch of code without an await: the lookup
with the claim, the edit, the record, the removal of the claim. The edit itself
is one step (it is the subject of `EditBatch`); the history `landed` is the set of the
calls whose edit has reached the files, `recorded` of those whose first record is on
disk. A call ends with an answer that is recorded or with an error, and an error
may come before the edit or after it (`Fail` from `running` or `landed`: the batch answers that
its state is unknown, or something that is awaited after the write throws): the claim goes
and nothing is recorded. The table is a sequence of entries in insertion order, because the
eviction goes by that order; the journal is another one. Kills, a lock that
cannot be taken and a memory that was not refreshed are separate actions. On
legacy stdio the calls of a server are serialized by the transport; the
overlaps of the model arise with the other transports, which dispatch
concurrently.

**EditBatch.** The content of a file is the set of edits in it. A process reads
and validates (phase 1), passes the commit point, writes the files one at a
time and, when a write fails, takes them back one at a time and keeps the
ledger of what it could not take back. Creates publish by a hard link, or
in a directory without hard links (`NoLink`) by writing in place, where a failure
leaves a part of the file. A user and other servers act between any two
steps; a server runs one batch at a time, because stdio serializes its calls.

**ReadCallLane.** A lane has a generation (`nonce`), the number of calls in it
and possibly a lease. A call enters, waits for a lease or takes it, runs, and at
its end decides what to publish; a plan is minted with a marker and claimed by
moving the marker. A restart drops the lanes and keeps plans and markers; a
marker may expire. A plan is known only in the lane that minted it. `begun` is a
history of the two calls that began last in each lane.

**ReadCallBatchGroup.** Extends `ReadCallLane` and wraps its actions, as the code
wraps `withReadCallDispatch` in `withReadCallBatchQueue`. `group` is the one `Entry`
that the model has, `queue` the calls that its chain of promises holds back, of which
the head has its turn, and `turn` the `Turn` of the head: the lease it took, the
version of the task record it owns, whether the observer has seen a write it did not
expect, whether `finishReadCallBatchMember` was called. The task record is a version
on disk and one in memory (`disk`, `seen`): another server's write moves only the
first, and every mutation of the store by this server, the claim of a cursor
included, brings the second up to it. `foreign` is history: the record was
written since the group was registered by something else than a member in its turn.
Expiry, a changed source and a turn that throws are the choices `EnterExpired`,
`TakeFails` and `Taint` have.

**ReadPages.** A file is its lines, a response the lines it carries (`body`) and
the lines it says the client holds (`told`). The client opens a request, follows
its cursors, and besides reads windows, sends a cursor again or forgets everything
(a compaction). A call is resolved to a *copy* of the stored request, fixes a
page, is served, and answered; the module has a step for each stretch without an
await, since on the modern transports other calls run in between. The provisional
spans of the ledger (`pending`) belong to the session and not to a call, as in the
code, so `SettleBookings` judges those of others as well. `Answer` is the tail of
the response funnel in one turn: cut, settle the ledger, account the page, mint
the next cursor, or withhold it. The funnel withholds the next of a page that resumes a
request when the file is a changelog or docs page, which the task did not name, and
the task has spent its exploration budget (`WithholdLowValuePageNext`); the limit of the
answer then says that it was capped, and the client's request is over with lines owed
(`Withheld`). The constant `LowValue` says whether the file is of this kind; the spend is
that of the whole task, also of reads that the model does not have, so each answer of
such a file may find it exhausted or not. `held` is what is in the client's context, `got` what its request may count,
`lost` what a dropped response or a handler that threw has taken with it: three
history variables that no code sees.

**StdioTransport.** Lines are numbered as the client writes them, and a request is
its line; the id is the client's and may be used again as soon as the client has
seen the answer or sent a cancel. Reading, the queue and the handler are separate
actions, so that a cancel may be read before, during and after the request it
names. `live` is the map by id, `dropped` the entries marked cancelled. A handler
is a sequence of awaits of which the model keeps the ones that matter: the
commit point of a write and the end.

**SourceIndex.** The workspace is one text out of a few; its digest is the text, a
generation is a number. A build is a program of its own (`enumerate`, `seed`,
`read`, `manifest`, `journal`, `probe`, `graph`, `clear`, `memo`) whose steps end at
the awaits of the code. An edit through a server invalidates the memo in the same
turn and may leave the file's stat as it was; one by somebody else does not.
Lookups share the first build, and each has its own once the index is ready.
`missed`, `unsaved`, `lapsed` and `foreign` record which of the exceptions of the
properties has occurred.

## 3. The runs

| Run | Instance | Shows |
|---|---|---|
| `lock` | 3 processes on one machine, one killed again and again at any step and back under its old pid; fair | `TypeOK`, `MutualExclusion` and `HolderKeepsFile`: exclusion and the holder's file are lost only after a misfired unlink; `AcquireReturns`; `OrphanIsBroken`: a file whose creator is gone is broken |
| `store` | 2 processes, 2 keys, delete, compaction; a record that expires, or a fault: a kill, a torn append or a failed compaction anywhere outside a reset | `TypeOK`, `OneGeneration`: processes that open a new store together agree on an epoch; `CasHolds`: a conditional put writes over the version expected, on disk; `ActsOnDisk`, `StampedMemoryIsDisk`, and `Implements`: the shared files are a `VersionedStore` |
| `store_reset_crash` | kills inside a reset | *violated* `Implements` |
| `replay_calls` | 2 servers of which one gets most calls, 5 calls: repeats of one id, one of them with another payload, and outcomes too large to replay; any edit may fail before it lands or after; room for 2 operations; one kill or lost store | `TypeOK`, `NoStrandedClaim`, `AnswersTrue`, `AppliedOnce`, also when entries are evicted |
| `replay_other` | a retry that reaches another server, no faults | *violated* `AppliedOnceAnywhere` |
| `edit_batch` | 2 servers with three items each, both creating one file, one of them also creating where there are no hard links; 2 moves of a user, 3 failures or kills | `TypeOK`, `NoResidue`, `LandsWhole`, `LedgerTrue`, `CreateNeverReplaces` |
| `edit_alias` | one batch that spells a path in two ways | *violated* `LandsWhole` |
| `lane` | 7 calls in 2 lanes with room for one, of which the sets in `Companies` are made: the call that makes a group of two plans and three that bring them, one plan twice; a call of the other lane that comes between; a qref plan brought twice, whose marker may be lost; a restart, 2 writes of the task record; fair | `GroupTypeOK`, `OnceOnly`, `LeaseExcludes`, `SemanticFollows`: a query plan runs directly after its mint or after the member before it, and no one else has written the task; `EveryTurnComes` |
| `pages` | one request for 3 lines under pages of 1 or 2, plain or forced, serial or concurrent, 2 calls at a time; any two of a window beside it, a cursor sent again, a refusal, a cancel, a throw, a compaction, a restart; the next of any page that resumes the request may be withheld (`LowValue`); fair | `TypeOK`, `ReceiptTrue`, `ChainComplete`, `PagesAgree`, `PagesStay`; `ComesToAnEnd` |
| `pages_dropped` | one cancelled read, serial | *violated* `ReceiptOnWire` |
| `stdio` | 4 lines under 2 ids; fair | `TypeOK`, `CancelExact`, `NoWriteAfterCancel`; `EveryAnswered` |
| `index` | a server with 3 edits or faults, or 2 servers with one; 3 texts, of which one has too large a graph; fair | `TypeOK`, `AnswersFresh`, `DiskFollows`, `SkewIsMarked`; `LookupEnds` |

**Bounds, and why they are enough.** Three lock processes are a holder, one that
judges and one that comes between. A marker is a random string; the model has
two more than processes and uses one again only when no file and no note refers
to it, so the bound hides nothing. Two store processes are a
process and the one that overtakes it, and the properties speak of at most two;
`CompactLines` 2 makes compaction happen in nearly every behaviour. Faults and
expiry share one budget in the store (`Troubled`): together they are five times
the states. `MaxFaults` is one where any single fault has to be survived, and more where
a second one can hit the recovery. For replay, a cap of four entries is a window
of two operations, and a third id fills it; one server of two gets most calls, which is
where evictions happen, and the other one is the one that overtakes its memory. Three
items let a batch fail with an edit and a create behind it; two moves let a user delete
a file and put another there. For the lanes, a group of two is
the least that hands a lease on, and the most that the code mints; the third call of
the group brings a plan again or finds the queue, with room for two, full. Each set of calls
in `Companies` (`Crowds`) is there for one case: the queue with its repeats and its
limit, the other lane that takes the only entry, and a plan that carries a qref (`Repacks`), which
needs no lease. `MayLose` keeps lost markers to that plan. Two writes of the task
record are one of a member and one by somebody else, in both orders.
Three lines under pages of one or two are up to three pages, so a page can follow
one that was cut; two calls are two that serve one cursor, or a page and a window
beside it; two events are a fault and one that hits the recovery. `LowValue` adds the withheld
next to what an answer may be and takes nothing away, so `pages` has it `TRUE`; the
withheld next plays no part in `pages_dropped`. Four lines
of transport are a request, its cancel, the id used again and one more cancel or
request. Three troubles of the index are an edit during a build, the fault that
leaves the files behind and the edit that brings the old text back; a second server
counts as two.
Symmetry permutes processes, servers and identical calls, and is used only where
no liveness property is checked.

Two bounds of the *program* are not reached: `JournalCap` (a journal over
8 MiB) and, in the store, `RECORD_CAP`. The second matters, since eviction
changes the memory after the fingerprint was taken: `StampedMemoryIsDisk`
and `ActsOnDisk` are claimed for stores below that cap only.

**Deadlock** is checked for the lock, whose processes contend for ever. The
other models make a bounded number of calls and may stop, so their
configurations say `CHECK_DEADLOCK FALSE`.

**Fairness.** `lock` assumes that a running process takes its next step
(weak fairness of `Step`), that a file gets old (weak fairness of `Age`), and
that the deadline of an acquire is noticed: the loop compares the clock on
every round, so a process that comes by the comparison again and again must one
day find it expired, which is strong fairness of `GiveUp`. `lane` assumes
weak fairness of the event loop as a whole: some woken call, turn that has come, end of a
running call or end of a turn goes on as long as there is one. `pages` assumes that a call that was sent is served, that the
client reads what was written and goes on with its request (it need do nothing
else), until an answer carries no next, be it because nothing is left or because it was withheld; `stdio` that lines are read, that the queue goes on and that handlers end;
`index` that a build which was started goes on, its awaits being reads and writes.
Nothing is assumed about calls being made, kills, cancels or errors, and in every
run but `lock` the fairness is about the event loop of one process, which takes up what is
ready.

**Mutants.** Next to a definition stands sometimes a second one, named for what
it forgets (`AcquireNoRecheck`, `TruncMetaSameEpoch`, ...). It is the definition
with a plausible mistake, and no model uses it. Put in the original's place it makes
the named property fail in the named run; `PROJECT.json` lists these pairs
under `mutants`. They show that each property depends on the code.

## 4. Where the code disagrees with its own words

Four runs end in a violation of something that a comment in the code says;
`PROJECT.json` has the quotations.

- `store_reset_crash`: a kill inside a reset leaves the old epoch over an
  emptied store, the very thing that the epoch is there to make visible.
- `replay_other`: the lookup does not refresh the memory, so the retry of an
  operation at another server is applied again although its outcome is on disk.
- `edit_alias`: edits of one file under two spellings are not merged; the second
  write drops the first edit in an answer that says `ok`.
- `pages_dropped`: a cancelled read is left to finish and its response is dropped,
  which the comment calls enough, since a read has no side effect; but it has
  booked its lines as delivered, and the next read of them is answered with a
  receipt.

Other limits of the code are exceptions *inside* properties that hold. Each is
named where the property is defined:

- `~misfired` in `MutualExclusion` and `HolderKeepsFile`: the judgement that a file is
  stale and the unlink by name are separate system calls, and the name may lead to
  another file by then.
- `Orphaned`: a recorded pid that is in use again passes for the dead holder.
- `CasHolds` compares version numbers, which start over when a key expires or is
  deleted; they do not identify a record.
- `failed` in `AppliedOnce`: an edit that lands and is answered with an error all the same
  is not recorded and its claim is released, so the retry is applied again, on the same
  server too. That is deliberate for `edit.state_unknown` (the comment at
  `serverOwned/edit-transaction.ts` 632-633 wants such a key to stay usable) and follows from the `finally` at 797-806
  for a throw in work awaited after the write (`mcp/dispatch/dispatchEdit.ts` 1931-1963). The
  comment's *known window* (636-643) names only the kill between the edit and its record.
- `PushedOut` in `AppliedOnce`: the order of eviction after a reload is that of
  the journal, so what is claimed counts operations and not their order.
- `Torn` in `NoResidue`: a create that fails in place leaves a part of its file.
- `deleted` in `LandsWhole`, and two servers that *edit* one file, which
  `edit_batch` leaves out: content is compared in phase 1 only, so what others
  save after it is overwritten, and what others read of a batch in progress
  can come back after its rollback.
- `Scoped` in `LeaseExcludes`: a call that finds the table of lanes full runs
  in no scope and is not kept out by a lease.
- `lost` in `ReceiptTrue` and `ChainComplete`: lines of a dropped response, of a
  handler that threw after it had booked (what it booked is settled by the next
  response that carries the same lines, and claimed until then), and of an answer to a cursor sent
  again that nobody received: its receipt has credited the page. Both properties are claimed for the serial
  transport; concurrent calls judge each other's provisional spans.
- `Withheld` in `ChainComplete` and `ComesToAnEnd`: the chain of a changelog or docs page
  may end with lines owed and no next, when the task has spent its budget
  (`protocol/emit.ts` 796, 1649-1712, which says so). `ChainComplete` speaks of a request
  whose last answer was not withheld, which the client can tell by the `capped` of its limit, and
  `ComesToAnEnd` counts both as an end.
- `since` in `AnswersFresh` is the start of the *build*. A lookup that joins the
  first build, or one after a failure, may be answered with a text from before an
  edit that came before the lookup.
- `missed` in `DiskFollows`: a graph over the size cap is not written, the journal is
  cleared all the same and a smaller, older graph stays; a graph whose write failed is
  left behind until the next change of the text, as the memo answers from then on. `unsaved`:
  after a failed write of the manifest the memo's idea of the disk is that of an
  older one. `foreign`: an older build of another server writes over the graph, and
  the memo does not notice; generations are not unique across servers.
- `lapsed` in `SkewIsMarked`: manifest and journal are two renames, and a kill or a
  failure between them leaves nothing that marks the graph.

## 5. What is proved

The proofs hold for every value of the constants that the named assumptions
allow. TLC evaluates the assumptions in the runs of the module and has checked
each inductive invariant on the small instance first.

`WriterLockProofs`:

- `TypeCorrect`: `Spec => []TypeOK`, for any set of processes and any
  environment.
- `Exclusion` and `KeepsFile`: `MutualExclusion` and `HolderKeepsFile`, under
  `Reliable`: one pid namespace, truthful probes, prompt creators. (The first is an
  assumption on the installation: the lock file records the host name, and no code compares it.) Both properties have `~misfired` as
  their premise, so the theorems say that the misfired unlink is the *only* way
  to lose exclusion on one machine.

  `MutualExclusion` is not inductive: that a second process cannot create its
  file while one holds the lock follows from the name being taken by the
  holder's file. `Inv` therefore has five parts: the types with the bookkeeping
  of who has which note at which step; `MarksTellApart` (two files have
  different markers); `OwnFile` (a process that created a file and has not given
  it back knows that file's marker); `BreakerIsRight` (what a contender has
  judged dead is dead, so an unlink that hits the judged file hurts nobody); and
  that, until an unlink misfires, the name leads to the holder's file. Two
  holders would then have one file.

`StateStoreProofs`. All theorems but the first have the premise `[]Roomy`: the journal
is never over its limit, and the table of a process about to put has room for the record.
Beyond that the store does something else on purpose: it gives up the journal it
finds, and memory evicts what is still on disk, under a fingerprint that says otherwise.

- `TypeCorrect`: `Spec => []TypeOK`, whatever the files do.
- `ActsAreOnDisk` and `StampedIsDisk`: `ActsOnDisk` and `StampedMemoryIsDisk`. The
  lock is taken for granted (`OneHolder`, the subject of `WriterLockProofs`), and what is
  proved is that it is enough: that a process that has resynced and every file step since
  leave memory equal to what replaying the files gives. That holds in the middle of
  an operation only of what has been done so far, so the invariant says it per step:
  `Stamped` for the loads, which read three files one at a time, with or without the
  lock, and for the compaction, whose snapshot is new while the journal is old (so the
  journal must be one whose replay over the snapshot changes nothing);
  `ResetIn` for the reset. `Ids` says that no record has an identity that is
  still to be given.
- `OneGenerationHolds`: `OneGeneration`; `ConditionalPuts`: `CasHolds`, which follows from
  `ActsOnDisk` in one step.
- `Implementation`: `Implements`, the refinement of `VersionedStore`, when
  `ResetMayCrash = FALSE`. The run `store_reset_crash` shows that it does not hold otherwise. Each step
  that writes a file is shown to be a step of the abstract table or none: an append is
  a put, the rename and the truncation of a compaction are none, the moves of a reset, a
  record that expires and a generation that ends are steps of their own.

`OperationReplayProofs`:

- `TypeCorrect`; `ClaimsFollowCalls`: `NoStrandedClaim`, for which it is enough to add that two
  calls of a server never run under one id (`OneClaimEach`): a release that removes
  the id must not remove the claim of another.
- `RepeatsAreToldTheTruth`: `AnswersTrue`. The invariant says it of the records and not of the
  answers: every entry of the journal and of each server's table is about an operation that was
  applied, with its outcome if it has one (`TrueOf`), which evictions and reloads keep.
- `EditsAreAppliedOnce`: `Spec => AppliedOnce`. A lookup reads one server's table, which may be
  stale, reloaded, or another server's after a compaction. The invariant `Once` says what each of
  them knows (`Tables`): the journal, and a table that is up to date, every recorded operation but
  those that `Ample` excuses; a stale one of a server that has its store, those of that server.
  Evictions need no account of positions: a full table that lacks an
  operation has at most two entries for each of the others, which makes half a table of
  them (`FullTable`), and records never become fewer (`AmpleStays`). What is left is between the calls: while
  one is on its way to its first record no other of its id runs (`Claims`). The property
  leaves out the edits that landed and were answered with an error (`failed`, section 4). TLC has checked `Claims`,
  `Answers` and `Once`, as they stand in the proof module, on the 904659 states of `replay_calls`.

`EditBatchProofs`. `TypeCorrect` holds of all batches; `NothingLeft` (`NoResidue`),
`WholeLanding` (`LandsWhole`), `TrueLedger` (`LedgerTrue`) and `CreatesAreExclusive`
(`CreateNeverReplaces`) have two premises, each with a run or a paragraph of this
document that shows what happens without it: `OneSpelling`, a batch spells a path in
one way (run `edit_alias`), and `MeetInCreates`, batches of two servers meet only in
files that both create (a write compares no content after phase 1; see below `deleted` in
section 4). Users edit and delete anything at any time.
The invariant says from the phase, the item and the ledger where an edit of a batch may
stand (`MayStand`) and where it must (`MustStand`), that phase 1 has read no edit of another
batch (`ReadClean`), which is what a rollback puts back, and that no file has edits of two
(`AloneIn`). TLC has checked it on the states of `edit_batch`.

`ReadCallLaneProofs`:

- `ExecutedOnce`: `Spec => []OnceOnly`, for any number of lanes, calls, plans,
  restarts and lost markers. `OnceOnly` alone is not inductive; the invariant
  adds that a plan which was executed has a marker that is claimed or gone, and
  no step makes such a marker pending again.
- `MemberExecutedOnce`: `GroupSpec => []OnceOnly`, the same with batch groups. The
  invariant is the one of the lanes: an action of the group is one of `ReadCallLane`,
  leaves plans, markers and modes alone (`GroupStepIInv`), mints members none of which
  had a marker (`RegisterKeeps`), or claims one like any other plan
  (`MemberKeeps`). The queue, the taint and the inherited version are not needed.
- `LanesTypeCorrect` and `GroupTypeCorrect`: the type invariants of both modules, which
  count: the number of calls an entry keeps is that of the calls in its scope, and
  a lease noted in a turn is that of the head. `LeaseIsExclusive` and
  `MemberLeaseIsExclusive`: `LeaseExcludes` for both specifications. Their invariant
  `LaneInv` says of each lane how many calls it has (`CountOf`), that while it is leased
  they are one (`LeaseOf`), and that the call that has the lane's last
  generation began last (`OrderOf`); of the table that it has room (`Rooms`); and of the
  calls that only a running one is bound.
- `ExecutionFollows`: `GroupSpec => SemanticFollows`, the property the lanes exist for.
  The code knows no order of calls; it compares two numbers. The invariant `GroupInv`
  says what these mean: as long as a lane has the entry a binding was made in,
  the difference of the generations tells who has begun since (`Source`), for the
  binding of a plan (`MintedOf`) as for the one that the next member inherits
  (`OwnerInv`). `VersionInv` says that a write of the task record by anybody else left
  it at another version than the one the next member has to find. The queue contributes
  that its calls are different and all but the head not made yet (`QueueInv`), and that
  a lease passed on is that of the call in its turn (`TurnInv`). TLC has checked
  `GroupInv` on the states of the instance of `lane`.

`StdioTransportProofs`:

- `TypeCorrect`: `Spec => []TypeOK`, for any ids and any number of lines.
- `CancelsRight`: `Spec => []CancelExact`, and `NothingWritten`:
  `Spec => NoWriteAfterCancel`. A cancel names an id and not a request, so what has to
  be shown is that the id, when the cancel is read, still names what the client meant.
  The invariant says of the *lines* that an id comes again only behind the answer or the
  cancel of its last request (`IdsReused`), and that between a request and its
  cancel there is no other line of the id (`CancelsFollow`); and of the *server* that an
  unanswered, undropped request is found by its id (`Found`) and that a cancel
  that was read has been carried out (`CancelsDone`). The first two are the client's
  part, the guards of `SendRequest` and `SendCancel`; the proof shows where the
  server relies on them, and that `untrack` may remove an entry only if it is its own.

`SourceIndexProofs`:

- `TypeCorrect`; `FreshAnswers`: `AnswersFresh`. A memo vouches for its text only by a
  fingerprint of stats that may miss an edit, and by the epoch that an edit of this server
  moves; the invariant says which of the two catches what at every step of a build (`FreshIn`).
- `DiskHoldsAnswers`: `DiskFollows`, and `SkewMarked`: `SkewIsMarked`, from what graph and manifest
  are at each step of the publication (`GraphIn`, `ManifestIn`), with the exceptions that section 4 lists.
  They are stated for any number of servers, edits and faults.

`ReadPagesProofs`, for any lines, budgets and windows, any number of calls and any number of
compactions, throws and deaths (`PagesAssumption` is all that is assumed of the constants). The
argument has three layers, each resting on the one before:

- `PagesInvariant`: `Spec => []PageInv`, on any transport. The code keeps the request in a
  store and works on a copy across awaits, so the question is how far a copy may lag.
  A copy of the version that is stored differs from it at most in what pages have
  shipped; of an older one, every page is still a page of the stored record with the same
  boundary (`CopyOf`, `Copied`). Hence `Rebase`
  never has a page to add that the live record lacks (`RebaseIs`), a put moves no
  boundary, and whoever loses the race for a page adopts it: `OnePagePerCursor` (`PagesAgree`),
  `PagesAreKept` (`PagesStay`), and `RequestTypeCorrect` (`TypeOK`).
- `ReceiptsInvariant` and `ReceiptsTrue` (`ReceiptTrue`), on the serial transport, which is the
  property's own premise. `ReceiptTrue` speaks of the client, the code knows only its ledger.
  `Receipts` joins them: with the client's marker seen, every settled line is in the context,
  lost, or on the wire; what is pending is in the response being made or was left by
  a throw; and a line that an answer names as held comes no later than that answer. The last
  part needs the order of the wire, and the first is void while a compaction has not been
  noticed, which is why each call takes the marker first.
- `ChainInvariant` and `ChainsComplete` (`ChainComplete`), on the serial transport. That nothing
  is left is computed from pages and ledger, not from deliveries. `Chain` says what the client has at each
  point: all that pages other than the one of its cursor have shipped (`PagesOut`), or all of it once
  the answer on the wire is read (`OnTheWay`); for an unforced request all that the
  context holds counts, a forced one is judged by what was settled since it was opened (`Fits`); and an answer without a next that was not withheld comes last (`Ends`). Answers that the client does not
  ask for again, windows and resent cursors, count as delivered even if the server dies before
  they are read: that is the model's `Undelivered`, and `Done` carries it through the proof.

TLC has checked `PageInv`, `SerialReceipts` and `SerialChain`, as they stand in the proof module, on
the 320717 states of `pages`.

Model-checked only: the liveness properties (`AcquireReturns`, `OrphanIsBroken`, `EveryTurnComes`,
`ComesToAnEnd`, `EveryAnswered`, `LookupEnds`); every other property of a passing run is proved. Liveness stays with TLC
for good: the prover has no support for `ENABLED`, on which fairness rests. So
does anything that would need induction over data, or a recursive operator; no
module here declares one.

## 6. What is not covered

- Of the lock: a pid given to a *foreign* program after its owner died. The
  model gives a process its own old pid back. Two pid namespaces on one workspace,
  where a probe asks about the wrong process.
- Of the store: the size limit of the journal, modes and symbolic links of the
  directory, `fsync` (the model's disk keeps what was written, as the kernel
  does when a process is killed; a power failure is not modelled); an
  eviction at the record cap, which changes the memory behind the fingerprint.
- Of operation replay: records of older servers without a digest, and records that
  cannot be read.
- Of batch edits: how an edit's text is found and computed, encodings and line
  ends, checkpoints. A kill between two writes of a batch leaves some files new;
  the model has that kill, no property forbids what it leaves, since nothing in
  the repository promises a recovery.
- Of the lanes: the checks of a plan against its source files, two
  servers with lanes of their own (the code promises nothing across them).
- Of batch groups: more than one group, the limits on groups and members, the pruning of
  those that are finished, the reuse of a sibling in a later answer, which reads only.
- Of paged reads: requests for several files or over a parent request, tables and snapshots as
  pages, comments that the representation elides, the floor of a budget, retries of a
  conflict that run out, a store that is not available, the cuts that the
  funnel makes after it has written the next cursor, and what makes it withhold one: the
  account of the task's exploration and the choice of paths that are of low value.
- Of the transport: the limit of a line, the end of the input, the watch on the
  host, the reset that tests use.
- Of the source index: files read at different times (the workspace is one text),
  builds that overlap in one process, the sharded cache, corrupt files, the
  consistency scan (off by default), an edit by another program that keeps the
  stat, the manifest kept for the length of a request.
- The key file (`state/handleKeys.ts`) and snapshots are read and not
  modelled. Two first starts publish the key by rename, so the later one wins and the
  earlier one keeps a key that nobody else has until it reads the file again; a sweep of
  snapshots removes the temporary files of other processes too.
- The components marked `not_modelled` in `PROJECT.json`: those of the plan
  below, and those that are pure functions over text (search, retrieval,
  skeletons, Office documents, formatting of answers), where a model would
  repeat the code.

## 7. Plan

The order is that of importance. Done: `WriterLock` with its proofs,
`VersionedStore` and `StateStore`, `OperationReplay`, `EditBatch`,
`ReadCallLane` and `ReadCallBatchGroup`, `StdioTransport`, `SourceIndex`, and `ReadPages` (cursors,
ledger and compaction marker in one, because a receipt depends on all three), each of them with
proofs of its own.

1. `HandleKeys`: the key file and the race of two first starts; handles of a
   settled installation verify after a restart, first starts converge.
2. `SnapshotStore`: blobs, records and a sweep in another process.
3. `ObligationLedger` and `ReasoningDelta`; the search cursors, which are the
   request store again with matches for lines.

