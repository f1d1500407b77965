----------------------------- MODULE StateStore -----------------------------
(***************************************************************************)
(* The persistent per-workspace state store                                *)
(* (packages/mcp-server/src/state/stateStore.ts): every process keeps the  *)
(* whole table in memory and shares three files with the others -- meta    *)
(* (the generation), a snapshot and an append-only journal.  Mutations run *)
(* under the writer lock and first bring the memory up to date; opening    *)
(* the store and reading from it take no lock.  Each access to a file is a *)
(* step.                                                                   *)
(*                                                                         *)
(* The journal is represented by what its replay does to the table it      *)
(* starts from (the last line about a key wins), its number of lines and   *)
(* the shape of its end.                                                   *)
(***************************************************************************)
EXTENDS Naturals, FiniteSets

CONSTANTS
  Procs, Keys,
  NoRec,         \* no record
  BadMeta,       \* meta.json is missing or not well formed
  NoEpoch,       \* (abstraction) no generation is being served
  RecordCap,     \* RECORD_CAP: live records retained in memory
  CompactLines,  \* COMPACT_LINE_THRESHOLD
  JournalCap,    \* MAX_JOURNAL_BYTES, in lines
  Deletable,     \* the keys callers delete
  Expirable,     \* the keys whose records have a short time to live
  ResetMayCrash, \* kills are considered while a store is being reset
  MaxWrites,     \* bound: journal writes before callers stop putting
  MaxFaults      \* bound: kills, failed file operations and expiries

ASSUME StateStoreAssumption ==
  /\ RecordCap \in Nat /\ CompactLines \in Nat /\ JournalCap \in Nat
  /\ MaxWrites \in Nat /\ MaxFaults \in Nat
  /\ Deletable \subseteq Keys /\ Expirable \subseteq Keys
  /\ ResetMayCrash \in BOOLEAN
  /\ NoRec \notin [ver : Nat, id : Nat]
  /\ BadMeta \notin Nat /\ NoEpoch \notin Nat

VARIABLES
  pc,       \* where each process is
  op,       \* the call it is executing
  recs,     \* _records
  epoch,    \* _epoch
  lines,    \* _journalLines
  stamp,    \* _diskStamp, compared with the files as they are now
  avail,    \* _available
  disk,     \* meta.json, snapshot.json and journal.ndjson
  holders,  \* the processes between acquireWriterLock and release
  writes,   \* journal writes so far: identity and updatedAtMs of records
  expired,  \* the records whose expiresAtMs has passed
  minted,   \* generations minted so far: randomBytes never repeats one
  faults    \* faults so far

proc == <<pc, op, recs, epoch, lines, stamp, avail>>
env == <<writes, expired, minted, faults>>
vars == <<proc, disk, holders, env>>

-----------------------------------------------------------------------------
(* Tables and files *)

Rec == [ver : Nat, id : Nat]
Table == [Keys -> Rec \cup {NoRec}]
Empty == [k \in Keys |-> NoRec]

\* What the journal does to a key: nothing, put its last record, delete it.
Change == [line : {"none", "del"}] \cup [line : {"put"}, rec : Rec]
NoChange == [k \in Keys |-> [line |-> "none"]]

\* tail: the last line is whole; lacks its newline; is cut off somewhere else.
Journal == [over : [Keys -> Change], lines : Nat, tail : {"whole", "bare", "torn"}]
Disk == [meta : Nat \cup {BadMeta}, snap : Table, jour : Journal]

\* _replayJournal over the records of the snapshot.
Replay(t, over) ==
  [k \in Keys |-> CASE over[k].line = "none" -> t[k]
                    [] over[k].line = "del"  -> NoRec
                    [] over[k].line = "put"  -> over[k].rec]

NoJournal == [over |-> NoChange, lines |-> 0, tail |-> "whole"]

\* expiresAtMs is in the future.
Unexpired(t) == [k \in Keys |-> IF t[k] # NoRec /\ t[k].id \in expired
                                THEN NoRec ELSE t[k]]

VersionIn(t, k) == IF t[k] = NoRec THEN 0 ELSE t[k].ver

JournalLoads(j) == j.tail # "torn" /\ j.lines <= JournalCap

\* A call being executed.  ver is the version the caller of a conditional put
\* has read before.
Call == [kind : {"none", "open", "compact"}]
          \cup [kind : {"delete"}, key : Keys]
          \cup [kind : {"put"}, key : Keys, cas : BOOLEAN, ver : Nat]
NoCall == [kind |-> "none"]

Labels == {"down", "idle", "acquire", "resync", "stamp", "meta", "snapshot",
           "journal", "preserveSnapshot", "preserveJournal", "truncMeta",
           "writeMeta", "act", "rename", "truncate", "release"}

\* Where a call may change the files: every mutation seam is locked.
Locked == {"resync", "preserveSnapshot", "preserveJournal", "truncMeta",
           "writeMeta", "act", "rename", "truncate", "release"}

\* Types, the calls in progress, and the lock discipline.
TypeOK ==
  /\ pc \in [Procs -> Labels]
  /\ op \in [Procs -> Call]
  /\ recs \in [Procs -> Table]
  /\ epoch \in [Procs -> Nat]
  /\ lines \in [Procs -> Nat]
  /\ stamp \in [Procs -> {"undef", "current", "stale"}]
  /\ avail \in [Procs -> BOOLEAN]
  /\ disk \in Disk
  /\ holders \subseteq Procs
  /\ \A p \in Procs :
       /\ op[p].kind = "none" <=> pc[p] \in {"idle", "down"}
       /\ pc[p] \in Locked => p \in holders
  /\ writes \in Nat /\ expired \subseteq Nat /\ minted \in Nat /\ faults \in Nat

Init ==
  /\ pc = [p \in Procs |-> "down"]
  /\ op = [p \in Procs |-> NoCall]
  /\ recs = [p \in Procs |-> Empty]
  /\ epoch = [p \in Procs |-> 0]
  /\ lines = [p \in Procs |-> 0]
  /\ stamp = [p \in Procs |-> "undef"]
  /\ avail = [p \in Procs |-> FALSE]
  /\ disk = [meta |-> BadMeta, snap |-> Empty, jour |-> NoJournal]
  /\ holders = {}
  /\ writes = 0 /\ expired = {} /\ minted = 0 /\ faults = 0

\* What a process reading the files now would take over.
Loads == disk.meta # BadMeta /\ JournalLoads(disk.jour)
OnDisk == Unexpired(Replay(disk.snap, disk.jour.over))

-----------------------------------------------------------------------------
(* Steps *)

Go(p, from, to) == pc[p] = from /\ pc' = [pc EXCEPT ![p] = to]

\* p changes the files and then knows their fingerprint (s = "current") or
\* not; a fingerprint any other process remembers is of the past.
Mutate(p, d, s) ==
  /\ disk' = d
  /\ stamp' = [q \in Procs |-> CASE q = p -> s
                                 [] q # p /\ stamp[q] = "current" -> "stale"
                                 [] OTHER -> stamp[q]]

\* The call ends: unlock if locked.
Return(p, from) ==
  /\ Go(p, from, "idle")
  /\ op' = [op EXCEPT ![p] = NoCall]
  /\ holders' = holders \ {p}

-----------------------------------------------------------------------------
(* Calls *)

CallOpen(p) ==
  /\ Go(p, "down", "stamp")
  /\ op' = [op EXCEPT ![p] = [kind |-> "open"]]
  /\ UNCHANGED <<recs, epoch, lines, stamp, avail, disk, holders, env>>

Locking(p, call) ==
  /\ avail[p]
  /\ Go(p, "idle", "acquire")
  /\ op' = [op EXCEPT ![p] = call]
  /\ UNCHANGED <<recs, epoch, lines, stamp, avail, disk, holders, env>>

\* The caller has read the key (get, versionOf) and either insists on what it
\* has read or does not care.
CallPut(p) ==
  /\ writes < MaxWrites
  /\ \E k \in Keys, cas \in BOOLEAN :
       LET view == Unexpired(recs[p])
       IN  Locking(p, [kind |-> "put", key |-> k, cas |-> cas,
                       ver |-> IF cas THEN VersionIn(view, k) ELSE 0])

CallDelete(p) == \E k \in Deletable : Locking(p, [kind |-> "delete", key |-> k])

CallCompact(p) == Locking(p, [kind |-> "compact"])

\* get: an expired record is dropped from memory when it is looked up.
Get(p) ==
  /\ pc[p] = "idle"
  /\ \E k \in Keys :
       /\ recs[p][k] # Unexpired(recs[p])[k]
       /\ recs' = [recs EXCEPT ![p][k] = NoRec]
  /\ UNCHANGED <<pc, op, epoch, lines, stamp, avail, disk, holders, env>>

-----------------------------------------------------------------------------
(* The lock *)

\* Mutant: open resets without looking again under the lock.
AcquireNoRecheck(p) ==
  /\ Go(p, "acquire", IF op[p].kind = "open" THEN "preserveSnapshot" ELSE "resync")
  /\ holders = {}
  /\ holders' = holders \cup {p}
  /\ UNCHANGED <<op, recs, epoch, lines, stamp, avail, disk, env>>

Acquire(p) ==
  /\ Go(p, "acquire", IF op[p].kind = "open" THEN "stamp" ELSE "resync")
  /\ holders = {}
  /\ holders' = holders \cup {p}
  /\ UNCHANGED <<op, recs, epoch, lines, stamp, avail, disk, env>>

\* The bound has elapsed, or the lock file cannot be created.
AcquireFails(p) ==
  /\ Return(p, "acquire")
  /\ avail' = [avail EXCEPT ![p] = FALSE]
  /\ UNCHANGED <<recs, epoch, lines, stamp, disk, env>>

-----------------------------------------------------------------------------
(* _tryPlainLoad: fingerprint, meta, snapshot, journal *)

\* Mutant: a fingerprint is taken for current without comparing it.
ResyncTrusts(p) ==
  /\ IF stamp[p] # "undef"
     THEN /\ Go(p, "resync", "act")
          /\ recs' = [recs EXCEPT ![p] = Unexpired(recs[p])]
     ELSE /\ Go(p, "resync", "stamp")
          /\ UNCHANGED recs
  /\ UNCHANGED <<op, epoch, lines, stamp, avail, disk, holders, env>>

\* _resyncLocked trusts a fingerprint that still fits.
Resync(p) ==
  /\ IF stamp[p] = "current"
     THEN /\ Go(p, "resync", "act")
          /\ recs' = [recs EXCEPT ![p] = Unexpired(recs[p])]
     ELSE /\ Go(p, "resync", "stamp")
          /\ UNCHANGED recs
  /\ UNCHANGED <<op, epoch, lines, stamp, avail, disk, holders, env>>

\* stamp[p] is, until the load ends, the local the fingerprint is kept in.
TakeStamp(p) ==
  /\ Go(p, "stamp", "meta")
  /\ stamp' = [stamp EXCEPT ![p] = "current"]
  /\ UNCHANGED <<op, recs, epoch, lines, avail, disk, holders, env>>

\* Mutant: open resets without taking the lock.
LoadFailsUnlocked(p, from) ==
  /\ Go(p, from, "preserveSnapshot")
  /\ stamp' = [stamp EXCEPT ![p] = "undef"]

\* A failed load is followed by a reset, under the lock.
LoadFails(p, from) ==
  /\ Go(p, from, IF p \in holders THEN "preserveSnapshot" ELSE "acquire")
  /\ stamp' = [stamp EXCEPT ![p] = "undef"]

ReadMeta(p) ==
  /\ IF disk.meta = BadMeta
     THEN /\ LoadFails(p, "meta")
          /\ UNCHANGED <<recs, epoch, lines>>
     ELSE /\ Go(p, "meta", "snapshot")
          /\ epoch' = [epoch EXCEPT ![p] = disk.meta]
          /\ recs' = [recs EXCEPT ![p] = Empty]
          /\ lines' = [lines EXCEPT ![p] = 0]
          /\ UNCHANGED stamp
  /\ UNCHANGED <<op, avail, disk, holders, env>>

ReadSnapshot(p) ==
  /\ Go(p, "snapshot", "journal")
  /\ recs' = [recs EXCEPT ![p] = disk.snap]
  /\ UNCHANGED <<op, epoch, lines, stamp, avail, disk, holders, env>>

\* Mutant: the fingerprint is taken after the reading.
ReadJournalStampsLate(p) ==
  /\ pc[p] = "journal"
  /\ JournalLoads(disk.jour)
  /\ recs' = [recs EXCEPT ![p] = Unexpired(Replay(recs[p], disk.jour.over))]
  /\ lines' = [lines EXCEPT ![p] = disk.jour.lines]
  /\ stamp' = [stamp EXCEPT ![p] = "current"]
  /\ IF op[p].kind = "open"
     THEN /\ Return(p, "journal")
          /\ avail' = [avail EXCEPT ![p] = TRUE]
     ELSE /\ Go(p, "journal", "act")
          /\ UNCHANGED <<op, holders, avail>>
  /\ UNCHANGED <<epoch, disk, env>>

\* _replayJournal and _expireNow; the load is complete.
ReadJournal(p) ==
  /\ pc[p] = "journal"
  /\ JournalLoads(disk.jour)
  /\ recs' = [recs EXCEPT ![p] = Unexpired(Replay(recs[p], disk.jour.over))]
  /\ lines' = [lines EXCEPT ![p] = disk.jour.lines]
  /\ IF op[p].kind = "open"
     THEN /\ Return(p, "journal")
          /\ avail' = [avail EXCEPT ![p] = TRUE]
     ELSE /\ Go(p, "journal", "act")
          /\ UNCHANGED <<op, holders, avail>>
  /\ UNCHANGED <<epoch, stamp, disk, env>>

JournalUnreadable(p) ==
  /\ ~JournalLoads(disk.jour)
  /\ LoadFails(p, "journal")
  /\ UNCHANGED <<op, recs, epoch, lines, avail, disk, holders, env>>

-----------------------------------------------------------------------------
(* _resetToEmpty: snapshot aside, journal aside, new meta written in place.  *)
(* open moves a bad meta.json aside first, which leaves it as bad as it was. *)

PreserveSnapshot(p) ==
  /\ Go(p, "preserveSnapshot", "preserveJournal")
  /\ recs' = [recs EXCEPT ![p] = Empty]
  /\ lines' = [lines EXCEPT ![p] = 0]
  /\ Mutate(p, [disk EXCEPT !.snap = Empty], "undef")
  /\ UNCHANGED <<op, epoch, avail, holders, env>>

PreserveJournal(p) ==
  /\ Go(p, "preserveJournal", "truncMeta")
  /\ Mutate(p, [disk EXCEPT !.jour = NoJournal], "undef")
  /\ UNCHANGED <<op, recs, epoch, lines, avail, holders, env>>

\* Mutant: a reset keeps the generation it finds.
TruncMetaSameEpoch(p) ==
  /\ Go(p, "truncMeta", "writeMeta")
  /\ minted' = IF disk.meta = BadMeta THEN minted + 1 ELSE minted
  /\ epoch' = [epoch EXCEPT ![p] = IF disk.meta = BadMeta THEN minted' ELSE disk.meta]
  /\ Mutate(p, [disk EXCEPT !.meta = BadMeta], "undef")
  /\ UNCHANGED <<op, recs, lines, avail, holders, writes, expired, faults>>

\* writeFileSync truncates the file it is about to write.
TruncMeta(p) ==
  /\ Go(p, "truncMeta", "writeMeta")
  /\ minted' = minted + 1
  /\ epoch' = [epoch EXCEPT ![p] = minted']
  /\ Mutate(p, [disk EXCEPT !.meta = BadMeta], "undef")
  /\ UNCHANGED <<op, recs, lines, avail, holders, writes, expired, faults>>

WriteMeta(p) ==
  /\ pc[p] = "writeMeta"
  /\ Mutate(p, [disk EXCEPT !.meta = epoch[p]], "current")
  /\ IF op[p].kind = "open"
     THEN /\ Return(p, "writeMeta")
          /\ avail' = [avail EXCEPT ![p] = TRUE]
     ELSE /\ Go(p, "writeMeta", "act")
          /\ UNCHANGED <<op, holders, avail>>
  /\ UNCHANGED <<recs, epoch, lines, env>>

-----------------------------------------------------------------------------
(* put, delete: the decision and the append *)

\* The oldest quarter goes when there are more than RecordCap.
EvictCount == (RecordCap + 3) \div 4
Older(t, k) == {j \in Keys : t[j] # NoRec /\ t[j].id < t[k].id}
Evict(t) ==
  IF Cardinality({k \in Keys : t[k] # NoRec}) <= RecordCap THEN t
  ELSE [k \in Keys |-> IF t[k] # NoRec /\ Cardinality(Older(t, k)) < EvictCount
                       THEN NoRec ELSE t[k]]

Conflict(p) == op[p].cas /\ op[p].ver # VersionIn(Unexpired(recs[p]), op[p].key)

NewRec(p) == [ver |-> VersionIn(Unexpired(recs[p]), op[p].key) + 1, id |-> writes + 1]

\* The line the call in progress appends, if it comes to that.
Writing(p) ==
  /\ pc[p] = "act"
  /\ \/ op[p].kind = "put" /\ ~Conflict(p)
     \/ op[p].kind = "delete" /\ recs[p][op[p].key] # NoRec
Line(p) == IF op[p].kind = "put" THEN [line |-> "put", rec |-> NewRec(p)]
                                 ELSE [line |-> "del"]

\* Mutant: the line is glued to a last line without newline.
AppendedGlued(j, k, line) ==
  [over |-> [j.over EXCEPT ![k] = line], lines |-> j.lines + 1,
   tail |-> IF j.tail = "whole" THEN "whole" ELSE "torn"]

\* _appendRaw starts a line of its own on a last line without newline.
Appended(j, k, line) ==
  [over |-> [j.over EXCEPT ![k] = line], lines |-> j.lines + 1,
   tail |-> IF j.tail = "torn" THEN "torn" ELSE "whole"]

PutConflict(p) ==
  /\ pc[p] = "act"
  /\ op[p].kind = "put"
  /\ Conflict(p)
  /\ Go(p, "act", "release")
  /\ recs' = [recs EXCEPT ![p] = [@ EXCEPT ![op[p].key] = Unexpired(recs[p])[op[p].key]]]
  /\ UNCHANGED <<op, epoch, lines, stamp, avail, disk, holders, env>>

Append(p) ==
  /\ Mutate(p, [disk EXCEPT !.jour = Appended(@, op[p].key, Line(p))],
             IF stamp[p] = "undef" THEN "undef" ELSE "current")
  /\ lines' = [lines EXCEPT ![p] = @ + 1]

PutAppends(p) ==
  /\ Writing(p)
  /\ op[p].kind = "put"
  /\ Append(p)
  /\ recs' = [recs EXCEPT ![p] = Evict([@ EXCEPT ![op[p].key] = NewRec(p)])]
  /\ Go(p, "act", IF lines'[p] >= CompactLines THEN "rename" ELSE "release")
  /\ writes' = writes + 1
  /\ UNCHANGED <<op, epoch, avail, holders, expired, minted, faults>>

DeleteAppends(p) ==
  /\ Writing(p)
  /\ op[p].kind = "delete"
  /\ Append(p)
  /\ recs' = [recs EXCEPT ![p][op[p].key] = NoRec]
  /\ Go(p, "act", "release")
  /\ UNCHANGED <<op, epoch, avail, holders, env>>

DeleteAbsent(p) ==
  /\ op[p].kind = "delete"
  /\ ~Writing(p)
  /\ Go(p, "act", "release")
  /\ UNCHANGED <<op, recs, epoch, lines, stamp, avail, disk, holders, env>>

Release(p) ==
  /\ Return(p, "release")
  /\ UNCHANGED <<recs, epoch, lines, stamp, avail, disk, env>>

-----------------------------------------------------------------------------
(* _compactLocked: a new snapshot renamed into place, the journal truncated *)

StartCompact(p) ==
  /\ op[p].kind = "compact"
  /\ Go(p, "act", "rename")
  /\ UNCHANGED <<op, recs, epoch, lines, stamp, avail, disk, holders, env>>

PublishSnapshot(p) ==
  /\ Go(p, "rename", "truncate")
  /\ recs' = [recs EXCEPT ![p] = Unexpired(recs[p])]
  /\ Mutate(p, [disk EXCEPT !.snap = recs'[p]], "undef")
  /\ UNCHANGED <<op, epoch, lines, avail, holders, env>>

TruncateJournal(p) ==
  /\ Go(p, "truncate", "release")
  /\ lines' = [lines EXCEPT ![p] = 0]
  /\ Mutate(p, [disk EXCEPT !.jour = NoJournal], "current")
  /\ UNCHANGED <<op, recs, epoch, avail, holders, env>>

-----------------------------------------------------------------------------
(* Faults, kills and time *)

Troubled == faults + Cardinality(expired) >= MaxFaults

Fault == ~Troubled /\ faults' = faults + 1

\* What is left of a line whose append is cut off: nothing of it, all of it
\* but the newline, or a fragment.
CutOff(p) ==
  LET j == disk.jour
  IN  {disk, [disk EXCEPT !.jour.tail = "torn"],
       [disk EXCEPT !.jour = [Appended(j, op[p].key, Line(p)) EXCEPT
                                !.tail = IF j.tail = "torn" THEN "torn" ELSE "bare"]]}

\* appendFileSync throws (no space, say): put answers store-unavailable.
AppendFails(p) ==
  /\ Fault
  /\ Writing(p)
  /\ \E d \in CutOff(p) : Mutate(p, d, "undef")
  /\ recs' = IF op[p].kind = "delete" THEN [recs EXCEPT ![p][op[p].key] = NoRec] ELSE recs
  /\ avail' = [avail EXCEPT ![p] = FALSE]
  /\ writes' = writes + 1
  /\ Go(p, "act", "release")
  /\ UNCHANGED <<op, epoch, lines, holders, expired, minted>>

\* Writing, renaming or truncating throws: the store stops claiming anything.
CompactFails(p) ==
  /\ Fault
  /\ pc[p] \in {"rename", "truncate"}
  /\ Go(p, pc[p], "release")
  /\ recs' = [recs EXCEPT ![p] = Unexpired(recs[p])]
  /\ stamp' = [stamp EXCEPT ![p] = "undef"]
  /\ avail' = [avail EXCEPT ![p] = FALSE]
  /\ UNCHANGED <<op, epoch, lines, disk, holders, writes, expired, minted>>

Resetting == {"preserveSnapshot", "preserveJournal", "truncMeta", "writeMeta"}

\* The process is killed.  Its lock file is broken by the next contender
\* (WriterLock: OrphanIsBroken); an append it was in is cut off.
Crash(p) ==
  /\ Fault
  /\ pc[p] # "down"
  /\ pc[p] \in Resetting => ResetMayCrash
  /\ pc' = [pc EXCEPT ![p] = "down"]
  /\ op' = [op EXCEPT ![p] = NoCall]
  /\ recs' = [recs EXCEPT ![p] = Empty]
  /\ epoch' = [epoch EXCEPT ![p] = 0]
  /\ lines' = [lines EXCEPT ![p] = 0]
  /\ avail' = [avail EXCEPT ![p] = FALSE]
  /\ holders' = holders \ {p}
  /\ \E d \in IF Writing(p) THEN CutOff(p) ELSE {disk} :
       IF d = disk THEN stamp' = [stamp EXCEPT ![p] = "undef"] /\ UNCHANGED disk
                   ELSE Mutate(p, d, "undef")
  /\ writes' = IF Writing(p) THEN writes + 1 ELSE writes
  /\ UNCHANGED <<expired, minted>>

\* The time to live of a record elapses.
Expire ==
  /\ ~Troubled
  /\ \E k \in Expirable, t \in {Replay(disk.snap, disk.jour.over)} \cup {recs[p] : p \in Procs} :
       /\ t[k] # NoRec
       /\ t[k].id \notin expired
       /\ expired' = expired \cup {t[k].id}
  /\ UNCHANGED <<proc, disk, holders, writes, minted, faults>>

-----------------------------------------------------------------------------
Next ==
  \/ \E p \in Procs :
       \/ CallOpen(p) \/ CallPut(p) \/ CallDelete(p) \/ CallCompact(p) \/ Get(p)
       \/ Acquire(p) \/ AcquireFails(p) \/ Resync(p)
       \/ TakeStamp(p) \/ ReadMeta(p) \/ ReadSnapshot(p)
       \/ ReadJournal(p) \/ JournalUnreadable(p)
       \/ PreserveSnapshot(p) \/ PreserveJournal(p) \/ TruncMeta(p) \/ WriteMeta(p)
       \/ PutConflict(p) \/ PutAppends(p) \/ DeleteAppends(p) \/ DeleteAbsent(p)
       \/ StartCompact(p) \/ PublishSnapshot(p) \/ TruncateJournal(p) \/ Release(p)
       \/ AppendFails(p) \/ CompactFails(p) \/ Crash(p)
  \/ Expire

Spec == Init /\ [][Next]_vars

-----------------------------------------------------------------------------
(* Properties *)

\* put, delete and compact decide on the table as it is on disk, whatever
\* other processes wrote, compacted or reset since this one last looked, and
\* without reading the files again when the fingerprint still fits.
ActsOnDisk ==
  \A p \in Procs : pc[p] = "act" =>
    /\ Loads
    /\ epoch[p] = disk.meta
    /\ Unexpired(recs[p]) = OnDisk
    /\ lines[p] = disk.jour.lines

\* "the in-memory state IS the disk state" of every process at rest whose
\* remembered fingerprint still fits.
StampedMemoryIsDisk ==
  \A p \in Procs : pc[p] = "idle" /\ stamp[p] = "current" =>
    Loads /\ epoch[p] = disk.meta /\ Unexpired(recs[p]) = OnDisk

\* Processes that start together on a new workspace agree on one generation,
\* and only a fault ever makes a store begin another.
OneGeneration == faults = 0 => minted <= 1

\* A conditional put writes only over the version its caller expects.
CasHolds ==
  [][\A p \in Procs : pc[p] = "act" /\ writes' # writes /\ op[p].kind = "put" /\ op[p].cas
        => op[p].ver = VersionIn(OnDisk, op[p].key)]_vars

\* The shared store keeps the promise of VersionedStore: what is on disk is
\* the table, except while it cannot be loaded or is being reset.
Served == Loads /\ \A p \in Procs : pc[p] # "truncMeta"
Generation == IF Served THEN disk.meta ELSE NoEpoch
Given == {epoch[p] : p \in {q \in Procs : pc[q] = "writeMeta"}}

Promise == INSTANCE VersionedStore WITH
  table <- IF Served THEN OnDisk ELSE Empty,
  gen <- Generation,
  past <- (1 .. minted) \ (Given \cup {Generation})

Implements == Promise!Spec
=============================================================================
