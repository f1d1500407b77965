-------------------------- MODULE StateStoreProofs --------------------------
(***************************************************************************)
(* Proofs about StateStore, for any number of processes, keys, writes,     *)
(* kills and failed operations: its type invariant and lock discipline,    *)
(* that a mutation decides on the table as it is on disk, that conditional *)
(* puts respect the version on disk, that there is one generation until    *)
(* the first fault, and that the store implements VersionedStore.  All but *)
(* the first hold as long as the two capacities of the code are not        *)
(* exceeded (Roomy), the last one unless a process is killed in the middle *)
(* of a reset (README, section 5).                                         *)
(***************************************************************************)
EXTENDS StateStore, TLAPS

-----------------------------------------------------------------------------
(* What the operators on tables and files return *)

\* The fields of a call are those of its kind.
LEMMA CallFields ==
  ASSUME NEW call \in Call
  PROVE  /\ call.kind \in {"none", "open", "compact", "delete", "put"}
         /\ call.kind \in {"delete", "put"} => call.key \in Keys
         /\ call.kind = "put" => call.cas \in BOOLEAN /\ call.ver \in Nat
BY DEF Call

\* Replaying the journal over a table gives a table.
LEMMA ReplayTyped ==
  ASSUME NEW t \in Table, NEW over \in [Keys -> Change]
  PROVE  Replay(t, over) \in Table
<1>1. ASSUME NEW k \in Keys
      PROVE  \/ over[k].line \in {"none", "del"}
             \/ over[k].line = "put" /\ over[k].rec \in Rec
  BY <1>1 DEF Change
<1> QED
  BY <1>1 DEF Replay, Table

\* Dropping what has expired leaves a table.
LEMMA UnexpiredTyped ==
  ASSUME NEW t \in Table
  PROVE  Unexpired(t) \in Table
BY DEF Unexpired, Table

\* Every key has a version, that of an absent one being 0.
LEMMA VersionTyped ==
  ASSUME NEW t \in Table, NEW k \in Keys
  PROVE  VersionIn(t, k) \in Nat
BY StateStoreAssumption DEF VersionIn, Table, Rec

\* Eviction leaves a table.
LEMMA EvictTyped ==
  ASSUME NEW t \in Table
  PROVE  Evict(t) \in Table
BY DEF Evict, Table

\* What put writes is a record.
LEMMA NewRecTyped ==
  ASSUME NEW p \in Procs, recs[p] \in Table, op[p] \in Call, op[p].kind = "put", writes \in Nat
  PROVE  NewRec(p) \in Rec
BY CallFields, UnexpiredTyped, VersionTyped DEF NewRec, Rec

\* What put and delete append is a journal line.
LEMMA LineTyped ==
  ASSUME NEW p \in Procs, recs[p] \in Table, op[p] \in Call, writes \in Nat
  PROVE  Line(p) \in Change
BY NewRecTyped DEF Line, Change

\* An append leaves a journal.
LEMMA AppendedTyped ==
  ASSUME NEW j \in Journal, NEW k \in Keys, NEW line \in Change
  PROVE  Appended(j, k, line) \in Journal
BY DEF Appended, Journal

\* The journal a reset or a compaction leaves behind is one.
LEMMA NoJournalTyped == NoJournal \in Journal
BY DEF NoJournal, NoChange, Journal, Change

\* An append that is cut off leaves files of the known shapes.
LEMMA CutOffTyped ==
  ASSUME NEW p \in Procs, recs[p] \in Table, op[p] \in Call, writes \in Nat,
         disk \in Disk, Writing(p)
  PROVE  CutOff(p) \subseteq Disk
<1>1. op[p].key \in Keys
  BY CallFields DEF Writing
<1>2. disk.jour \in Journal
  BY DEF Disk
<1>3. Appended(disk.jour, op[p].key, Line(p)) \in Journal
  BY <1>1, <1>2, AppendedTyped, LineTyped
<1>4. [disk.jour EXCEPT !.tail = "torn"] \in Journal
  BY <1>2 DEF Journal
<1>5. ASSUME NEW tail \in {"torn", "bare"}
      PROVE [Appended(disk.jour, op[p].key, Line(p)) EXCEPT !.tail = tail] \in Journal
  BY <1>3 DEF Journal
<1> QED
  BY <1>4, <1>5 DEF CutOff, Disk

-----------------------------------------------------------------------------
(* Type correctness *)

\* _tryPlainLoad is under way.
Loading == {"stamp", "meta", "snapshot", "journal"}

\* Types of the data.
Data ==
  /\ recs \in [Procs -> Table]
  /\ epoch \in [Procs -> Nat]
  /\ lines \in [Procs -> Nat]
  /\ stamp \in [Procs -> {"undef", "current", "stale"}]
  /\ avail \in [Procs -> BOOLEAN]
  /\ disk \in Disk
  /\ writes \in Nat /\ expired \subseteq Nat /\ minted \in Nat /\ faults \in Nat

Control ==
  /\ pc \in [Procs -> Labels]
  /\ op \in [Procs -> Call]
  /\ holders \subseteq Procs
  /\ \A p \in Procs :
       /\ op[p].kind = "none" <=> pc[p] \in {"idle", "down"}
       /\ pc[p] \in Locked => p \in holders
       /\ pc[p] \in Loading => op[p].kind = "open" \/ p \in holders

\* Replacing one of the three files leaves files.
LEMMA DiskTyped ==
  ASSUME disk \in Disk
  PROVE  /\ \A d \in Table : [disk EXCEPT !.snap = d] \in Disk
         /\ \A j \in Journal : [disk EXCEPT !.jour = j] \in Disk
         /\ \A m \in Nat \cup {BadMeta} : [disk EXCEPT !.meta = m] \in Disk
BY DEF Disk

\* The tables a step may find on disk and in memory.
LEMMA FilesTyped ==
  ASSUME Data
  PROVE  /\ disk \in Disk /\ disk.snap \in Table /\ Empty \in Table
         /\ disk.jour \in Journal /\ disk.jour.over \in [Keys -> Change]
         /\ Replay(disk.snap, disk.jour.over) \in Table
<1>1. disk \in Disk /\ disk.snap \in Table /\ disk.jour \in Journal
  BY DEF Data, Disk
<1>2. disk.jour.over \in [Keys -> Change]
  BY <1>1 DEF Journal
<1>3. Empty \in Table
  BY DEF Empty, Table
<1> QED
  BY <1>1, <1>2, <1>3, ReplayTyped

\* The tables a step may find in memory and on disk.
LEMMA TablesTyped ==
  ASSUME Data, NEW p \in Procs
  PROVE  /\ recs[p] \in Table /\ disk.snap \in Table /\ Empty \in Table
         /\ disk.jour \in Journal /\ disk.jour.over \in [Keys -> Change]
         /\ Unexpired(recs[p]) \in Table
         /\ Replay(disk.snap, disk.jour.over) \in Table
         /\ Replay(recs[p], disk.jour.over) \in Table
         /\ Unexpired(Replay(recs[p], disk.jour.over)) \in Table
<1>1. recs[p] \in Table
  BY DEF Data
<1> QED
  BY <1>1, FilesTyped, UnexpiredTyped, ReplayTyped

\* A change of the files leaves stamps and files.
LEMMA MutateTyped ==
  ASSUME stamp \in [Procs -> {"undef", "current", "stale"}],
         NEW p \in Procs, NEW d \in Disk, NEW s \in {"undef", "current"}, Mutate(p, d, s)
  PROVE  /\ stamp' \in [Procs -> {"undef", "current", "stale"}]
         /\ disk' \in Disk
BY DEF Mutate

\* No step breaks the control part of the type invariant.
LEMMA StepControl ==
  ASSUME Control, Data, [Next]_vars
  PROVE  Control'
<1> USE StateStoreAssumption DEF Control, Loading, Locked, Labels, Go, env, proc, Return, NoCall
<1>1. ASSUME NEW p \in Procs, CallOpen(p) PROVE Control'
  BY <1>1 DEF CallOpen, Call
<1>2. ASSUME NEW p \in Procs, CallPut(p) PROVE Control'
  <2>1. PICK k \in Keys, cas \in BOOLEAN, v \in Nat :
          Locking(p, [kind |-> "put", key |-> k, cas |-> cas, ver |-> v])
    <3>1. ASSUME NEW k \in Keys PROVE VersionIn(Unexpired(recs[p]), k) \in Nat
      BY UnexpiredTyped, VersionTyped DEF Data
    <3> QED
      BY <1>2, <3>1 DEF CallPut
  <2> QED
    BY <2>1 DEF Locking, Call
<1>3. ASSUME NEW p \in Procs, CallDelete(p) PROVE Control'
  BY <1>3 DEF CallDelete, Locking, Call
<1>4. ASSUME NEW p \in Procs, CallCompact(p) PROVE Control'
  BY <1>4 DEF CallCompact, Locking, Call
<1>5. ASSUME NEW p \in Procs, Get(p) PROVE Control'
  BY <1>5 DEF Get, Call
<1>6. ASSUME NEW p \in Procs, Acquire(p) PROVE Control'
  BY <1>6 DEF Acquire, Call
<1>7. ASSUME NEW p \in Procs, AcquireFails(p) PROVE Control'
  BY <1>7 DEF AcquireFails, Call
<1>8. ASSUME NEW p \in Procs, Resync(p) PROVE Control'
  BY <1>8 DEF Resync, Call
<1>9. ASSUME NEW p \in Procs, TakeStamp(p) PROVE Control'
  BY <1>9 DEF TakeStamp, Call
<1>10. ASSUME NEW p \in Procs, ReadMeta(p) PROVE Control'
  BY <1>10 DEF ReadMeta, LoadFails, Call
<1>11. ASSUME NEW p \in Procs, ReadSnapshot(p) PROVE Control'
  BY <1>11 DEF ReadSnapshot, Call
<1>12. ASSUME NEW p \in Procs, ReadJournal(p) PROVE Control'
  BY <1>12 DEF ReadJournal, Call
<1>13. ASSUME NEW p \in Procs, JournalUnreadable(p) PROVE Control'
  BY <1>13 DEF JournalUnreadable, LoadFails, Call
<1>14. ASSUME NEW p \in Procs, PreserveSnapshot(p) PROVE Control'
  BY <1>14 DEF PreserveSnapshot, Call
<1>15. ASSUME NEW p \in Procs, PreserveJournal(p) PROVE Control'
  BY <1>15 DEF PreserveJournal, Call
<1>16. ASSUME NEW p \in Procs, TruncMeta(p) PROVE Control'
  BY <1>16 DEF TruncMeta, Call
<1>17. ASSUME NEW p \in Procs, WriteMeta(p) PROVE Control'
  BY <1>17 DEF WriteMeta, Call
<1>18. ASSUME NEW p \in Procs, PutConflict(p) PROVE Control'
  BY <1>18 DEF PutConflict, Call
<1>19. ASSUME NEW p \in Procs, PutAppends(p) PROVE Control'
  BY <1>19 DEF PutAppends, Call
<1>20. ASSUME NEW p \in Procs, DeleteAppends(p) PROVE Control'
  BY <1>20 DEF DeleteAppends, Call
<1>21. ASSUME NEW p \in Procs, DeleteAbsent(p) PROVE Control'
  BY <1>21 DEF DeleteAbsent, Call
<1>22. ASSUME NEW p \in Procs, StartCompact(p) PROVE Control'
  BY <1>22 DEF StartCompact, Call
<1>23. ASSUME NEW p \in Procs, PublishSnapshot(p) PROVE Control'
  BY <1>23 DEF PublishSnapshot, Call
<1>24. ASSUME NEW p \in Procs, TruncateJournal(p) PROVE Control'
  BY <1>24 DEF TruncateJournal, Call
<1>25. ASSUME NEW p \in Procs, Release(p) PROVE Control'
  BY <1>25 DEF Release, Call
<1>26. ASSUME NEW p \in Procs, AppendFails(p) PROVE Control'
  BY <1>26 DEF AppendFails, Call
<1>27. ASSUME NEW p \in Procs, CompactFails(p) PROVE Control'
  BY <1>27 DEF CompactFails, Call
<1>28. ASSUME NEW p \in Procs, Crash(p) PROVE Control'
  BY <1>28 DEF Crash, Call
<1>29. ASSUME Expire PROVE Control'
  BY <1>29 DEF Expire
<1>30. CASE UNCHANGED vars
  BY <1>30 DEF vars
<1> QED
  BY <1>1, <1>2, <1>3, <1>4, <1>5, <1>6, <1>7, <1>8, <1>9, <1>10, <1>11, <1>12, <1>13,
     <1>14, <1>15, <1>16, <1>17, <1>18, <1>19, <1>20, <1>21, <1>22, <1>23, <1>24, <1>25,
     <1>26, <1>27, <1>28, <1>29, <1>30
     DEF Next

\* No step breaks the data part.
LEMMA StepData ==
  ASSUME Control, Data, [Next]_vars
  PROVE  Data'
<1> USE StateStoreAssumption DEF Data, env, proc
<1>1. ASSUME NEW p \in Procs, CallOpen(p) PROVE Data'
  BY <1>1, TablesTyped DEF CallOpen
<1>2. ASSUME NEW p \in Procs, CallPut(p) PROVE Data'
  BY <1>2 DEF CallPut, Locking
<1>3. ASSUME NEW p \in Procs, CallDelete(p) PROVE Data'
  BY <1>3 DEF CallDelete, Locking
<1>4. ASSUME NEW p \in Procs, CallCompact(p) PROVE Data'
  BY <1>4 DEF CallCompact, Locking
<1>5. ASSUME NEW p \in Procs, Get(p) PROVE Data'
  BY <1>5 DEF Get, Table
<1>6. ASSUME NEW p \in Procs, Acquire(p) PROVE Data'
  BY <1>6, TablesTyped DEF Acquire
<1>7. ASSUME NEW p \in Procs, AcquireFails(p) PROVE Data'
  BY <1>7, TablesTyped DEF AcquireFails
<1>8. ASSUME NEW p \in Procs, Resync(p) PROVE Data'
  BY <1>8, TablesTyped DEF Resync
<1>9. ASSUME NEW p \in Procs, TakeStamp(p) PROVE Data'
  BY <1>9, TablesTyped DEF TakeStamp
<1>10. ASSUME NEW p \in Procs, ReadMeta(p) PROVE Data'
  BY <1>10, TablesTyped DEF ReadMeta, LoadFails, Disk
<1>11. ASSUME NEW p \in Procs, ReadSnapshot(p) PROVE Data'
  BY <1>11, TablesTyped DEF ReadSnapshot
<1>12. ASSUME NEW p \in Procs, ReadJournal(p) PROVE Data'
  <2>1. lines' \in [Procs -> Nat]
    BY <1>12, TablesTyped DEF ReadJournal, Journal
  <2> QED
    BY <1>12, <2>1, TablesTyped DEF ReadJournal
<1>13. ASSUME NEW p \in Procs, JournalUnreadable(p) PROVE Data'
  BY <1>13 DEF JournalUnreadable, LoadFails
<1>14. ASSUME NEW p \in Procs, PreserveSnapshot(p) PROVE Data'
  <2>1. [disk EXCEPT !.snap = Empty] \in Disk
    BY DiskTyped, TablesTyped
  <2> QED
    BY <1>14, <2>1, TablesTyped, MutateTyped DEF PreserveSnapshot
<1>15. ASSUME NEW p \in Procs, PreserveJournal(p) PROVE Data'
  <2>1. [disk EXCEPT !.jour = NoJournal] \in Disk
    BY DiskTyped, NoJournalTyped
  <2> QED
    BY <1>15, <2>1, MutateTyped DEF PreserveJournal
<1>16. ASSUME NEW p \in Procs, TruncMeta(p) PROVE Data'
  <2>1. [disk EXCEPT !.meta = BadMeta] \in Disk
    BY DiskTyped
  <2> QED
    BY <1>16, <2>1, MutateTyped DEF TruncMeta
<1>17. ASSUME NEW p \in Procs, WriteMeta(p) PROVE Data'
  <2>1. [disk EXCEPT !.meta = epoch[p]] \in Disk
    BY DiskTyped
  <2> QED
    BY <1>17, <2>1, MutateTyped DEF WriteMeta
<1>18. ASSUME NEW p \in Procs, PutConflict(p) PROVE Data'
  <2>1. [recs[p] EXCEPT ![op[p].key] = Unexpired(recs[p])[op[p].key]] \in Table
    BY CallFields, TablesTyped, <1>18 DEF PutConflict, Control, Table
  <2> QED
    BY <1>18, <2>1 DEF PutConflict
<1>19. ASSUME NEW p \in Procs, PutAppends(p) PROVE Data'
  <2>1. op[p].key \in Keys /\ op[p] \in Call /\ NewRec(p) \in Rec /\ Line(p) \in Change
    BY <1>19, CallFields, NewRecTyped, LineTyped DEF PutAppends, Control
  <2>2. [disk EXCEPT !.jour = Appended(@, op[p].key, Line(p))] \in Disk
    BY <2>1, DiskTyped, TablesTyped, AppendedTyped
  <2>3. [recs[p] EXCEPT ![op[p].key] = NewRec(p)] \in Table
    BY <2>1, TablesTyped DEF Table
  <2>4. Evict([recs[p] EXCEPT ![op[p].key] = NewRec(p)]) \in Table
    BY <2>3, EvictTyped
  <2> QED
    BY <1>19, <2>2, <2>4, MutateTyped DEF PutAppends, Append
<1>20. ASSUME NEW p \in Procs, DeleteAppends(p) PROVE Data'
  <2>1. op[p].key \in Keys /\ Line(p) \in Change
    BY <1>20, CallFields, LineTyped DEF DeleteAppends, Control
  <2>2. [disk EXCEPT !.jour = Appended(@, op[p].key, Line(p))] \in Disk
    BY <2>1, DiskTyped, TablesTyped, AppendedTyped
  <2>3. [recs[p] EXCEPT ![op[p].key] = NoRec] \in Table
    BY <2>1, TablesTyped DEF Table
  <2> QED
    BY <1>20, <2>2, <2>3, MutateTyped DEF DeleteAppends, Append
<1>21. ASSUME NEW p \in Procs, DeleteAbsent(p) PROVE Data'
  BY <1>21, TablesTyped DEF DeleteAbsent
<1>22. ASSUME NEW p \in Procs, StartCompact(p) PROVE Data'
  BY <1>22, TablesTyped DEF StartCompact
<1>23. ASSUME NEW p \in Procs, PublishSnapshot(p) PROVE Data'
  <2>1. recs'[p] = Unexpired(recs[p])
    BY <1>23 DEF PublishSnapshot
  <2>2. [disk EXCEPT !.snap = recs'[p]] \in Disk
    BY <2>1, DiskTyped, TablesTyped
  <2> QED
    BY <1>23, <2>2, TablesTyped, MutateTyped DEF PublishSnapshot
<1>24. ASSUME NEW p \in Procs, TruncateJournal(p) PROVE Data'
  <2>1. [disk EXCEPT !.jour = NoJournal] \in Disk
    BY DiskTyped, NoJournalTyped
  <2> QED
    BY <1>24, <2>1, MutateTyped DEF TruncateJournal
<1>25. ASSUME NEW p \in Procs, Release(p) PROVE Data'
  BY <1>25, TablesTyped DEF Release
<1>26. ASSUME NEW p \in Procs, AppendFails(p) PROVE Data'
  <2>1. op[p].key \in Keys /\ CutOff(p) \subseteq Disk
    BY <1>26, CallFields, CutOffTyped DEF AppendFails, Writing, Control
  <2>2. [recs[p] EXCEPT ![op[p].key] = NoRec] \in Table
    BY <2>1, TablesTyped DEF Table
  <2>3. stamp' \in [Procs -> {"undef", "current", "stale"}] /\ disk' \in Disk
    BY <1>26, <2>1, MutateTyped DEF AppendFails
  <2>4. recs' \in [Procs -> Table]
    BY <1>26, <2>2 DEF AppendFails
  <2>5. writes' \in Nat /\ faults' \in Nat /\ avail' \in [Procs -> BOOLEAN]
    BY <1>26 DEF AppendFails, Fault
  <2> QED
    BY <1>26, <2>3, <2>4, <2>5 DEF AppendFails
<1>27. ASSUME NEW p \in Procs, CompactFails(p) PROVE Data'
  BY <1>27, TablesTyped DEF CompactFails, Fault
<1>28. ASSUME NEW p \in Procs, Crash(p) PROVE Data'
  <2>1. Writing(p) => CutOff(p) \subseteq Disk
    BY CutOffTyped DEF Control
  <2>2. stamp' \in [Procs -> {"undef", "current", "stale"}] /\ disk' \in Disk
    BY <1>28, <2>1, MutateTyped DEF Crash
  <2>3. writes' \in Nat /\ faults' \in Nat /\ avail' \in [Procs -> BOOLEAN]
    BY <1>28 DEF Crash, Fault
  <2>4. recs' \in [Procs -> Table]
    BY <1>28, TablesTyped DEF Crash
  <2> QED
    BY <1>28, <2>2, <2>3, <2>4, TablesTyped DEF Crash
<1>29. ASSUME Expire PROVE Data'
  <2>1. PICK k \in Expirable, t \in {Replay(disk.snap, disk.jour.over)} \cup {recs[p] : p \in Procs} :
          t[k] # NoRec /\ expired' = expired \cup {t[k].id}
    BY <1>29 DEF Expire
  <2>2. t \in Table
    BY ReplayTyped DEF Disk, Journal
  <2>3. t[k].id \in Nat
    BY <2>1, <2>2 DEF Table, Rec
  <2> QED
    BY <1>29, <2>1, <2>3 DEF Expire
<1>30. CASE UNCHANGED vars
  BY <1>30 DEF vars
<1> QED
  BY <1>1, <1>2, <1>3, <1>4, <1>5, <1>6, <1>7, <1>8, <1>9, <1>10, <1>11, <1>12, <1>13,
     <1>14, <1>15, <1>16, <1>17, <1>18, <1>19, <1>20, <1>21, <1>22, <1>23, <1>24, <1>25,
     <1>26, <1>27, <1>28, <1>29, <1>30
     DEF Next

\* A store nobody has opened is well typed.
LEMMA InitTyped == Init => Control /\ Data
BY NoJournalTyped, StateStoreAssumption
   DEF Init, Control, Data, Labels, Call, NoCall, Locked, Loading, Disk, Table, Empty

\* The type invariant and the lock discipline hold of the store whatever the
\* processes, the clock and the file system do: every access that may change
\* the files (resync, the reset, act, rename, truncate) happens under the lock.
THEOREM TypeCorrect == Spec => []TypeOK
<1>1. Control /\ Data => TypeOK
  BY DEF Control, Data, TypeOK
<1>2. Control /\ Data /\ [Next]_vars => (Control /\ Data)'
  BY StepControl, StepData
<1> QED
  BY <1>1, <1>2, InitTyped, PTL DEF Spec

-----------------------------------------------------------------------------
(* The inductive invariant *)

\* Table t without the records whose time has passed.
Live(t, E) == [k \in Keys |-> IF t[k] # NoRec /\ t[k].id \in E THEN NoRec ELSE t[k]]
\* Table or journal t with r for key k.
Edit(t, k, r) == [j \in Keys |-> IF j = k THEN r ELSE t[j]]
\* The table the files hold.
OnFiles == Replay(disk.snap, disk.jour.over)

\* The table and the counters of p are those of the files.
MemoryIsDisk(p) ==
  /\ Loads
  /\ epoch[p] = disk.meta
  /\ Live(recs[p], expired) = Live(OnFiles, expired)
  /\ lines[p] = disk.jour.lines

\* The lock excludes.
OneHolder == \A p, q \in holders : p = q

\* The lock is held only in the course of a locked call, and mutations belong
\* to mutating calls.
Discipline ==
  \A p \in Procs :
    /\ p \in holders => pc[p] \in Locked \cup Loading
    /\ pc[p] \in {"resync", "act", "rename", "truncate", "release"} => op[p].kind # "open"

\* No load or reset is under way.
Resting == {"idle", "acquire", "resync", "act", "rename", "release"}

\* What a current stamp vouches for, at rest, in the course of a load and in
\* the course of a compaction.
Stamped(p) ==
  /\ pc[p] \in Resting /\ stamp[p] = "current" => MemoryIsDisk(p)
  /\ pc[p] \in {"act", "rename"} => stamp[p] = "current"
  /\ pc[p] \in {"meta", "snapshot", "journal"} /\ p \in holders => stamp[p] = "current"
  /\ pc[p] \in {"snapshot", "journal"} /\ stamp[p] = "current" =>
       disk.meta # BadMeta /\ epoch[p] = disk.meta
  /\ pc[p] = "journal" /\ stamp[p] = "current" => recs[p] = disk.snap
  /\ pc[p] = "truncate" =>
       /\ Loads
       /\ epoch[p] = disk.meta
       /\ Live(recs[p], expired) = Live(OnFiles, expired)
       /\ Live(disk.snap, expired) = Live(OnFiles, expired)

\* What the steps of _resetToEmpty have done to the files.
ResetIn(p) ==
  /\ pc[p] \in {"preserveSnapshot", "preserveJournal"} => ~Loads
  /\ pc[p] \in {"preserveJournal", "truncMeta", "writeMeta"} =>
       recs[p] = Empty /\ lines[p] = 0 /\ disk.snap = Empty
  /\ pc[p] \in {"truncMeta", "writeMeta"} => disk.jour = NoJournal
  /\ pc[p] = "writeMeta" => disk.meta = BadMeta /\ epoch[p] = minted /\ minted > 0

\* Types, lock and discipline.
Base == Control /\ Data /\ OneHolder /\ Discipline

\* No step breaks the lock discipline.
LEMMA StepBase ==
  ASSUME Base, [Next]_vars
  PROVE  Base'
<1>1. Control' /\ Data'
  BY StepControl, StepData DEF Base
<1>2. OneHolder' /\ Discipline'
  <2> USE DEF Base, Control, OneHolder, Discipline, Loading, Locked, Go, Return, env, proc, NoCall
  <2>1. ASSUME NEW p \in Procs, CallOpen(p) PROVE OneHolder' /\ Discipline'
    BY <2>1 DEF CallOpen
  <2>2. ASSUME NEW p \in Procs, CallPut(p) PROVE OneHolder' /\ Discipline'
    BY <2>2 DEF CallPut, Locking
  <2>3. ASSUME NEW p \in Procs, CallDelete(p) PROVE OneHolder' /\ Discipline'
    BY <2>3 DEF CallDelete, Locking
  <2>4. ASSUME NEW p \in Procs, CallCompact(p) PROVE OneHolder' /\ Discipline'
    BY <2>4 DEF CallCompact, Locking
  <2>5. ASSUME NEW p \in Procs, Get(p) PROVE OneHolder' /\ Discipline'
    BY <2>5 DEF Get
  <2>6. ASSUME NEW p \in Procs, Acquire(p) PROVE OneHolder' /\ Discipline'
    BY <2>6 DEF Acquire
  <2>7. ASSUME NEW p \in Procs, AcquireFails(p) PROVE OneHolder' /\ Discipline'
    BY <2>7 DEF AcquireFails
  <2>8. ASSUME NEW p \in Procs, Resync(p) PROVE OneHolder' /\ Discipline'
    BY <2>8 DEF Resync
  <2>9. ASSUME NEW p \in Procs, TakeStamp(p) PROVE OneHolder' /\ Discipline'
    BY <2>9 DEF TakeStamp
  <2>10. ASSUME NEW p \in Procs, ReadMeta(p) PROVE OneHolder' /\ Discipline'
    BY <2>10 DEF ReadMeta, LoadFails
  <2>11. ASSUME NEW p \in Procs, ReadSnapshot(p) PROVE OneHolder' /\ Discipline'
    BY <2>11 DEF ReadSnapshot
  <2>12. ASSUME NEW p \in Procs, ReadJournal(p) PROVE OneHolder' /\ Discipline'
    BY <2>12 DEF ReadJournal
  <2>13. ASSUME NEW p \in Procs, JournalUnreadable(p) PROVE OneHolder' /\ Discipline'
    BY <2>13 DEF JournalUnreadable, LoadFails
  <2>14. ASSUME NEW p \in Procs, PreserveSnapshot(p) PROVE OneHolder' /\ Discipline'
    BY <2>14 DEF PreserveSnapshot
  <2>15. ASSUME NEW p \in Procs, PreserveJournal(p) PROVE OneHolder' /\ Discipline'
    BY <2>15 DEF PreserveJournal
  <2>16. ASSUME NEW p \in Procs, TruncMeta(p) PROVE OneHolder' /\ Discipline'
    BY <2>16 DEF TruncMeta
  <2>17. ASSUME NEW p \in Procs, WriteMeta(p) PROVE OneHolder' /\ Discipline'
    BY <2>17 DEF WriteMeta
  <2>18. ASSUME NEW p \in Procs, PutConflict(p) PROVE OneHolder' /\ Discipline'
    BY <2>18 DEF PutConflict
  <2>19. ASSUME NEW p \in Procs, PutAppends(p) PROVE OneHolder' /\ Discipline'
    BY <2>19 DEF PutAppends
  <2>20. ASSUME NEW p \in Procs, DeleteAppends(p) PROVE OneHolder' /\ Discipline'
    BY <2>20 DEF DeleteAppends
  <2>21. ASSUME NEW p \in Procs, DeleteAbsent(p) PROVE OneHolder' /\ Discipline'
    BY <2>21 DEF DeleteAbsent
  <2>22. ASSUME NEW p \in Procs, StartCompact(p) PROVE OneHolder' /\ Discipline'
    BY <2>22 DEF StartCompact
  <2>23. ASSUME NEW p \in Procs, PublishSnapshot(p) PROVE OneHolder' /\ Discipline'
    BY <2>23 DEF PublishSnapshot
  <2>24. ASSUME NEW p \in Procs, TruncateJournal(p) PROVE OneHolder' /\ Discipline'
    BY <2>24 DEF TruncateJournal
  <2>25. ASSUME NEW p \in Procs, Release(p) PROVE OneHolder' /\ Discipline'
    BY <2>25 DEF Release
  <2>26. ASSUME NEW p \in Procs, AppendFails(p) PROVE OneHolder' /\ Discipline'
    BY <2>26 DEF AppendFails
  <2>27. ASSUME NEW p \in Procs, CompactFails(p) PROVE OneHolder' /\ Discipline'
    BY <2>27 DEF CompactFails
  <2>28. ASSUME NEW p \in Procs, Crash(p) PROVE OneHolder' /\ Discipline'
    BY <2>28 DEF Crash
  <2>29. CASE Expire
    BY <2>29 DEF Expire
  <2>30. CASE UNCHANGED vars
    BY <2>30 DEF vars
  <2> QED
    BY <2>1, <2>2, <2>3, <2>4, <2>5, <2>6, <2>7, <2>8, <2>9, <2>10, <2>11, <2>12, <2>13,
       <2>14, <2>15, <2>16, <2>17, <2>18, <2>19, <2>20, <2>21, <2>22, <2>23, <2>24,
       <2>25, <2>26, <2>27, <2>28, <2>29, <2>30
       DEF Next
<1> QED
  BY <1>1, <1>2 DEF Base


\* No record of t is newer than the n-th write.
IdsUpTo(t, n) == \A k \in Keys : t[k] # NoRec => t[k].id <= n
\* Nothing has an identity that is still to be given.
Ids ==
  /\ \A i \in expired : i <= writes
  /\ \A p \in Procs : IdsUpTo(recs[p], writes)
  /\ IdsUpTo(disk.snap, writes)
  /\ \A k \in Keys : disk.jour.over[k].line = "put" => disk.jour.over[k].rec.id <= writes

\* What dropping the expired records does to each key.
LEMMA LiveAt ==
  ASSUME NEW t, NEW E
  PROVE  /\ \A k \in Keys : Live(t, E)[k] = IF t[k] # NoRec /\ t[k].id \in E THEN NoRec ELSE t[k]
         /\ Live(t, E) = [k \in Keys |-> Live(t, E)[k]]
BY DEF Live

\* What replaying does to each key.
LEMMA ReplayAt ==
  ASSUME NEW t, NEW over, NEW k \in Keys
  PROVE  /\ over[k].line = "none" => Replay(t, over)[k] = t[k]
         /\ over[k].line = "del" => Replay(t, over)[k] = NoRec
         /\ over[k].line = "put" => Replay(t, over)[k] = over[k].rec
BY DEF Replay

\* An empty journal changes nothing.
LEMMA ReplayNothing ==
  ASSUME NEW t \in Table
  PROVE  Replay(t, NoJournal.over) = t
<1>1. \A k \in Keys : NoJournal.over[k].line = "none"
  BY DEF NoJournal, NoChange
<1>2. \A k \in Keys : Replay(t, NoJournal.over)[k] = t[k]
  BY <1>1, ReplayAt
<1>3. Replay(t, NoJournal.over) \in Table
  BY ReplayTyped, NoJournalTyped DEF Journal
<1> QED
  BY <1>2, <1>3 DEF Table

\* One more line in the journal is one more change of the table.
LEMMA ReplayLine ==
  ASSUME NEW t \in Table, NEW over \in [Keys -> Change], NEW k \in Keys, NEW line \in Change
  PROVE  /\ line.line = "put" => Replay(t, Edit(over, k, line)) = Edit(Replay(t, over), k, line.rec)
         /\ line.line = "del" => Replay(t, Edit(over, k, line)) = Edit(Replay(t, over), k, NoRec)
<1> DEFINE new == Edit(over, k, line)
<1>1. new \in [Keys -> Change] /\ new[k] = line /\ \A j \in Keys : j # k => new[j] = over[j]
  BY DEF Edit
<1> HIDE DEF new
<1>2. Replay(t, new) \in Table /\ Replay(t, over) \in Table
  BY <1>1, ReplayTyped
<1>3. ASSUME NEW j \in Keys, j # k PROVE Replay(t, new)[j] = Replay(t, over)[j]
  <2>1. new[j] = over[j] /\ over[j].line \in {"none", "del", "put"}
    BY <1>1, <1>3 DEF Change
  <2> QED
    BY <2>1, ReplayAt
<1>4. /\ line.line = "put" => Replay(t, new)[k] = line.rec
      /\ line.line = "del" => Replay(t, new)[k] = NoRec
  BY <1>1, ReplayAt
<1>5. /\ line.line = "put" => Replay(t, new) = Edit(Replay(t, over), k, line.rec)
      /\ line.line = "del" => Replay(t, new) = Edit(Replay(t, over), k, NoRec)
  BY <1>2, <1>3, <1>4 DEF Table, Edit
<1> QED
  BY <1>5 DEF new

\* Tables that agree on what is live do so later, and after the same edit.
LEMMA LiveSame ==
  ASSUME NEW t \in Table, NEW u \in Table, NEW E, Live(t, E) = Live(u, E)
  PROVE  /\ \A F : E \subseteq F => Live(t, F) = Live(u, F)
         /\ \A k \in Keys : \A r : Live(Edit(t, k, r), E) = Live(Edit(u, k, r), E)
<1>1. ASSUME NEW k \in Keys
      PROVE  (IF t[k] # NoRec /\ t[k].id \in E THEN NoRec ELSE t[k])
               = (IF u[k] # NoRec /\ u[k].id \in E THEN NoRec ELSE u[k])
  BY LiveAt
<1>2. ASSUME NEW F, E \subseteq F PROVE Live(t, F) = Live(u, F)
  BY <1>1, <1>2 DEF Live
<1>3. ASSUME NEW k \in Keys, NEW r PROVE Live(Edit(t, k, r), E) = Live(Edit(u, k, r), E)
  BY <1>1 DEF Live, Edit
<1> QED
  BY <1>2, <1>3

\* Dropping the expired records twice is dropping them once.
LEMMA LiveTwice ==
  ASSUME NEW t \in Table, NEW E
  PROVE  /\ Live(Live(t, E), E) = Live(t, E)
         /\ Live(t, E) \in Table
BY DEF Live, Table

\* Unexpired is Live at the present time.
LEMMA UnexpiredIsLive ==
  ASSUME NEW t
  PROVE  Unexpired(t) = Live(t, expired)
BY DEF Unexpired, Live

\* Rewriting the snapshot with the live table leaves the table of the files.
LEMMA Rebased ==
  ASSUME NEW t \in Table, NEW s \in Table, NEW over \in [Keys -> Change], NEW E,
         Live(t, E) = Live(Replay(s, over), E)
  PROVE  Live(Replay(Live(t, E), over), E) = Live(t, E)
<1> DEFINE u == Live(t, E)
<1>1. u \in Table /\ Live(u, E) = u
  BY LiveTwice
<1>2. ASSUME NEW k \in Keys
      PROVE  Live(Replay(u, over), E)[k] = u[k]
  <2>1. over[k].line \in {"none", "del", "put"}
    BY DEF Change
  <2>2. u[k] = Live(Replay(s, over), E)[k] /\ u[k] = Live(u, E)[k]
    BY <1>1
  <2> HIDE DEF u
  <2>3. CASE over[k].line = "none"
    BY <2>3, <2>2, ReplayAt, LiveAt
  <2>4. CASE over[k].line \in {"del", "put"}
    <3>1. Replay(u, over)[k] = Replay(s, over)[k]
      <4>1. CASE over[k].line = "del"
        BY <4>1, ReplayAt
      <4>2. CASE over[k].line = "put"
        BY <4>2, ReplayAt
      <4> QED
        BY <2>4, <4>1, <4>2
    <3>2. Live(Replay(u, over), E)[k] = Live(Replay(s, over), E)[k]
      BY <3>1, LiveAt
    <3> QED
      BY <3>2, <2>2
  <2> QED
    BY <2>1, <2>3, <2>4
<1>3. Live(Replay(u, over), E) \in Table
  BY <1>1, ReplayTyped, LiveTwice
<1> HIDE DEF u
<1> QED
  BY <1>1, <1>2, <1>3 DEF Table, u

-----------------------------------------------------------------------------
(* Memory, stamps and files, step by step *)

\* What p knows about the files, and what a reset has made of them.
InSync(p) == Stamped(p) /\ ResetIn(p)
\* The inductive invariant of memory and files.
Inv == Base /\ Ids /\ \A p \in Procs : InSync(p)

\* The journal and the table of a process about to put are within the limits
\* of the code, MAX_JOURNAL_BYTES and RECORD_CAP: beyond them the store gives
\* up a journal it finds, and memory evicts what is still on disk.
Roomy ==
  /\ disk.jour.lines <= JournalCap
  /\ \A p \in Procs : pc[p] = "act" /\ op[p].kind = "put" =>
       Cardinality({k \in Keys : k = op[p].key \/ recs[p][k] # NoRec}) <= RecordCap

\* Only p and the files move.
Only(p) ==
  \A q \in Procs \ {p} :
    /\ pc'[q] = pc[q] /\ recs'[q] = recs[q] /\ epoch'[q] = epoch[q] /\ lines'[q] = lines[q]
    /\ q \in holders' => q \in holders

\* p reads or computes: nobody else is concerned.
LEMMA Quiet ==
  ASSUME Inv, NEW p \in Procs, Only(p), \A q \in Procs \ {p} : stamp'[q] = stamp[q],
         UNCHANGED <<disk, expired, minted>>, InSync(p)'
  PROVE  \A q \in Procs : InSync(q)'
<1>1. SUFFICES ASSUME NEW q \in Procs \ {p} PROVE InSync(q)'
  OBVIOUS
<1> QED
  BY <1>1 DEF Only, Inv, InSync, Stamped, ResetIn, MemoryIsDisk, OnFiles, Loads

\* p changes the files under the lock: nobody else vouches for them.
LEMMA Exclusive ==
  ASSUME Base, NEW p \in Procs, Base', p \in holders, Only(p),
         \A q \in Procs \ {p} : stamp'[q] # "current", InSync(p)'
  PROVE  \A q \in Procs : InSync(q)'
<1>1. SUFFICES ASSUME NEW q \in Procs \ {p} PROVE InSync(q)'
  OBVIOUS
<1>2. q \notin holders'
  BY <1>1 DEF Base, OneHolder, Only
<1>3. pc'[q] \notin Locked
  BY <1>2 DEF Base, Control
<1> QED
  BY <1>1, <1>2, <1>3 DEF InSync, Stamped, ResetIn, Locked

\* After p has changed the files no other process has a current stamp.
LEMMA MutateOthers ==
  ASSUME Data, NEW p \in Procs, NEW d, NEW s, Mutate(p, d, s)
  PROVE  /\ disk' = d /\ stamp'[p] = s
         /\ \A q \in Procs \ {p} : stamp'[q] # "current"
BY DEF Mutate, Data

\* Dropping an expired record, or writing back what is live, changes nothing
\* that is live.
LEMMA LiveDropped ==
  ASSUME NEW t \in Table, NEW E, NEW k \in Keys
  PROVE  /\ t[k] # Live(t, E)[k] => Live(Edit(t, k, NoRec), E) = Live(t, E)
         /\ Live(Edit(t, k, Live(t, E)[k]), E) = Live(t, E)
BY DEF Live, Table, Edit

\* Replacing one file leaves the others.
LEMMA Rewritten ==
  ASSUME disk \in Disk, NEW x
  PROVE  /\ [disk EXCEPT !.snap = x].snap = x /\ [disk EXCEPT !.snap = x].meta = disk.meta
         /\ [disk EXCEPT !.snap = x].jour = disk.jour
         /\ [disk EXCEPT !.jour = x].jour = x /\ [disk EXCEPT !.jour = x].meta = disk.meta
         /\ [disk EXCEPT !.jour = x].snap = disk.snap
         /\ [disk EXCEPT !.meta = x].meta = x /\ [disk EXCEPT !.meta = x].snap = disk.snap
         /\ [disk EXCEPT !.meta = x].jour = disk.jour
BY DEF Disk

\* Below RECORD_CAP a put evicts nothing.
LEMMA NothingEvicted ==
  ASSUME NEW t \in Table, NEW k \in Keys, NEW r \in Rec,
         Cardinality({j \in Keys : j = k \/ t[j] # NoRec}) <= RecordCap
  PROVE  Evict(Edit(t, k, r)) = Edit(t, k, r)
<1> DEFINE u == Edit(t, k, r)
<1>1. \A j \in Keys : u[j] # NoRec <=> j = k \/ t[j] # NoRec
  BY StateStoreAssumption DEF Table, Rec, Edit
<1> HIDE DEF u
<1>2. {j \in Keys : u[j] # NoRec} = {j \in Keys : j = k \/ t[j] # NoRec}
  BY <1>1
<1>3. Evict(u) = u
  BY <1>2 DEF Evict
<1> QED
  BY <1>3 DEF u

\* No step breaks what is known about stamps, memory and resets.
LEMMA StepSync ==
  ASSUME Inv, [Next]_vars, Roomy, Roomy'
  PROVE  \A p \in Procs : InSync(p)'
<1>0. Base'
  BY StepBase DEF Inv
<1> USE DEF Inv, Base, Control, Discipline, Loading, Locked, Resting, Go, Return, env, proc
<1>1. ASSUME NEW p \in Procs, CallOpen(p) PROVE \A q \in Procs : InSync(q)'
  <2>1. /\ Only(p) /\ \A q \in Procs \ {p} : stamp'[q] = stamp[q]
        /\ UNCHANGED <<disk, expired, minted>>
    BY <1>1 DEF CallOpen, Only, Data
  <2>2. InSync(p)'
    BY <1>1 DEF CallOpen, Data, InSync, Stamped, ResetIn, MemoryIsDisk, OnFiles, Loads
  <2> QED
    BY <2>1, <2>2, Quiet
<1>2. ASSUME NEW p \in Procs, CallPut(p) PROVE \A q \in Procs : InSync(q)'
  <2>1. /\ Only(p) /\ \A q \in Procs \ {p} : stamp'[q] = stamp[q]
        /\ UNCHANGED <<disk, expired, minted>>
    BY <1>2 DEF CallPut, Locking, Only, Data
  <2>2. InSync(p)'
    BY <1>2
       DEF CallPut, Locking, Data, InSync, Stamped, ResetIn, MemoryIsDisk, OnFiles,
           Loads
  <2> QED
    BY <2>1, <2>2, Quiet
<1>3. ASSUME NEW p \in Procs, CallDelete(p) PROVE \A q \in Procs : InSync(q)'
  <2>1. /\ Only(p) /\ \A q \in Procs \ {p} : stamp'[q] = stamp[q]
        /\ UNCHANGED <<disk, expired, minted>>
    BY <1>3 DEF CallDelete, Locking, Only, Data
  <2>2. InSync(p)'
    BY <1>3
       DEF CallDelete, Locking, Data, InSync, Stamped, ResetIn, MemoryIsDisk, OnFiles,
           Loads
  <2> QED
    BY <2>1, <2>2, Quiet
<1>4. ASSUME NEW p \in Procs, CallCompact(p) PROVE \A q \in Procs : InSync(q)'
  <2>1. /\ Only(p) /\ \A q \in Procs \ {p} : stamp'[q] = stamp[q]
        /\ UNCHANGED <<disk, expired, minted>>
    BY <1>4 DEF CallCompact, Locking, Only, Data
  <2>2. InSync(p)'
    BY <1>4
       DEF CallCompact, Locking, Data, InSync, Stamped, ResetIn, MemoryIsDisk, OnFiles,
           Loads
  <2> QED
    BY <2>1, <2>2, Quiet
<1>5. ASSUME NEW p \in Procs, Get(p) PROVE \A q \in Procs : InSync(q)'
  <2>1. /\ Only(p) /\ \A q \in Procs \ {p} : stamp'[q] = stamp[q]
        /\ UNCHANGED <<disk, expired, minted>>
    BY <1>5 DEF Get, Only, Data
  <2>2. PICK k \in Keys : /\ recs[p][k] # Live(recs[p], expired)[k]
                          /\ recs' = [recs EXCEPT ![p][k] = NoRec]
    BY <1>5, UnexpiredIsLive DEF Get
  <2>3. recs[p] \in Table /\ recs'[p] = Edit(recs[p], k, NoRec)
    BY <2>2 DEF Data, Edit, Table
  <2>5. Live(recs'[p], expired) = Live(recs[p], expired)
    BY <2>2, <2>3, LiveDropped
  <2>4. InSync(p)'
    BY <1>5, <2>5 DEF Get, Data, InSync, Stamped, ResetIn, MemoryIsDisk, OnFiles, Loads
  <2> QED
    BY <2>1, <2>4, Quiet
<1>6. ASSUME NEW p \in Procs, Acquire(p) PROVE \A q \in Procs : InSync(q)'
  <2>1. /\ Only(p) /\ \A q \in Procs \ {p} : stamp'[q] = stamp[q]
        /\ UNCHANGED <<disk, expired, minted>>
    BY <1>6 DEF Acquire, Only, Data
  <2>2. InSync(p)'
    BY <1>6 DEF Acquire, Data, InSync, Stamped, ResetIn, MemoryIsDisk, OnFiles, Loads
  <2> QED
    BY <2>1, <2>2, Quiet
<1>7. ASSUME NEW p \in Procs, AcquireFails(p) PROVE \A q \in Procs : InSync(q)'
  <2>1. /\ Only(p) /\ \A q \in Procs \ {p} : stamp'[q] = stamp[q]
        /\ UNCHANGED <<disk, expired, minted>>
    BY <1>7 DEF AcquireFails, Only, Data
  <2>2. InSync(p)'
    BY <1>7
       DEF AcquireFails, Data, InSync, Stamped, ResetIn, MemoryIsDisk, OnFiles, Loads
  <2> QED
    BY <2>1, <2>2, Quiet
<1>8. ASSUME NEW p \in Procs, Resync(p) PROVE \A q \in Procs : InSync(q)'
  <2>1. /\ Only(p) /\ \A q \in Procs \ {p} : stamp'[q] = stamp[q]
        /\ UNCHANGED <<disk, expired, minted>>
    BY <1>8 DEF Resync, Only, Data
  <2>2. Live(Live(recs[p], expired), expired) = Live(recs[p], expired)
    BY LiveTwice DEF Data
  <2>3. InSync(p)'
    BY <1>8, <2>2, UnexpiredIsLive
       DEF Resync, Data, InSync, Stamped, ResetIn, MemoryIsDisk, OnFiles, Loads
  <2> QED
    BY <2>1, <2>3, Quiet
<1>9. ASSUME NEW p \in Procs, TakeStamp(p) PROVE \A q \in Procs : InSync(q)'
  <2>1. /\ Only(p) /\ \A q \in Procs \ {p} : stamp'[q] = stamp[q]
        /\ UNCHANGED <<disk, expired, minted>>
    BY <1>9 DEF TakeStamp, Only, Data
  <2>2. InSync(p)'
    BY <1>9 DEF TakeStamp, Data, InSync, Stamped, ResetIn, MemoryIsDisk, OnFiles, Loads
  <2> QED
    BY <2>1, <2>2, Quiet
<1>10. ASSUME NEW p \in Procs, ReadMeta(p) PROVE \A q \in Procs : InSync(q)'
  <2>1. /\ Only(p) /\ \A q \in Procs \ {p} : stamp'[q] = stamp[q]
        /\ UNCHANGED <<disk, expired, minted>>
    BY <1>10 DEF ReadMeta, LoadFails, Only, Data
  <2>2. InSync(p)'
    BY <1>10
       DEF ReadMeta, LoadFails, Data, InSync, Stamped, ResetIn, MemoryIsDisk, OnFiles,
           Loads
  <2> QED
    BY <2>1, <2>2, Quiet
<1>11. ASSUME NEW p \in Procs, ReadSnapshot(p) PROVE \A q \in Procs : InSync(q)'
  <2>1. /\ Only(p) /\ \A q \in Procs \ {p} : stamp'[q] = stamp[q]
        /\ UNCHANGED <<disk, expired, minted>>
    BY <1>11 DEF ReadSnapshot, Only, Data
  <2>2. InSync(p)'
    BY <1>11
       DEF ReadSnapshot, Data, InSync, Stamped, ResetIn, MemoryIsDisk, OnFiles, Loads
  <2> QED
    BY <2>1, <2>2, Quiet
<1>12. ASSUME NEW p \in Procs, ReadJournal(p) PROVE \A q \in Procs : InSync(q)'
  <2>1. /\ Only(p) /\ \A q \in Procs \ {p} : stamp'[q] = stamp[q]
        /\ UNCHANGED <<disk, expired, minted>>
    BY <1>12 DEF ReadJournal, Only, Data
  <2>2. /\ recs'[p] = Live(Replay(recs[p], disk.jour.over), expired)
        /\ lines'[p] = disk.jour.lines
    BY <1>12, UnexpiredIsLive DEF ReadJournal, Data
  <2>3. Replay(recs[p], disk.jour.over) \in Table
    BY TablesTyped
  <2>4. Live(recs'[p], expired) = Live(Replay(recs[p], disk.jour.over), expired)
    BY <2>2, <2>3, LiveTwice
  <2>5. InSync(p)'
    BY <1>12, <2>2, <2>4
       DEF ReadJournal, Data, InSync, Stamped, ResetIn, MemoryIsDisk, OnFiles, Loads
  <2> QED
    BY <2>1, <2>5, Quiet
<1>13. ASSUME NEW p \in Procs, JournalUnreadable(p) PROVE \A q \in Procs : InSync(q)'
  <2>1. /\ Only(p) /\ \A q \in Procs \ {p} : stamp'[q] = stamp[q]
        /\ UNCHANGED <<disk, expired, minted>>
    BY <1>13 DEF JournalUnreadable, LoadFails, Only, Data
  <2>2. InSync(p)'
    BY <1>13
       DEF JournalUnreadable, LoadFails, Data, InSync, Stamped, ResetIn, MemoryIsDisk,
           OnFiles, Loads
  <2> QED
    BY <2>1, <2>2, Quiet
<1>18. ASSUME NEW p \in Procs, PutConflict(p) PROVE \A q \in Procs : InSync(q)'
  <2>1. /\ Only(p) /\ \A q \in Procs \ {p} : stamp'[q] = stamp[q]
        /\ UNCHANGED <<disk, expired, minted>>
    BY <1>18 DEF PutConflict, Only, Data
  <2>2. recs[p] \in Table /\ op[p].key \in Keys
    BY <1>18, CallFields DEF PutConflict, Data
  <2>3. recs'[p] = Edit(recs[p], op[p].key, Live(recs[p], expired)[op[p].key])
    BY <1>18, <2>2, UnexpiredIsLive DEF PutConflict, Data, Edit, Table
  <2>5. Live(recs'[p], expired) = Live(recs[p], expired)
    BY <2>2, <2>3, LiveDropped
  <2>4. InSync(p)'
    BY <1>18, <2>5
       DEF PutConflict, Data, InSync, Stamped, ResetIn, MemoryIsDisk, OnFiles, Loads
  <2> QED
    BY <2>1, <2>4, Quiet
<1>21. ASSUME NEW p \in Procs, DeleteAbsent(p) PROVE \A q \in Procs : InSync(q)'
  <2>1. /\ Only(p) /\ \A q \in Procs \ {p} : stamp'[q] = stamp[q]
        /\ UNCHANGED <<disk, expired, minted>>
    BY <1>21 DEF DeleteAbsent, Only, Data
  <2>2. InSync(p)'
    BY <1>21
       DEF DeleteAbsent, Data, InSync, Stamped, ResetIn, MemoryIsDisk, OnFiles, Loads
  <2> QED
    BY <2>1, <2>2, Quiet
<1>22. ASSUME NEW p \in Procs, StartCompact(p) PROVE \A q \in Procs : InSync(q)'
  <2>1. /\ Only(p) /\ \A q \in Procs \ {p} : stamp'[q] = stamp[q]
        /\ UNCHANGED <<disk, expired, minted>>
    BY <1>22 DEF StartCompact, Only, Data
  <2>2. InSync(p)'
    BY <1>22
       DEF StartCompact, Data, InSync, Stamped, ResetIn, MemoryIsDisk, OnFiles, Loads
  <2> QED
    BY <2>1, <2>2, Quiet
<1>25. ASSUME NEW p \in Procs, Release(p) PROVE \A q \in Procs : InSync(q)'
  <2>1. /\ Only(p) /\ \A q \in Procs \ {p} : stamp'[q] = stamp[q]
        /\ UNCHANGED <<disk, expired, minted>>
    BY <1>25 DEF Release, Only, Data
  <2>2. InSync(p)'
    BY <1>25 DEF Release, Data, InSync, Stamped, ResetIn, MemoryIsDisk, OnFiles, Loads
  <2> QED
    BY <2>1, <2>2, Quiet
<1>27. ASSUME NEW p \in Procs, CompactFails(p) PROVE \A q \in Procs : InSync(q)'
  <2>1. /\ Only(p) /\ \A q \in Procs \ {p} : stamp'[q] = stamp[q]
        /\ UNCHANGED <<disk, expired, minted>>
    BY <1>27 DEF CompactFails, Only, Data, Fault
  <2>2. InSync(p)'
    BY <1>27
       DEF CompactFails, Data, InSync, Stamped, ResetIn, MemoryIsDisk, OnFiles, Loads
  <2> QED
    BY <2>1, <2>2, Quiet
<1>14. ASSUME NEW p \in Procs, PreserveSnapshot(p) PROVE \A q \in Procs : InSync(q)'
  <2>1. Mutate(p, [disk EXCEPT !.snap = Empty], "undef") /\ Only(p) /\ p \in holders
    BY <1>14 DEF PreserveSnapshot, Only, Data
  <2>2. /\ disk' = [disk EXCEPT !.snap = Empty] /\ stamp'[p] = "undef"
        /\ \A q \in Procs \ {p} : stamp'[q] # "current"
    BY <2>1, MutateOthers
  <2>3. disk'.snap = Empty /\ disk'.meta = disk.meta /\ disk'.jour = disk.jour
    BY <2>2, Rewritten DEF Data
  <2>9. InSync(p)'
    BY <1>14, <2>2, <2>3
       DEF PreserveSnapshot, Data, InSync, Stamped, ResetIn, MemoryIsDisk, OnFiles,
           Loads
  <2> QED
    BY <2>1, <2>2, <2>9, <1>0, Exclusive
<1>15. ASSUME NEW p \in Procs, PreserveJournal(p) PROVE \A q \in Procs : InSync(q)'
  <2>1. Mutate(p, [disk EXCEPT !.jour = NoJournal], "undef") /\ Only(p) /\ p \in holders
    BY <1>15 DEF PreserveJournal, Only, Data
  <2>2. /\ disk' = [disk EXCEPT !.jour = NoJournal] /\ stamp'[p] = "undef"
        /\ \A q \in Procs \ {p} : stamp'[q] # "current"
    BY <2>1, MutateOthers
  <2>3. disk'.jour = NoJournal /\ disk'.snap = disk.snap
    BY <2>2, Rewritten DEF Data
  <2>9. InSync(p)'
    BY <1>15, <2>2, <2>3
       DEF PreserveJournal, Data, InSync, Stamped, ResetIn, MemoryIsDisk, OnFiles, Loads
  <2> QED
    BY <2>1, <2>2, <2>9, <1>0, Exclusive
<1>16. ASSUME NEW p \in Procs, TruncMeta(p) PROVE \A q \in Procs : InSync(q)'
  <2>1. Mutate(p, [disk EXCEPT !.meta = BadMeta], "undef") /\ Only(p) /\ p \in holders
    BY <1>16 DEF TruncMeta, Only, Data
  <2>2. /\ disk' = [disk EXCEPT !.meta = BadMeta] /\ stamp'[p] = "undef"
        /\ \A q \in Procs \ {p} : stamp'[q] # "current"
    BY <2>1, MutateOthers
  <2>3. disk'.meta = BadMeta /\ disk'.snap = disk.snap /\ disk'.jour = disk.jour
    BY <2>2, Rewritten DEF Data
  <2>9. InSync(p)'
    BY <1>16, <2>2, <2>3
       DEF TruncMeta, Data, InSync, Stamped, ResetIn, MemoryIsDisk, OnFiles, Loads
  <2> QED
    BY <2>1, <2>2, <2>9, <1>0, Exclusive
<1>17. ASSUME NEW p \in Procs, WriteMeta(p) PROVE \A q \in Procs : InSync(q)'
  <2>1. Mutate(p, [disk EXCEPT !.meta = epoch[p]], "current") /\ Only(p) /\ p \in holders
    BY <1>17 DEF WriteMeta, Only, Data
  <2>2. /\ disk' = [disk EXCEPT !.meta = epoch[p]] /\ stamp'[p] = "current"
        /\ \A q \in Procs \ {p} : stamp'[q] # "current"
    BY <2>1, MutateOthers
  <2>3. disk'.meta = epoch[p] /\ disk'.snap = disk.snap /\ disk'.jour = disk.jour
    BY <2>2, Rewritten DEF Data
  <2>4. recs[p] = Empty /\ lines[p] = 0 /\ disk.snap = Empty /\ disk.jour = NoJournal
    BY <1>17 DEF WriteMeta, InSync, ResetIn
  <2>5. Replay(Empty, NoJournal.over) = Empty
    BY TablesTyped, ReplayNothing
  <2>6. NoJournal.lines = 0 /\ NoJournal.tail = "whole"
    BY DEF NoJournal
  <2>7. MemoryIsDisk(p)'
    BY <1>17, <2>3, <2>4, <2>5, <2>6, StateStoreAssumption
       DEF WriteMeta, Data, MemoryIsDisk, OnFiles, Loads, JournalLoads
  <2>9. InSync(p)'
    BY <1>17, <2>2, <2>7 DEF WriteMeta, Data, InSync, Stamped, ResetIn
  <2> QED
    BY <2>1, <2>2, <2>9, <1>0, Exclusive
<1>23. ASSUME NEW p \in Procs, PublishSnapshot(p) PROVE \A q \in Procs : InSync(q)'
  <2>1. Mutate(p, [disk EXCEPT !.snap = recs'[p]], "undef") /\ Only(p) /\ p \in holders
    BY <1>23 DEF PublishSnapshot, Only, Data
  <2>2. /\ disk' = [disk EXCEPT !.snap = recs'[p]] /\ stamp'[p] = "undef"
        /\ \A q \in Procs \ {p} : stamp'[q] # "current"
    BY <2>1, MutateOthers
  <2>3. disk'.snap = recs'[p] /\ disk'.meta = disk.meta /\ disk'.jour = disk.jour
    BY <2>2, Rewritten DEF Data
  <2>4. MemoryIsDisk(p)
    BY <1>23 DEF PublishSnapshot, InSync, Stamped
  <2>5. recs'[p] = Live(recs[p], expired)
    BY <1>23, UnexpiredIsLive DEF PublishSnapshot, Data
  <2>6. Live(Replay(recs'[p], disk.jour.over), expired) = Live(recs[p], expired)
    BY <2>4, <2>5, TablesTyped, Rebased DEF MemoryIsDisk, OnFiles
  <2>7. Live(recs'[p], expired) = Live(recs[p], expired)
    BY <2>5, LiveTwice DEF Data
  <2>9. InSync(p)'
    BY <1>23, <2>2, <2>3, <2>4, <2>6, <2>7
       DEF PublishSnapshot, Data, InSync, Stamped, ResetIn, MemoryIsDisk, OnFiles, Loads
  <2> QED
    BY <2>1, <2>2, <2>9, <1>0, Exclusive
<1>24. ASSUME NEW p \in Procs, TruncateJournal(p) PROVE \A q \in Procs : InSync(q)'
  <2>1. Mutate(p, [disk EXCEPT !.jour = NoJournal], "current") /\ Only(p) /\ p \in holders
    BY <1>24 DEF TruncateJournal, Only, Data
  <2>2. /\ disk' = [disk EXCEPT !.jour = NoJournal] /\ stamp'[p] = "current"
        /\ \A q \in Procs \ {p} : stamp'[q] # "current"
    BY <2>1, MutateOthers
  <2>3. disk'.jour = NoJournal /\ disk'.snap = disk.snap /\ disk'.meta = disk.meta
    BY <2>2, Rewritten DEF Data
  <2>4. Replay(disk.snap, NoJournal.over) = disk.snap
    BY TablesTyped, ReplayNothing
  <2>5. NoJournal.lines = 0 /\ NoJournal.tail = "whole"
    BY DEF NoJournal
  <2>7. MemoryIsDisk(p)'
    BY <1>24, <2>3, <2>4, <2>5, StateStoreAssumption
       DEF TruncateJournal, Data, InSync, Stamped, MemoryIsDisk, OnFiles, Loads, JournalLoads
  <2>9. InSync(p)'
    BY <1>24, <2>2, <2>7 DEF TruncateJournal, Data, InSync, Stamped, ResetIn
  <2> QED
    BY <2>1, <2>2, <2>9, <1>0, Exclusive
<1>19. ASSUME NEW p \in Procs, PutAppends(p) PROVE \A q \in Procs : InSync(q)'
  <2>1. /\ Mutate(p, [disk EXCEPT !.jour = Appended(@, op[p].key, Line(p))],
                  IF stamp[p] = "undef" THEN "undef" ELSE "current")
        /\ Only(p) /\ p \in holders
    BY <1>19 DEF PutAppends, Only, Data, Append, Writing
  <2>2. /\ disk' = [disk EXCEPT !.jour = Appended(@, op[p].key, Line(p))] /\ stamp'[p] = IF stamp[p] = "undef" THEN "undef" ELSE "current"
        /\ \A q \in Procs \ {p} : stamp'[q] # "current"
    BY <2>1, MutateOthers
  <2>3. /\ disk'.jour = Appended(disk.jour, op[p].key, Line(p))
        /\ disk'.snap = disk.snap /\ disk'.meta = disk.meta
    BY <2>2, Rewritten DEF Data
  <2>4. MemoryIsDisk(p) /\ stamp[p] = "current"
    BY <1>19 DEF PutAppends, Writing, InSync, Stamped
  <2>5. op[p].key \in Keys /\ Line(p) \in Change
    BY <1>19, CallFields, LineTyped DEF PutAppends, Data
  <2>6. Line(p).line = "put" /\ Line(p).rec = NewRec(p) /\ recs'[p] = Edit(recs[p], op[p].key, NewRec(p))
    <3>1. recs[p] \in Table /\ NewRec(p) \in Rec
      BY <1>19, NewRecTyped DEF PutAppends, Data
    <3>2. Cardinality({j \in Keys : j = op[p].key \/ recs[p][j] # NoRec}) <= RecordCap
      BY <1>19 DEF PutAppends, Writing, Roomy
    <3>3. [recs[p] EXCEPT ![op[p].key] = NewRec(p)] = Edit(recs[p], op[p].key, NewRec(p))
      BY <3>1 DEF Edit, Table
    <3>4. recs'[p] = Evict(Edit(recs[p], op[p].key, NewRec(p)))
      BY <1>19, <3>3 DEF PutAppends, Data
    <3> QED
      BY <1>19, <2>5, <3>1, <3>2, <3>4, NothingEvicted DEF PutAppends, Line
  <2>7. OnFiles' = Edit(OnFiles, op[p].key, NewRec(p))
    <3>1. disk'.jour.over = Edit(disk.jour.over, op[p].key, Line(p))
      BY <2>3, TablesTyped DEF Appended, Edit
    <3>2. Replay(disk.snap, Edit(disk.jour.over, op[p].key, Line(p)))
            = Edit(Replay(disk.snap, disk.jour.over), op[p].key, NewRec(p))
      BY <2>5, <2>6, TablesTyped, ReplayLine
    <3> QED
      BY <2>3, <3>1, <3>2 DEF OnFiles
  <2>8. Live(recs'[p], expired) = Live(OnFiles', expired)
    <3>1. /\ recs[p] \in Table /\ OnFiles \in Table
          /\ Live(recs[p], expired) = Live(OnFiles, expired)
      BY <2>4, TablesTyped DEF MemoryIsDisk, OnFiles
    <3> QED
      BY <2>5, <2>6, <2>7, <3>1, LiveSame
  <2>10. MemoryIsDisk(p)'
    BY <1>19, <2>3, <2>4, <2>8
       DEF PutAppends, Append, Appended, Data, MemoryIsDisk, Loads, JournalLoads, Roomy
  <2>9. InSync(p)'
    BY <1>19, <2>2, <2>4, <2>10 DEF PutAppends, Data, InSync, Stamped, ResetIn
  <2> QED
    BY <2>1, <2>2, <2>9, <1>0, Exclusive
<1>20. ASSUME NEW p \in Procs, DeleteAppends(p) PROVE \A q \in Procs : InSync(q)'
  <2>1. /\ Mutate(p, [disk EXCEPT !.jour = Appended(@, op[p].key, Line(p))],
                  IF stamp[p] = "undef" THEN "undef" ELSE "current")
        /\ Only(p) /\ p \in holders
    BY <1>20 DEF DeleteAppends, Only, Data, Append, Writing
  <2>2. /\ disk' = [disk EXCEPT !.jour = Appended(@, op[p].key, Line(p))] /\ stamp'[p] = IF stamp[p] = "undef" THEN "undef" ELSE "current"
        /\ \A q \in Procs \ {p} : stamp'[q] # "current"
    BY <2>1, MutateOthers
  <2>3. /\ disk'.jour = Appended(disk.jour, op[p].key, Line(p))
        /\ disk'.snap = disk.snap /\ disk'.meta = disk.meta
    BY <2>2, Rewritten DEF Data
  <2>4. MemoryIsDisk(p) /\ stamp[p] = "current"
    BY <1>20 DEF DeleteAppends, Writing, InSync, Stamped
  <2>5. op[p].key \in Keys /\ Line(p) \in Change
    BY <1>20, CallFields, LineTyped DEF DeleteAppends, Data
  <2>6. Line(p).line = "del" /\ recs'[p] = Edit(recs[p], op[p].key, NoRec)
    BY <1>20 DEF DeleteAppends, Line, Data, Edit, Table
  <2>7. OnFiles' = Edit(OnFiles, op[p].key, NoRec)
    <3>1. disk'.jour.over = Edit(disk.jour.over, op[p].key, Line(p))
      BY <2>3, TablesTyped DEF Appended, Edit
    <3>2. Replay(disk.snap, Edit(disk.jour.over, op[p].key, Line(p)))
            = Edit(Replay(disk.snap, disk.jour.over), op[p].key, NoRec)
      BY <2>5, <2>6, TablesTyped, ReplayLine
    <3> QED
      BY <2>3, <3>1, <3>2 DEF OnFiles
  <2>8. Live(recs'[p], expired) = Live(OnFiles', expired)
    <3>1. /\ recs[p] \in Table /\ OnFiles \in Table
          /\ Live(recs[p], expired) = Live(OnFiles, expired)
      BY <2>4, TablesTyped DEF MemoryIsDisk, OnFiles
    <3> QED
      BY <2>5, <2>6, <2>7, <3>1, LiveSame
  <2>10. MemoryIsDisk(p)'
    BY <1>20, <2>3, <2>4, <2>8
       DEF DeleteAppends, Append, Appended, Data, MemoryIsDisk, Loads, JournalLoads,
           Roomy
  <2>9. InSync(p)'
    BY <1>20, <2>2, <2>4, <2>10 DEF DeleteAppends, Data, InSync, Stamped, ResetIn
  <2> QED
    BY <2>1, <2>2, <2>9, <1>0, Exclusive
<1>26. ASSUME NEW p \in Procs, AppendFails(p) PROVE \A q \in Procs : InSync(q)'
  <2>1. PICK d \in CutOff(p) : Mutate(p, d, "undef")
    BY <1>26 DEF AppendFails
  <2>2. Only(p) /\ p \in holders
    BY <1>26 DEF AppendFails, Writing, Only, Data
  <2>3. InSync(p)'
    BY <1>26, <2>1, MutateOthers DEF AppendFails, Data, InSync, Stamped, ResetIn
  <2> QED
    BY <2>1, <2>2, <2>3, <1>0, MutateOthers, Exclusive
<1>28. ASSUME NEW p \in Procs, Crash(p) PROVE \A q \in Procs : InSync(q)'
  <2>1. Only(p) /\ InSync(p)' /\ UNCHANGED <<expired, minted>>
    BY <1>28 DEF Crash, Only, Data, InSync, Stamped, ResetIn
  <2>2. CASE stamp' = [stamp EXCEPT ![p] = "undef"] /\ UNCHANGED disk
    BY <2>1, <2>2, Quiet DEF Data
  <2>3. CASE \E d \in CutOff(p) : Writing(p) /\ Mutate(p, d, "undef")
    BY <2>1, <2>3, <1>0, MutateOthers, Exclusive DEF Writing
  <2> QED
    BY <1>28, <2>2, <2>3 DEF Crash
<1>29. CASE Expire
  <2>1. ASSUME NEW q \in Procs, NEW t \in Table, NEW u \in Table, Live(t, expired) = Live(u, expired)
        PROVE Live(t, expired') = Live(u, expired')
    BY <1>29, <2>1, LiveSame DEF Expire
  <2>2. ASSUME NEW q \in Procs PROVE InSync(q)'
    BY <1>29, <2>1, TablesTyped
       DEF Expire, InSync, Stamped, ResetIn, MemoryIsDisk, OnFiles, Loads
  <2> QED
    BY <2>2
<1>30. CASE UNCHANGED vars
  BY <1>30 DEF vars, InSync, Stamped, ResetIn, MemoryIsDisk, OnFiles, Loads
<1> QED
  BY <1>1, <1>2, <1>3, <1>4, <1>5, <1>6, <1>7, <1>8, <1>9, <1>10, <1>11, <1>12, <1>13,
     <1>14, <1>15, <1>16, <1>17, <1>18, <1>19, <1>20, <1>21, <1>22, <1>23, <1>24, <1>25,
     <1>26, <1>27, <1>28, <1>29, <1>30
     DEF Next

-----------------------------------------------------------------------------
(* Identities and generations, step by step *)

\* The operations on tables invent no identity.
LEMMA LiveIds ==
  ASSUME NEW t \in Table, NEW n \in Nat, IdsUpTo(t, n)
  PROVE  /\ \A E : IdsUpTo(Live(t, E), n)
         /\ IdsUpTo(Evict(t), n)
         /\ IdsUpTo(Empty, n)
         /\ IdsUpTo(t, n + 1)
         /\ \A k \in Keys : IdsUpTo(Edit(t, k, NoRec), n)
         /\ \A k \in Keys : IdsUpTo(Edit(t, k, t[k]), n)
<1>1. IdsUpTo(t, n + 1)
  BY DEF IdsUpTo, Table, Rec
<1>2. IdsUpTo(Empty, n) /\ IdsUpTo(Evict(t), n) /\ \A E : IdsUpTo(Live(t, E), n)
  BY DEF IdsUpTo, Live, Evict, Empty
<1>3. \A k \in Keys : IdsUpTo(Edit(t, k, NoRec), n) /\ IdsUpTo(Edit(t, k, t[k]), n)
  BY DEF IdsUpTo, Edit
<1> QED
  BY <1>1, <1>2, <1>3

\* Replaying invents no identity.
LEMMA ReplayIds ==
  ASSUME NEW t \in Table, NEW over \in [Keys -> Change], NEW n \in Nat, IdsUpTo(t, n),
         \A k \in Keys : over[k].line = "put" => over[k].rec.id <= n
  PROVE  IdsUpTo(Replay(t, over), n)
<1> SUFFICES ASSUME NEW k \in Keys, Replay(t, over)[k] # NoRec
             PROVE  Replay(t, over)[k].id <= n
  BY DEF IdsUpTo
<1>1. over[k].line \in {"none", "del", "put"}
  BY DEF Change
<1> QED
  BY <1>1, ReplayAt DEF IdsUpTo

\* No line of the journal is newer than the n-th write.
JournalIds(over, n) == \A k \in Keys : over[k].line = "put" => over[k].rec.id <= n

\* A cut-off append concerns only the end of the journal.
LEMMA CutOffLeaves ==
  ASSUME Data, NEW p \in Procs, op[p].key \in Keys, NEW d \in CutOff(p)
  PROVE  /\ d.meta = disk.meta /\ d.snap = disk.snap
         /\ \/ d = disk
            \/ d.jour.over = disk.jour.over /\ d.jour.tail = "torn"
            \/ /\ d.jour.over = Edit(disk.jour.over, op[p].key, Line(p))
               /\ d.jour.tail = IF disk.jour.tail = "torn" THEN "torn" ELSE "bare"
<1>1. disk \in Disk /\ disk.jour \in Journal /\ disk.jour.over \in [Keys -> Change]
  BY TablesTyped DEF Data
<1> DEFINE j == disk.jour
           a == [Appended(j, op[p].key, Line(p)) EXCEPT !.tail = IF j.tail = "torn" THEN "torn" ELSE "bare"]
           b == [j EXCEPT !.tail = "torn"]
<1>2. /\ a.over = Edit(disk.jour.over, op[p].key, Line(p))
      /\ a.tail = IF disk.jour.tail = "torn" THEN "torn" ELSE "bare"
  BY <1>1 DEF Appended, Edit
<1>3. b.over = j.over /\ b.tail = "torn"
  BY <1>1 DEF Journal
<1>4. d = disk \/ d = [disk EXCEPT !.jour = b] \/ d = [disk EXCEPT !.jour = a]
  BY DEF CutOff
<1> HIDE DEF a, b
<1>5. CASE d = [disk EXCEPT !.jour = b]
  BY <1>1, <1>3, <1>5, Rewritten
<1>6. CASE d = [disk EXCEPT !.jour = a]
  BY <1>1, <1>2, <1>6, Rewritten
<1> QED
  BY <1>4, <1>5, <1>6

\* The line of the append in progress has the next identity.
LEMMA WritingLeaves ==
  ASSUME Data, Ids, NEW p \in Procs, Writing(p), op[p] \in Call
  PROVE  JournalIds(Edit(disk.jour.over, op[p].key, Line(p)), writes + 1)
<1>1. Line(p).line = "put" => Line(p).rec.id = writes + 1
  BY DEF Line, NewRec
<1>2. \A k \in Keys : disk.jour.over[k].line = "put" => disk.jour.over[k].rec.id \in Nat
  BY FilesTyped DEF Change, Rec
<1>3. writes \in Nat
  BY DEF Data
<1> QED
  BY <1>1, <1>2, <1>3 DEF JournalIds, Edit, Ids

\* Identities only ever get room.
LEMMA IdsGrow ==
  ASSUME Data, Data', Ids, writes' \in {writes, writes + 1}, expired' = expired,
         \A q \in Procs : IdsUpTo(recs'[q], writes), disk'.snap = disk.snap,
         disk'.jour.over = disk.jour.over \/ JournalIds(disk'.jour.over, writes')
  PROVE  Ids'
<1>1. writes \in Nat /\ writes <= writes'
  BY DEF Data
<1>2. \A k \in Keys : disk.jour.over[k].line = "put" => disk.jour.over[k].rec.id \in Nat
  BY FilesTyped DEF Change, Rec
<1>3. ASSUME NEW t \in Table, IdsUpTo(t, writes) PROVE IdsUpTo(t, writes')
  BY <1>1, <1>3 DEF IdsUpTo, Table, Rec
<1>4. disk.snap \in Table /\ \A q \in Procs : recs'[q] \in Table
  BY DEF Data, Disk
<1>5. \A i \in expired : i \in Nat
  BY DEF Data
<1> QED
  BY <1>1, <1>2, <1>3, <1>4, <1>5 DEF Ids, JournalIds

\* No step breaks Ids.
LEMMA StepIds ==
  ASSUME Base, Ids, [Next]_vars
  PROVE  Ids'
<1> USE DEF Base, Ids
<1>0. Data'
  BY StepBase
<1>1. ASSUME NEW p \in Procs, CallOpen(p) PROVE Ids'
  BY <1>1 DEF CallOpen, Data, env, proc
<1>2. ASSUME NEW p \in Procs, CallPut(p) PROVE Ids'
  BY <1>2 DEF CallPut, Locking, Data, env, proc
<1>3. ASSUME NEW p \in Procs, CallDelete(p) PROVE Ids'
  BY <1>3 DEF CallDelete, Locking, Data, env, proc
<1>4. ASSUME NEW p \in Procs, CallCompact(p) PROVE Ids'
  BY <1>4 DEF CallCompact, Locking, Data, env, proc
<1>5. ASSUME NEW p \in Procs, Get(p) PROVE Ids'
  <2>1. PICK k \in Keys : recs' = [recs EXCEPT ![p][k] = NoRec]
    BY <1>5 DEF Get
  <2>2. recs'[p] = Edit(recs[p], k, NoRec)
    BY <2>1, TablesTyped DEF Data, Edit, Table
  <2> QED
    <3>1. IdsUpTo(recs'[p], writes)
      BY <2>2 DEF IdsUpTo, Edit
    <3>2. \A q \in Procs : q # p => recs'[q] = recs[q]
      BY <2>1 DEF Data
    <3> QED
      BY <1>5, <3>1, <3>2 DEF Get, env
<1>6. ASSUME NEW p \in Procs, Acquire(p) PROVE Ids'
  BY <1>6 DEF Acquire, Data, env, proc
<1>7. ASSUME NEW p \in Procs, AcquireFails(p) PROVE Ids'
  BY <1>7 DEF AcquireFails, Data, env, proc
<1>8. ASSUME NEW p \in Procs, Resync(p) PROVE Ids'
  <2>1. IdsUpTo(recs'[p], writes)
    BY <1>8, TablesTyped, LiveIds, UnexpiredIsLive DEF Resync, Data
  <2>2. \A q \in Procs : q # p => recs'[q] = recs[q]
    BY <1>8 DEF Resync, Data
  <2> QED
    BY <1>8, <2>1, <2>2 DEF Resync, Data, env
<1>9. ASSUME NEW p \in Procs, TakeStamp(p) PROVE Ids'
  BY <1>9 DEF TakeStamp, Data, env, proc
<1>10. ASSUME NEW p \in Procs, ReadMeta(p) PROVE Ids'
  BY <1>10, TablesTyped, LiveIds, ReplayIds, UnexpiredIsLive
     DEF ReadMeta, LoadFails, Data, env, proc
<1>11. ASSUME NEW p \in Procs, ReadSnapshot(p) PROVE Ids'
  BY <1>11, TablesTyped, LiveIds, ReplayIds, UnexpiredIsLive
     DEF ReadSnapshot, Data, env, proc
<1>12. ASSUME NEW p \in Procs, ReadJournal(p) PROVE Ids'
  BY <1>12, TablesTyped, LiveIds, ReplayIds, UnexpiredIsLive
     DEF ReadJournal, Data, env, proc
<1>13. ASSUME NEW p \in Procs, JournalUnreadable(p) PROVE Ids'
  BY <1>13 DEF JournalUnreadable, LoadFails, Data, env, proc
<1>14. ASSUME NEW p \in Procs, PreserveSnapshot(p) PROVE Ids'
  BY <1>14, TablesTyped, LiveIds, ReplayIds, UnexpiredIsLive
     DEF PreserveSnapshot, Data, Mutate, env, proc
<1>15. ASSUME NEW p \in Procs, PreserveJournal(p) PROVE Ids'
  <2>1. disk'.jour = NoJournal /\ disk'.snap = disk.snap
    BY <1>15, Rewritten DEF PreserveJournal, Mutate, Data
  <2>2. \A k \in Keys : NoJournal.over[k].line = "none"
    BY DEF NoJournal, NoChange
  <2> QED
    BY <1>15, <2>1, <2>2 DEF PreserveJournal, Data, env
<1>16. ASSUME NEW p \in Procs, TruncMeta(p) PROVE Ids'
  BY <1>16 DEF TruncMeta, Data, Mutate, env, proc
<1>17. ASSUME NEW p \in Procs, WriteMeta(p) PROVE Ids'
  BY <1>17 DEF WriteMeta, Data, Mutate, env, proc
<1>18. ASSUME NEW p \in Procs, PutConflict(p) PROVE Ids'
  <2>1. op[p].key \in Keys
    BY <1>18, CallFields DEF PutConflict, Control
  <2>2. recs'[p] = Edit(recs[p], op[p].key, Live(recs[p], expired)[op[p].key])
    BY <1>18, <2>1, TablesTyped, UnexpiredIsLive DEF PutConflict, Data, Edit, Table
  <2>3. IdsUpTo(recs'[p], writes)
    BY <2>1, <2>2 DEF IdsUpTo, Edit, Live
  <2> QED
    BY <1>18, <2>3 DEF PutConflict, Data, env
<1>19. ASSUME NEW p \in Procs, PutAppends(p) PROVE Ids'
  <2>1. op[p].key \in Keys /\ NewRec(p) \in Rec
    BY <1>19, CallFields, NewRecTyped DEF PutAppends, Data, Control
  <2>2. [recs[p] EXCEPT ![op[p].key] = NewRec(p)] = Edit(recs[p], op[p].key, NewRec(p))
    BY <2>1, TablesTyped DEF Edit, Table
  <2>3. Edit(recs[p], op[p].key, NewRec(p)) \in Table /\ IdsUpTo(Edit(recs[p], op[p].key, NewRec(p)), writes + 1)
    <3>1. Edit(recs[p], op[p].key, NewRec(p)) \in Table
      BY <2>1, TablesTyped DEF Table, Edit
    <3>2. NewRec(p).id = writes + 1 /\ writes \in Nat
      BY DEF NewRec, Data
    <3>3. \A k \in Keys : recs[p][k] # NoRec => recs[p][k].id <= writes + 1
      BY TablesTyped, LiveIds, <3>2 DEF IdsUpTo
    <3> QED
      BY <3>1, <3>2, <3>3 DEF IdsUpTo, Edit
  <2>4. IdsUpTo(recs'[p], writes + 1)
    BY <1>19, <2>2, <2>3, LiveIds DEF PutAppends, Data
  <2>5. /\ disk'.jour = Appended(disk.jour, op[p].key, Line(p))
        /\ disk'.snap = disk.snap
    BY <1>19, Rewritten DEF PutAppends, Append, Mutate, Data
  <2>6. disk'.jour.over = Edit(disk.jour.over, op[p].key, Line(p))
    BY <2>5, TablesTyped DEF Appended, Edit
  <2>7. JournalIds(disk'.jour.over, writes')
    BY <1>19, <2>6, WritingLeaves DEF PutAppends, Control
  <2> QED
    BY <1>19, <2>4, <2>5, <2>7, TablesTyped, LiveIds DEF PutAppends, Data, JournalIds
<1>20. ASSUME NEW p \in Procs, DeleteAppends(p) PROVE Ids'
  <2>1. op[p].key \in Keys /\ Line(p).line = "del"
    BY <1>20, CallFields DEF DeleteAppends, Line, Control
  <2>2. recs'[p] = Edit(recs[p], op[p].key, NoRec)
    BY <1>20, <2>1, TablesTyped DEF DeleteAppends, Data, Edit, Table
  <2>5. /\ disk'.jour = Appended(disk.jour, op[p].key, Line(p))
        /\ disk'.snap = disk.snap
    BY <1>20, Rewritten DEF DeleteAppends, Append, Mutate, Data
  <2>6. disk'.jour.over = Edit(disk.jour.over, op[p].key, Line(p))
    BY <2>5, TablesTyped DEF Appended, Edit
  <2>7. JournalIds(disk'.jour.over, writes)
    BY <2>1, <2>6 DEF JournalIds, Edit
  <2> QED
    BY <1>20, <2>1, <2>2, <2>5, <2>7, TablesTyped, LiveIds
       DEF DeleteAppends, Data, JournalIds, env
<1>21. ASSUME NEW p \in Procs, DeleteAbsent(p) PROVE Ids'
  BY <1>21 DEF DeleteAbsent, Data, env, proc
<1>22. ASSUME NEW p \in Procs, StartCompact(p) PROVE Ids'
  BY <1>22 DEF StartCompact, Data, env, proc
<1>23. ASSUME NEW p \in Procs, PublishSnapshot(p) PROVE Ids'
  BY <1>23, TablesTyped, LiveIds, ReplayIds, UnexpiredIsLive
     DEF PublishSnapshot, Data, Mutate, env, proc
<1>24. ASSUME NEW p \in Procs, TruncateJournal(p) PROVE Ids'
  <2>1. disk'.jour = NoJournal /\ disk'.snap = disk.snap
    BY <1>24, Rewritten DEF TruncateJournal, Mutate, Data
  <2>2. \A k \in Keys : NoJournal.over[k].line = "none"
    BY DEF NoJournal, NoChange
  <2> QED
    BY <1>24, <2>1, <2>2 DEF TruncateJournal, Data, env
<1>25. ASSUME NEW p \in Procs, Release(p) PROVE Ids'
  BY <1>25 DEF Release, Data, env, proc
<1>26. ASSUME NEW p \in Procs, AppendFails(p) PROVE Ids'
  <2>1. PICK d \in CutOff(p) : disk' = d
    BY <1>26 DEF AppendFails, Mutate
  <2>2. op[p].key \in Keys /\ Writing(p) /\ writes' = writes + 1
    BY <1>26, CallFields DEF AppendFails, Writing, Control
  <2>3. recs'[p] = recs[p] \/ recs'[p] = Edit(recs[p], op[p].key, NoRec)
    BY <1>26, <2>2, TablesTyped DEF AppendFails, Data, Edit, Table
  <2>4. \A q \in Procs : IdsUpTo(recs'[q], writes)
    BY <1>26, <2>2, <2>3, TablesTyped, LiveIds DEF AppendFails, Data
  <2>5. /\ disk'.snap = disk.snap
        /\ \/ disk'.jour.over = disk.jour.over
           \/ disk'.jour.over = Edit(disk.jour.over, op[p].key, Line(p))
    BY <2>1, <2>2, CutOffLeaves
  <2>6. disk'.jour.over = disk.jour.over \/ JournalIds(disk'.jour.over, writes')
    BY <2>2, <2>5, WritingLeaves DEF Control
  <2> QED
    BY <1>0, <1>26, <2>2, <2>4, <2>5, <2>6, IdsGrow DEF AppendFails
<1>27. ASSUME NEW p \in Procs, CompactFails(p) PROVE Ids'
  BY <1>27, TablesTyped, LiveIds, ReplayIds, UnexpiredIsLive
     DEF CompactFails, Data, env, proc
<1>28. ASSUME NEW p \in Procs, Crash(p) PROVE Ids'
  <2>1. IdsUpTo(Empty, writes)
    BY DEF IdsUpTo, Empty
  <2>2. \A q \in Procs : IdsUpTo(recs'[q], writes)
    BY <1>28, <2>1 DEF Crash, Data
  <2>3. CASE Writing(p)
    <3>1. PICK d \in CutOff(p) : disk' = d
      BY <1>28, <2>3 DEF Crash, Mutate
    <3>2. op[p].key \in Keys /\ writes' = writes + 1
      BY <1>28, <2>3, CallFields DEF Crash, Writing, Control
    <3>3. /\ disk'.snap = disk.snap
          /\ \/ disk'.jour.over = disk.jour.over
             \/ disk'.jour.over = Edit(disk.jour.over, op[p].key, Line(p))
      BY <3>1, <3>2, CutOffLeaves
    <3>4. disk'.jour.over = disk.jour.over \/ JournalIds(disk'.jour.over, writes')
      BY <2>3, <3>2, <3>3, WritingLeaves DEF Control
    <3> QED
      BY <1>0, <1>28, <2>2, <3>2, <3>3, <3>4, IdsGrow DEF Crash
  <2>4. CASE ~Writing(p)
    <3>1. disk' = disk /\ writes' = writes
      BY <1>28, <2>4 DEF Crash, Mutate
    <3> QED
      BY <1>0, <1>28, <2>2, <3>1, IdsGrow DEF Crash
  <2> QED
    BY <2>3, <2>4
<1>29. CASE Expire
  <2>1. PICK k \in Expirable, t \in {OnFiles} \cup {recs[p] : p \in Procs} :
          t[k] # NoRec /\ expired' = expired \cup {t[k].id}
    BY <1>29 DEF Expire, OnFiles
  <2>2. IdsUpTo(OnFiles, writes)
    BY ReplayIds DEF Data, Disk, Journal, OnFiles
  <2>3. t[k].id <= writes
    BY <2>1, <2>2, StateStoreAssumption DEF IdsUpTo
  <2> QED
    BY <1>29, <2>1, <2>3 DEF Expire, IdsUpTo, env, proc
<1>30. CASE UNCHANGED vars
  BY <1>30 DEF vars, IdsUpTo, env, proc
<1> QED
  BY <1>1, <1>2, <1>3, <1>4, <1>5, <1>6, <1>7, <1>8, <1>9, <1>10, <1>11, <1>12, <1>13,
     <1>14, <1>15, <1>16, <1>17, <1>18, <1>19, <1>20, <1>21, <1>22, <1>23, <1>24, <1>25,
     <1>26, <1>27, <1>28, <1>29, <1>30
     DEF Next

\* The generation on disk has been minted.
GenerationsKnown == disk.meta # BadMeta => disk.meta \in 1 .. minted

\* Until the first fault the files are whole and only one generation is made.
FirstGeneration ==
  faults = 0 =>
    /\ disk.jour.tail = "whole"
    /\ minted <= 1
    /\ minted = 0 => disk.meta = BadMeta
    /\ minted = 1 => disk.meta # BadMeta \/ \E p \in Procs : pc[p] = "writeMeta"
    /\ \A p \in Procs : pc[p] \in {"preserveSnapshot", "preserveJournal", "truncMeta"} => minted = 0

\* No step breaks what is known about the generations.
LEMMA StepGenerations ==
  ASSUME Inv, [Next]_vars, Roomy, GenerationsKnown, FirstGeneration
  PROVE  GenerationsKnown' /\ FirstGeneration'
<1> USE DEF Inv, Base, OneHolder, Control, Locked, Loading, GenerationsKnown, FirstGeneration, Go, Return, env, proc
<1>1. ASSUME NEW p \in Procs, CallOpen(p) PROVE GenerationsKnown' /\ FirstGeneration'
  BY <1>1 DEF CallOpen, Data
<1>2. ASSUME NEW p \in Procs, CallPut(p) PROVE GenerationsKnown' /\ FirstGeneration'
  BY <1>2 DEF CallPut, Locking, Data
<1>3. ASSUME NEW p \in Procs, CallDelete(p) PROVE GenerationsKnown' /\ FirstGeneration'
  BY <1>3 DEF CallDelete, Locking, Data
<1>4. ASSUME NEW p \in Procs, CallCompact(p) PROVE GenerationsKnown' /\ FirstGeneration'
  BY <1>4 DEF CallCompact, Locking, Data
<1>5. ASSUME NEW p \in Procs, Get(p) PROVE GenerationsKnown' /\ FirstGeneration'
  BY <1>5 DEF Get, Data
<1>6. ASSUME NEW p \in Procs, Acquire(p) PROVE GenerationsKnown' /\ FirstGeneration'
  BY <1>6 DEF Acquire, Data
<1>7. ASSUME NEW p \in Procs, AcquireFails(p) PROVE GenerationsKnown' /\ FirstGeneration'
  BY <1>7 DEF AcquireFails, Data
<1>8. ASSUME NEW p \in Procs, Resync(p) PROVE GenerationsKnown' /\ FirstGeneration'
  BY <1>8, Rewritten DEF Resync, Data
<1>9. ASSUME NEW p \in Procs, TakeStamp(p) PROVE GenerationsKnown' /\ FirstGeneration'
  BY <1>9 DEF TakeStamp, Data
<1>10. ASSUME NEW p \in Procs, ReadMeta(p) PROVE GenerationsKnown' /\ FirstGeneration'
  BY <1>10, Rewritten DEF ReadMeta, LoadFails, Data
<1>11. ASSUME NEW p \in Procs, ReadSnapshot(p) PROVE GenerationsKnown' /\ FirstGeneration'
  BY <1>11, Rewritten DEF ReadSnapshot, Data
<1>12. ASSUME NEW p \in Procs, ReadJournal(p) PROVE GenerationsKnown' /\ FirstGeneration'
  BY <1>12, Rewritten DEF ReadJournal, Data
<1>13. ASSUME NEW p \in Procs, JournalUnreadable(p) PROVE GenerationsKnown' /\ FirstGeneration'
  BY <1>13 DEF JournalUnreadable, LoadFails, Data, JournalLoads, Roomy
<1>14. ASSUME NEW p \in Procs, PreserveSnapshot(p) PROVE GenerationsKnown' /\ FirstGeneration'
  BY <1>14, Rewritten DEF PreserveSnapshot, Data, Mutate
<1>15. ASSUME NEW p \in Procs, PreserveJournal(p) PROVE GenerationsKnown' /\ FirstGeneration'
  BY <1>15, Rewritten DEF PreserveJournal, Mutate, Data, NoJournal
<1>16. ASSUME NEW p \in Procs, TruncMeta(p) PROVE GenerationsKnown' /\ FirstGeneration'
  BY <1>16, Rewritten DEF TruncMeta, Data, Mutate
<1>17. ASSUME NEW p \in Procs, WriteMeta(p) PROVE GenerationsKnown' /\ FirstGeneration'
  <2>1. disk'.meta = minted /\ disk'.jour = disk.jour /\ minted > 0
    BY <1>17, Rewritten DEF WriteMeta, Mutate, Data, InSync, ResetIn
  <2> QED
    BY <1>17, <2>1, StateStoreAssumption DEF WriteMeta, Data
<1>18. ASSUME NEW p \in Procs, PutConflict(p) PROVE GenerationsKnown' /\ FirstGeneration'
  BY <1>18, Rewritten DEF PutConflict, Data
<1>19. ASSUME NEW p \in Procs, PutAppends(p) PROVE GenerationsKnown' /\ FirstGeneration'
  <2>1. disk'.meta = disk.meta /\ disk'.jour = Appended(disk.jour, op[p].key, Line(p))
    BY <1>19, Rewritten DEF PutAppends, Append, Mutate, Data
  <2>2. disk.jour.tail = "whole" => disk'.jour.tail = "whole"
    BY <2>1 DEF Appended
  <2> QED
    BY <1>19, <2>1, <2>2 DEF PutAppends, Append, Data
<1>20. ASSUME NEW p \in Procs, DeleteAppends(p) PROVE GenerationsKnown' /\ FirstGeneration'
  <2>1. disk'.meta = disk.meta /\ disk'.jour = Appended(disk.jour, op[p].key, Line(p))
    BY <1>20, Rewritten DEF DeleteAppends, Append, Mutate, Data
  <2>2. disk.jour.tail = "whole" => disk'.jour.tail = "whole"
    BY <2>1 DEF Appended
  <2> QED
    BY <1>20, <2>1, <2>2 DEF DeleteAppends, Append, Data
<1>21. ASSUME NEW p \in Procs, DeleteAbsent(p) PROVE GenerationsKnown' /\ FirstGeneration'
  BY <1>21 DEF DeleteAbsent, Data
<1>22. ASSUME NEW p \in Procs, StartCompact(p) PROVE GenerationsKnown' /\ FirstGeneration'
  BY <1>22 DEF StartCompact, Data
<1>23. ASSUME NEW p \in Procs, PublishSnapshot(p) PROVE GenerationsKnown' /\ FirstGeneration'
  BY <1>23, Rewritten DEF PublishSnapshot, Data, Mutate
<1>24. ASSUME NEW p \in Procs, TruncateJournal(p) PROVE GenerationsKnown' /\ FirstGeneration'
  BY <1>24, Rewritten DEF TruncateJournal, Mutate, Data, NoJournal
<1>25. ASSUME NEW p \in Procs, Release(p) PROVE GenerationsKnown' /\ FirstGeneration'
  BY <1>25 DEF Release, Data
<1>26. ASSUME NEW p \in Procs, AppendFails(p) PROVE GenerationsKnown' /\ FirstGeneration'
  <2>1. PICK d \in CutOff(p) : disk' = d
    BY <1>26 DEF AppendFails, Mutate
  <2>2. disk'.meta = disk.meta
    BY <1>26, <2>1, CallFields, CutOffLeaves DEF AppendFails, Writing
  <2> QED
    BY <1>26, <2>2 DEF AppendFails, Fault, Data
<1>27. ASSUME NEW p \in Procs, CompactFails(p) PROVE GenerationsKnown' /\ FirstGeneration'
  BY <1>27, Rewritten DEF CompactFails, Data, Fault
<1>28. ASSUME NEW p \in Procs, Crash(p) PROVE GenerationsKnown' /\ FirstGeneration'
  <2>1. PICK d \in IF Writing(p) THEN CutOff(p) ELSE {disk} : disk' = d
    <3>1. ASSUME NEW d, IF d = disk THEN stamp' = [stamp EXCEPT ![p] = "undef"] /\ UNCHANGED disk
                                   ELSE Mutate(p, d, "undef")
          PROVE  disk' = d
      BY <3>1 DEF Mutate
    <3> QED
      BY <1>28, <3>1 DEF Crash
  <2>2. disk'.meta = disk.meta
    BY <2>1, CallFields, CutOffLeaves DEF Writing
  <2> QED
    BY <1>28, <2>2 DEF Crash, Fault, Data
<1>29. CASE Expire
  BY <1>29 DEF Expire
<1>30. CASE UNCHANGED vars
  BY <1>30 DEF vars
<1> QED
  BY <1>1, <1>2, <1>3, <1>4, <1>5, <1>6, <1>7, <1>8, <1>9, <1>10, <1>11, <1>12, <1>13,
     <1>14, <1>15, <1>16, <1>17, <1>18, <1>19, <1>20, <1>21, <1>22, <1>23, <1>24, <1>25,
     <1>26, <1>27, <1>28, <1>29, <1>30
     DEF Next

-----------------------------------------------------------------------------
(* The theorems on safety *)

\* The whole inductive invariant.
IInv == Inv /\ GenerationsKnown /\ FirstGeneration

\* Init establishes the inductive invariant.
LEMMA InitInv == Init => IInv
<1> SUFFICES ASSUME Init PROVE IInv
  OBVIOUS
<1>1. Control /\ Data
  BY InitTyped
<1>2. Base
  BY <1>1 DEF Init, Base, OneHolder, Discipline
<1>3. Ids
  BY DEF Init, Ids, IdsUpTo, Empty, NoJournal, NoChange
<1>4. \A p \in Procs : InSync(p)
  BY DEF Init, InSync, Stamped, ResetIn, Resting
<1>5. GenerationsKnown /\ FirstGeneration
  BY DEF Init, GenerationsKnown, FirstGeneration, NoJournal
<1> QED
  BY <1>2, <1>3, <1>4, <1>5 DEF IInv, Inv

\* No step that respects the capacities breaks it.
LEMMA StepInv == IInv /\ Roomy /\ Roomy' /\ [Next]_vars => IInv'
<1> SUFFICES ASSUME IInv, Roomy, Roomy', [Next]_vars PROVE IInv'
  OBVIOUS
<1> QED
  BY StepBase, StepIds, StepSync, StepGenerations DEF IInv, Inv

\* The inductive invariant holds of every behaviour within the capacities.
THEOREM Invariant == Spec /\ []Roomy => []IInv
<1>1. QED
  BY InitInv, StepInv, PTL DEF Spec

\* OnDisk in the terms of this module.
LEMMA OnDiskIsLive == OnDisk = Live(OnFiles, expired)
BY UnexpiredIsLive DEF OnDisk, OnFiles

\* The inductive invariant implies ActsOnDisk.
LEMMA ActsFollow == IInv => ActsOnDisk
<1> SUFFICES ASSUME IInv, NEW p \in Procs, pc[p] = "act"
             PROVE  Loads /\ epoch[p] = disk.meta /\ Unexpired(recs[p]) = OnDisk /\ lines[p] = disk.jour.lines
  BY DEF ActsOnDisk
<1> QED
  BY OnDiskIsLive, UnexpiredIsLive DEF IInv, Inv, InSync, Stamped, Resting, MemoryIsDisk

\* Every put, delete and compact decides on the table as it is on disk,
\* whatever other processes wrote, compacted or reset meanwhile (_resyncLocked,
\* stateStore.ts).
THEOREM ActsAreOnDisk == Spec /\ []Roomy => []ActsOnDisk
BY Invariant, ActsFollow, PTL

\* A process at rest whose fingerprint still fits the files has the table of
\* the files in memory (the comment on _diskStamp, stateStore.ts).
THEOREM StampedIsDisk == Spec /\ []Roomy => []StampedMemoryIsDisk
<1>1. IInv => StampedMemoryIsDisk
  <2> SUFFICES ASSUME IInv, NEW p \in Procs, pc[p] = "idle", stamp[p] = "current"
               PROVE  Loads /\ epoch[p] = disk.meta /\ Unexpired(recs[p]) = OnDisk
    BY DEF StampedMemoryIsDisk
  <2> QED
    BY OnDiskIsLive, UnexpiredIsLive
       DEF IInv, Inv, InSync, Stamped, Resting, MemoryIsDisk
<1> QED
  BY <1>1, Invariant, PTL

\* Without faults there is never a second generation (open looks again under
\* the lock before it resets, stateStore.ts).
THEOREM OneGenerationHolds == Spec /\ []Roomy => []OneGeneration
<1>1. IInv => OneGeneration
  BY DEF IInv, FirstGeneration, OneGeneration
<1> QED
  BY <1>1, Invariant, PTL

\* Only the holder of the lock writes, and it has compared versions with the
\* table on disk.
LEMMA StepCas ==
  ASSUME IInv, [Next]_vars, NEW p \in Procs,
         pc[p] = "act", writes' # writes, op[p].kind = "put", op[p].cas
  PROVE  op[p].ver = VersionIn(OnDisk, op[p].key)
<1>1. OneHolder /\ Control
  BY DEF IInv, Inv, Base
<1>2. \E q \in Procs : Writing(q)
  BY DEF Next, vars, env, Expire, CallOpen, CallPut, CallDelete, CallCompact, Locking,
     Get, Acquire, AcquireFails, 
         Resync, TakeStamp, ReadMeta, ReadSnapshot, ReadJournal, JournalUnreadable, PreserveSnapshot,
         PreserveJournal, TruncMeta, WriteMeta, PutConflict, PutAppends, DeleteAppends, DeleteAbsent,
         StartCompact, PublishSnapshot, TruncateJournal, Release, AppendFails, CompactFails, Crash
<1>3. Writing(p)
  BY <1>1, <1>2 DEF OneHolder, Control, Locked, Writing
<1>4. Unexpired(recs[p]) = OnDisk
  BY ActsFollow DEF ActsOnDisk
<1> QED
  BY <1>3, <1>4 DEF Writing, Conflict

\* A conditional put writes only over the version its caller expects, on disk
\* and not merely in this process (putIfVersion, stateStore.ts).
THEOREM ConditionalPuts == Spec /\ []Roomy => CasHolds
<1>1. IInv /\ [Next]_vars =>
        [\A p \in Procs : pc[p] = "act" /\ writes' # writes /\ op[p].kind = "put" /\ op[p].cas
           => op[p].ver = VersionIn(OnDisk, op[p].key)]_vars
  BY StepCas
<1> QED
  BY <1>1, Invariant, PTL DEF Spec, CasHolds

-----------------------------------------------------------------------------
(* The store implements VersionedStore *)

\* The table and the past of the promise, in the terms of this module.
TableServed == IF Served THEN Live(OnFiles, expired) ELSE Empty
Past == (1 .. minted) \ (Given \cup {Generation})

\* What a step of the promise amounts to.
LEMMA ShowsNothing ==
  ASSUME TableServed' = TableServed, Generation' = Generation, Past' = Past
  PROVE  [Promise!Next]_Promise!vs
BY OnDiskIsLive DEF Promise!vs, TableServed, Past, OnDisk, OnFiles, Unexpired, Live

\* Nobody else is where p can be only under the lock.
LEMMA Alone ==
  ASSUME Base, NEW p \in holders, NEW q \in Procs, q # p
  PROVE  pc[q] \notin Locked
BY DEF Base, OneHolder, Control

\* A step that leaves the files and the generations alone shows nothing.
LEMMA Unseen ==
  ASSUME Inv, UNCHANGED <<disk, expired, minted>>, Data', Control',
         \A q \in Procs : /\ (pc'[q] = "writeMeta") <=> (pc[q] = "writeMeta")
                          /\ pc[q] = "writeMeta" => epoch'[q] = epoch[q]
                          /\ (pc'[q] = "truncMeta") <=> (pc[q] = "truncMeta")
  PROVE  [Promise!Next]_Promise!vs
<1>1. Given' = Given
  BY DEF Given
<1>2. Served' = Served
  BY DEF Served, Loads
<1>3. Generation' = Generation
  BY <1>2 DEF Generation
<1>4. TableServed' = TableServed
  BY <1>2 DEF TableServed, OnFiles
<1> QED
  BY <1>1, <1>3, <1>4, ShowsNothing DEF Past

\* Records that leave without any other change: Remove.
LEMMA Removing ==
  ASSUME NEW K \in SUBSET Keys, TableServed' = [k \in Keys |-> IF k \in K THEN NoRec ELSE TableServed[k]],
         Generation' = Generation, Past' = Past
  PROVE  [Promise!Next]_Promise!vs
BY DEF Promise!Next, Promise!Remove, TableServed, Past, OnDisk, OnFiles, Unexpired, Live

\* One record with the next version: Put.
LEMMA Putting ==
  ASSUME NEW k \in Keys, NEW r, r # NoRec, r.ver = VersionIn(TableServed, k) + 1,
         TableServed \in Table, TableServed' = Edit(TableServed, k, r),
         Generation # NoEpoch, Generation' = Generation, Past' = Past
  PROVE  [Promise!Next]_Promise!vs
<1>1. TableServed'[k] = r /\ TableServed' = [TableServed EXCEPT ![k] = r]
  BY DEF Edit, Table
<1>2. TableServed = IF Served THEN OnDisk ELSE Empty
  BY OnDiskIsLive DEF TableServed
<1>3. TableServed' = IF Served' THEN OnDisk' ELSE Empty
  BY DEF TableServed, OnDisk, OnFiles, Unexpired, Live
<1>4. Promise!Put(k)
  BY <1>1, <1>2, <1>3 DEF Promise!Put, Promise!VersionIn, VersionIn, Past
<1> QED
  BY <1>4 DEF Promise!Next

\* The table and its generation go: Lose.
LEMMA Losing ==
  ASSUME Generation # NoEpoch, Past' = Past \cup {Generation}, TableServed' = Empty, Generation' = NoEpoch
  PROVE  [Promise!Next]_Promise!vs
<1>1. Promise!Empty = Empty
  BY DEF Promise!Empty, Empty
<1>2. TableServed' = IF Served' THEN OnDisk' ELSE Empty
  BY DEF TableServed, OnDisk, OnFiles, Unexpired, Live
<1>3. Promise!Lose
  BY <1>1, <1>2 DEF Promise!Lose, Past
<1> QED
  BY <1>3 DEF Promise!Next

\* A generation there has never been: Renew.
LEMMA Renewing ==
  ASSUME Generation = NoEpoch, Generation' \notin Past \cup {NoEpoch}, TableServed' = TableServed, Past' = Past
  PROVE  [Promise!Next]_Promise!vs
<1>1. TableServed = IF Served THEN OnDisk ELSE Empty
  BY OnDiskIsLive DEF TableServed
<1>2. TableServed' = IF Served' THEN OnDisk' ELSE Empty
  BY DEF TableServed, OnDisk, OnFiles, Unexpired, Live
<1>3. Promise!Renew
  BY <1>1, <1>2 DEF Promise!Renew, Past
<1> QED
  BY <1>3 DEF Promise!Next

\* While p may change the table, what it has read is what is served.
LEMMA ServedToWriter ==
  ASSUME Inv, NEW p \in Procs, pc[p] \in {"act", "rename", "truncate"}
  PROVE  /\ Served /\ Generation = disk.meta /\ Given = {}
         /\ p \in holders
         /\ TableServed = Live(recs[p], expired)
         /\ TableServed = Live(OnFiles, expired)
<1>1. p \in holders
  BY DEF Inv, Base, Control, Locked
<1>2. Loads /\ Live(recs[p], expired) = Live(OnFiles, expired)
  BY DEF Inv, InSync, Stamped, Resting, MemoryIsDisk
<1>3. \A q \in Procs : pc[q] \notin {"truncMeta", "writeMeta"}
  BY <1>1, Alone DEF Inv, Base, Locked
<1>4. Served /\ Given = {}
  BY <1>2, <1>3 DEF Served, Given
<1> QED
  BY <1>1, <1>2, <1>4 DEF TableServed, Generation

\* An append of p that reaches the disk whole, or all but its newline.
LEMMA Landing ==
  ASSUME IInv, Base', NEW p \in Procs, Writing(p), Roomy',
         disk'.jour.over = Edit(disk.jour.over, op[p].key, Line(p)), disk'.jour.tail # "torn",
         disk'.snap = disk.snap, disk'.meta = disk.meta, expired' = expired, minted' = minted,
         pc'[p] \notin {"truncMeta", "writeMeta"},
         \A q \in Procs \ {p} : pc'[q] = pc[q]
  PROVE  [Promise!Next]_Promise!vs
<1> USE DEF IInv
<1>1. /\ Served /\ Generation = disk.meta /\ Given = {}
      /\ p \in holders
      /\ TableServed = Live(recs[p], expired)
      /\ TableServed = Live(OnFiles, expired)
  BY ServedToWriter DEF Writing
<1>2. /\ op[p].key \in Keys /\ Line(p) \in Change
      /\ recs[p] \in Table /\ disk.snap \in Table /\ disk.jour.over \in [Keys -> Change]
      /\ OnFiles \in Table
  BY CallFields, LineTyped, TablesTyped DEF Inv, Base, Control, Data, Writing, OnFiles
<1>3. \A q \in Procs : pc'[q] \notin {"truncMeta", "writeMeta"}
  BY <1>1, Alone DEF Inv, Base, Locked
<1>4. Served' /\ Generation' = disk.meta /\ Given' = {}
  BY <1>1, <1>3 DEF Served, Loads, JournalLoads, Roomy, Given, Generation
<1>5. Past' = Past
  BY <1>1, <1>4 DEF Past
<1>6. Generation # NoEpoch
  BY <1>1, StateStoreAssumption DEF Inv, Base, Data, Disk, Served, Loads
<1>7. TableServed' = Live(OnFiles', expired)
  BY <1>4 DEF TableServed
<1>8. TableServed \in Table
  BY <1>1, <1>2, LiveTwice
<1>9. CASE op[p].kind = "put"
  <2>1. Line(p).line = "put" /\ Line(p).rec = NewRec(p) /\ NewRec(p) \in Rec
    BY <1>9, NewRecTyped, <1>2 DEF Line, Inv, Base, Control, Data
  <2>2. OnFiles' = Edit(OnFiles, op[p].key, NewRec(p))
    BY <1>2, <2>1, ReplayLine DEF OnFiles
  <2>3. NewRec(p) # NoRec /\ NewRec(p).id \notin expired
    BY <2>1, StateStoreAssumption DEF NewRec, Rec, Inv, Ids, Base, Data
  <2>4. TableServed' = Edit(TableServed, op[p].key, NewRec(p))
    BY <1>1, <1>2, <1>7, <2>2, <2>3 DEF Live, Edit
  <2>5. NewRec(p).ver = VersionIn(TableServed, op[p].key) + 1
    BY <1>1, UnexpiredIsLive DEF NewRec
  <2> QED
    BY <1>1, <1>2, <1>4, <1>5, <1>6, <1>8, <2>3, <2>4, <2>5, Putting
<1>10. CASE op[p].kind = "delete"
  <2>1. Line(p).line = "del"
    BY <1>10 DEF Line
  <2>2. OnFiles' = Edit(OnFiles, op[p].key, NoRec)
    BY <1>2, <2>1, ReplayLine DEF OnFiles
  <2>3. TableServed' = [k \in Keys |-> IF k \in {op[p].key} THEN NoRec ELSE TableServed[k]]
    BY <1>1, <1>2, <1>7, <2>2 DEF Live, Edit
  <2> QED
    BY <1>1, <1>2, <1>4, <1>5, <2>3, Removing
<1> QED
  BY <1>9, <1>10 DEF Writing

\* An append that leaves a fragment: the generation is lost.
LEMMA Tearing ==
  ASSUME IInv, Base', NEW p \in Procs, Writing(p), disk'.jour.tail = "torn", minted' = minted,
         disk'.meta = disk.meta,
         pc'[p] \notin {"truncMeta", "writeMeta"},
         \A q \in Procs \ {p} : pc'[q] = pc[q]
  PROVE  [Promise!Next]_Promise!vs
<1> USE DEF IInv
<1>1. /\ Served /\ Generation = disk.meta /\ Given = {} /\ p \in holders
  BY ServedToWriter DEF Writing
<1>3. \A q \in Procs : pc'[q] \notin {"truncMeta", "writeMeta"}
  BY <1>1, Alone DEF Inv, Base, Locked
<1>4. ~Served' /\ Given' = {}
  BY <1>3 DEF Served, Loads, JournalLoads, Given
<1>5. Generation' = NoEpoch /\ TableServed' = Empty
  BY <1>4 DEF Generation, TableServed
<1>6. Generation # NoEpoch /\ Generation \in 1 .. minted /\ NoEpoch \notin 1 .. minted
  BY <1>1, StateStoreAssumption
     DEF Inv, Base, Data, Disk, Served, Loads, GenerationsKnown
<1>7. Past' = Past \cup {Generation}
  BY <1>1, <1>4, <1>5, <1>6 DEF Past
<1> QED
  BY <1>5, <1>6, <1>7, Losing

\* A cut-off append shows nothing, lands, or tears the journal.
LEMMA CutOffShown ==
  ASSUME IInv, Base', NEW p \in Procs, Writing(p), Roomy', disk' \in CutOff(p),
         expired' = expired, minted' = minted,
         pc'[p] \notin {"truncMeta", "writeMeta"},
         \A q \in Procs \ {p} : pc'[q] = pc[q] /\ epoch'[q] = epoch[q]
  PROVE  [Promise!Next]_Promise!vs
<1>1. Data /\ op[p].key \in Keys /\ Inv /\ Data' /\ Control'
  BY CallFields DEF IInv, Inv, Base, Control, Writing
<1>2. disk.jour.tail # "torn"
  BY ServedToWriter, <1>1 DEF Writing, Served, Loads, JournalLoads
<1>3. CASE disk' = disk
  BY <1>1, <1>3, Unseen DEF Writing
<1>4. CASE disk'.jour.tail = "torn"
  BY <1>1, <1>4, CutOffLeaves, Tearing
<1>5. CASE disk'.jour.tail # "torn" /\ disk' # disk
  BY <1>1, <1>2, <1>5, CutOffLeaves, Landing
<1> QED
  BY <1>3, <1>4, <1>5

\* Every step within the capacities is one of the promise, or shows nothing.
LEMMA StepImplements ==
  ASSUME IInv, IInv', Roomy', [Next]_vars, ResetMayCrash = FALSE
  PROVE  [Promise!Next]_Promise!vs
<1>0. /\ Inv /\ Base /\ Control /\ Data /\ OneHolder
      /\ Base' /\ Control' /\ Data'
  BY DEF IInv, Inv, Base
<1> USE <1>0 DEF Go, Return, env, proc
<1>1. ASSUME NEW p \in Procs, CallOpen(p) PROVE [Promise!Next]_Promise!vs
  BY <1>1, Unseen DEF CallOpen, Control, Data
<1>2. ASSUME NEW p \in Procs, CallPut(p) PROVE [Promise!Next]_Promise!vs
  BY <1>2, Unseen DEF CallPut, Locking, Control, Data
<1>3. ASSUME NEW p \in Procs, CallDelete(p) PROVE [Promise!Next]_Promise!vs
  BY <1>3, Unseen DEF CallDelete, Locking, Control, Data
<1>4. ASSUME NEW p \in Procs, CallCompact(p) PROVE [Promise!Next]_Promise!vs
  BY <1>4, Unseen DEF CallCompact, Locking, Control, Data
<1>5. ASSUME NEW p \in Procs, Get(p) PROVE [Promise!Next]_Promise!vs
  BY <1>5, Unseen DEF Get, Control, Data
<1>6. ASSUME NEW p \in Procs, Acquire(p) PROVE [Promise!Next]_Promise!vs
  BY <1>6, Unseen DEF Acquire, Control, Data
<1>7. ASSUME NEW p \in Procs, AcquireFails(p) PROVE [Promise!Next]_Promise!vs
  BY <1>7, Unseen DEF AcquireFails, Control, Data
<1>8. ASSUME NEW p \in Procs, Resync(p) PROVE [Promise!Next]_Promise!vs
  BY <1>8, Unseen DEF Resync, Control, Data
<1>9. ASSUME NEW p \in Procs, TakeStamp(p) PROVE [Promise!Next]_Promise!vs
  BY <1>9, Unseen DEF TakeStamp, Control, Data
<1>10. ASSUME NEW p \in Procs, ReadMeta(p) PROVE [Promise!Next]_Promise!vs
  BY <1>10, Unseen DEF ReadMeta, LoadFails, Control, Data
<1>11. ASSUME NEW p \in Procs, ReadSnapshot(p) PROVE [Promise!Next]_Promise!vs
  BY <1>11, Unseen DEF ReadSnapshot, Control, Data
<1>12. ASSUME NEW p \in Procs, ReadJournal(p) PROVE [Promise!Next]_Promise!vs
  BY <1>12, Unseen DEF ReadJournal, Control, Data
<1>13. ASSUME NEW p \in Procs, JournalUnreadable(p) PROVE [Promise!Next]_Promise!vs
  BY <1>13, Unseen DEF JournalUnreadable, LoadFails, Control, Data
<1>18. ASSUME NEW p \in Procs, PutConflict(p) PROVE [Promise!Next]_Promise!vs
  BY <1>18, Unseen DEF PutConflict, Control, Data
<1>21. ASSUME NEW p \in Procs, DeleteAbsent(p) PROVE [Promise!Next]_Promise!vs
  BY <1>21, Unseen DEF DeleteAbsent, Control, Data
<1>22. ASSUME NEW p \in Procs, StartCompact(p) PROVE [Promise!Next]_Promise!vs
  BY <1>22, Unseen DEF StartCompact, Control, Data
<1>25. ASSUME NEW p \in Procs, Release(p) PROVE [Promise!Next]_Promise!vs
  BY <1>25, Unseen DEF Release, Control, Data
<1>27. ASSUME NEW p \in Procs, CompactFails(p) PROVE [Promise!Next]_Promise!vs
  BY <1>27, Unseen DEF CompactFails, Control, Data, Fault
<1>14. ASSUME NEW p \in Procs, PreserveSnapshot(p) PROVE [Promise!Next]_Promise!vs
  <2>1. disk'.meta = disk.meta /\ disk'.jour = disk.jour
    BY <1>14, Rewritten DEF PreserveSnapshot, Mutate, Data
  <2>2. ~Loads /\ ~Loads'
    BY <1>14, <2>1 DEF PreserveSnapshot, Inv, InSync, ResetIn, Loads
  <2>3. Given' = Given /\ minted' = minted
    BY <1>14 DEF PreserveSnapshot, Given, Control
  <2> QED
    BY <2>2, <2>3, ShowsNothing DEF Served, Generation, TableServed, Past
<1>15. ASSUME NEW p \in Procs, PreserveJournal(p) PROVE [Promise!Next]_Promise!vs
  <2>1. ~Served /\ ~Served'
    BY <1>15 DEF PreserveJournal, Inv, InSync, ResetIn, Served, Control
  <2>2. Given' = Given /\ minted' = minted
    BY <1>15 DEF PreserveJournal, Given, Control
  <2> QED
    BY <2>1, <2>2, ShowsNothing DEF Generation, TableServed, Past
<1>16. ASSUME NEW p \in Procs, TruncMeta(p) PROVE [Promise!Next]_Promise!vs
  <2>1. ~Served /\ ~Served'
    <3>1. disk'.meta = BadMeta
      BY <1>16, Rewritten DEF TruncMeta, Mutate, Data
    <3> QED
      BY <1>16, <3>1 DEF TruncMeta, Served, Loads
  <2>2. \A q \in Procs \ {p} : pc[q] # "writeMeta"
    BY <1>16, Alone DEF TruncMeta, Control, Locked
  <2>3. Given = {} /\ Given' = {minted + 1} /\ minted' = minted + 1
    BY <1>16, <2>2 DEF TruncMeta, Given, Control, Data
  <2>4. Past' = Past
    BY <2>1, <2>3, StateStoreAssumption DEF Past, Generation, Data
  <2> QED
    BY <2>1, <2>4, ShowsNothing DEF Generation, TableServed
<1>17. ASSUME NEW p \in Procs, WriteMeta(p) PROVE [Promise!Next]_Promise!vs
  <2>1. /\ disk.meta = BadMeta /\ epoch[p] = minted /\ minted > 0
        /\ disk.snap = Empty /\ disk.jour = NoJournal
    BY <1>17 DEF WriteMeta, Inv, InSync, ResetIn
  <2>2. disk'.meta = minted /\ disk'.snap = Empty /\ disk'.jour = NoJournal
    BY <1>17, <2>1, Rewritten DEF WriteMeta, Mutate, Data
  <2>3. \A q \in Procs \ {p} : pc[q] \notin {"truncMeta", "writeMeta"}
    BY <1>17, Alone DEF WriteMeta, Control, Locked
  <2>4. \A q \in Procs : pc'[q] \notin {"truncMeta", "writeMeta"}
    BY <1>17, <2>3 DEF WriteMeta, Control
  <2>5. Given = {minted} /\ Given' = {}
    BY <1>17, <2>1, <2>3, <2>4 DEF WriteMeta, Given, Control
  <2>6. minted' = minted /\ expired' = expired /\ minted \in Nat
    BY <1>17 DEF WriteMeta, Data
  <2>7. Served'
    BY <2>2, <2>4, <2>6, StateStoreAssumption DEF Served, Loads, JournalLoads, NoJournal
  <2>8. ~Served
    BY <2>1 DEF Served, Loads
  <2>9. Generation = NoEpoch /\ Generation' = minted
    BY <2>2, <2>7, <2>8 DEF Generation
  <2>10. Past' = Past /\ minted \notin Past
    BY <2>5, <2>6, <2>9, StateStoreAssumption DEF Past
  <2>11. TableServed' = TableServed
    <3>1. OnFiles' = Empty
      BY <2>2, FilesTyped, ReplayNothing DEF OnFiles
    <3>2. Live(Empty, expired') = Empty
      BY DEF Live, Empty
    <3> QED
      BY <2>7, <2>8, <3>1, <3>2 DEF TableServed
  <2> QED
    BY <2>6, <2>9, <2>10, <2>11, StateStoreAssumption, Renewing
<1>19. ASSUME NEW p \in Procs, PutAppends(p) PROVE [Promise!Next]_Promise!vs
  <2>1. Writing(p) /\ op[p] \in Call /\ op[p].key \in Keys
    BY <1>19, CallFields DEF PutAppends, Writing, Control
  <2>2. /\ disk'.jour = Appended(disk.jour, op[p].key, Line(p))
        /\ disk'.snap = disk.snap /\ disk'.meta = disk.meta
    BY <1>19, Rewritten DEF PutAppends, Append, Mutate, Data
  <2>3. disk.jour.tail # "torn"
    BY <2>1, ServedToWriter DEF Writing, Served, Loads, JournalLoads
  <2>4. disk'.jour.over = Edit(disk.jour.over, op[p].key, Line(p)) /\ disk'.jour.tail # "torn"
    BY <2>2, <2>3, TablesTyped DEF Appended, Edit
  <2>5. /\ pc'[p] \notin {"truncMeta", "writeMeta"}
        /\ \A q \in Procs \ {p} : pc'[q] = pc[q]
        /\ minted' = minted /\ expired' = expired
    BY <1>19 DEF PutAppends, Control
  <2> QED
    BY <2>1, <2>2, <2>4, <2>5, Landing
<1>20. ASSUME NEW p \in Procs, DeleteAppends(p) PROVE [Promise!Next]_Promise!vs
  <2>1. Writing(p) /\ op[p] \in Call /\ op[p].key \in Keys
    BY <1>20, CallFields DEF DeleteAppends, Writing, Control
  <2>2. /\ disk'.jour = Appended(disk.jour, op[p].key, Line(p))
        /\ disk'.snap = disk.snap /\ disk'.meta = disk.meta
    BY <1>20, Rewritten DEF DeleteAppends, Append, Mutate, Data
  <2>3. disk.jour.tail # "torn"
    BY <2>1, ServedToWriter DEF Writing, Served, Loads, JournalLoads
  <2>4. disk'.jour.over = Edit(disk.jour.over, op[p].key, Line(p)) /\ disk'.jour.tail # "torn"
    BY <2>2, <2>3, TablesTyped DEF Appended, Edit
  <2>5. /\ pc'[p] \notin {"truncMeta", "writeMeta"}
        /\ \A q \in Procs \ {p} : pc'[q] = pc[q]
        /\ minted' = minted /\ expired' = expired
    BY <1>20 DEF DeleteAppends, Control
  <2> QED
    BY <2>1, <2>2, <2>4, <2>5, Landing
<1>23. ASSUME NEW p \in Procs, PublishSnapshot(p) PROVE [Promise!Next]_Promise!vs
  <2>1. /\ Served /\ Generation = disk.meta /\ Given = {} /\ p \in holders
        /\ TableServed = Live(recs[p], expired) /\ TableServed = Live(OnFiles, expired)
    BY <1>23, ServedToWriter DEF PublishSnapshot
  <2>2. disk'.snap = Live(recs[p], expired) /\ disk'.meta = disk.meta /\ disk'.jour = disk.jour
    BY <1>23, Rewritten, UnexpiredIsLive DEF PublishSnapshot, Mutate, Data
  <2>3. \A q \in Procs : pc'[q] \notin {"truncMeta", "writeMeta"}
    BY <1>23, <2>1, Alone DEF PublishSnapshot, Control, Locked
  <2>4. Served' /\ Given' = {} /\ Generation' = disk.meta /\ minted' = minted
    BY <1>23, <2>1, <2>2, <2>3, StateStoreAssumption
       DEF PublishSnapshot, Served, Loads, JournalLoads, NoJournal, Given, Generation
  <2>5. Live(OnFiles', expired) = Live(recs[p], expired)
    <3>1. Live(recs[p], expired) = Live(Replay(disk.snap, disk.jour.over), expired)
      BY <2>1 DEF OnFiles
    <3>2. Live(Replay(Live(recs[p], expired), disk.jour.over), expired) = Live(recs[p], expired)
      BY <3>1, TablesTyped, Rebased
    <3> QED
      BY <2>2, <3>2 DEF OnFiles
  <2>6. TableServed' = TableServed
    BY <1>23, <2>1, <2>4, <2>5 DEF TableServed, PublishSnapshot
  <2> QED
    BY <2>1, <2>4, <2>6, ShowsNothing DEF Past
<1>24. ASSUME NEW p \in Procs, TruncateJournal(p) PROVE [Promise!Next]_Promise!vs
  <2>1. /\ Served /\ Generation = disk.meta /\ Given = {} /\ p \in holders
        /\ TableServed = Live(OnFiles, expired) /\ Live(disk.snap, expired) = Live(OnFiles, expired)
    BY <1>24, ServedToWriter DEF TruncateJournal, Inv, InSync, Stamped
  <2>2. disk'.snap = disk.snap /\ disk'.meta = disk.meta /\ disk'.jour = NoJournal
    BY <1>24, Rewritten DEF TruncateJournal, Mutate, Data
  <2>3. \A q \in Procs : pc'[q] \notin {"truncMeta", "writeMeta"}
    BY <1>24, <2>1, Alone DEF TruncateJournal, Control, Locked
  <2>4. Served' /\ Given' = {} /\ Generation' = disk.meta /\ minted' = minted
    BY <1>24, <2>1, <2>2, <2>3, StateStoreAssumption
       DEF TruncateJournal, Served, Loads, JournalLoads, NoJournal, Given, Generation
  <2>5. OnFiles' = disk.snap
    BY <2>2, FilesTyped, ReplayNothing DEF OnFiles
  <2>6. TableServed' = TableServed
    BY <1>24, <2>1, <2>4, <2>5 DEF TableServed, TruncateJournal
  <2> QED
    BY <2>1, <2>4, <2>6, ShowsNothing DEF Past
<1>26. ASSUME NEW p \in Procs, AppendFails(p) PROVE [Promise!Next]_Promise!vs
  <2>1. Writing(p) /\ disk' \in CutOff(p)
    BY <1>26 DEF AppendFails, Mutate
  <2> QED
    BY <1>26, <2>1, CutOffShown DEF AppendFails, Control
<1>28. ASSUME NEW p \in Procs, Crash(p) PROVE [Promise!Next]_Promise!vs
  <2>1. PICK d \in IF Writing(p) THEN CutOff(p) ELSE {disk} : disk' = d
    <3>1. ASSUME NEW d, IF d = disk THEN stamp' = [stamp EXCEPT ![p] = "undef"] /\ UNCHANGED disk
                                   ELSE Mutate(p, d, "undef")
          PROVE  disk' = d
      BY <3>1 DEF Mutate
    <3> QED
      BY <1>28, <3>1 DEF Crash
  <2>2. /\ pc[p] \notin {"truncMeta", "writeMeta"} /\ pc'[p] = "down"
        /\ \A q \in Procs \ {p} : pc'[q] = pc[q] /\ epoch'[q] = epoch[q]
        /\ expired' = expired /\ minted' = minted
    BY <1>28 DEF Crash, Resetting, Control, Data
  <2>3. CASE Writing(p)
    BY <2>1, <2>2, <2>3, CutOffShown
  <2>4. CASE ~Writing(p)
    BY <2>1, <2>2, <2>4, Unseen
  <2> QED
    BY <2>3, <2>4
<1>29. ASSUME Expire PROVE [Promise!Next]_Promise!vs
  <2>1. /\ UNCHANGED <<pc, epoch, disk, minted>> /\ expired \subseteq expired'
    BY <1>29 DEF Expire
  <2>2. Served' = Served /\ Given' = Given /\ OnFiles' = OnFiles
    BY <2>1 DEF Served, Loads, Given, OnFiles
  <2>3. Generation' = Generation /\ Past' = Past
    BY <2>1, <2>2 DEF Generation, Past
  <2>4. CASE ~Served
    BY <2>2, <2>3, <2>4, ShowsNothing DEF TableServed
  <2>5. CASE Served
    <3> DEFINE gone == {k \in Keys : OnFiles[k] # NoRec /\ OnFiles[k].id \in expired'}
    <3>1. TableServed' = [k \in Keys |-> IF k \in gone THEN NoRec ELSE TableServed[k]]
      BY <2>1, <2>2, <2>5 DEF TableServed, Live
    <3> QED
      BY <2>3, <3>1, Removing
  <2> QED
    BY <2>4, <2>5
<1>30. CASE UNCHANGED vars
  BY <1>30, Unseen DEF vars
<1> QED
  BY <1>1, <1>2, <1>3, <1>4, <1>5, <1>6, <1>7, <1>8, <1>9, <1>10, <1>11, <1>12, <1>13,
     <1>14, <1>15, <1>16, <1>17, <1>18, <1>19, <1>20, <1>21, <1>22, <1>23, <1>24, <1>25,
     <1>26, <1>27, <1>28, <1>29, <1>30
     DEF Next

\* A store nobody has opened has promised nothing.
LEMMA InitImplements == Init => Promise!Init
<1> SUFFICES ASSUME Init PROVE Promise!Init
  OBVIOUS
<1>1. ~Served
  BY DEF Init, Served, Loads
<1>2. Generation = NoEpoch /\ (1 .. minted) = {}
  BY <1>1 DEF Generation, Init
<1> QED
  BY <1>1, <1>2 DEF Promise!Init, Promise!Empty, Empty

\* The store keeps the promise of VersionedStore: records change only to the
\* next version, and whatever is lost is lost together with the generation
\* (stateStore.ts), unless a process is killed in the middle of a reset.
THEOREM Implementation ==
  ASSUME ResetMayCrash = FALSE
  PROVE  Spec /\ []Roomy => Implements
<1>1. IInv /\ IInv' /\ Roomy' /\ [Next]_vars => [Promise!Next]_Promise!vs
  BY StepImplements
<1> QED
  BY <1>1, InitImplements, Invariant, PTL DEF Spec, Implements, Promise!Spec

=============================================================================
