----------------------------- MODULE EditBatch -----------------------------
(***************************************************************************)
(* One call of applyEditsMulti (packages/mcp-server/src/tools/             *)
(* applyEditsMulti.ts) per server process, on files that the processes     *)
(* share with each other and with a user's editor.                         *)
(*                                                                         *)
(* The function is synchronous, but every file operation is a step of its  *)
(* own for the others.  The content of a file is the set of edits in it;   *)
(* an edit of the item r of process p is <<p, r>>.  A temporary file and   *)
(* the rename or link that publishes it are one step: nobody else opens    *)
(* the temporary name.                                                     *)
(***************************************************************************)
EXTENDS Naturals, FiniteSets, Sequences

CONSTANTS
  Procs,     \* server processes, each with one batch
  Items,     \* the batch of a process: the distinct paths, as spelled
  AbsOf,     \* path.resolve of a spelling
  Creates,   \* the spellings that come with create:true
  Old,       \* the files that exist at first
  NoFile,    \* stands for the content of a file that is not there
  User,      \* an edit made in the editor
  NoLink,    \* the creates into a directory without hard links
  MaxUser,   \* bound: edits and deletions by the user
  MaxFaults  \* bound: failed writes and kills

Rels == UNION {{Items[p][i] : i \in DOMAIN Items[p]} : p \in Procs}
Files == {AbsOf[r] : r \in Rels}
Edits == (Procs \X Rels) \cup {User}
Absent == {NoFile}

ASSUME EditBatchAssumption ==
  /\ \A p \in Procs : Items[p] \in Seq(Rels) \ {<< >>}
  /\ \A p \in Procs : \A i, j \in DOMAIN Items[p] : Items[p][i] = Items[p][j] => i = j
  /\ Old \subseteq Files
  /\ NoFile \notin Edits /\ User \notin Procs \X Rels
  /\ NoLink \subseteq Creates /\ Creates \subseteq Rels
  /\ MaxUser \in Nat /\ MaxFaults \in Nat

VARIABLES
  pc,       \* phase or outcome of each batch
  at,       \* index of the item it works on
  existing, \* existingContent of the items validated so far
  ledger,   \* rollback: state of the files undone so far
  disk,     \* content of each file
  deleted,  \* history: the files the user deleted
  moves,    \* user moves so far
  faults

vars == <<pc, at, existing, ledger, disk, deleted, moves, faults>>

Content == (SUBSET Edits) \cup {Absent}
Rows == {"rolled-back", "restore-failed", "removed", "remove-failed"}
FailedRows == {"restore-failed", "remove-failed"}
Outcomes == {"ok", "refused", "cancelled", "write-error", "rollback-failed", "killed"}

TypeOK ==
  /\ pc \in [Procs -> {"phase1", "commit", "phase2", "rollback"} \cup Outcomes]
  /\ \A p \in Procs : at[p] \in DOMAIN Items[p]
  /\ \A p \in Procs : existing[p] \in Seq(Content)
  /\ \A p \in Procs : DOMAIN ledger[p] \subseteq Files /\ \A f \in DOMAIN ledger[p] : ledger[p][f] \in Rows
  /\ \A p \in Procs : pc[p] \in {"phase2", "rollback", "ok"} => Len(existing[p]) = Len(Items[p])
  /\ disk \in [Files -> Content]
  /\ deleted \subseteq Files
  /\ moves \in 0..MaxUser
  /\ faults \in 0..MaxFaults

Init ==
  /\ pc = [p \in Procs |-> "phase1"]
  /\ at = [p \in Procs |-> 1]
  /\ existing = [p \in Procs |-> << >>]
  /\ ledger = [p \in Procs |-> << >>]
  /\ disk = [f \in Files |-> IF f \in Old THEN {} ELSE Absent]
  /\ deleted = {}
  /\ moves = 0
  /\ faults = 0

-----------------------------------------------------------------------------
(* Phase 1: validate every item, in memory *)

Item(p) == Items[p][at[p]]
File(p) == AbsOf[Item(p)]

\* validateCreateTarget, or the read of an existing file.
Valid(p) == Item(p) \in Creates <=> disk[File(p)] = Absent

ValidateStopsEarly(p) ==
  /\ pc[p] = "phase1"
  /\ Valid(p)
  /\ existing' = [existing EXCEPT ![p] = Append(@, disk[File(p)])]
  /\ IF at[p] + 1 >= Len(Items[p])
       THEN pc' = [pc EXCEPT ![p] = "commit"] /\ UNCHANGED at
       ELSE at' = [at EXCEPT ![p] = @ + 1] /\ UNCHANGED pc
  /\ UNCHANGED <<ledger, disk, deleted, moves, faults>>

Validate(p) ==
  /\ pc[p] = "phase1"
  /\ Valid(p)
  /\ existing' = [existing EXCEPT ![p] = Append(@, disk[File(p)])]
  /\ IF at[p] = Len(Items[p])
       THEN pc' = [pc EXCEPT ![p] = "commit"] /\ UNCHANGED at
       ELSE at' = [at EXCEPT ![p] = @ + 1] /\ UNCHANGED pc
  /\ UNCHANGED <<ledger, disk, deleted, moves, faults>>

\* Not found, already there, or (when valid) a search without a match, a
\* stale anchor, a file too large.
Refuse(p) ==
  /\ pc[p] = "phase1"
  /\ pc' = [pc EXCEPT ![p] = "refused"]
  /\ UNCHANGED <<at, existing, ledger, disk, deleted, moves, faults>>

\* COMMIT POINT: throwIfRequestCancelled.
Commit(p) ==
  /\ pc[p] = "commit"
  /\ pc' = [pc EXCEPT ![p] = "phase2"]
  /\ at' = [at EXCEPT ![p] = 1]
  /\ UNCHANGED <<existing, ledger, disk, deleted, moves, faults>>

Cancel(p) ==
  /\ pc[p] = "commit"
  /\ pc' = [pc EXCEPT ![p] = "cancelled"]
  /\ UNCHANGED <<at, existing, ledger, disk, deleted, moves, faults>>

-----------------------------------------------------------------------------
(* Phase 2: write *)

Written(p, i) == (IF existing[p][i] = Absent THEN {} ELSE existing[p][i]) \cup {<<p, Items[p][i]>>}

AdvanceStopsEarly(p) ==
  IF at[p] + 1 >= Len(Items[p])
    THEN pc' = [pc EXCEPT ![p] = "ok"] /\ UNCHANGED at
    ELSE at' = [at EXCEPT ![p] = @ + 1] /\ UNCHANGED pc

\* After the last file the checkpoint follows, which changes no outcome.
Advance(p) ==
  IF at[p] = Len(Items[p])
    THEN pc' = [pc EXCEPT ![p] = "ok"] /\ UNCHANGED at
    ELSE at' = [at EXCEPT ![p] = @ + 1] /\ UNCHANGED pc

\* writeExistingFileAtomic: the rename replaces whatever is there.
Write(p) ==
  /\ pc[p] = "phase2"
  /\ Item(p) \notin Creates
  /\ disk' = [disk EXCEPT ![File(p)] = Written(p, at[p])]
  /\ Advance(p)
  /\ UNCHANGED <<existing, ledger, deleted, moves, faults>>

\* publishNewFile: link, or open with wx, never replaces.
PublishReplaces(p) ==
  /\ pc[p] = "phase2"
  /\ Item(p) \in Creates
  /\ disk' = [disk EXCEPT ![File(p)] = Written(p, at[p])]
  /\ Advance(p)
  /\ UNCHANGED <<existing, ledger, deleted, moves, faults>>

Publish(p) ==
  /\ pc[p] = "phase2"
  /\ Item(p) \in Creates
  /\ disk[File(p)] = Absent
  /\ disk' = [disk EXCEPT ![File(p)] = Written(p, at[p])]
  /\ Advance(p)
  /\ UNCHANGED <<existing, ledger, deleted, moves, faults>>

\* The files to undo: all that were tried but the one that failed.
Undo(p) == {AbsOf[Items[p][i]] : i \in 1..at[p]} \ {File(p)}

FailedOutcome(p, rows) ==
  IF \E f \in DOMAIN rows : rows[f] \in FailedRows THEN "rollback-failed" ELSE "write-error"

FailSkipsRollback(p) ==
  /\ pc' = [pc EXCEPT ![p] = "write-error"]
  /\ UNCHANGED <<at, existing, ledger, deleted, moves>>

\* The catch of a failed write.
Fail(p) ==
  /\ pc' = [pc EXCEPT ![p] = IF Undo(p) = {} THEN "write-error" ELSE "rollback"]
  /\ UNCHANGED <<at, existing, ledger, deleted, moves>>

Faulty == faults < MaxFaults /\ faults' = faults + 1

\* The temporary file cannot be written, or the rename or link fails.
WriteFails(p) ==
  /\ pc[p] = "phase2"
  /\ Faulty
  /\ UNCHANGED disk
  /\ Fail(p)

\* Something took the name since phase 1.
PublishFindsFile(p) ==
  /\ pc[p] = "phase2"
  /\ Item(p) \in Creates
  /\ disk[File(p)] # Absent
  /\ UNCHANGED <<disk, faults>>
  /\ Fail(p)

\* Without hard links the file is opened in place, and a write that fails
\* leaves the part that was written.
PublishTorn(p) ==
  /\ pc[p] = "phase2"
  /\ Item(p) \in NoLink
  /\ disk[File(p)] = Absent
  /\ Faulty
  /\ disk' = [disk EXCEPT ![File(p)] = {<<p, Item(p)>>}]
  /\ Fail(p)

-----------------------------------------------------------------------------
(* Rollback *)

Positions(p, f) == {i \in 1..at[p] : AbsOf[Items[p][i]] = f}

\* originalContents: the entry of a file stands where it was first set and
\* holds what was set last.
First(p, f) == CHOOSE i \in Positions(p, f) : \A j \in Positions(p, f) : i <= j
Last(p, f) == CHOOSE i \in Positions(p, f) : \A j \in Positions(p, f) : j <= i

NextUndo(p) ==
  LET rest == Undo(p) \ DOMAIN ledger[p]
  IN  CHOOSE f \in rest : \A g \in rest : First(p, f) <= First(p, g)

WasCreate(p, f) == Items[p][Last(p, f)] \in Creates

Note(p, f, row) ==
  LET rows == [g \in DOMAIN ledger[p] \cup {f} |-> IF g = f THEN row ELSE ledger[p][g]]
  IN  /\ ledger' = [ledger EXCEPT ![p] = rows]
      /\ pc' = IF DOMAIN rows = Undo(p) THEN [pc EXCEPT ![p] = FailedOutcome(p, rows)] ELSE pc
      /\ UNCHANGED <<at, existing, deleted, moves>>

Restore(p) ==
  /\ pc[p] = "rollback"
  /\ LET f == NextUndo(p)
     IN  /\ ~WasCreate(p, f)
         /\ disk' = [disk EXCEPT ![f] = existing[p][Last(p, f)]]
         /\ Note(p, f, "rolled-back")
  /\ UNCHANGED faults

RestoreFails(p) ==
  /\ pc[p] = "rollback"
  /\ Faulty
  /\ LET f == NextUndo(p) IN ~WasCreate(p, f) /\ Note(p, f, "restore-failed")
  /\ UNCHANGED disk

\* ENOENT counts as removed.
Remove(p) ==
  /\ pc[p] = "rollback"
  /\ LET f == NextUndo(p)
     IN  /\ WasCreate(p, f)
         /\ disk' = [disk EXCEPT ![f] = Absent]
         /\ Note(p, f, "removed")
  /\ UNCHANGED faults

RemoveFailsSaysRemoved(p) ==
  /\ pc[p] = "rollback"
  /\ Faulty
  /\ LET f == NextUndo(p)
     IN  WasCreate(p, f) /\ disk[f] # Absent /\ Note(p, f, "removed")
  /\ UNCHANGED disk

RemoveFails(p) ==
  /\ pc[p] = "rollback"
  /\ Faulty
  /\ LET f == NextUndo(p)
     IN  WasCreate(p, f) /\ disk[f] # Absent /\ Note(p, f, "remove-failed")
  /\ UNCHANGED disk

-----------------------------------------------------------------------------
(* The others *)

Kill(p) ==
  /\ pc[p] \notin Outcomes
  /\ Faulty
  /\ pc' = [pc EXCEPT ![p] = "killed"]
  /\ UNCHANGED <<at, existing, ledger, disk, deleted, moves>>

UserSaves(f) ==
  /\ moves < MaxUser
  /\ moves' = moves + 1
  /\ disk' = [disk EXCEPT ![f] = IF @ = Absent THEN {User} ELSE @ \cup {User}]
  /\ UNCHANGED <<pc, at, existing, ledger, deleted, faults>>

UserDeletes(f) ==
  /\ moves < MaxUser
  /\ disk[f] # Absent
  /\ moves' = moves + 1
  /\ disk' = [disk EXCEPT ![f] = Absent]
  /\ deleted' = deleted \cup {f}
  /\ UNCHANGED <<pc, at, existing, ledger, faults>>

Next ==
  \/ \E p \in Procs :
       \/ Validate(p) \/ Refuse(p) \/ Commit(p) \/ Cancel(p)
       \/ Write(p) \/ WriteFails(p)
       \/ Publish(p) \/ PublishFindsFile(p) \/ PublishTorn(p)
       \/ Restore(p) \/ RestoreFails(p) \/ Remove(p) \/ RemoveFails(p)
       \/ Kill(p)
  \/ \E f \in Files : UserSaves(f) \/ UserDeletes(f)

Spec == Init /\ [][Next]_vars

-----------------------------------------------------------------------------
(* Properties *)

\* The files that hold an edit of p.
Touched(p) == {f \in Files : disk[f] # Absent /\ \E r \in Rels : <<p, r>> \in disk[f]}

\* The path a write error names, when part of a create may have stayed there.
Torn(p) == IF pc[p] = "write-error" /\ Item(p) \in NoLink THEN {File(p)} ELSE {}

\* All or nothing, the nothing: a batch that says it was refused, cancelled
\* or rolled back has left none of its bytes in any file, but for the create
\* that failed in place.
NoResidue ==
  \A p \in Procs : pc[p] \in {"refused", "cancelled", "write-error"} => Touched(p) \subseteq Torn(p)

\* All or nothing, the all: after a success every item is in its file,
\* unless the user has deleted it.
LandsWhole ==
  \A p \in Procs : pc[p] = "ok" =>
    \A i \in DOMAIN Items[p] :
      AbsOf[Items[p][i]] \in deleted \/ <<p, Items[p][i]>> \in disk[AbsOf[Items[p][i]]]

\* The ledger of a failed rollback is the truth: a file that still holds an
\* edit is in a failed row or is the path the error names.
LedgerTrue ==
  \A p \in Procs : pc[p] = "rollback-failed" =>
    Touched(p) \subseteq {f \in DOMAIN ledger[p] : ledger[p][f] \in FailedRows} \cup {File(p)}

\* A create never replaces what somebody else put under its name after it
\* was validated.
CreateNeverReplaces ==
  [][\A f \in {AbsOf[r] : r \in Creates} \ Old :
       disk[f] # Absent /\ disk'[f] # Absent => disk[f] \subseteq disk'[f]]_vars
=============================================================================
