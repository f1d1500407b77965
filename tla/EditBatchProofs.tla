-------------------------- MODULE EditBatchProofs --------------------------
(***************************************************************************)
(* A batch of edits is all or nothing, or says what it left behind: for    *)
(* any number of servers, any batches and any number of failures, kills    *)
(* and moves of the user.                                                  *)
(*                                                                         *)
(* The code does not compare content after phase 1 and does not merge two  *)
(* spellings of one path, so the theorems about content have two premises: *)
(* OneSpelling and MeetInCreates.  The argument: no file ever holds edits  *)
(* of two batches; hence what phase 1 read and what a rollback puts back   *)
(* holds none, and for every item it can be said, from the phase, the      *)
(* index and the ledger alone, whether its edit may be in its file         *)
(* (MayStand) and whether it must be there (MustStand).                    *)
(***************************************************************************)
EXTENDS EditBatch, TLAPS, WellFoundedInduction

-----------------------------------------------------------------------------
(* The premises *)

\* No batch spells one path in two ways.
OneSpelling ==
  \A p \in Procs : \A i, j \in DOMAIN Items[p] :
    AbsOf[Items[p][i]] = AbsOf[Items[p][j]] => i = j

\* Two batches meet only in a file that both create.
MeetInCreates ==
  \A p, q \in Procs : p # q =>
    \A i \in DOMAIN Items[p] : \A j \in DOMAIN Items[q] :
      AbsOf[Items[p][i]] = AbsOf[Items[q][j]] => Items[p][i] \in Creates /\ Items[q][j] \in Creates

-----------------------------------------------------------------------------
(* The invariant *)

Phases == {"phase1", "commit", "phase2", "rollback"} \cup Outcomes
Ledgers == UNION {[D -> Rows] : D \in SUBSET Files}

Shape ==
  /\ pc \in [Procs -> Phases]
  /\ at \in [Procs -> Nat]
  /\ existing \in [Procs -> Seq(Content)]
  /\ ledger \in [Procs -> Ledgers]
  /\ disk \in [Files -> Content]
  /\ deleted \subseteq Files
  /\ moves \in 0..MaxUser
  /\ faults \in 0..MaxFaults

\* How far a batch is: what it has read, and that a rollback has a file left.
StageOf(p) ==
  /\ at[p] \in DOMAIN Items[p]
  /\ pc[p] = "phase1" => Len(existing[p]) = at[p] - 1
  /\ pc[p] \in {"commit", "phase2", "rollback", "ok"} => Len(existing[p]) = Len(Items[p])
  /\ pc[p] \in {"phase1", "commit", "phase2"} => DOMAIN ledger[p] = {}
  /\ pc[p] = "rollback" => DOMAIN ledger[p] \subseteq Undo(p) /\ DOMAIN ledger[p] # Undo(p)

Typed == Shape /\ \A p \in Procs : StageOf(p)

\* What phase 1 read: no file for a create, else a file without edits of a batch.
ReadClean(p) ==
  \A i \in DOMAIN existing[p] :
    IF Items[p][i] \in Creates THEN existing[p][i] = Absent ELSE existing[p][i] \subseteq {User}

FailedRow(p, f) == f \in DOMAIN ledger[p] /\ ledger[p][f] \in FailedRows

\* When the edit of the item i may be in its file.
MayStand(p, i) ==
  /\ pc[p] \notin {"phase1", "commit", "refused", "cancelled"}
  /\ pc[p] = "phase2" => i < at[p]
  /\ pc[p] = "write-error" => i = at[p] /\ Items[p][i] \in NoLink
  /\ pc[p] = "rollback" =>
       \/ i = at[p] /\ Items[p][i] \in NoLink
       \/ i < at[p] /\ (AbsOf[Items[p][i]] \in DOMAIN ledger[p] => FailedRow(p, AbsOf[Items[p][i]]))
  /\ pc[p] = "rollback-failed" => i = at[p] \/ FailedRow(p, AbsOf[Items[p][i]])

Holds(p, f) ==
  \A r \in Rels : <<p, r>> \in disk[f] =>
    \E i \in DOMAIN Items[p] : r = Items[p][i] /\ f = AbsOf[Items[p][i]] /\ MayStand(p, i)

\* When it must be there, unless the user has deleted the file.
MustStand(p, i) ==
  \/ pc[p] = "phase2" /\ i < at[p]
  \/ pc[p] = "ok"
  \/ pc[p] = "rollback" /\ i < at[p] /\ AbsOf[Items[p][i]] \notin DOMAIN ledger[p]

Lands(p, i) ==
  MustStand(p, i) =>
    AbsOf[Items[p][i]] \in deleted \/ <<p, Items[p][i]>> \in disk[AbsOf[Items[p][i]]]

\* No file holds edits of two batches.
AloneIn(p, q, f) ==
  \A r, s \in Rels : <<p, r>> \in disk[f] /\ <<q, s>> \in disk[f] => p = q

Inv ==
  /\ Typed
  /\ \A p \in Procs : ReadClean(p)
  /\ \A p \in Procs : \A f \in Files : Holds(p, f)
  /\ \A p \in Procs : \A i \in DOMAIN Items[p] : Lands(p, i)
  /\ \A p, q \in Procs : \A f \in Files : AloneIn(p, q, f)

-----------------------------------------------------------------------------
(* Least and greatest numbers, which First, Last and NextUndo choose *)

\* A nonempty set of numbers has a least element.
LEMMA Least ==
  ASSUME NEW S, S \subseteq Nat, S # {}
  PROVE  \E m \in S : \A n \in S : m <= n
<1> DEFINE R == OpToRel(<, Nat)
<1>1. \A x, y \in Nat : x < y => <<x, y>> \in R
  BY DEF OpToRel
<1>2. IsWellFoundedOn(R, Nat)
  BY NatLessThanWellFounded
<1> HIDE DEF R
<1>3. PICK m \in S : \A n \in S : ~ (<<n, m>> \in R)
  BY <1>2, WFMin
<1>4. \A n \in S : ~ (n < m)
  BY <1>1, <1>3
<1>5. m \in Nat /\ \A n \in S : n \in Nat
  BY <1>3
<1>6. \A n \in S : m <= n
  BY <1>4, <1>5
<1> QED
  BY <1>6

\* A nonempty set of numbers up to N has a greatest element.
LEMMA Greatest ==
  ASSUME NEW N \in Nat, NEW S, S \subseteq 1..N, S # {}
  PROVE  \E m \in S : \A n \in S : n <= m
<1> DEFINE T == {N - n : n \in S}
<1>1. T \subseteq Nat /\ T # {}
  <2>1. \A n \in S : n \in 1..N /\ N - n \in Nat
    OBVIOUS
  <2>2. PICK s : s \in S
    OBVIOUS
  <2>3. N - s \in T
    BY <2>2
  <2> QED
    BY <2>1, <2>3
<1>2. PICK t \in T : \A u \in T : t <= u
  BY <1>1, Least
<1>3. PICK m \in S : t = N - m
  BY <1>2
<1>4. \A n \in S : N - m <= N - n
  BY <1>2, <1>3
<1> QED
  BY <1>4

-----------------------------------------------------------------------------
(* The item a batch works on, and the files it undoes *)

\* The item at hand is one of the batch, its file one of the files.
LEMMA ItemFacts ==
  ASSUME Typed, NEW p \in Procs
  PROVE  /\ Len(Items[p]) \in Nat /\ DOMAIN Items[p] = 1..Len(Items[p])
         /\ at[p] \in 1..Len(Items[p])
         /\ Item(p) \in Rels /\ File(p) \in Files
         /\ \A i \in DOMAIN Items[p] : Items[p][i] \in Rels /\ AbsOf[Items[p][i]] \in Files
<1>1. Items[p] \in Seq(Rels)
  BY EditBatchAssumption
<1>2. /\ Len(Items[p]) \in Nat /\ DOMAIN Items[p] = 1..Len(Items[p])
      /\ \A i \in DOMAIN Items[p] : Items[p][i] \in Rels
  BY <1>1
<1>3. at[p] \in DOMAIN Items[p]
  BY DEF Typed, StageOf
<1> QED
  BY <1>2, <1>3 DEF Item, File, Files

\* A file to undo is not the one that failed, and has a place in the batch.
LEMMA UndoFacts ==
  ASSUME Typed, NEW p \in Procs
  PROVE  /\ Undo(p) \subseteq Files
         /\ \A f \in Undo(p) : f # File(p) /\ Positions(p, f) # {}
         /\ \A f : Positions(p, f) \subseteq 1..at[p] /\ Positions(p, f) \subseteq Nat
<1>1. at[p] \in Nat /\ 1..at[p] \subseteq DOMAIN Items[p]
  BY ItemFacts
<1> QED
  BY <1>1, ItemFacts DEF Undo, Positions

\* First and Last of a file to undo are places it has in the batch.
LEMMA FirstLast ==
  ASSUME Typed, NEW p \in Procs, NEW f \in Undo(p)
  PROVE  First(p, f) \in Positions(p, f) /\ Last(p, f) \in Positions(p, f)
<1>1. /\ Positions(p, f) # {} /\ Positions(p, f) \subseteq 1..at[p] /\ Positions(p, f) \subseteq Nat
      /\ at[p] \in Nat
  BY UndoFacts, ItemFacts
<1>2. \E i \in Positions(p, f) : \A j \in Positions(p, f) : i <= j
  BY <1>1, Least
<1>3. \E i \in Positions(p, f) : \A j \in Positions(p, f) : j <= i
  BY <1>1, Greatest
<1> QED
  BY <1>2, <1>3 DEF First, Last

\* The loop over originalContents has a file to turn to.
LEMMA NextUndoFacts ==
  ASSUME Typed, NEW p \in Procs, pc[p] = "rollback"
  PROVE  /\ NextUndo(p) \in Undo(p) \ DOMAIN ledger[p]
         /\ NextUndo(p) \in Files
         /\ Last(p, NextUndo(p)) \in 1..at[p]
         /\ Last(p, NextUndo(p)) \in DOMAIN existing[p]
         /\ AbsOf[Items[p][Last(p, NextUndo(p))]] = NextUndo(p)
<1> DEFINE rest == Undo(p) \ DOMAIN ledger[p]
           S == {First(p, f) : f \in rest}
<1>1. rest # {} /\ rest \subseteq Undo(p)
  BY DEF Typed, StageOf
<1>2. \A f \in rest : First(p, f) \in Nat
  BY <1>1, FirstLast, UndoFacts
<1>3. S \subseteq Nat /\ S # {}
  BY <1>1, <1>2
<1>4. PICK m \in S : \A n \in S : m <= n
  BY <1>3, Least
<1>5. PICK f \in rest : m = First(p, f)
  BY <1>4
<1>6. \A g \in rest : First(p, f) <= First(p, g)
  BY <1>4, <1>5
<1>7. NextUndo(p) \in rest
  BY <1>5, <1>6 DEF NextUndo
<1> HIDE DEF rest, S
<1>8. Last(p, NextUndo(p)) \in Positions(p, NextUndo(p)) /\ NextUndo(p) \in Undo(p)
  BY <1>1, <1>7, FirstLast
<1>9. /\ Last(p, NextUndo(p)) \in 1..at[p]
      /\ AbsOf[Items[p][Last(p, NextUndo(p))]] = NextUndo(p)
  BY <1>8 DEF Positions
<1>10. DOMAIN existing[p] = 1..Len(Items[p])
  BY DEF Typed, Shape, StageOf
<1>11. at[p] \in 1..Len(Items[p]) /\ Len(Items[p]) \in Nat
  BY ItemFacts
<1> QED
  BY <1>7, <1>8, <1>9, <1>10, <1>11, UndoFacts DEF rest

\* Typed is TypeOK with the shapes of the functions and the length of what
\* was read.
LEMMA TypedIsTypeOK ==
  ASSUME Typed
  PROVE  TypeOK
<1>1. \A p \in Procs : DOMAIN ledger[p] \subseteq Files /\ \A f \in DOMAIN ledger[p] : ledger[p][f] \in Rows
  BY DEF Typed, Shape, Ledgers
<1>2. \A p \in Procs : at[p] \in DOMAIN Items[p] /\ existing[p] \in Seq(Content)
  BY DEF Typed, Shape, StageOf
<1>3. \A p \in Procs : pc[p] \in {"phase2", "rollback", "ok"} => Len(existing[p]) = Len(Items[p])
  BY DEF Typed, StageOf
<1> QED
  BY <1>1, <1>2, <1>3 DEF Typed, Shape, TypeOK, Phases

-----------------------------------------------------------------------------
(* Types *)

\* Every batch starts at its first item, with nothing read or undone.
LEMMA TypedInit == Init => Typed
<1> SUFFICES ASSUME Init PROVE Typed
  OBVIOUS
<1> USE DEF Init
<1>1. Shape
  <2>1. << >> \in Ledgers /\ << >> \in Seq(Content) /\ {} \in Content /\ Absent \in Content
    <3>1. << >> \in [{} -> Rows] /\ {} \in SUBSET Files
      OBVIOUS
    <3>2. << >> \in Ledgers
      BY <3>1 DEF Ledgers
    <3>3. {} \in Content /\ Absent \in Content
      BY DEF Content
    <3> QED
      BY <3>2, <3>3
  <2>2. disk \in [Files -> Content]
    BY <2>1
  <2> QED
    BY <2>1, <2>2, EditBatchAssumption DEF Shape, Phases
<1>2. ASSUME NEW p \in Procs PROVE StageOf(p)
  <2>1. Items[p] \in Seq(Rels) /\ Items[p] # << >>
    BY EditBatchAssumption
  <2>2. 1 \in DOMAIN Items[p]
    BY <2>1
  <2> QED
    BY <2>2 DEF StageOf
<1> QED
  BY <1>1, <1>2 DEF Typed

\* The parts of Typed, one at a time.
LEMMA Shapes ==
  ASSUME Typed
  PROVE  /\ pc \in [Procs -> Phases] /\ at \in [Procs -> Nat]
         /\ existing \in [Procs -> Seq(Content)] /\ ledger \in [Procs -> Ledgers]
         /\ disk \in [Files -> Content] /\ deleted \subseteq Files
         /\ moves \in 0..MaxUser /\ faults \in 0..MaxFaults
         /\ \A q \in Procs : StageOf(q)
BY DEF Typed, Shape

\* What Typed needs after a step.
LEMMA TypedFrom ==
  ASSUME pc' \in [Procs -> Phases] /\ at' \in [Procs -> Nat],
         existing' \in [Procs -> Seq(Content)] /\ ledger' \in [Procs -> Ledgers],
         disk' \in [Files -> Content] /\ deleted' \subseteq Files,
         moves' \in 0..MaxUser /\ faults' \in 0..MaxFaults,
         \A q \in Procs : StageOf(q)'
  PROVE  Typed'
BY DEF Typed, Shape

\* A fault leaves the count of faults within its bound.
LEMMA FaultCounted ==
  ASSUME Typed, Faulty \/ UNCHANGED faults
  PROVE  faults' \in 0..MaxFaults
<1>1. faults \in 0..MaxFaults /\ MaxFaults \in Nat
  BY Shapes, EditBatchAssumption
<1> QED
  BY <1>1 DEF Faulty

\* A batch none of whose variables changes stays where it is.
LEMMA StageStays ==
  ASSUME NEW q, StageOf(q),
         pc'[q] = pc[q], at'[q] = at[q], existing'[q] = existing[q], ledger'[q] = ledger[q]
  PROVE  StageOf(q)'
BY DEF StageOf, Undo, File, Item

\* What an edit leaves in its file.
LEMMA WrittenContent ==
  ASSUME Typed, NEW p \in Procs, pc[p] = "phase2"
  PROVE  /\ existing[p][at[p]] \in Content
         /\ Written(p, at[p]) \in Content
         /\ Written(p, at[p]) # Absent
         /\ {<<p, Item(p)>>} \in Content
<1>1. at[p] \in DOMAIN existing[p] /\ existing[p] \in Seq(Content)
  <2>1. existing[p] \in Seq(Content) /\ Len(existing[p]) = Len(Items[p])
    BY Shapes DEF StageOf
  <2> QED
    BY <2>1, ItemFacts
<1>2. existing[p][at[p]] \in Content
  BY <1>1
<1>3. <<p, Item(p)>> \in Edits
  BY ItemFacts DEF Edits
<1>4. Written(p, at[p]) \subseteq Edits /\ <<p, Item(p)>> \in Written(p, at[p])
  <2>1. existing[p][at[p]] = Absent \/ existing[p][at[p]] \subseteq Edits
    BY <1>2 DEF Content
  <2>2. Written(p, at[p])
          = (IF existing[p][at[p]] = Absent THEN {} ELSE existing[p][at[p]]) \cup {<<p, Item(p)>>}
    BY DEF Written, Item
  <2> QED
    BY <1>3, <2>1, <2>2
<1> QED
  BY <1>2, <1>3, <1>4, EditBatchAssumption DEF Content, Absent

\* The outcome of a failed write, and of the loop that undoes the others.
LEMMA FailTyped ==
  ASSUME Typed, NEW p \in Procs, pc[p] = "phase2", Fail(p), NEW q \in Procs
  PROVE  /\ pc' \in [Procs -> Phases]
         /\ StageOf(q)'
<1>0. pc \in [Procs -> Phases] /\ StageOf(q)
  BY Shapes
<1>1. pc' \in [Procs -> Phases]
  BY <1>0 DEF Fail, Phases, Outcomes
<1>2. at' = at /\ existing' = existing /\ ledger' = ledger
  BY DEF Fail
<1>3. CASE q # p
  <2>1. pc'[q] = pc[q]
    BY <1>0, <1>3 DEF Fail
  <2> QED
    BY <1>0, <1>1, <1>2, <2>1, StageStays
<1>4. CASE q = p
  <2>1. Undo(q)' = Undo(q)
    BY <1>2 DEF Undo, File, Item
  <2>2. pc'[q] = IF Undo(q) = {} THEN "write-error" ELSE "rollback"
    BY <1>0, <1>4 DEF Fail
  <2> QED
    BY <1>0, <1>1, <1>2, <1>4, <2>1, <2>2 DEF StageOf
<1> QED
  BY <1>1, <1>3, <1>4

\* A turn of the loop either ends the rollback or leaves a file to undo.
LEMMA NoteTyped ==
  ASSUME Typed, NEW p \in Procs, pc[p] = "rollback",
         NEW row \in Rows, Note(p, NextUndo(p), row), NEW q \in Procs
  PROVE  /\ pc' \in [Procs -> Phases]
         /\ ledger' \in [Procs -> Ledgers]
         /\ StageOf(q)'
<1> DEFINE f == NextUndo(p)
           rows == [g \in DOMAIN ledger[p] \cup {f} |-> IF g = f THEN row ELSE ledger[p][g]]
<1>1. f \in Undo(p) \ DOMAIN ledger[p] /\ f \in Files
  BY NextUndoFacts
<1>2. DOMAIN ledger[p] \subseteq Undo(p)
  BY DEF Typed, StageOf
<1> HIDE DEF f
<1>3. rows \in Ledgers
  <2>1. PICK D \in SUBSET Files : ledger[p] \in [D -> Rows]
    BY DEF Typed, Shape, Ledgers
  <2>2. rows \in [D \cup {f} -> Rows] /\ D \cup {f} \in SUBSET Files
    BY <1>1, <2>1
  <2> QED
    BY <2>2 DEF Ledgers
<1>4. /\ ledger' = [ledger EXCEPT ![p] = rows]
      /\ pc' = IF DOMAIN rows = Undo(p) THEN [pc EXCEPT ![p] = FailedOutcome(p, rows)] ELSE pc
      /\ at' = at /\ existing' = existing
  BY DEF Note, f
<1>5. DOMAIN rows = DOMAIN ledger[p] \cup {f}
  OBVIOUS
<1> HIDE DEF rows
<1>6. FailedOutcome(p, rows) \in {"rollback-failed", "write-error"}
  BY DEF FailedOutcome
<1>7. pc' \in [Procs -> Phases] /\ ledger' \in [Procs -> Ledgers]
  BY <1>3, <1>4, <1>6 DEF Typed, Shape, Phases, Outcomes
<1>8. CASE q # p
  <2>1. pc'[q] = pc[q] /\ ledger'[q] = ledger[q]
    BY <1>4, <1>8, Shapes
  <2> QED
    BY <1>4, <1>7, <2>1, Shapes, StageStays
<1>9. CASE q = p
  <2>1. Undo(q)' = Undo(q)
    BY <1>4 DEF Undo, File, Item
  <2>2. ledger'[q] = rows
    BY <1>4, <1>9, Shapes
  <2>3. pc'[q] = IF DOMAIN rows = Undo(p) THEN FailedOutcome(p, rows) ELSE "rollback"
    BY <1>4, <1>9, Shapes
  <2>4. at'[q] \in DOMAIN Items[q] /\ Len(existing'[q]) = Len(Items[q])
    BY <1>4, <1>9, Shapes DEF StageOf
  <2>5. DOMAIN ledger'[q] \subseteq Undo(q)'
    BY <1>1, <1>2, <1>5, <1>9, <2>1, <2>2
  <2>6. CASE DOMAIN rows = Undo(p)
    BY <1>6, <1>7, <1>9, <2>3, <2>4, <2>6 DEF StageOf
  <2>7. CASE DOMAIN rows # Undo(p)
    BY <1>7, <1>9, <2>1, <2>2, <2>3, <2>4, <2>5, <2>7 DEF StageOf
  <2> QED
    BY <2>6, <2>7
<1> QED
  BY <1>7, <1>8, <1>9

\* After a write the batch turns to the next item or ends.
LEMMA AdvanceTyped ==
  ASSUME Typed, NEW p \in Procs, pc[p] = "phase2", Advance(p),
         UNCHANGED <<existing, ledger>>, NEW q \in Procs
  PROVE  /\ pc' \in [Procs -> Phases]
         /\ at' \in [Procs -> Nat]
         /\ StageOf(q)'
<1>0. pc \in [Procs -> Phases] /\ at \in [Procs -> Nat] /\ StageOf(q) /\ StageOf(p)
  BY Shapes
<1>1. pc' \in [Procs -> Phases] /\ at' \in [Procs -> Nat]
  BY <1>0 DEF Advance, Phases, Outcomes
<1>2. CASE q # p
  <2>1. pc'[q] = pc[q] /\ at'[q] = at[q]
    BY <1>0, <1>2 DEF Advance
  <2> QED
    BY <1>0, <1>1, <2>1, StageStays
<1>3. CASE q = p
  <2>1. CASE at[p] = Len(Items[p])
    <3>1. pc'[p] = "ok" /\ at'[p] = at[p]
      BY <1>0, <2>1 DEF Advance
    <3> QED
      BY <1>0, <1>1, <1>3, <3>1 DEF StageOf
  <2>2. CASE at[p] # Len(Items[p])
    <3>1. pc'[p] = "phase2" /\ at'[p] = at[p] + 1
      BY <1>0, <2>2 DEF Advance
    <3>2. at[p] + 1 \in DOMAIN Items[p]
      BY <2>2, ItemFacts
    <3> QED
      BY <1>0, <1>1, <1>3, <3>1, <3>2 DEF StageOf
  <2> QED
    BY <2>1, <2>2
<1> QED
  BY <1>1, <1>2, <1>3

\* Phase 1 has read one file per item it is past.
LEMMA ValidateTyped ==
  ASSUME Typed, NEW p \in Procs, Validate(p), NEW q \in Procs
  PROVE  /\ pc' \in [Procs -> Phases] /\ at' \in [Procs -> Nat]
         /\ existing' \in [Procs -> Seq(Content)]
         /\ StageOf(q)'
<1>1. disk[File(p)] \in Content
  BY ItemFacts, Shapes
<1>2. /\ existing' = [existing EXCEPT ![p] = Append(existing[p], disk[File(p)])]
      /\ existing[p] \in Seq(Content) /\ Len(existing[p]) = at[p] - 1
      /\ pc[p] = "phase1" /\ DOMAIN ledger[p] = {}
  BY Shapes DEF Validate, StageOf
<1>3. /\ Append(existing[p], disk[File(p)]) \in Seq(Content)
      /\ Len(Append(existing[p], disk[File(p)])) = Len(existing[p]) + 1
  BY <1>1, <1>2
<1>4. existing' \in [Procs -> Seq(Content)]
  BY <1>2, <1>3, Shapes
<1>5. pc' \in [Procs -> Phases] /\ at' \in [Procs -> Nat]
  <2>1. pc' = pc \/ pc' = [pc EXCEPT ![p] = "commit"]
    BY DEF Validate
  <2>2. at' = at \/ at' = [at EXCEPT ![p] = at[p] + 1]
    BY DEF Validate
  <2>3. pc \in [Procs -> Phases] /\ at \in [Procs -> Nat]
    BY Shapes
  <2> QED
    BY <2>1, <2>2, <2>3 DEF Phases
<1>6. CASE q # p
  <2>1. pc'[q] = pc[q] /\ at'[q] = at[q] /\ existing'[q] = existing[q] /\ ledger'[q] = ledger[q]
    BY <1>6, Shapes DEF Validate
  <2> QED
    BY <1>4, <1>5, <2>1, Shapes, StageStays
<1>7. CASE q = p
  <2>1. Len(existing'[p]) = at[p] /\ ledger'[p] = ledger[p]
    BY <1>2, <1>3, ItemFacts, Shapes DEF Validate
  <2>2. CASE at[p] = Len(Items[p])
    <3>1. pc'[p] = "commit" /\ at'[p] = at[p]
      BY <2>2, Shapes DEF Validate
    <3> QED
      BY <1>2, <1>4, <1>5, <1>7, <2>1, <2>2, <3>1, ItemFacts DEF StageOf
  <2>3. CASE at[p] # Len(Items[p])
    <3>1. pc'[p] = "phase1" /\ at'[p] = at[p] + 1
      BY <1>2, <2>3, Shapes DEF Validate
    <3>2. at[p] + 1 \in DOMAIN Items[p] /\ at[p] \in Nat
      BY <2>3, ItemFacts
    <3> QED
      BY <1>2, <1>4, <1>5, <1>7, <2>1, <3>1, <3>2 DEF StageOf
  <2> QED
    BY <2>2, <2>3
<1> QED
  BY <1>4, <1>5, <1>6, <1>7

\* Every step keeps Typed: no condition on batches or spellings is needed.
LEMMA TypedStep ==
  ASSUME Typed, [Next]_vars
  PROVE  Typed'
<1>1. ASSUME NEW p \in Procs, Validate(p) PROVE Typed'
  <2>1. UNCHANGED <<ledger, disk, deleted, moves, faults>>
    BY <1>1 DEF Validate
  <2> QED
    BY <1>1, <2>1, ValidateTyped, Shapes, TypedFrom
<1>2. ASSUME NEW p \in Procs, Refuse(p) \/ Cancel(p) \/ Kill(p) PROVE Typed'
  <2>1. UNCHANGED <<at, existing, ledger, disk, deleted, moves>> /\ faults' \in 0..MaxFaults
    BY <1>2, FaultCounted DEF Refuse, Cancel, Kill
  <2>2. \E o \in {"refused", "cancelled", "killed"} : pc' = [pc EXCEPT ![p] = o]
    BY <1>2 DEF Refuse, Cancel, Kill
  <2>3. pc' \in [Procs -> Phases]
    BY <2>2, Shapes DEF Phases, Outcomes
  <2>4. ASSUME NEW q \in Procs PROVE StageOf(q)'
    <3>1. pc'[q] = pc[q] \/ pc'[q] \in {"refused", "cancelled", "killed"}
      BY <2>2, Shapes
    <3>2. CASE pc'[q] = pc[q]
      BY <2>1, <3>2, Shapes, StageStays
    <3>3. CASE pc'[q] \in {"refused", "cancelled", "killed"}
      BY <2>1, <3>3, Shapes DEF StageOf
    <3> QED
      BY <3>1, <3>2, <3>3
  <2> QED
    BY <2>1, <2>3, <2>4, Shapes, TypedFrom
<1>3. ASSUME NEW p \in Procs, Commit(p) PROVE Typed'
  <2>1. /\ pc' = [pc EXCEPT ![p] = "phase2"] /\ at' = [at EXCEPT ![p] = 1] /\ pc[p] = "commit"
        /\ UNCHANGED <<existing, ledger, disk, deleted, moves, faults>>
    BY <1>3 DEF Commit
  <2>2. pc' \in [Procs -> Phases] /\ at' \in [Procs -> Nat]
    BY <2>1, Shapes DEF Phases
  <2>3. ASSUME NEW q \in Procs PROVE StageOf(q)'
    <3>1. CASE q # p
      <4>1. pc'[q] = pc[q] /\ at'[q] = at[q]
        BY <2>1, <3>1, Shapes
      <4> QED
        BY <2>1, <4>1, Shapes, StageStays
    <3>2. CASE q = p
      <4>1. pc'[p] = "phase2" /\ at'[p] = 1
        BY <2>1, Shapes
      <4>2. 1 \in DOMAIN Items[p]
        BY ItemFacts
      <4> QED
        BY <2>1, <3>2, <4>1, <4>2, Shapes DEF StageOf
    <3> QED
      BY <3>1, <3>2
  <2> QED
    BY <2>1, <2>2, <2>3, Shapes, TypedFrom
<1>4. ASSUME NEW p \in Procs, Write(p) \/ Publish(p) PROVE Typed'
  <2>1. /\ pc[p] = "phase2" /\ Advance(p) /\ UNCHANGED <<existing, ledger, deleted, moves, faults>>
        /\ disk' = [disk EXCEPT ![File(p)] = Written(p, at[p])]
    BY <1>4 DEF Write, Publish
  <2>2. disk' \in [Files -> Content]
    BY <2>1, WrittenContent, Shapes
  <2>3. pc' \in [Procs -> Phases] /\ at' \in [Procs -> Nat] /\ \A q \in Procs : StageOf(q)'
    BY <2>1, AdvanceTyped
  <2> QED
    BY <2>1, <2>2, <2>3, Shapes, TypedFrom
<1>5. ASSUME NEW p \in Procs, WriteFails(p) \/ PublishFindsFile(p) \/ PublishTorn(p) PROVE Typed'
  <2>1. /\ pc[p] = "phase2" /\ Fail(p)
        /\ UNCHANGED <<at, existing, ledger, deleted, moves>>
        /\ Faulty \/ UNCHANGED faults
        /\ UNCHANGED disk \/ disk' = [disk EXCEPT ![File(p)] = {<<p, Item(p)>>}]
    BY <1>5 DEF WriteFails, PublishFindsFile, PublishTorn, Fail
  <2>2. disk' \in [Files -> Content]
    BY <2>1, WrittenContent, Shapes
  <2>3. pc' \in [Procs -> Phases] /\ \A q \in Procs : StageOf(q)'
    BY <2>1, FailTyped
  <2> QED
    BY <2>1, <2>2, <2>3, Shapes, FaultCounted, TypedFrom
<1>6. ASSUME NEW p \in Procs, Restore(p) \/ RestoreFails(p) \/ Remove(p) \/ RemoveFails(p) PROVE Typed'
  <2>1. /\ pc[p] = "rollback" /\ (Faulty \/ UNCHANGED faults)
        /\ \E row \in Rows : Note(p, NextUndo(p), row)
    BY <1>6 DEF Restore, RestoreFails, Remove, RemoveFails, Rows
  <2>2. PICK row \in Rows : Note(p, NextUndo(p), row)
    BY <2>1
  <2>3. existing[p][Last(p, NextUndo(p))] \in Content
    BY <2>1, NextUndoFacts, Shapes
  <2>4. disk' = disk \/ \E c \in Content : disk' = [disk EXCEPT ![NextUndo(p)] = c]
    BY <1>6, <2>3 DEF Restore, RestoreFails, Remove, RemoveFails, Content
  <2>5. disk' \in [Files -> Content]
    BY <2>4, Shapes
  <2>6. UNCHANGED <<at, existing, deleted, moves>>
    BY <2>2 DEF Note
  <2>7. /\ pc' \in [Procs -> Phases] /\ ledger' \in [Procs -> Ledgers]
        /\ \A q \in Procs : StageOf(q)'
    BY <2>1, <2>2, NoteTyped
  <2> QED
    BY <2>1, <2>5, <2>6, <2>7, Shapes, FaultCounted, TypedFrom
<1>7. ASSUME NEW f \in Files, UserSaves(f) \/ UserDeletes(f) PROVE Typed'
  <2>1. /\ UNCHANGED <<pc, at, existing, ledger, faults>>
        /\ moves < MaxUser /\ moves' = moves + 1 /\ (deleted' = deleted \/ deleted' = deleted \cup {f})
    BY <1>7 DEF UserSaves, UserDeletes
  <2>2. moves' \in 0..MaxUser /\ deleted' \subseteq Files
    BY <2>1, Shapes, EditBatchAssumption
  <2>3. disk[f] \in Content
    BY Shapes
  <2>4. /\ {User} \in Content /\ Absent \in Content
        /\ disk[f] # Absent => disk[f] \cup {User} \in Content
    BY <2>3 DEF Content, Edits
  <2>5. \E c \in Content : disk' = [disk EXCEPT ![f] = c]
    BY <1>7, <2>4 DEF UserSaves, UserDeletes
  <2>6. disk' \in [Files -> Content]
    BY <2>5, Shapes
  <2>7. \A q \in Procs : StageOf(q)'
    BY <2>1, Shapes, StageStays
  <2> QED
    BY <2>1, <2>2, <2>6, <2>7, Shapes, TypedFrom
<1>8. CASE UNCHANGED vars
  <2>1. UNCHANGED <<pc, at, existing, ledger, disk, deleted, moves, faults>>
    BY <1>8 DEF vars
  <2>2. \A q \in Procs : StageOf(q)'
    BY <2>1, Shapes, StageStays
  <2> QED
    BY <2>1, <2>2, Shapes, TypedFrom
<1> QED
  BY <1>1, <1>2, <1>3, <1>4, <1>5, <1>6, <1>7, <1>8 DEF Next

\* TypeOK, and with it that a rollback always has a file left to undo and
\* finds in phase 1's reading what it puts back.
THEOREM TypeCorrect == Spec => []TypeOK
<1>1. Typed /\ [Next]_vars => Typed'
  BY TypedStep
<1>2. Typed => TypeOK
  BY TypedIsTypeOK
<1> QED
  BY <1>1, <1>2, TypedInit, PTL DEF Spec

-----------------------------------------------------------------------------
(* The invariant: what does not change *)

\* The parts of Inv, one at a time.
LEMMA InvParts ==
  ASSUME Inv
  PROVE  /\ Typed
         /\ \A q \in Procs : ReadClean(q)
         /\ \A q \in Procs : \A f \in Files : Holds(q, f)
         /\ \A q \in Procs : \A i \in DOMAIN Items[q] : Lands(q, i)
         /\ \A q, s \in Procs : \A f \in Files : AloneIn(q, s, f)
BY DEF Inv

\* What Inv needs after a step.
LEMMA InvFrom ==
  ASSUME Typed',
         \A q \in Procs : ReadClean(q)',
         \A q \in Procs : \A f \in Files : Holds(q, f)',
         \A q \in Procs : \A i \in DOMAIN Items[q] : Lands(q, i)',
         \A q, s \in Procs : \A f \in Files : AloneIn(q, s, f)'
  PROVE  Inv'
BY DEF Inv

\* A user's edit is no batch's, and a missing file holds none.
LEMMA OthersContent ==
  ASSUME NEW p \in Procs, NEW r \in Rels
  PROVE  <<p, r>> # User /\ <<p, r>> \notin Absent /\ <<p, r>> \notin {User}
<1>1. <<p, r>> \in Procs \X Rels /\ <<p, r>> \in Edits
  BY DEF Edits
<1> QED
  BY <1>1, EditBatchAssumption DEF Absent

\* What was read stays clean while nothing is read.
LEMMA ReadCleanStays ==
  ASSUME NEW q, ReadClean(q), existing'[q] = existing[q]
  PROVE  ReadClean(q)'
BY DEF ReadClean

\* No batch has an edit in f that it did not have there before.
NoNew(f) == \A q \in Procs : \A r \in Rels : <<q, r>> \in disk'[f] => <<q, r>> \in disk[f]

\* The three facts that a step of somebody else keeps.
LEMMA HoldsStays ==
  ASSUME NEW q \in Procs, NEW f \in Files, Holds(q, f), NoNew(f),
         pc'[q] = pc[q], at'[q] = at[q], ledger'[q] = ledger[q]
  PROVE  Holds(q, f)'
BY DEF Holds, NoNew, MayStand, FailedRow

\* An edit that must be there stays, unless the step takes it out.
LEMMA LandsStays ==
  ASSUME NEW q \in Procs, NEW i \in DOMAIN Items[q], Lands(q, i),
         pc'[q] = pc[q], at'[q] = at[q], ledger'[q] = ledger[q],
         deleted \subseteq deleted',
         <<q, Items[q][i]>> \in disk[AbsOf[Items[q][i]]]
           => AbsOf[Items[q][i]] \in deleted' \/ <<q, Items[q][i]>> \in disk'[AbsOf[Items[q][i]]]
  PROVE  Lands(q, i)'
BY DEF Lands, MustStand

\* A file that gets no edit of a batch stays with one batch.
LEMMA AloneStays ==
  ASSUME NEW q \in Procs, NEW s \in Procs, NEW f \in Files, AloneIn(q, s, f), NoNew(f)
  PROVE  AloneIn(q, s, f)'
BY DEF AloneIn, NoNew

\* At first no file holds an edit.
LEMMA InvInit == Init => Inv
<1> SUFFICES ASSUME Init PROVE Inv
  OBVIOUS
<1>1. Typed
  BY TypedInit
<1>2. \A q \in Procs : existing[q] = << >> /\ pc[q] = "phase1"
  BY DEF Init
<1>3. \A f \in Files : disk[f] = {} \/ disk[f] = Absent
  BY DEF Init
<1>4. ASSUME NEW q \in Procs PROVE ReadClean(q)
  BY <1>2 DEF ReadClean
<1>5. ASSUME NEW q \in Procs, NEW f \in Files
      PROVE  \A r \in Rels : <<q, r>> \notin disk[f]
  BY <1>3, OthersContent
<1>6. ASSUME NEW q \in Procs, NEW f \in Files PROVE Holds(q, f)
  BY <1>5 DEF Holds
<1>7. ASSUME NEW q \in Procs, NEW i \in DOMAIN Items[q] PROVE Lands(q, i)
  BY <1>2 DEF Lands, MustStand
<1>8. ASSUME NEW q \in Procs, NEW s \in Procs, NEW f \in Files PROVE AloneIn(q, s, f)
  BY <1>5 DEF AloneIn
<1> QED
  BY <1>1, <1>4, <1>6, <1>7, <1>8 DEF Inv

-----------------------------------------------------------------------------
(* The invariant: steps before the commit point, and those of the user *)

\* Phase 1 reads no edit of a batch: an edit of its own would be of a later
\* phase, an edit of another batch is in a file that both create.
LEMMA ValidateReads ==
  ASSUME MeetInCreates, Inv, NEW p \in Procs, Validate(p)
  PROVE  ReadClean(p)'
<1>1. /\ Typed /\ ReadClean(p) /\ pc[p] = "phase1" /\ Valid(p)
      /\ existing' = [existing EXCEPT ![p] = Append(existing[p], disk[File(p)])]
  BY InvParts DEF Validate
<1>2. existing[p] \in Seq(Content) /\ Len(existing[p]) = at[p] - 1 /\ existing \in [Procs -> Seq(Content)]
  BY <1>1, Shapes DEF StageOf
<1>3. disk[File(p)] \in Content /\ at[p] \in 1..Len(Items[p]) /\ Item(p) \in Rels /\ File(p) \in Files
  BY <1>1, Shapes, ItemFacts
<1>4. IF Item(p) \in Creates THEN disk[File(p)] = Absent ELSE disk[File(p)] \subseteq {User}
  <2>1. CASE Item(p) \in Creates
    BY <1>1, <2>1 DEF Valid
  <2>2. CASE Item(p) \notin Creates
    <3>1. disk[File(p)] \subseteq Edits
      BY <1>1, <1>3, <2>2 DEF Valid, Content
    <3>2. ASSUME NEW q \in Procs, NEW r \in Rels, <<q, r>> \in disk[File(p)] PROVE FALSE
      <4>1. PICK i \in DOMAIN Items[q] : File(p) = AbsOf[Items[q][i]] /\ MayStand(q, i)
        BY <1>3, <3>2, InvParts DEF Holds
      <4>2. q # p
        BY <1>1, <4>1 DEF MayStand
      <4>3. at[p] \in DOMAIN Items[p] /\ AbsOf[Items[p][at[p]]] = AbsOf[Items[q][i]]
        BY <1>1, <4>1, ItemFacts DEF File, Item
      <4> QED
        BY <2>2, <4>2, <4>3 DEF MeetInCreates, Item
    <3> QED
      BY <2>2, <3>1, <3>2 DEF Edits
  <2> QED
    BY <2>1, <2>2
<1> DEFINE t == Append(existing[p], disk[File(p)])
<1>5. existing'[p] = t
  BY <1>1, <1>2
<1>6. DOMAIN t = 1..at[p] /\ t[at[p]] = disk[File(p)] /\ \A i \in 1..at[p] - 1 : t[i] = existing[p][i]
  BY <1>2, <1>3
<1>7. DOMAIN existing[p] = 1..at[p] - 1 /\ at[p] \in Nat
  BY <1>2, <1>3
<1> HIDE DEF t
<1>8. ASSUME NEW i \in DOMAIN t
      PROVE  IF Items[p][i] \in Creates THEN t[i] = Absent ELSE t[i] \subseteq {User}
  <2>1. CASE i = at[p]
    BY <1>4, <1>6, <2>1 DEF Item
  <2>2. CASE i # at[p]
    BY <1>1, <1>6, <1>7, <1>8, <2>2 DEF ReadClean
  <2> QED
    BY <2>1, <2>2
<1> QED
  BY <1>5, <1>8 DEF ReadClean

\* Phase 1, the commit point and a kill keep Inv: no file changes.
LEMMA BeforeWriting ==
  ASSUME MeetInCreates, Inv, Typed', NEW p \in Procs,
         Validate(p) \/ Refuse(p) \/ Commit(p) \/ Cancel(p) \/ Kill(p)
  PROVE  Inv'
<1>1. /\ UNCHANGED <<ledger, disk, deleted>>
      /\ pc[p] \in {"phase1", "commit"} \/ pc'[p] = "killed"
      /\ pc'[p] \in {"phase1", "commit", "phase2", "refused", "cancelled", "killed"}
      /\ pc[p] \in {"phase1", "commit"} => (pc'[p] = "phase2" => at'[p] = 1)
      /\ \A q \in Procs : q # p => pc'[q] = pc[q] /\ at'[q] = at[q]
  BY InvParts, Shapes DEF Validate, Refuse, Commit, Cancel, Kill
<1>2. ASSUME NEW q \in Procs PROVE ReadClean(q)'
  <2>1. CASE Validate(p) /\ q = p
    BY <2>1, ValidateReads
  <2>2. CASE ~ Validate(p) \/ q # p
    <3>1. existing'[q] = existing[q]
      BY <2>2, InvParts, Shapes DEF Validate, Refuse, Commit, Cancel, Kill
    <3> QED
      BY <3>1, InvParts, ReadCleanStays
  <2> QED
    BY <2>1, <2>2
<1>3. \A f \in Files : NoNew(f)
  BY <1>1 DEF NoNew
<1>4. ASSUME NEW q \in Procs, NEW f \in Files PROVE Holds(q, f)'
  <2>1. CASE q # p
    BY <1>1, <1>3, <2>1, InvParts, HoldsStays
  <2>2. CASE q = p
    <3>1. ASSUME NEW r \in Rels, <<p, r>> \in disk[f]
          PROVE  \E i \in DOMAIN Items[p] : r = Items[p][i] /\ f = AbsOf[Items[p][i]] /\ pc'[p] = "killed"
      <4>1. PICK i \in DOMAIN Items[p] : r = Items[p][i] /\ f = AbsOf[Items[p][i]] /\ MayStand(p, i)
        BY <3>1, InvParts DEF Holds
      <4> QED
        BY <1>1, <4>1 DEF MayStand
    <3> QED
      BY <1>1, <2>2, <3>1 DEF Holds, MayStand
  <2> QED
    BY <2>1, <2>2
<1>5. ASSUME NEW q \in Procs, NEW i \in DOMAIN Items[q] PROVE Lands(q, i)'
  <2>1. CASE q # p
    BY <1>1, <2>1, InvParts, LandsStays
  <2>2. CASE q = p
    <3>1. i \in Nat /\ ~ (i < 1)
      BY InvParts, ItemFacts
    <3> QED
      BY <1>1, <2>2, <3>1 DEF Lands, MustStand
  <2> QED
    BY <2>1, <2>2
<1>6. ASSUME NEW q \in Procs, NEW s \in Procs, NEW f \in Files PROVE AloneIn(q, s, f)'
  BY <1>3, InvParts, AloneStays
<1> QED
  BY <1>2, <1>4, <1>5, <1>6, InvFrom

\* A user who saves or deletes adds no edit of a batch.
LEMMA UserMoves ==
  ASSUME Inv, Typed', NEW g \in Files, UserSaves(g) \/ UserDeletes(g)
  PROVE  Inv'
<1>1. /\ UNCHANGED <<pc, at, existing, ledger>> /\ deleted \subseteq deleted'
      /\ \A f \in Files : f # g => disk'[f] = disk[f]
      /\ \/ disk'[g] = {User} /\ disk[g] = Absent
         \/ disk'[g] = disk[g] \cup {User}
         \/ disk'[g] = Absent /\ g \in deleted'
  BY InvParts, Shapes DEF UserSaves, UserDeletes
<1>2. ASSUME NEW f \in Files PROVE NoNew(f)
  <2>1. ASSUME NEW q \in Procs, NEW r \in Rels, <<q, r>> \in disk'[f] PROVE <<q, r>> \in disk[f]
    BY <1>1, <2>1, OthersContent
  <2> QED
    BY <2>1 DEF NoNew
<1>3. ASSUME NEW q \in Procs PROVE ReadClean(q)'
  BY <1>1, InvParts, ReadCleanStays
<1>4. ASSUME NEW q \in Procs, NEW f \in Files PROVE Holds(q, f)'
  BY <1>1, <1>2, InvParts, HoldsStays
<1>5. ASSUME NEW q \in Procs, NEW i \in DOMAIN Items[q] PROVE Lands(q, i)'
  <2>1. Items[q][i] \in Rels /\ AbsOf[Items[q][i]] \in Files
    BY InvParts, ItemFacts
  <2>2. <<q, Items[q][i]>> \in disk[AbsOf[Items[q][i]]]
          => AbsOf[Items[q][i]] \in deleted' \/ <<q, Items[q][i]>> \in disk'[AbsOf[Items[q][i]]]
    BY <1>1, <2>1, OthersContent
  <2> QED
    BY <1>1, <2>2, InvParts, LandsStays
<1>6. ASSUME NEW q \in Procs, NEW s \in Procs, NEW f \in Files PROVE AloneIn(q, s, f)'
  BY <1>2, InvParts, AloneStays
<1> QED
  BY <1>3, <1>4, <1>5, <1>6, InvFrom

-----------------------------------------------------------------------------
(* The invariant: steps that write *)

\* What a write puts in the file: its edit, and nothing of another batch.
LEMMA WrittenIs ==
  ASSUME Inv, NEW p \in Procs, pc[p] = "phase2"
  PROVE  /\ Written(p, at[p]) \subseteq {User, <<p, Item(p)>>}
         /\ <<p, Item(p)>> \in Written(p, at[p])
<1>1. existing[p] \in Seq(Content) /\ Len(existing[p]) = Len(Items[p]) /\ ReadClean(p)
  BY InvParts, Shapes DEF StageOf
<1>2. at[p] \in DOMAIN existing[p]
  BY <1>1, InvParts, ItemFacts
<1>3. existing[p][at[p]] = Absent \/ existing[p][at[p]] \subseteq {User}
  BY <1>1, <1>2 DEF ReadClean
<1>4. Written(p, at[p])
        = (IF existing[p][at[p]] = Absent THEN {} ELSE existing[p][at[p]]) \cup {<<p, Item(p)>>}
  BY DEF Written, Item
<1> QED
  BY <1>3, <1>4

\* What the file of the item at hand holds of other batches, when a write
\* succeeds or is torn: nothing that must stand there.
LEMMA NobodyElse ==
  ASSUME MeetInCreates, Inv, NEW p \in Procs, pc[p] = "phase2",
         Item(p) \in Creates => disk[File(p)] = Absent,
         NEW q \in Procs, q # p, NEW i \in DOMAIN Items[q], AbsOf[Items[q][i]] = File(p)
  PROVE  <<q, Items[q][i]>> \notin disk[File(p)]
<1>1. at[p] \in DOMAIN Items[p] /\ AbsOf[Items[p][at[p]]] = AbsOf[Items[q][i]]
  BY InvParts, ItemFacts DEF File, Item
<1>2. Item(p) \in Creates
  BY <1>1 DEF MeetInCreates, Item
<1>3. Items[q][i] \in Rels
  BY InvParts, ItemFacts
<1> QED
  BY <1>2, <1>3, OthersContent

\* The file of another item is another file.
LEMMA OtherFile ==
  ASSUME OneSpelling, Typed, NEW p \in Procs, NEW i \in DOMAIN Items[p], i # at[p]
  PROVE  AbsOf[Items[p][i]] # File(p)
<1>1. at[p] \in DOMAIN Items[p]
  BY ItemFacts
<1> QED
  BY <1>1 DEF OneSpelling, File, Item

\* A write or a create that succeeds keeps Inv.
LEMMA Writing ==
  ASSUME OneSpelling, MeetInCreates, Inv, Typed', NEW p \in Procs, Write(p) \/ Publish(p)
  PROVE  Inv'
<1>1. /\ pc[p] = "phase2" /\ (Item(p) \in Creates => disk[File(p)] = Absent)
      /\ disk' = [disk EXCEPT ![File(p)] = Written(p, at[p])]
      /\ Advance(p) /\ UNCHANGED <<existing, ledger, deleted>>
  BY DEF Write, Publish
<1>2. /\ Typed /\ File(p) \in Files /\ Item(p) \in Rels /\ at[p] \in 1..Len(Items[p])
      /\ DOMAIN Items[p] = 1..Len(Items[p]) /\ Len(Items[p]) \in Nat
  BY InvParts, ItemFacts
<1>3. /\ disk'[File(p)] \subseteq {User, <<p, Item(p)>>} /\ <<p, Item(p)>> \in disk'[File(p)]
      /\ \A f \in Files : f # File(p) => disk'[f] = disk[f]
  BY <1>1, <1>2, WrittenIs, Shapes
<1>4. /\ \A q \in Procs : q # p => pc'[q] = pc[q] /\ at'[q] = at[q]
      /\ \/ pc'[p] = "ok" /\ at[p] = Len(Items[p])
         \/ pc'[p] = "phase2" /\ at'[p] = at[p] + 1
  BY <1>1, <1>2, Shapes DEF Advance
<1>5. ASSUME NEW q \in Procs PROVE ReadClean(q)'
  BY <1>1, InvParts, ReadCleanStays
<1>6. ASSUME NEW q \in Procs, NEW r \in Rels, <<q, r>> \in disk'[File(p)]
      PROVE  q = p /\ r = Item(p)
  BY <1>3, <1>6, OthersContent
<1>7. ASSUME NEW q \in Procs, NEW f \in Files PROVE Holds(q, f)'
  <2>1. CASE f # File(p) /\ q # p
    BY <1>1, <1>3, <1>4, <2>1, InvParts, HoldsStays DEF NoNew
  <2>2. CASE f = File(p) /\ q # p
    BY <1>6, <2>2 DEF Holds
  <2>3. CASE q = p
    <3>1. ASSUME NEW r \in Rels, <<p, r>> \in disk'[f]
          PROVE  \E i \in DOMAIN Items[p] : r = Items[p][i] /\ f = AbsOf[Items[p][i]] /\ i <= at[p]
      <4>1. CASE f = File(p)
        BY <1>2, <1>6, <3>1, <4>1 DEF File, Item
      <4>2. CASE f # File(p)
        <5>1. PICK i \in DOMAIN Items[p] : r = Items[p][i] /\ f = AbsOf[Items[p][i]] /\ MayStand(p, i)
          BY <1>3, <3>1, <4>2, InvParts DEF Holds
        <5>2. i <= at[p]
          BY <1>1, <1>2, <5>1 DEF MayStand
        <5> QED
          BY <5>1, <5>2
      <4> QED
        BY <4>1, <4>2
    <3>2. \A i \in DOMAIN Items[p] : i <= at[p] => MayStand(p, i)'
      BY <1>2, <1>4 DEF MayStand
    <3> QED
      BY <2>3, <3>1, <3>2 DEF Holds
  <2> QED
    BY <2>1, <2>2, <2>3
<1>8. ASSUME NEW q \in Procs, NEW i \in DOMAIN Items[q] PROVE Lands(q, i)'
  <2>1. AbsOf[Items[q][i]] \in Files
    BY <1>2, ItemFacts
  <2>2. CASE q # p
    <3>1. AbsOf[Items[q][i]] = File(p) => <<q, Items[q][i]>> \notin disk[File(p)]
      BY <1>1, <2>2, NobodyElse
    <3> QED
      BY <1>1, <1>3, <1>4, <2>1, <2>2, <3>1, InvParts, LandsStays
  <2>3. CASE q = p /\ i = at[p]
    <3>1. <<p, Items[p][i]>> \in disk'[AbsOf[Items[p][i]]]
      BY <1>3, <2>3 DEF File, Item
    <3> QED
      BY <2>3, <3>1 DEF Lands
  <2>4. CASE q = p /\ i # at[p]
    <3>1. disk'[AbsOf[Items[p][i]]] = disk[AbsOf[Items[p][i]]]
      BY <1>2, <1>3, <2>1, <2>4, OtherFile
    <3>2. MustStand(p, i)' => MustStand(p, i)
      BY <1>1, <1>2, <1>4, <2>4 DEF MustStand
    <3> QED
      BY <1>1, <2>4, <3>1, <3>2, InvParts DEF Lands
  <2> QED
    BY <2>2, <2>3, <2>4
<1>9. ASSUME NEW q \in Procs, NEW s \in Procs, NEW f \in Files PROVE AloneIn(q, s, f)'
  <2>1. CASE f = File(p)
    BY <1>6, <2>1 DEF AloneIn
  <2>2. CASE f # File(p)
    BY <1>3, <2>2, InvParts, AloneStays DEF NoNew
  <2> QED
    BY <2>1, <2>2
<1> QED
  BY <1>5, <1>7, <1>8, <1>9, InvFrom

\* After a failed write: an earlier item of the batch is a file to undo.
LEMMA EarlierIsUndone ==
  ASSUME OneSpelling, Typed, NEW p \in Procs, NEW i \in DOMAIN Items[p], i < at[p]
  PROVE  AbsOf[Items[p][i]] \in Undo(p)
<1>1. i \in 1..at[p] /\ i # at[p]
  BY ItemFacts
<1> QED
  BY <1>1, OtherFile DEF Undo

\* A write or a create that fails keeps Inv, torn or not.
LEMMA Failing ==
  ASSUME OneSpelling, MeetInCreates, Inv, Typed', NEW p \in Procs,
         WriteFails(p) \/ PublishFindsFile(p) \/ PublishTorn(p)
  PROVE  Inv'
<1>1. /\ pc[p] = "phase2" /\ Fail(p) /\ UNCHANGED <<at, existing, ledger, deleted>>
      /\ \/ UNCHANGED disk
         \/ /\ disk' = [disk EXCEPT ![File(p)] = {<<p, Item(p)>>}]
            /\ disk[File(p)] = Absent /\ Item(p) \in NoLink
  BY DEF WriteFails, PublishFindsFile, PublishTorn, Fail
<1>2. /\ Typed /\ File(p) \in Files /\ Item(p) \in Rels /\ at[p] \in 1..Len(Items[p])
      /\ DOMAIN Items[p] = 1..Len(Items[p]) /\ Len(Items[p]) \in Nat /\ DOMAIN ledger[p] = {}
  BY <1>1, InvParts, ItemFacts, Shapes DEF StageOf
<1>3. /\ \A f \in Files : f # File(p) => disk'[f] = disk[f]
      /\ \/ disk'[File(p)] = disk[File(p)]
         \/ /\ disk'[File(p)] = {<<p, Item(p)>>}
            /\ disk[File(p)] = Absent /\ Item(p) \in NoLink
  BY <1>1, <1>2, Shapes
<1>4. /\ \A q \in Procs : q # p => pc'[q] = pc[q]
      /\ pc'[p] = IF Undo(p) = {} THEN "write-error" ELSE "rollback"
  BY <1>1, <1>2, Shapes DEF Fail
<1>5. ASSUME NEW q \in Procs PROVE ReadClean(q)'
  BY <1>1, InvParts, ReadCleanStays
<1>6. ASSUME NEW f \in Files, NEW q \in Procs, NEW r \in Rels, <<q, r>> \in disk'[f]
      PROVE  \/ <<q, r>> \in disk[f]
             \/ f = File(p) /\ q = p /\ r = Item(p) /\ Item(p) \in NoLink /\ disk'[f] = {<<p, Item(p)>>}
  BY <1>3, <1>6
<1>7. ASSUME NEW q \in Procs, NEW f \in Files PROVE Holds(q, f)'
  <2>1. CASE q # p
    <3>1. \A r \in Rels : <<q, r>> \in disk'[f] => <<q, r>> \in disk[f]
      BY <1>6, <2>1
    <3> QED
      BY <1>1, <1>4, <2>1, <3>1, InvParts DEF Holds, MayStand, FailedRow
  <2>2. CASE q = p
    <3>1. ASSUME NEW r \in Rels, <<p, r>> \in disk'[f]
          PROVE  \E i \in DOMAIN Items[p] :
                   r = Items[p][i] /\ f = AbsOf[Items[p][i]] /\ (i < at[p] \/ (i = at[p] /\ Items[p][i] \in NoLink))
      <4>1. CASE <<p, r>> \in disk[f]
        <5>1. PICK i \in DOMAIN Items[p] : r = Items[p][i] /\ f = AbsOf[Items[p][i]] /\ MayStand(p, i)
          BY <4>1, InvParts DEF Holds
        <5> QED
          BY <1>1, <5>1 DEF MayStand
      <4>2. CASE <<p, r>> \notin disk[f]
        BY <1>2, <1>6, <3>1, <4>2 DEF File, Item
      <4> QED
        BY <4>1, <4>2
    <3>2. ASSUME NEW i \in DOMAIN Items[p], i < at[p] \/ (i = at[p] /\ Items[p][i] \in NoLink)
          PROVE  MayStand(p, i)'
      <4>1. CASE i < at[p]
        <5>1. pc'[p] = "rollback"
          BY <1>2, <1>4, <4>1, EarlierIsUndone
        <5> QED
          BY <1>1, <1>2, <4>1, <5>1 DEF MayStand
      <4>2. CASE i = at[p] /\ Items[p][i] \in NoLink
        BY <1>1, <1>4, <4>2 DEF MayStand
      <4> QED
        BY <3>2, <4>1, <4>2
    <3> QED
      BY <2>2, <3>1, <3>2 DEF Holds
  <2> QED
    BY <2>1, <2>2
<1>8. ASSUME NEW q \in Procs, NEW i \in DOMAIN Items[q] PROVE Lands(q, i)'
  <2>1. AbsOf[Items[q][i]] \in Files /\ Items[q][i] \in Rels
    BY <1>2, ItemFacts
  <2>2. <<q, Items[q][i]>> \in disk[AbsOf[Items[q][i]]] => <<q, Items[q][i]>> \in disk'[AbsOf[Items[q][i]]]
    BY <1>3, <2>1, OthersContent
  <2>3. CASE q # p
    BY <1>1, <1>4, <2>2, <2>3, InvParts, LandsStays
  <2>4. CASE q = p
    <3>1. MustStand(p, i)' => MustStand(p, i)
      BY <1>1, <1>4 DEF MustStand
    <3> QED
      BY <1>1, <2>2, <2>4, <3>1, InvParts DEF Lands
  <2> QED
    BY <2>3, <2>4
<1>9. ASSUME NEW q \in Procs, NEW s \in Procs, NEW f \in Files PROVE AloneIn(q, s, f)'
  <2>1. CASE disk'[f] = {<<p, Item(p)>>}
    BY <2>1 DEF AloneIn
  <2>2. CASE disk'[f] # {<<p, Item(p)>>}
    BY <1>6, <2>2, InvParts, AloneStays DEF NoNew
  <2> QED
    BY <2>1, <2>2
<1> QED
  BY <1>5, <1>7, <1>8, <1>9, InvFrom

-----------------------------------------------------------------------------
(* The invariant: the rollback *)

\* The file the rollback turns to is that of one earlier item, and what it
\* would put back holds no edit of a batch.
LEMMA UndoneItem ==
  ASSUME OneSpelling, Inv, NEW p \in Procs, pc[p] = "rollback"
  PROVE  /\ Last(p, NextUndo(p)) \in DOMAIN Items[p] /\ Last(p, NextUndo(p)) < at[p]
         /\ AbsOf[Items[p][Last(p, NextUndo(p))]] = NextUndo(p)
         /\ NextUndo(p) \notin DOMAIN ledger[p] /\ NextUndo(p) # File(p)
         /\ \A i \in DOMAIN Items[p] : AbsOf[Items[p][i]] = NextUndo(p) => i = Last(p, NextUndo(p))
         /\ ~ WasCreate(p, NextUndo(p)) => existing[p][Last(p, NextUndo(p))] \subseteq {User}
<1> DEFINE f == NextUndo(p)
           k == Last(p, f)
<1>1. /\ f \in Undo(p) /\ f \notin DOMAIN ledger[p] /\ k \in 1..at[p]
      /\ k \in DOMAIN existing[p] /\ AbsOf[Items[p][k]] = f
  BY InvParts, NextUndoFacts
<1>2. f # File(p)
  BY <1>1, InvParts, UndoFacts
<1>3. k \in DOMAIN Items[p] /\ k # at[p] /\ at[p] \in Nat
  BY <1>1, <1>2, InvParts, ItemFacts DEF File, Item
<1>4. ~ WasCreate(p, f) => existing[p][k] \subseteq {User}
  BY <1>1, InvParts DEF WasCreate, ReadClean
<1>5. \A i \in DOMAIN Items[p] : AbsOf[Items[p][i]] = f => i = k
  BY <1>1, <1>3 DEF OneSpelling
<1> QED
  BY <1>1, <1>2, <1>3, <1>4, <1>5

\* One turn of the rollback loop, as the four actions share it: the file is
\* noted in the ledger, as failed or after it was put back or removed.
LEMMA Turn ==
  ASSUME Inv, NEW p \in Procs, Restore(p) \/ RestoreFails(p) \/ Remove(p) \/ RemoveFails(p)
  PROVE  \E row \in Rows :
           /\ pc[p] = "rollback" /\ Note(p, NextUndo(p), row)
           /\ \/ row \in FailedRows /\ disk' = disk
              \/ /\ row \notin FailedRows
                 /\ ~ WasCreate(p, NextUndo(p))
                 /\ disk' = [disk EXCEPT ![NextUndo(p)] = existing[p][Last(p, NextUndo(p))]]
              \/ /\ row \notin FailedRows
                 /\ WasCreate(p, NextUndo(p))
                 /\ disk' = [disk EXCEPT ![NextUndo(p)] = Absent]
BY DEF Restore, RestoreFails, Remove, RemoveFails, Rows, FailedRows

\* A turn of the rollback keeps Inv: where it takes out an edit the file is
\* in the ledger, and another batch has no edit there that must stay.
LEMMA Undoing ==
  ASSUME OneSpelling, MeetInCreates, Inv, Typed', NEW p \in Procs,
         Restore(p) \/ RestoreFails(p) \/ Remove(p) \/ RemoveFails(p)
  PROVE  Inv'
<1> DEFINE g == NextUndo(p)
           k == Last(p, g)
<1>1. PICK row \in Rows :
        /\ pc[p] = "rollback" /\ Note(p, g, row)
        /\ \/ row \in FailedRows /\ disk' = disk
           \/ row \notin FailedRows /\ ~ WasCreate(p, g) /\ disk' = [disk EXCEPT ![g] = existing[p][k]]
           \/ row \notin FailedRows /\ WasCreate(p, g) /\ disk' = [disk EXCEPT ![g] = Absent]
  BY Turn
<1> DEFINE rows == [h \in DOMAIN ledger[p] \cup {g} |-> IF h = g THEN row ELSE ledger[p][h]]
<1>2. /\ ledger' = [ledger EXCEPT ![p] = rows]
      /\ pc' = IF DOMAIN rows = Undo(p) THEN [pc EXCEPT ![p] = FailedOutcome(p, rows)] ELSE pc
      /\ UNCHANGED <<at, existing, deleted>>
  BY <1>1 DEF Note
<1>3. /\ k \in DOMAIN Items[p] /\ k < at[p] /\ AbsOf[Items[p][k]] = g /\ g \in Files
      /\ g \notin DOMAIN ledger[p] /\ g # File(p)
      /\ \A i \in DOMAIN Items[p] : AbsOf[Items[p][i]] = g => i = k
      /\ ~ WasCreate(p, g) => existing[p][k] \subseteq {User}
  BY <1>1, UndoneItem, InvParts, NextUndoFacts
<1>4. WasCreate(p, g) <=> Items[p][k] \in Creates
  BY DEF WasCreate
<1> HIDE DEF g, k
<1>5. /\ DOMAIN rows = DOMAIN ledger[p] \cup {g} /\ rows[g] = row
      /\ \A h \in DOMAIN ledger[p] : h # g => rows[h] = ledger[p][h]
  OBVIOUS
<1> HIDE DEF rows
<1>6. /\ ledger'[p] = rows
      /\ \/ pc'[p] = "rollback"
         \/ /\ DOMAIN rows = Undo(p)
            /\ pc'[p] = IF \E h \in DOMAIN rows : rows[h] \in FailedRows THEN "rollback-failed" ELSE "write-error"
      /\ \A q \in Procs : q # p => pc'[q] = pc[q] /\ ledger'[q] = ledger[q]
  BY <1>1, <1>2, InvParts, Shapes DEF FailedOutcome
<1>7. /\ Typed /\ at[p] \in 1..Len(Items[p])
      /\ DOMAIN Items[p] = 1..Len(Items[p]) /\ Len(Items[p]) \in Nat
      /\ \A q \in Procs : \A i \in DOMAIN Items[q] : Items[q][i] \in Rels /\ AbsOf[Items[q][i]] \in Files
  BY InvParts, ItemFacts
<1>8. /\ \A f \in Files : f # g => disk'[f] = disk[f]
      /\ \/ row \in FailedRows /\ disk'[g] = disk[g]
         \/ row \notin FailedRows /\ Items[p][k] \notin Creates /\ disk'[g] \subseteq {User}
         \/ row \notin FailedRows /\ Items[p][k] \in Creates /\ disk'[g] = Absent
  BY <1>1, <1>3, <1>4, <1>7, Shapes
<1>9. row \in FailedRows \/ \A q \in Procs : \A r \in Rels : <<q, r>> \notin disk'[g]
  BY <1>8, OthersContent
<1>10. ASSUME NEW f \in Files PROVE NoNew(f)
  BY <1>8, <1>9 DEF NoNew
<1>11. ASSUME NEW q \in Procs PROVE ReadClean(q)'
  BY <1>2, InvParts, ReadCleanStays
<1>12. ASSUME NEW i \in DOMAIN Items[p], NEW r \in Rels,
              <<p, r>> \in disk'[AbsOf[Items[p][i]]], MayStand(p, i)
       PROVE  MayStand(p, i)'
  <2>1. \/ i = at[p] /\ Items[p][i] \in NoLink
        \/ i < at[p] /\ (AbsOf[Items[p][i]] \in DOMAIN ledger[p] => FailedRow(p, AbsOf[Items[p][i]]))
    BY <1>1, <1>12 DEF MayStand
  <2>2. CASE i = at[p] /\ Items[p][i] \in NoLink
    BY <1>2, <1>6, <2>2 DEF MayStand
  <2>3. CASE i < at[p] /\ (AbsOf[Items[p][i]] \in DOMAIN ledger[p] => FailedRow(p, AbsOf[Items[p][i]]))
    <3> DEFINE f == AbsOf[Items[p][i]]
    <3>1. f \in Undo(p)
      BY <1>7, <2>3, EarlierIsUndone
    <3>2. f \in DOMAIN rows => rows[f] \in FailedRows
      <4>1. CASE f = g
        BY <1>5, <1>9, <1>12, <4>1
      <4>2. CASE f # g
        BY <1>5, <2>3, <4>2 DEF FailedRow
      <4> QED
        BY <4>1, <4>2
    <3>3. CASE pc'[p] = "rollback"
      BY <1>2, <1>6, <2>3, <3>2, <3>3 DEF MayStand, FailedRow
    <3>4. CASE pc'[p] # "rollback"
      <4>1. f \in DOMAIN rows /\ rows[f] \in FailedRows
        BY <1>6, <3>1, <3>2, <3>4
      <4>2. pc'[p] = "rollback-failed"
        BY <1>6, <3>4, <4>1
      <4> QED
        BY <1>6, <4>1, <4>2 DEF MayStand, FailedRow
    <3> QED
      BY <3>3, <3>4
  <2> QED
    BY <2>1, <2>2, <2>3
<1>13. ASSUME NEW q \in Procs, NEW f \in Files PROVE Holds(q, f)'
  <2>1. CASE q # p
    BY <1>2, <1>6, <1>10, <2>1, InvParts, HoldsStays
  <2>2. CASE q = p
    <3>1. ASSUME NEW r \in Rels, <<p, r>> \in disk'[f]
          PROVE  \E i \in DOMAIN Items[p] : r = Items[p][i] /\ f = AbsOf[Items[p][i]] /\ MayStand(p, i)'
      <4>1. PICK i \in DOMAIN Items[p] : r = Items[p][i] /\ f = AbsOf[Items[p][i]] /\ MayStand(p, i)
        BY <1>10, <3>1, InvParts DEF Holds, NoNew
      <4> QED
        BY <1>12, <3>1, <4>1
    <3> QED
      BY <2>2, <3>1 DEF Holds
  <2> QED
    BY <2>1, <2>2
<1>14. ASSUME NEW q \in Procs, NEW i \in DOMAIN Items[q] PROVE Lands(q, i)'
  <2>1. CASE q = p
    <3>1. MustStand(p, i)' => MustStand(p, i) /\ AbsOf[Items[p][i]] # g
      BY <1>1, <1>2, <1>5, <1>6 DEF MustStand
    <3> QED
      BY <1>2, <1>7, <1>8, <2>1, <3>1, InvParts DEF Lands
  <2>2. CASE q # p /\ AbsOf[Items[q][i]] # g
    BY <1>2, <1>6, <1>7, <1>8, <2>2, InvParts, LandsStays
  <2>3. CASE q # p /\ AbsOf[Items[q][i]] = g
    <3>1. Items[p][k] \in Creates
      BY <1>3, <2>3 DEF MeetInCreates
    <3>2. g \in deleted \/ <<p, Items[p][k]>> \in disk[g]
      BY <1>1, <1>3, InvParts DEF Lands, MustStand
    <3>3. <<q, Items[q][i]>> \in disk[g] => g \in deleted
      BY <1>3, <1>7, <2>3, <3>2, InvParts DEF AloneIn
    <3> QED
      BY <1>2, <1>6, <2>3, <3>3, InvParts, LandsStays
  <2> QED
    BY <2>1, <2>2, <2>3
<1>15. ASSUME NEW q \in Procs, NEW s \in Procs, NEW f \in Files PROVE AloneIn(q, s, f)'
  BY <1>10, InvParts, AloneStays
<1> QED
  BY <1>11, <1>13, <1>14, <1>15, InvFrom

-----------------------------------------------------------------------------
(* The theorems *)

\* Inv is inductive.
LEMMA InvStep ==
  ASSUME OneSpelling, MeetInCreates, Inv, [Next]_vars
  PROVE  Inv'
<1>1. Typed'
  BY InvParts, TypedStep
<1>2. ASSUME NEW p \in Procs,
             Validate(p) \/ Refuse(p) \/ Commit(p) \/ Cancel(p) \/ Kill(p)
      PROVE  Inv'
  BY <1>1, <1>2, BeforeWriting
<1>3. ASSUME NEW p \in Procs, Write(p) \/ Publish(p) PROVE Inv'
  BY <1>1, <1>3, Writing
<1>4. ASSUME NEW p \in Procs, WriteFails(p) \/ PublishFindsFile(p) \/ PublishTorn(p) PROVE Inv'
  BY <1>1, <1>4, Failing
<1>5. ASSUME NEW p \in Procs, Restore(p) \/ RestoreFails(p) \/ Remove(p) \/ RemoveFails(p) PROVE Inv'
  BY <1>1, <1>5, Undoing
<1>6. ASSUME NEW f \in Files, UserSaves(f) \/ UserDeletes(f) PROVE Inv'
  BY <1>1, <1>6, UserMoves
<1>7. CASE UNCHANGED vars
  <2>1. UNCHANGED <<pc, at, existing, ledger, disk, deleted>>
    BY <1>7 DEF vars
  <2>2. \A q \in Procs : ReadClean(q)'
    BY <2>1, InvParts, ReadCleanStays
  <2>3. \A q \in Procs : \A f \in Files : Holds(q, f)'
    BY <2>1, InvParts, HoldsStays DEF NoNew
  <2>4. \A q \in Procs : \A i \in DOMAIN Items[q] : Lands(q, i)'
    BY <2>1, InvParts, LandsStays
  <2>5. \A q, s \in Procs : \A f \in Files : AloneIn(q, s, f)'
    BY <2>1, InvParts, AloneStays DEF NoNew
  <2> QED
    BY <1>1, <2>2, <2>3, <2>4, <2>5, InvFrom
<1> QED
  BY <1>2, <1>3, <1>4, <1>5, <1>6, <1>7 DEF Next

\* The invariant that the properties of a batch follow from, for any batches
\* that meet in files they create only, each with one spelling of a path.
THEOREM Invariant ==
  ASSUME OneSpelling, MeetInCreates
  PROVE  Spec => []Inv
<1>1. Inv /\ [Next]_vars => Inv'
  BY InvStep
<1> QED
  BY <1>1, InvInit, PTL DEF Spec

\* The file an edit of p is found in, when p has ended.
LEMMA TouchedFacts ==
  ASSUME Inv, NEW p \in Procs, NEW f \in Touched(p)
  PROVE  \E i \in DOMAIN Items[p] : f = AbsOf[Items[p][i]] /\ MayStand(p, i)
<1>1. PICK r \in Rels : <<p, r>> \in disk[f]
  BY DEF Touched
<1>2. f \in Files
  BY DEF Touched
<1> QED
  BY <1>1, <1>2, InvParts DEF Holds

\* A batch that was refused or cancelled, or that says it was rolled back,
\* has left none of its bytes, but for a create that failed in place.
THEOREM NothingLeft ==
  ASSUME OneSpelling, MeetInCreates
  PROVE  Spec => []NoResidue
<1>1. Inv => NoResidue
  <2>1. ASSUME Inv, NEW p \in Procs, pc[p] \in {"refused", "cancelled", "write-error"}, NEW f \in Touched(p)
        PROVE  f \in Torn(p)
    <3>1. PICK i \in DOMAIN Items[p] : f = AbsOf[Items[p][i]] /\ MayStand(p, i)
      BY <2>1, TouchedFacts
    <3>2. pc[p] = "write-error" /\ i = at[p] /\ Items[p][i] \in NoLink
      BY <2>1, <3>1 DEF MayStand
    <3> QED
      BY <3>1, <3>2 DEF Torn, File, Item
  <2> QED
    BY <2>1 DEF NoResidue
<1> QED
  BY <1>1, Invariant, PTL

\* A batch that says ok has every item in its file, unless the user has
\* deleted the file since.
THEOREM WholeLanding ==
  ASSUME OneSpelling, MeetInCreates
  PROVE  Spec => []LandsWhole
<1>1. Inv => LandsWhole
  BY InvParts DEF LandsWhole, Lands, MustStand
<1> QED
  BY <1>1, Invariant, PTL

\* What a failed rollback left behind is in its ledger, or is the path the
\* error names.
THEOREM TrueLedger ==
  ASSUME OneSpelling, MeetInCreates
  PROVE  Spec => []LedgerTrue
<1>1. Inv => LedgerTrue
  <2>1. ASSUME Inv, NEW p \in Procs, pc[p] = "rollback-failed", NEW f \in Touched(p)
        PROVE  f = File(p) \/ (f \in DOMAIN ledger[p] /\ ledger[p][f] \in FailedRows)
    <3>1. PICK i \in DOMAIN Items[p] : f = AbsOf[Items[p][i]] /\ MayStand(p, i)
      BY <2>1, TouchedFacts
    <3>2. i = at[p] \/ FailedRow(p, f)
      BY <2>1, <3>1 DEF MayStand
    <3> QED
      BY <3>1, <3>2 DEF FailedRow, File, Item
  <2> QED
    BY <2>1 DEF LedgerTrue
<1> QED
  BY <1>1, Invariant, PTL

\* A file that one item creates is created by every item that names it.
LEMMA CreateFile ==
  ASSUME OneSpelling, MeetInCreates, NEW r \in Creates,
         NEW p \in Procs, NEW i \in DOMAIN Items[p], AbsOf[Items[p][i]] = AbsOf[r]
  PROVE  Items[p][i] \in Creates
<1>1. r \in Rels
  BY EditBatchAssumption
<1>2. PICK q \in Procs : \E j \in DOMAIN Items[q] : Items[q][j] = r
  BY <1>1 DEF Rels
<1>3. PICK j \in DOMAIN Items[q] : Items[q][j] = r
  BY <1>2
<1>4. CASE q = p
  BY <1>3, <1>4 DEF OneSpelling
<1>5. CASE q # p
  BY <1>3, <1>5 DEF MeetInCreates
<1> QED
  BY <1>4, <1>5

\* No step replaces the content of a file that a batch creates.
LEMMA CreateStep ==
  ASSUME OneSpelling, MeetInCreates, Inv, [Next]_vars,
         NEW r \in Creates, disk[AbsOf[r]] # Absent, disk'[AbsOf[r]] # Absent
  PROVE  disk[AbsOf[r]] \subseteq disk'[AbsOf[r]]
<1> DEFINE file == AbsOf[r]
<1>1. /\ disk \in [Files -> Content] /\ file \in Files /\ Typed
      /\ \A p \in Procs : File(p) \in Files /\ at[p] \in DOMAIN Items[p]
  BY EditBatchAssumption, InvParts, Shapes, ItemFacts DEF Files
<1> HIDE DEF file
<1>2. ASSUME NEW p \in Procs, File(p) = file PROVE Item(p) \in Creates
  BY <1>1, <1>2, CreateFile DEF file, File, Item
<1>3. ASSUME NEW p \in Procs, Write(p) \/ Publish(p) PROVE disk[file] \subseteq disk'[file]
  <2>1. File(p) # file
    BY <1>2, <1>3 DEF Write, Publish, file
  <2> QED
    BY <1>1, <1>3, <2>1 DEF Write, Publish
<1>4. ASSUME NEW p \in Procs, WriteFails(p) \/ PublishFindsFile(p) \/ PublishTorn(p)
      PROVE  disk[file] \subseteq disk'[file]
  BY <1>1, <1>4 DEF WriteFails, PublishFindsFile, PublishTorn, file
<1>5. ASSUME NEW p \in Procs, Restore(p) \/ RestoreFails(p) \/ Remove(p) \/ RemoveFails(p)
      PROVE  disk[file] \subseteq disk'[file]
  <2> DEFINE g == NextUndo(p)
  <2>1. disk' = disk \/ disk' = [disk EXCEPT ![g] = Absent]
        \/ (~ WasCreate(p, g) /\ disk' = [disk EXCEPT ![g] = existing[p][Last(p, g)]])
    BY <1>5, Turn
  <2>2. pc[p] = "rollback"
    BY <1>5, Turn
  <2>3. g \in Files /\ Last(p, g) \in DOMAIN Items[p] /\ AbsOf[Items[p][Last(p, g)]] = g
    BY <1>1, <2>2, NextUndoFacts, UndoneItem
  <2>4. file = g => WasCreate(p, g)
    BY <2>3, CreateFile DEF file, WasCreate
  <2> HIDE DEF g
  <2>5. CASE file = g
    BY <1>1, <2>1, <2>3, <2>4, <2>5 DEF file
  <2>6. CASE file # g
    BY <1>1, <2>1, <2>3, <2>6
  <2> QED
    BY <2>5, <2>6
<1>6. ASSUME NEW p \in Procs, Validate(p) \/ Refuse(p) \/ Commit(p) \/ Cancel(p) \/ Kill(p)
      PROVE  disk[file] \subseteq disk'[file]
  BY <1>6 DEF Validate, Refuse, Commit, Cancel, Kill
<1>7. ASSUME NEW g \in Files, UserSaves(g) \/ UserDeletes(g) PROVE disk[file] \subseteq disk'[file]
  BY <1>1, <1>7 DEF UserSaves, UserDeletes, file
<1>8. ASSUME UNCHANGED vars PROVE disk[file] \subseteq disk'[file]
  BY <1>8 DEF vars
<1>9. disk[file] \subseteq disk'[file]
  BY <1>3, <1>4, <1>5, <1>6, <1>7, <1>8 DEF Next
<1> QED
  BY <1>9 DEF file

\* A create never replaces what came to its name after it was validated.
THEOREM CreatesAreExclusive ==
  ASSUME OneSpelling, MeetInCreates
  PROVE  Spec => CreateNeverReplaces
<1>1. Inv /\ [Next]_vars =>
        [\A f \in {AbsOf[r] : r \in Creates} \ Old :
           disk[f] # Absent /\ disk'[f] # Absent => disk[f] \subseteq disk'[f]]_vars
  BY CreateStep
<1> QED
  BY <1>1, Invariant, PTL DEF Spec, CreateNeverReplaces
=============================================================================
