-------------------------- MODULE WriterLockProofs --------------------------
(***************************************************************************)
(* Proofs about WriterLock: its type invariant for every choice of the     *)
(* constants, and mutual exclusion wherever the staleness proof can be     *)
(* trusted (Reliable) and as long as no unlink by name has misfired.       *)
(***************************************************************************)
EXTENDS WriterLock, TLAPS

\* All contenders probe pids of their own machine, the probe always answers,
\* and no creator stalls a whole window before writing its content.
Reliable ==
  /\ \A p, q \in Procs : HostOf[p] = HostOf[q]
  /\ ProbeWorks
  /\ Prompt

-----------------------------------------------------------------------------
(* The inductive invariant *)

\* Acquisitions are told apart by their markers.
MarksTellApart ==
  \A p, q \in Procs : mine[p] = mine[q] /\ mine[p] # NoMark => p = q

\* A file that carries the marker of a running acquisition was created by it,
\* is empty exactly while its content is being written, and young meanwhile.
OwnFile ==
  \A p \in Procs : Exists /\ lock.mark = mine[p] =>
    /\ lock.owner = p
    /\ lock.written <=> pc[p] # "write"
    /\ pc[p] = "write" => ~lock.old

\* The file of a running acquisition is in place.
HolderHasFile ==
  \A p \in Procs : pc[p] \in Holding => Exists /\ lock.mark = mine[p]

\* The file in place is the one q looked at, and somebody holds it.
SeenHeld(q) ==
  Exists /\ lock.mark = judged[q] /\ Holds(lock.owner, lock.mark)

\* What each step of isBreakable has established about the file it looked at.
BreakerIsRight ==
  \A q \in Procs : SeenHeld(q) =>
    /\ pc[q] # "unlink"
    /\ pc[q] = "read" => pc[lock.owner] # "write"
    /\ pc[q] = "probe" => pidSeen[q] = lock.owner

Inv ==
  /\ TypeOK
  /\ MarksTellApart
  /\ OwnFile
  /\ BreakerIsRight
  /\ ~misfired => HolderHasFile

-----------------------------------------------------------------------------
(* Type correctness, for every choice of the constants *)

\* Init establishes the type invariant.
LEMMA InitTypeOK == Init => TypeOK
BY WriterLockAssumption DEF Init, TypeOK, LockFile, Labels, Holding

\* No step breaks it.
LEMMA StepTypeOK == TypeOK /\ [Next]_vars => TypeOK'
<1> SUFFICES ASSUME TypeOK, [Next]_vars PROVE TypeOK'
    OBVIOUS
<1> USE WriterLockAssumption DEF TypeOK, LockFile, Labels, Holding, Exists, Go
<1>1. ASSUME NEW p \in Procs, Call(p) PROVE TypeOK'
  BY <1>1 DEF Call
<1>2. ASSUME NEW p \in Procs, Create(p) PROVE TypeOK'
  BY <1>2 DEF Create
<1>3. ASSUME NEW p \in Procs, FindTaken(p) PROVE TypeOK'
  BY <1>3 DEF FindTaken
<1>4. ASSUME NEW p \in Procs, OpenFails(p) PROVE TypeOK'
  BY <1>4 DEF OpenFails
<1>5. ASSUME NEW p \in Procs, WriteContent(p) PROVE TypeOK'
  BY <1>5 DEF WriteContent
<1>6. ASSUME NEW p \in Procs, WriteFails(p) PROVE TypeOK'
  BY <1>6 DEF WriteFails
<1>7. ASSUME NEW p \in Procs, StatAge(p) PROVE TypeOK'
  BY <1>7 DEF StatAge
<1>8. ASSUME NEW p \in Procs, ReadContent(p) PROVE TypeOK'
  BY <1>8 DEF ReadContent
<1>9. ASSUME NEW p \in Procs, Probe(p) PROVE TypeOK'
  BY <1>9 DEF Probe
<1>10. ASSUME NEW p \in Procs, UnlinkStale(p) PROVE TypeOK'
  BY <1>10 DEF UnlinkStale
<1>11. ASSUME NEW p \in Procs, Retry(p) PROVE TypeOK'
  BY <1>11 DEF Retry
<1>12. ASSUME NEW p \in Procs, GiveUp(p) PROVE TypeOK'
  BY <1>12 DEF GiveUp
<1>13. ASSUME NEW p \in Procs, HeartbeatCheck(p) PROVE TypeOK'
  BY <1>13 DEF HeartbeatCheck
<1>14. ASSUME NEW p \in Procs, HeartbeatTouch(p) PROVE TypeOK'
  BY <1>14 DEF HeartbeatTouch
<1>15. ASSUME NEW p \in Procs, ReleaseCheck(p) PROVE TypeOK'
  BY <1>15 DEF ReleaseCheck
<1>16. ASSUME NEW p \in Procs, ReleaseUnlink(p) PROVE TypeOK'
  BY <1>16 DEF ReleaseUnlink
<1>17. ASSUME NEW p \in Procs, Crash(p) PROVE TypeOK'
  BY <1>17 DEF Crash
<1>18. ASSUME NEW p \in Procs, Recycle(p) PROVE TypeOK'
  BY <1>18 DEF Recycle
<1>19. ASSUME Age PROVE TypeOK'
  BY <1>19 DEF Age
<1>20. CASE UNCHANGED vars
  BY <1>20 DEF vars
<1> QED
  BY <1>1, <1>2, <1>3, <1>4, <1>5, <1>6, <1>7, <1>8, <1>9, <1>10, <1>11, <1>12,
     <1>13, <1>14, <1>15, <1>16, <1>17, <1>18, <1>19, <1>20
     DEF Next, Step, Break

\* The type invariant holds of the lock whatever the processes and the file
\* system do.
THEOREM TypeCorrect == Spec => []TypeOK
BY InitTypeOK, StepTypeOK, PTL DEF Spec

-----------------------------------------------------------------------------
(* Mutual exclusion *)

\* Init establishes the inductive invariant.
LEMMA InitInv == Init => Inv
BY WriterLockAssumption, InitTypeOK
   DEF Init, Inv, MarksTellApart, OwnFile, HolderHasFile, BreakerIsRight, SeenHeld,
       Holds, Holding, Exists

\* The name still refers to the file it referred to before the step.
SameFile ==
  lock' \in LockFile /\ lock'.owner = lock.owner /\ lock'.mark = lock.mark

\* Rewriting or touching a file changes neither its creator nor its marker.
LEMMA Refiled ==
  ASSUME TypeOK, Exists
  PROVE  /\ \A b \in BOOLEAN : lock' = [lock EXCEPT !.old = b] =>
              SameFile /\ lock'.written = lock.written /\ lock'.old = b
         /\ lock' = [[lock EXCEPT !.written = TRUE] EXCEPT !.old = FALSE] =>
              SameFile /\ lock'.written = TRUE /\ lock'.old = FALSE
<1>1. lock \in LockFile
  BY DEF TypeOK, Exists
<1> QED
  BY <1>1 DEF LockFile, SameFile

\* Under Reliable no step breaks it.  TypeOK' is there from StepTypeOK; each
\* action is taken through the four other conjuncts.
LEMMA StepInv == ASSUME Reliable PROVE Inv /\ [Next]_vars => Inv'
<1> SUFFICES ASSUME Inv, [Next]_vars PROVE Inv'
    OBVIOUS
<1>t. TypeOK /\ TypeOK'
  BY StepTypeOK DEF Inv
<1>i. MarksTellApart /\ OwnFile /\ BreakerIsRight /\ (~misfired => HolderHasFile)
  BY DEF Inv
<1> DEFINE Goal == MarksTellApart' /\ OwnFile' /\ BreakerIsRight'
                     /\ (~misfired' => HolderHasFile')
<1> USE WriterLockAssumption, <1>t, <1>i
    DEF TypeOK, LockFile, Labels, Holding, Exists, Go, MarksTellApart, OwnFile,
        HolderHasFile, BreakerIsRight, SeenHeld, Holds
<1>1. ASSUME NEW p \in Procs, Call(p) PROVE Goal
  BY <1>1 DEF Call
<1>2. ASSUME NEW p \in Procs, Create(p) PROVE Goal
  <2>1. PICK m \in Marks \ InUse :
          /\ lock' = [owner |-> p, mark |-> m, written |-> FALSE, old |-> FALSE]
          /\ mine' = [mine EXCEPT ![p] = m]
    BY <1>2 DEF Create
  <2>2. /\ pc[p] = "open" /\ pc' = [pc EXCEPT ![p] = "write"]
        /\ ~Exists
        /\ UNCHANGED <<judged, pidSeen, misfired>>
    BY <1>2 DEF Create
  <2>3. \A q \in Procs : mine[q] # m /\ judged[q] # m
    BY <2>1 DEF InUse
  <2>4. MarksTellApart' /\ OwnFile'
    BY <2>1, <2>2, <2>3
  <2>5. BreakerIsRight'
    BY <2>1, <2>2, <2>3
  <2>6. ASSUME ~misfired', NEW q \in Procs, pc'[q] \in Holding
        PROVE  Exists' /\ lock'.mark = mine'[q]
    <3>1. pc[q] \notin Holding
      BY <2>2, <2>6
    <3>2. q = p
      BY <2>2, <2>6, <3>1
    <3>3. lock' \in LockFile
      BY <2>1
    <3>4. mine'[q] = m /\ lock'.mark = m
      BY <2>1, <3>2
    <3> QED
      BY <3>3, <3>4
  <2> QED
    BY <2>4, <2>5, <2>6
<1>3. ASSUME NEW p \in Procs, FindTaken(p) PROVE Goal
  BY <1>3 DEF FindTaken
<1>4. ASSUME NEW p \in Procs, OpenFails(p) PROVE Goal
  BY <1>4 DEF OpenFails
<1>5. ASSUME NEW p \in Procs, WriteContent(p) PROVE Goal
  <2>1. /\ pc[p] = "write" /\ pc' = [pc EXCEPT ![p] = "held"]
        /\ UNCHANGED <<mine, judged, pidSeen, misfired>>
    BY <1>5 DEF WriteContent
  <2>2. CASE ~(Exists /\ lock.mark = mine[p])
    <3>1. lock' = lock
      BY <1>5, <2>2 DEF WriteContent
    <3> QED
      BY <2>1, <2>2, <3>1
  <2>3. CASE Exists /\ lock.mark = mine[p]
    <3>1. lock' = [[lock EXCEPT !.written = TRUE] EXCEPT !.old = FALSE]
      BY <1>5, <2>3 DEF WriteContent
    <3>2. SameFile /\ lock'.written = TRUE /\ lock'.old = FALSE
      BY <2>3, <3>1, Refiled
    <3> QED
      BY <2>1, <2>3, <3>2 DEF SameFile
  <2> QED
    BY <2>2, <2>3
<1>6. ASSUME NEW p \in Procs, WriteFails(p) PROVE Goal
  BY <1>6 DEF WriteFails
<1>7. ASSUME NEW p \in Procs, StatAge(p) PROVE Goal
  BY <1>7 DEF StatAge
<1>8. ASSUME NEW p \in Procs, ReadContent(p) PROVE Goal
  BY <1>8 DEF ReadContent
<1>9. ASSUME NEW p \in Procs, Probe(p) PROVE Goal
  <2>1. PICK alive \in ProbeSaysAlive(p, pidSeen[p]) :
          pc' = [pc EXCEPT ![p] = IF alive THEN "deadline" ELSE "unlink"]
    BY <1>9 DEF Probe
  <2>2. /\ pc[p] = "probe"
        /\ judged' = [judged EXCEPT ![p] = IF pc'[p] = "deadline" THEN NoMark
                                           ELSE judged[p]]
        /\ pidSeen' = [pidSeen EXCEPT ![p] = NoProc]
        /\ UNCHANGED <<lock, mine, misfired>>
    BY <1>9 DEF Probe
  <2>3. pidSeen[p] \in Procs /\ alive = (pc[pidSeen[p]] # "dead")
    BY <2>2 DEF ProbeSaysAlive, Reliable
  <2>4. SeenHeld(p) => alive
    BY <2>2, <2>3
  <2>5. MarksTellApart' /\ OwnFile' /\ (~misfired' => HolderHasFile')
    BY <2>1, <2>2
  <2>6. ASSUME NEW q \in Procs, SeenHeld(q)'
        PROVE  /\ pc'[q] # "unlink"
               /\ pc'[q] = "read" => pc'[lock'.owner] # "write"
               /\ pc'[q] = "probe" => pidSeen'[q] = lock'.owner
    <3>1. CASE q = p
      BY <2>1, <2>2, <2>4, <2>6, <3>1
    <3>2. CASE q # p
      <4>1. SeenHeld(q)
        BY <2>1, <2>2, <2>6, <3>2
      <4> QED
        BY <2>1, <2>2, <3>2, <4>1
    <3> QED
      BY <3>1, <3>2
  <2> QED
    BY <2>5, <2>6
<1>10. ASSUME NEW p \in Procs, UnlinkStale(p) PROVE Goal
  <2>1. /\ pc[p] = "unlink" /\ pc' = [pc EXCEPT ![p] = "deadline"]
        /\ lock' = NoLock
        /\ ~misfired' => ~misfired /\ (Exists => lock.mark = judged[p])
        /\ judged' = [judged EXCEPT ![p] = NoMark]
        /\ UNCHANGED <<mine, pidSeen>>
    BY <1>10 DEF UnlinkStale
  <2>2. MarksTellApart' /\ OwnFile' /\ BreakerIsRight'
    BY <2>1
  <2>3. ASSUME ~misfired', NEW q \in Procs, pc'[q] \in Holding PROVE FALSE
    <3>1. ~misfired /\ pc[q] \in Holding
      BY <2>1, <2>3
    <3>2. Exists /\ lock.mark = mine[q] /\ lock.owner = q
      BY <3>1
    <3>3. SeenHeld(p)
      BY <2>1, <2>3, <3>1, <3>2
    <3> QED
      BY <2>1, <3>3
  <2> QED
    BY <2>2, <2>3
<1>11. ASSUME NEW p \in Procs, Retry(p) PROVE Goal
  BY <1>11 DEF Retry
<1>12. ASSUME NEW p \in Procs, GiveUp(p) PROVE Goal
  BY <1>12 DEF GiveUp
<1>13. ASSUME NEW p \in Procs, HeartbeatCheck(p) PROVE Goal
  BY <1>13 DEF HeartbeatCheck, Owns
<1>14. ASSUME NEW p \in Procs, HeartbeatTouch(p) PROVE Goal
  <2>1. /\ pc[p] = "beat" /\ pc' = [pc EXCEPT ![p] = "held"]
        /\ UNCHANGED <<mine, judged, pidSeen, misfired>>
    BY <1>14 DEF HeartbeatTouch
  <2>2. CASE ~Exists
    <3>1. lock' = lock
      BY <1>14, <2>2 DEF HeartbeatTouch
    <3> QED
      BY <2>1, <3>1
  <2>3. CASE Exists
    <3>1. lock' = [lock EXCEPT !.old = FALSE]
      BY <1>14, <2>3 DEF HeartbeatTouch
    <3>2. SameFile /\ lock'.written = lock.written /\ lock'.old = FALSE
      BY <2>3, <3>1, Refiled
    <3> QED
      BY <2>1, <2>3, <3>2 DEF SameFile
  <2> QED
    BY <2>2, <2>3
<1>15. ASSUME NEW p \in Procs, ReleaseCheck(p) PROVE Goal
  BY <1>15 DEF ReleaseCheck, Owns
<1>16. ASSUME NEW p \in Procs, ReleaseUnlink(p) PROVE Goal
  BY <1>16 DEF ReleaseUnlink
<1>17. ASSUME NEW p \in Procs, Crash(p) PROVE Goal
  BY <1>17 DEF Crash
<1>18. ASSUME NEW p \in Procs, Recycle(p) PROVE Goal
  BY <1>18 DEF Recycle
<1>19. ASSUME Age PROVE Goal
  <2>1. lock' = [lock EXCEPT !.old = TRUE]
    BY <1>19 DEF Age
  <2>2. SameFile /\ lock'.written = lock.written /\ lock'.old = TRUE
    BY <1>19, <2>1, Refiled DEF Age
  <2>3. /\ Exists
        /\ ~(pc[lock.owner] = "write" /\ mine[lock.owner] = lock.mark)
        /\ UNCHANGED <<pc, mine, judged, pidSeen, misfired>>
    BY <1>19 DEF Age, Reliable
  <2> QED
    BY <2>2, <2>3 DEF SameFile
<1>20. ASSUME UNCHANGED vars PROVE Goal
  BY <1>20 DEF vars
<1> QED
  BY <1>1, <1>2, <1>3, <1>4, <1>5, <1>6, <1>7, <1>8, <1>9, <1>10, <1>11, <1>12, <1>13, <1>14, <1>15, <1>16, <1>17, <1>18, <1>19, <1>20
     DEF Next, Step, Break, Inv

\* The two exclusion properties follow from it.
LEMMA InvExcludes == Inv => MutualExclusion /\ HolderKeepsFile
BY DEF Inv, MutualExclusion, HolderKeepsFile, OwnFile, HolderHasFile, Holding, Critical, Owns

\* Wherever staleness is really proven, at most one process is between
\* acquireWriterLock and release as long as no unlink has misfired.
THEOREM Exclusion == ASSUME Reliable PROVE Spec => []MutualExclusion
<1>1. Inv /\ [Next]_vars => Inv'
  BY StepInv
<1>2. Inv => MutualExclusion
  BY InvExcludes
<1> QED
  BY InitInv, <1>1, <1>2, PTL DEF Spec

\* ... and the holder's own file is in place until it releases it.
THEOREM KeepsFile == ASSUME Reliable PROVE Spec => []HolderKeepsFile
<1>1. Inv /\ [Next]_vars => Inv'
  BY StepInv
<1>2. Inv => HolderKeepsFile
  BY InvExcludes
<1> QED
  BY InitInv, <1>1, <1>2, PTL DEF Spec

=============================================================================
