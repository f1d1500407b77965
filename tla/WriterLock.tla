----------------------------- MODULE WriterLock -----------------------------
(***************************************************************************)
(* The advisory cross-process writer lock of the per-workspace state store *)
(* (packages/mcp-server/src/state/writerLock.ts).                          *)
(*                                                                         *)
(* One lock file, created exclusively, holds the pid and a per-acquisition *)
(* marker of its creator; its mtime is the heartbeat.  A contender that    *)
(* finds the file looks at its age, then at its content, then at the       *)
(* recorded pid, and unlinks the file BY NAME when the three together mean *)
(* "stale".  Every file-system call is a step of its own, so another       *)
(* process may run between any two of them.                                *)
(***************************************************************************)
EXTENDS FiniteSets

CONSTANTS
  Procs,       \* the processes, each named by its pid
  HostOf,      \* the machine (or pid namespace) each process runs on
  Marks,       \* per-acquisition markers (process.hrtime.bigint)
  NoLock,      \* the lock file does not exist
  NoMark,      \* this process has no acquisition in progress
  NoProc,      \* no pid has been read from the lock file
  MayCrash,    \* the processes that may be killed
  MayRecycle,  \* the killed processes whose pid a new process may get
  ProbeWorks,  \* the platform can always tell whether a local pid is alive
  Prompt       \* nobody stalls a whole staleness window between creating the
               \* lock file and writing its content

ASSUME WriterLockAssumption ==
  /\ NoProc \notin Procs
  /\ NoMark \notin Marks
  /\ NoLock \notin [owner : Procs, mark : Marks, written : BOOLEAN, old : BOOLEAN]
  /\ MayCrash \subseteq Procs
  /\ MayRecycle \subseteq MayCrash
  /\ ProbeWorks \in BOOLEAN
  /\ Prompt \in BOOLEAN

VARIABLES
  pc,        \* where each process is in acquireWriterLock / release
  lock,      \* the file at <dir>/writer.lock
  mine,      \* the marker of the process's own acquisition
  judged,    \* the marker of the file whose age a contender found stale
  pidSeen,   \* the pid a contender read out of the lock file
  misfired   \* history: some unlink removed a file other than the one its
             \* caller had judged stale or proven its own

vars == <<pc, lock, mine, judged, pidSeen, misfired>>

LockFile == [owner : Procs, mark : Marks, written : BOOLEAN, old : BOOLEAN]

Labels == {"idle", "open", "write", "stat", "read", "probe", "unlink",
           "deadline", "held", "beat", "relUnlink", "dead"}

Holding == {"write", "held", "beat", "relUnlink"}

\* Types, and which of a process's notes are alive at which step.
TypeOK ==
  /\ pc \in [Procs -> Labels]
  /\ lock \in LockFile \cup {NoLock}
  /\ mine \in [Procs -> Marks \cup {NoMark}]
  /\ judged \in [Procs -> Marks \cup {NoMark}]
  /\ pidSeen \in [Procs -> Procs \cup {NoProc}]
  /\ misfired \in BOOLEAN
  /\ \A p \in Procs :
       /\ mine[p] # NoMark <=> pc[p] \in Holding
       /\ judged[p] # NoMark <=> pc[p] \in {"read", "probe", "unlink"}
       /\ pidSeen[p] # NoProc <=> pc[p] = "probe"

Init ==
  /\ pc = [p \in Procs |-> "idle"]
  /\ lock = NoLock
  /\ mine = [p \in Procs |-> NoMark]
  /\ judged = [p \in Procs |-> NoMark]
  /\ pidSeen = [p \in Procs |-> NoProc]
  /\ misfired = FALSE

Go(p, from, to) == pc[p] = from /\ pc' = [pc EXCEPT ![p] = to]

Exists == lock # NoLock

\* Markers still referred to somewhere; hrtime never repeats one of them.
\* At most Cardinality(Procs) + 1 are, so that many and one more suffice.
InUse == {mine[p] : p \in Procs} \cup {judged[p] : p \in Procs}
           \cup (IF Exists THEN {lock.mark} ELSE {})

\* The content names this process and this very acquisition.
Owns(p) == Exists /\ lock.written /\ lock.owner = p /\ lock.mark = mine[p]

-----------------------------------------------------------------------------
(* acquireWriterLock *)

Call(p) ==
  /\ Go(p, "idle", "open")
  /\ UNCHANGED <<lock, mine, judged, pidSeen, misfired>>

\* openSync(lockPath, "wx") succeeds: the file is ours but still empty.  Which
\* unused marker the clock yields makes no difference.
Create(p) ==
  /\ Go(p, "open", "write")
  /\ ~Exists
  /\ \E m \in Marks \ InUse :
       /\ m = CHOOSE n \in Marks \ InUse : TRUE
       /\ lock' = [owner |-> p, mark |-> m, written |-> FALSE, old |-> FALSE]
       /\ mine' = [mine EXCEPT ![p] = m]
  /\ UNCHANGED <<judged, pidSeen, misfired>>

\* openSync fails with EEXIST.
FindTaken(p) ==
  /\ Go(p, "open", "stat")
  /\ Exists
  /\ UNCHANGED <<lock, mine, judged, pidSeen, misfired>>

\* openSync fails with anything else: fail closed, no retry.
OpenFails(p) ==
  /\ Go(p, "open", "idle")
  /\ UNCHANGED <<lock, mine, judged, pidSeen, misfired>>

\* writeSync goes to the inode that was created, wherever its name went.
WriteContent(p) ==
  /\ Go(p, "write", "held")
  /\ lock' = IF Exists /\ lock.mark = mine[p]
             THEN [lock EXCEPT !.written = TRUE, !.old = FALSE]
             ELSE lock
  /\ UNCHANGED <<mine, judged, pidSeen, misfired>>

\* Mutant: every error of the attempt is retried, not only EEXIST.
WriteFailsRetries(p) ==
  /\ Go(p, "write", "open")
  /\ UNCHANGED <<lock, mine, judged, pidSeen, misfired>>

\* writeSync throws: the call returns undefined and the empty file stays.
WriteFails(p) ==
  /\ Go(p, "write", "idle")
  /\ mine' = [mine EXCEPT ![p] = NoMark]
  /\ UNCHANGED <<lock, judged, pidSeen, misfired>>

-----------------------------------------------------------------------------
(* tryBreakStaleLock / isBreakable *)

\* Mutant: the age of the file is not compared with the window.
StatAgeIgnored(p) ==
  /\ Go(p, "stat", IF Exists THEN "read" ELSE "deadline")
  /\ judged' = [judged EXCEPT ![p] = IF Exists THEN lock.mark ELSE NoMark]
  /\ UNCHANGED <<lock, mine, pidSeen, misfired>>

\* lockAgeMs: nothing there, or too young, is not breakable.
StatAge(p) ==
  /\ Go(p, "stat", IF Exists /\ lock.old THEN "read" ELSE "deadline")
  /\ judged' = [judged EXCEPT ![p] = IF Exists /\ lock.old THEN lock.mark ELSE NoMark]
  /\ UNCHANGED <<lock, mine, pidSeen, misfired>>

\* Mutant: a file without readable content is left alone.
ReadContentVetoes(p) ==
  /\ LET readable == Exists /\ lock.written
     IN  /\ Go(p, "read", IF readable THEN "probe" ELSE "deadline")
         /\ pidSeen' = [pidSeen EXCEPT ![p] = IF readable THEN lock.owner ELSE NoProc]
         /\ judged' = IF readable THEN judged ELSE [judged EXCEPT ![p] = NoMark]
  /\ UNCHANGED <<lock, mine, misfired>>

\* readLockContent: missing or unparsable content leaves no pid to veto with.
ReadContent(p) ==
  /\ LET readable == Exists /\ lock.written
     IN  /\ Go(p, "read", IF readable THEN "probe" ELSE "unlink")
         /\ pidSeen' = [pidSeen EXCEPT ![p] = IF readable THEN lock.owner ELSE NoProc]
  /\ UNCHANGED <<lock, mine, judged, misfired>>

\* process.kill(pid, 0) answers for the prober's own host; the recorded
\* hostname is not consulted.  Only a positive answer vetoes the break.
ProbeSaysAlive(p, q) ==
  IF HostOf[p] = HostOf[q]
  THEN IF ProbeWorks \/ pc[q] = "dead" THEN {pc[q] # "dead"} ELSE BOOLEAN
  ELSE BOOLEAN

\* Mutant: a live pid does not veto the break.
ProbeNoVeto(p) ==
  /\ Go(p, "probe", "unlink")
  /\ pidSeen' = [pidSeen EXCEPT ![p] = NoProc]
  /\ UNCHANGED <<lock, mine, judged, misfired>>

Probe(p) ==
  /\ pc[p] = "probe"
  /\ \E alive \in ProbeSaysAlive(p, pidSeen[p]) :
       Go(p, "probe", IF alive THEN "deadline" ELSE "unlink")
  /\ judged' = IF pc'[p] = "deadline" THEN [judged EXCEPT ![p] = NoMark] ELSE judged
  /\ pidSeen' = [pidSeen EXCEPT ![p] = NoProc]
  /\ UNCHANGED <<lock, mine, misfired>>

\* unlinkSync(lockPath): removes whatever carries the name by now.
UnlinkStale(p) ==
  /\ Go(p, "unlink", "deadline")
  /\ lock' = NoLock
  /\ misfired' = (misfired \/ (Exists /\ lock.mark # judged[p]))
  /\ judged' = [judged EXCEPT ![p] = NoMark]
  /\ UNCHANGED <<mine, pidSeen>>

\* Date.now() < deadline: back off, then try again.
Retry(p) ==
  /\ Go(p, "deadline", "open")
  /\ UNCHANGED <<lock, mine, judged, pidSeen, misfired>>

\* Mutant: the deadline only shortens the sleep.
GiveUpNever(p) ==
  /\ Go(p, "deadline", "open")
  /\ UNCHANGED <<lock, mine, judged, pidSeen, misfired>>

\* Date.now() >= deadline: return undefined.
GiveUp(p) ==
  /\ Go(p, "deadline", "idle")
  /\ UNCHANGED <<lock, mine, judged, pidSeen, misfired>>

-----------------------------------------------------------------------------
(* makeHandle: the heartbeat timer and release *)

HeartbeatCheck(p) ==
  /\ Go(p, "held", "beat")
  /\ Owns(p)
  /\ UNCHANGED <<lock, mine, judged, pidSeen, misfired>>

\* utimesSync(lockPath): touches whatever carries the name by now.
HeartbeatTouch(p) ==
  /\ Go(p, "beat", "held")
  /\ lock' = IF Exists THEN [lock EXCEPT !.old = FALSE] ELSE lock
  /\ UNCHANGED <<mine, judged, pidSeen, misfired>>

ReleaseCheck(p) ==
  /\ Go(p, "held", IF Owns(p) THEN "relUnlink" ELSE "idle")
  /\ mine' = IF Owns(p) THEN mine ELSE [mine EXCEPT ![p] = NoMark]
  /\ UNCHANGED <<lock, judged, pidSeen, misfired>>

ReleaseUnlink(p) ==
  /\ Go(p, "relUnlink", "idle")
  /\ lock' = NoLock
  /\ misfired' = (misfired \/ (Exists /\ lock.mark # mine[p]))
  /\ mine' = [mine EXCEPT ![p] = NoMark]
  /\ UNCHANGED <<judged, pidSeen>>

-----------------------------------------------------------------------------
(* The environment: time, kills, recycled pids *)

\* p is between the creation of its lock file and the end of its release.
Holds(p, m) == pc[p] \in Holding /\ mine[p] = m

\* The staleness window elapses since the file's last write or heartbeat.
Age ==
  /\ Exists
  /\ ~lock.old
  /\ Prompt => ~(pc[lock.owner] = "write" /\ mine[lock.owner] = lock.mark)
  /\ lock' = [lock EXCEPT !.old = TRUE]
  /\ UNCHANGED <<pc, mine, judged, pidSeen, misfired>>

Crash(p) ==
  /\ p \in MayCrash
  /\ pc[p] # "dead"
  /\ pc' = [pc EXCEPT ![p] = "dead"]
  /\ mine' = [mine EXCEPT ![p] = NoMark]
  /\ judged' = [judged EXCEPT ![p] = NoMark]
  /\ pidSeen' = [pidSeen EXCEPT ![p] = NoProc]
  /\ UNCHANGED <<lock, misfired>>

\* A new process gets the pid of a killed one.
Recycle(p) ==
  /\ p \in MayRecycle
  /\ Go(p, "dead", "idle")
  /\ UNCHANGED <<lock, mine, judged, pidSeen, misfired>>

-----------------------------------------------------------------------------
Break(p) == StatAge(p) \/ ReadContent(p) \/ Probe(p) \/ UnlinkStale(p)

Step(p) ==
  \/ Create(p) \/ FindTaken(p) \/ WriteContent(p)
  \/ Break(p)
  \/ Retry(p) \/ GiveUp(p)
  \/ HeartbeatTouch(p)
  \/ ReleaseCheck(p) \/ ReleaseUnlink(p)

Next ==
  \/ \E p \in Procs :
       \/ Call(p) \/ Step(p)
       \/ OpenFails(p) \/ WriteFails(p) \/ HeartbeatCheck(p)
       \/ Crash(p) \/ Recycle(p)
  \/ Age

Spec == Init /\ [][Next]_vars

(***************************************************************************)
(* A running process executes its code (weak fairness of Step).  The       *)
(* deadline is an instant of the wall clock: a process that keeps reaching *)
(* the check reaches it once too late (strong fairness of GiveUp).  Time   *)
(* passes (weak fairness of Age).  Nothing is assumed of kills, recycled   *)
(* pids, I/O errors or how often a client calls.                           *)
(***************************************************************************)
Fairness ==
  /\ \A p \in Procs : WF_vars(Step(p)) /\ SF_vars(GiveUp(p))
  /\ WF_vars(Age)

FairSpec == Spec /\ Fairness

-----------------------------------------------------------------------------
(* Properties *)

\* The caller has its handle and has not begun to give it back.
Critical(p) == pc[p] \in {"held", "beat"}

\* Two processes never hold the lock at once -- unless an unlink by name has
\* removed another file than the one it was decided for, the window the
\* header of writerLock.ts says is only shrunk.  It is THE way to lose
\* exclusion: kills, recycled pids, failed writes and long holds alone do not.
MutualExclusion ==
  ~misfired =>
    \A p, q \in Procs : Critical(p) /\ Critical(q) => p = q

\* While no unlink has misfired, a live holder's file stays in place and
\* names it: release() will find its own lock and nobody else's.
HolderKeepsFile ==
  ~misfired => \A p \in Procs : pc[p] \in {"held", "beat", "relUnlink"} => Owns(p)

\* acquireWriterLock never hangs: every attempt ends in a handle or undefined,
\* whatever the other processes do with the file.
AcquireReturns ==
  \A p \in Procs : pc[p] = "open" ~> pc[p] \in {"held", "idle", "dead"}

\* A file nobody holds: its creator was killed, or could not write into it.
\* A recorded pid that is in use again passes for its creator.
Orphaned ==
  /\ Exists
  /\ ~Holds(lock.owner, lock.mark)
  /\ lock.written => pc[lock.owner] = "dead"

\* Such a file does not lock the workspace out for ever: as long as some
\* process lives on and keeps running into lock files, it is broken.
OrphanIsBroken ==
  (\E p \in Procs : []<>(pc[p] = "stat") /\ <>[](pc[p] # "dead")) => []<>~Orphaned

=============================================================================
