------------------------- MODULE ReadCallBatchGroup -------------------------
(***************************************************************************)
(* A batch group of read calls, packages/mcp-server/src/state/             *)
(* readCallBatchGroup.ts, on top of the lanes of ReadCallLane: the plans   *)
(* of the two remaining pages are minted together, queue for each other,   *)
(* and inherit the lane generation and the task version the one before     *)
(* left.  A group lives in the memory of the server; that a plan belongs   *)
(* to one is kept with the plan.                                           *)
(*                                                                         *)
(* The task record lives in the store, where another server of the         *)
(* workspace may write it too; this server sees that at its next write.    *)
(***************************************************************************)
EXTENDS ReadCallLane

CONSTANTS
  Crowds,     \* bound: sets of calls that may be made in one behaviour
  Siblings,   \* the plans of the one group that may be made
  MaxPending, \* MAX_PENDING
  MaxWrites   \* bound: versions of the task record

ASSUME ReadCallBatchGroupAssumption ==
  /\ Crowds \subseteq SUBSET Calls
  /\ Siblings \subseteq Plans \ Repacks
  /\ MaxPending \in Nat \ {0}
  /\ MaxWrites \in Nat

VARIABLES
  marked,  \* the plans whose stored state names the group
  group,   \* its entry: the binding and the version the next member needs
  queue,   \* the calls that wait for their turn, the head has it
  turn,    \* what the head has done in its turn
  disk,    \* version of the task record in the store
  seen,    \* the version this server has in memory
  foreign  \* history: written since by other than a member in its turn

groupVars == <<marked, group, queue, turn, disk, seen, foreign>>
allVars == <<vars, groupVars>>

Group == [live : BOOLEAN, tainted : BOOLEAN, owner : Binding, version : Nat, used : SUBSET Plans]
NoGroup == [live |-> FALSE, tainted |-> FALSE, owner |-> None, version |-> 0, used |-> {}]
Turn == [leased : Binding, owned : Nat, lost : BOOLEAN, finished : BOOLEAN]
FreshTurn == [leased |-> None, owned |-> 0, lost |-> FALSE, finished |-> FALSE]

Queued == {queue[i] : i \in 1..Len(queue)}
InTurn(c) == queue # << >> /\ Head(queue) = c

\* Besides the types: only the head of the queue runs, and a lease is noted
\* for the call that holds it.
GroupTypeOK ==
  /\ TypeOK
  /\ marked \in {{}, Siblings}
  /\ group \in Group
  /\ queue \in Seq(Calls)
  /\ Len(queue) <= MaxPending
  /\ turn \in Turn
  /\ disk \in 0..MaxWrites
  /\ seen \in 0..disk
  /\ foreign \in BOOLEAN
  /\ \A c \in Queued : ~InTurn(c) => pc[c] = "new"
  /\ turn.leased # None =>
       /\ queue # << >>
       /\ mode[Head(queue)] = "semantic"
       /\ pc[Head(queue)] = "running" => binding[Head(queue)] = turn.leased

GroupInit ==
  /\ Init
  /\ marked = {}
  /\ group = NoGroup
  /\ queue = << >>
  /\ turn = FreshTurn
  /\ disk = 0
  /\ seen = 0
  /\ foreign = FALSE

-----------------------------------------------------------------------------
(* projectReadOnlyBatchContinuations and registerReadCallBatchGroup *)

\* The plans of all members are minted by the final projection of a call that
\* has brought no cursor.
MintMembers(c) ==
  /\ pc[c] = "running"
  /\ CursorOf[c] = NoPlan
  /\ Current(LaneOf[c], binding[c])
  /\ \A k \in Siblings : marker[k] = "none"
  /\ plan' = [k \in Plans |-> IF k \in Siblings THEN binding[c] ELSE plan[k]]
  /\ minter' = [k \in Plans |-> IF k \in Siblings THEN {c} ELSE minter[k]]
  /\ marker' = [k \in Plans |-> IF k \in Siblings THEN "pending" ELSE marker[k]]
  /\ marked' = Siblings
  /\ seen' = disk

\* They are registered in the same stretch.
RegisterGroup(c) ==
  /\ Siblings # {}
  /\ MintMembers(c)
  /\ group' = [NoGroup EXCEPT !.live = TRUE, !.owner = binding[c], !.version = disk]
  /\ foreign' = FALSE
  /\ UNCHANGED <<pc, mode, binding, entries, nonces, begun, restarts, queue, turn, disk>>

-----------------------------------------------------------------------------
(* withReadCallBatchQueue, around withReadCallDispatch *)

\* Bound: which calls are made in one behaviour.
MayCall(c) == {d \in Calls : pc[d] # "new"} \cup Queued \cup {c} \in Crowds

\* Bound: a plan that no call will bring is not minted.
MayBeBrought(k) == \E d \in Calls : pc[d] = "new" /\ CursorOf[d] = k /\ MayCall(d)

\* A call that brings a member of a group that is still good queues for it.
Joins(c) ==
  /\ pc[c] = "new"
  /\ group.live
  /\ ~group.tainted
  /\ CursorOf[c] \in marked
  /\ Known(c, CursorOf[c])
  /\ c \notin Queued
  /\ MayCall(c)

Enqueue(c) ==
  /\ Joins(c)
  /\ Len(queue) < MaxPending
  /\ queue' = Append(queue, c)
  /\ UNCHANGED <<vars, marked, group, turn, disk, seen, foreign>>

EnterUnqueued(c) ==
  /\ Arriving(c)
  /\ c \notin Queued
  /\ ~Joins(c)
  /\ MayCall(c)
  /\ Enter(c)
  /\ UNCHANGED groupVars

EnterInTurn(c) ==
  /\ InTurn(c)
  /\ Enter(c)
  /\ UNCHANGED groupVars

\* The queue is full: the call goes past it, and the group is lost.
EnterPastQueue(c) ==
  /\ Joins(c)
  /\ Len(queue) >= MaxPending
  /\ Enter(c)
  /\ group' = [group EXCEPT !.tainted = TRUE]
  /\ UNCHANGED <<marked, queue, turn, disk, seen, foreign>>

\* The group has expired, or a turn threw after its finish; in a queue the
\* lease of the next member is refused for it.
EnterExpired(c) ==
  /\ Joins(c)
  /\ Enter(c)
  /\ group' = [group EXCEPT !.tainted = TRUE]
  /\ UNCHANGED <<marked, queue, turn, disk, seen, foreign>>

\* The turn ends after the dispatch has.
Leave(c) ==
  /\ InTurn(c)
  /\ pc[c] = "done"
  /\ queue' = Tail(queue)
  /\ turn' = FreshTurn
  /\ UNCHANGED <<vars, marked, group, disk, seen, foreign>>

-----------------------------------------------------------------------------
(* takeReadCallBatchSemanticLease, after the claim *)

\* The claim is a write: with it the server has seen the task record as it is.
ClaimMember(c, k) ==
  /\ Presents(c, k)
  /\ k \in marked
  /\ marker[k] = "pending"
  /\ marker' = [marker EXCEPT ![k] = "claimed"]
  /\ seen' = disk

TakeTurn(c, k) ==
  /\ mode' = [mode EXCEPT ![c] = "semantic"]
  /\ entries' = [entries EXCEPT ![LaneOf[c]].exclusive = TRUE]
  /\ group' = [group EXCEPT !.used = @ \cup {k}]
  /\ turn' = [turn EXCEPT !.leased = binding[c], !.owned = disk]
  /\ UNCHANGED <<marked, queue, disk, foreign>>

TakeIgnoresVersion(c, k) ==
  /\ ClaimMember(c, k)
  /\ InTurn(c)
  /\ turn.leased = None
  /\ k \notin group.used
  /\ ~group.tainted
  /\ Leasable(LaneOf[c], binding[c], group.owner)
  /\ TakeTurn(c, k)

TakeSeesMemory(c, k) ==   \* the version is compared before the claim
  /\ ClaimMember(c, k)
  /\ InTurn(c)
  /\ turn.leased = None
  /\ k \notin group.used
  /\ ~group.tainted
  /\ seen = group.version
  /\ Leasable(LaneOf[c], binding[c], group.owner)
  /\ TakeTurn(c, k)

Take(c, k) ==
  /\ ClaimMember(c, k)
  /\ InTurn(c)
  /\ turn.leased = None
  /\ k \notin group.used
  /\ ~group.tainted
  /\ disk = group.version
  /\ Leasable(LaneOf[c], binding[c], group.owner)
  /\ TakeTurn(c, k)

\* The lease is refused, for any of these or for a source that changed.
TakeFails(c, k) ==
  /\ ClaimMember(c, k)
  /\ InTurn(c)
  /\ mode' = [mode EXCEPT ![c] = "recovery"]
  /\ group' = [group EXCEPT !.used = @ \cup {k}, !.tainted = TRUE]
  /\ UNCHANGED <<entries, marked, queue, turn, disk, foreign>>

\* It is not asked for, because of an override, or it is outside the turn.
RecoverMember(c, k) ==
  /\ ClaimMember(c, k)
  /\ mode' = [mode EXCEPT ![c] = "recovery"]
  /\ UNCHANGED <<entries, marked, group, queue, turn, disk, foreign>>

-----------------------------------------------------------------------------
(* finishReadCallBatchMember, before the dispatch finishes *)

Ends(c) ==
  /\ pc[c] = "running"
  /\ InTurn(c)
  /\ ~turn.finished
  /\ turn' = [turn EXCEPT !.finished = TRUE]
  /\ UNCHANGED <<vars, marked, queue, disk, seen, foreign>>

PassOnIgnoresLost(c) ==
  /\ Ends(c)
  /\ turn.leased # None
  /\ turn.leased = binding[c]
  /\ Current(LaneOf[c], binding[c])
  /\ ~group.tainted
  /\ seen = turn.owned
  /\ group' = [group EXCEPT !.owner = binding[c], !.version = seen]

\* The member succeeded: the next one inherits its binding and the version.
PassOn(c) ==
  /\ Ends(c)
  /\ turn.leased # None
  /\ turn.leased = binding[c]
  /\ Current(LaneOf[c], binding[c])
  /\ ~group.tainted
  /\ ~turn.lost
  /\ seen = turn.owned
  /\ group' = [group EXCEPT !.owner = binding[c], !.version = seen]

\* It failed, or any of these does.
Taint(c) ==
  /\ Ends(c)
  /\ group' = [group EXCEPT !.tainted = TRUE]

-----------------------------------------------------------------------------
(* The task record *)

\* The observer of the turn.
Noted(next) ==
  [turn EXCEPT !.lost = @ \/ turn.owned # seen, !.owned = next]

\* The record is of interest as long as a member may inherit its version.
Inheritable == group.live /\ ~group.tainted

\* A call of this server writes the record, by compare and swap with the
\* version in memory; a write that loses has still seen the other one.
WriteTask(c) ==
  /\ Inheritable
  /\ pc[c] = "running"
  /\ IF seen = disk
       THEN /\ disk < MaxWrites
            /\ disk' = disk + 1
            /\ seen' = disk + 1
            /\ turn' = IF InTurn(c) /\ turn.leased # None THEN Noted(disk + 1) ELSE turn
            /\ foreign' = (foreign \/ ~(InTurn(c) /\ turn.leased # None /\ ~turn.finished))
       ELSE /\ seen' = disk
            /\ UNCHANGED <<turn, disk, foreign>>
  /\ UNCHANGED <<vars, marked, group, queue>>

\* Another server does.
WriteElsewhere ==
  /\ Inheritable
  /\ disk < MaxWrites
  /\ disk' = disk + 1
  /\ foreign' = TRUE
  /\ UNCHANGED <<vars, marked, group, queue, turn, seen>>

-----------------------------------------------------------------------------
(* The actions of the lanes *)

FinishCall(c) ==
  /\ InTurn(c) => turn.finished
  /\ Finish(c)
  /\ UNCHANGED groupVars

\* What writes to the store has seen the task record as it is.
MintPlan(c, k) ==
  /\ MayBeBrought(k)
  /\ Mint(c, k)
  /\ seen' = disk
  /\ UNCHANGED <<marked, group, queue, turn, disk, foreign>>

ClaimUnmarked(c, k) ==
  /\ k \notin marked
  /\ ClaimSemantic(c, k) \/ ClaimRecovery(c, k)
  /\ seen' = disk
  /\ UNCHANGED <<marked, group, queue, turn, disk, foreign>>

Unclaimed(c, k) ==
  /\ Replay(c, k) \/ RefusePlan(c, k)
  /\ UNCHANGED groupVars

LoseMarkerOf(k) == LoseMarker(k) /\ UNCHANGED groupVars

\* A call that was queued is as if it had never been made.
RestartServer ==
  /\ Restart
  /\ group' = NoGroup
  /\ queue' = << >>
  /\ turn' = FreshTurn
  /\ seen' = disk
  /\ UNCHANGED <<marked, disk, foreign>>

-----------------------------------------------------------------------------

InGroup(c, k) == Take(c, k) \/ TakeFails(c, k) \/ RecoverMember(c, k)

GroupNext ==
  \/ \E c \in Calls :
       \/ RegisterGroup(c) \/ WriteTask(c) \/ FinishCall(c)
       \/ Enqueue(c) \/ EnterUnqueued(c) \/ EnterInTurn(c)
       \/ EnterPastQueue(c) \/ EnterExpired(c)
       \/ PassOn(c) \/ Taint(c) \/ Leave(c)
  \/ \E c \in Calls, k \in Plans :
       MintPlan(c, k) \/ ClaimUnmarked(c, k) \/ InGroup(c, k) \/ Unclaimed(c, k)
  \/ \E k \in Plans : LoseMarkerOf(k)
  \/ WriteElsewhere
  \/ RestartServer

GroupSpec == GroupInit /\ [][GroupNext]_allVars

\* What the event loop does for calls that have been made: a turn that has
\* come is taken, a call that was woken goes on, every dispatch ends.
Progress(c) ==
  \/ FinishCall(c)
  \/ Taint(c) \/ PassOn(c)
  \/ Leave(c)
  \/ EnterInTurn(c)
  \/ pc[c] = "woken" /\ EnterUnqueued(c)

FairGroupSpec == GroupSpec /\ WF_allVars(\E c \in Calls : Progress(c))

-----------------------------------------------------------------------------
(* Properties *)

\* The call that began in the lane before c, which is the last one.
Predecessor(c) ==
  LET s == begun[LaneOf[c]]
  IN  IF Len(s) >= 2 /\ s[Len(s)] = c THEN {s[Len(s) - 1]} ELSE {}

FollowsMinter(c) ==
  \E d \in Predecessor(c) : d \in minter[CursorOf[c]] /\ pc[d] = "done"

FollowsMember(c) ==
  \E d \in Predecessor(c) :
    CursorOf[d] \in marked /\ mode[d] = "semantic" /\ pc[d] = "done"

\* A query plan is executed only by the call that directly follows its minter
\* in the lane, a member of a group also by the one that directly follows an
\* executed member; nothing ran in the lane in between, and the task of a
\* group has been written by nobody but its members in their turns, not even
\* by another server (takeReadCallSemanticLease, takeReadCallBatchSemanticLease).
SemanticFollows ==
  [][\A c \in Calls : mode[c] = "plain" /\ mode'[c] = "semantic" /\ CursorOf[c] \notin Repacks =>
       IF CursorOf[c] \in marked
         THEN (FollowsMinter(c) \/ FollowsMember(c)) /\ ~foreign
         ELSE FollowsMinter(c)]_allVars

\* No wakeup is lost and no turn is kept: calls that wait for the lease of
\* their lane, or in the queue for their turn, all get to run, or die with the
\* server (the calls of an instance are finitely many).
HeldUp == {c \in Calls : pc[c] \in {"waiting", "woken"} \/ (c \in Queued /\ pc[c] = "new")}

EveryTurnComes == HeldUp # {} ~> HeldUp = {}
=============================================================================
