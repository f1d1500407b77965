------------------------- MODULE ReadCallLaneProofs -------------------------
(***************************************************************************)
(* Proofs about the lanes of ReadCallLane and the groups of                *)
(* ReadCallBatchGroup, for every set of calls, lanes and plans and every   *)
(* number of restarts:                                                     *)
(*   - a cursor is executed at most once: an executed plan never has a     *)
(*     pending marker again (IInv);                                        *)
(*   - a lane counts its calls right, and is leased to one call that is    *)
(*     alone in it (LaneInv);                                              *)
(*   - a query plan is executed only by the call that directly follows its *)
(*     minter, or an executed member, in the lane.  The invariant adds     *)
(*     that a binding tells, as long as its entry lives, who has begun     *)
(*     since (Source), that the plans and the group keep bindings of that  *)
(*     kind, and that a task written by others has another version than    *)
(*     the one that is inherited (GroupInv).                               *)
(***************************************************************************)
EXTENDS ReadCallBatchGroup, TLAPS, FiniteSetTheorems, WellFoundedInduction

\* The part of the type invariant the argument needs.
Modes == mode \in [Calls -> {"plain", "semantic", "recovery", "refused"}]
Markers == marker \in [Plans -> {"none", "pending", "claimed", "gone"}]

\* An executed plan has been claimed, and stays so.
ExecutedClaimed ==
  \A k \in Plans, c \in Calls : Executes(c, k) => marker[k] \in {"claimed", "gone"}

IInv == Modes /\ Markers /\ ExecutedClaimed /\ OnceOnly

\* No call has run at first.
LEMMA InitIInv == Init => IInv
BY DEF Init, IInv, Modes, Markers, ExecutedClaimed, OnceOnly, Executes

\* A step that leaves the modes and the markers alone.
LEMMA Unmoved == IInv /\ UNCHANGED <<mode, marker>> => IInv'
BY DEF IInv, Modes, Markers, ExecutedClaimed, OnceOnly, Executes

\* A step that marks nothing as executed and never makes a marker of an
\* executed plan pending.
LEMMA NoExecution ==
  ASSUME IInv, Modes', Markers',
         \A c \in Calls : mode'[c] = "semantic" => mode[c] = "semantic",
         \A k \in Plans : marker[k] \in {"claimed", "gone"} => marker'[k] \in {"claimed", "gone"}
  PROVE  IInv'
BY DEF IInv, ExecutedClaimed, OnceOnly, Executes

\* A claim of a pending marker by a call that has not run yet.
LEMMA FirstExecution ==
  ASSUME NEW c \in Calls, NEW k \in Plans, IInv,
         CursorOf[c] = k,
         marker[k] = "pending",
         marker' = [marker EXCEPT ![k] = "claimed"],
         mode' = [mode EXCEPT ![c] = "semantic"]
  PROVE  IInv'
<1>2. Modes' /\ Markers'
  BY DEF IInv, Modes, Markers
<1>3. \A d \in Calls : ~Executes(d, k)
  BY DEF IInv, ExecutedClaimed
<1>4. ASSUME NEW l \in Plans, NEW d \in Calls, Executes(d, l)'
      PROVE  (d = c /\ l = k) \/ (Executes(d, l) /\ l # k)
  BY <1>3, <1>4 DEF IInv, Modes, Executes
<1>5. ExecutedClaimed'
  BY <1>4 DEF IInv, ExecutedClaimed, Markers
<1>6. OnceOnly'
  BY <1>4 DEF IInv, OnceOnly
<1> QED
  BY <1>2, <1>5, <1>6 DEF IInv

\* A claim by a call that reads the stored windows again.
LEMMA NoLease ==
  ASSUME NEW c \in Calls, NEW k \in Plans, IInv,
         marker' = [marker EXCEPT ![k] = "claimed"],
         mode' = [mode EXCEPT ![c] = "recovery"]
  PROVE  IInv'
BY NoExecution DEF IInv, Modes, Markers

\* Every step of the lanes keeps the invariant.
LEMMA StepIInv == IInv /\ [Next]_vars => IInv'
<1> SUFFICES ASSUME IInv, [Next]_vars PROVE IInv'
  OBVIOUS
<1>1. CASE UNCHANGED vars
  BY <1>1, Unmoved DEF vars
<1>2. ASSUME NEW c \in Calls, Enter(c) \/ Finish(c) PROVE IInv'
  BY <1>2, Unmoved DEF Enter, Wait, Join, OpenLane, RunUnscoped, Run, Finish
<1>3. ASSUME NEW c \in Calls, NEW k \in Plans, Mint(c, k) PROVE IInv'
  <2>1. /\ marker[k] = "none"
        /\ marker' = [marker EXCEPT ![k] = "pending"]
        /\ mode' = mode
    BY <1>3 DEF Mint
  <2> QED
    BY <2>1, NoExecution DEF IInv, Modes, Markers
<1>4. ASSUME NEW c \in Calls, NEW k \in Plans, ClaimSemantic(c, k) PROVE IInv'
  BY <1>4, FirstExecution DEF ClaimSemantic, Presents
<1>5. ASSUME NEW c \in Calls, NEW k \in Plans, ClaimRecovery(c, k) PROVE IInv'
  BY <1>5, NoLease DEF ClaimRecovery
<1>6. ASSUME NEW c \in Calls, NEW k \in Plans, Replay(c, k) PROVE IInv'
  <2>1. marker' = marker /\ mode' = [mode EXCEPT ![c] = "recovery"]
    BY <1>6 DEF Replay
  <2> QED
    BY <2>1, NoExecution DEF IInv, Modes, Markers
<1>7. ASSUME NEW c \in Calls, NEW k \in Plans, RefusePlan(c, k) PROVE IInv'
  <2>1. marker' = marker /\ mode' = [mode EXCEPT ![c] = "refused"]
    BY <1>7 DEF RefusePlan
  <2> QED
    BY <2>1, NoExecution DEF IInv, Modes, Markers
<1>8. ASSUME NEW k \in Plans, LoseMarker(k) PROVE IInv'
  <2>1. marker' = [marker EXCEPT ![k] = "gone"] /\ mode' = mode
    BY <1>8 DEF LoseMarker
  <2> QED
    BY <2>1, NoExecution DEF IInv, Modes, Markers
<1>9. CASE Restart
  BY <1>9, Unmoved DEF Restart
<1> QED
  BY <1>1, <1>2, <1>3, <1>4, <1>5, <1>6, <1>7, <1>8, <1>9 DEF Next

\* A cursor is executed at most once, whoever presents it and however often
\* the server restarts or loses markers (claimReadCallContinuation).
THEOREM ExecutedOnce == Spec => []OnceOnly
<1>1. IInv => OnceOnly
  BY DEF IInv
<1> QED
  BY InitIInv, StepIInv, <1>1, PTL DEF Spec

-----------------------------------------------------------------------------

\* Of the steps of a group, these are steps of the lanes or leave the modes and
\* the markers alone.
LEMMA LaneStep ==
  ASSUME NEW c \in Calls,
         \/ WriteTask(c) \/ FinishCall(c) \/ Enqueue(c) \/ EnterUnqueued(c)
         \/ EnterInTurn(c) \/ EnterPastQueue(c) \/ EnterExpired(c)
         \/ PassOn(c) \/ Taint(c) \/ Leave(c)
  PROVE  [Next]_vars
<1>1. CASE Finish(c) \/ Enter(c)
  BY <1>1 DEF Next
<1>2. CASE UNCHANGED vars
  BY <1>2
<1> QED
  BY <1>1, <1>2 DEF WriteTask, FinishCall, Enqueue, EnterUnqueued, EnterInTurn,
                    EnterPastQueue, EnterExpired, PassOn, Taint, Leave, Ends

\* So are these.
LEMMA LanePlanStep ==
  ASSUME NEW c \in Calls, NEW k \in Plans,
         MintPlan(c, k) \/ ClaimUnmarked(c, k) \/ Unclaimed(c, k)
  PROVE  Next
BY DEF Next, MintPlan, ClaimUnmarked, Unclaimed

\* The members of a group are minted when none of them has a marker.
LEMMA RegisterKeeps ==
  ASSUME NEW c \in Calls, IInv, RegisterGroup(c)
  PROVE  IInv'
<1>1. /\ mode' = mode
      /\ marker' = [k \in Plans |-> IF k \in Siblings THEN "pending" ELSE marker[k]]
      /\ \A k \in Siblings : marker[k] = "none"
  BY DEF RegisterGroup, MintMembers
<1> QED
  BY <1>1, NoExecution DEF IInv, Modes, Markers

\* A member is claimed like any other plan.
LEMMA MemberKeeps ==
  ASSUME NEW c \in Calls, NEW k \in Plans, IInv, InGroup(c, k)
  PROVE  IInv'
<1>1. CASE Take(c, k)
  BY <1>1, FirstExecution DEF Take, TakeTurn, ClaimMember, Presents
<1>2. CASE TakeFails(c, k) \/ RecoverMember(c, k)
  BY <1>2, NoLease DEF TakeFails, RecoverMember, ClaimMember
<1> QED
  BY <1>1, <1>2 DEF InGroup

\* Every step with batch groups keeps the invariant.
LEMMA GroupStepIInv == IInv /\ [GroupNext]_allVars => IInv'
<1> SUFFICES ASSUME IInv, [GroupNext]_allVars PROVE IInv'
  OBVIOUS
<1>1. CASE UNCHANGED allVars
  BY <1>1, Unmoved DEF allVars, vars
<1>2. ASSUME NEW c \in Calls, RegisterGroup(c) PROVE IInv'
  BY <1>2, RegisterKeeps
<1>3. ASSUME NEW c \in Calls,
             \/ WriteTask(c) \/ FinishCall(c) \/ Enqueue(c) \/ EnterUnqueued(c)
             \/ EnterInTurn(c) \/ EnterPastQueue(c) \/ EnterExpired(c)
             \/ PassOn(c) \/ Taint(c) \/ Leave(c)
      PROVE IInv'
  BY <1>3, LaneStep, StepIInv
<1>4. ASSUME NEW c \in Calls, NEW k \in Plans,
             MintPlan(c, k) \/ ClaimUnmarked(c, k) \/ Unclaimed(c, k)
      PROVE IInv'
  BY <1>4, LanePlanStep, StepIInv
<1>5. ASSUME NEW c \in Calls, NEW k \in Plans, InGroup(c, k) PROVE IInv'
  BY <1>5, MemberKeeps
<1>6. ASSUME NEW k \in Plans, LoseMarkerOf(k) PROVE IInv'
  <2>1. Next
    BY <1>6 DEF LoseMarkerOf, Next
  <2> QED
    BY <2>1, StepIInv
<1>7. CASE WriteElsewhere
  BY <1>7, Unmoved DEF WriteElsewhere, vars
<1>8. CASE RestartServer
  <2>1. Next
    BY <1>8 DEF RestartServer, Next
  <2> QED
    BY <2>1, StepIInv
<1> QED
  BY <1>1, <1>2, <1>3, <1>4, <1>5, <1>6, <1>7, <1>8 DEF GroupNext

\* A cursor is executed at most once also when it belongs to a batch group,
\* whose members are executed one after the other on one lane generation each
\* (takeReadCallBatchSemanticLease).
THEOREM MemberExecutedOnce == GroupSpec => []OnceOnly
<1>1. GroupInit => IInv
  BY InitIInv DEF GroupInit
<1>2. IInv => OnceOnly
  BY DEF IInv
<1> QED
  BY <1>1, GroupStepIInv, <1>2, PTL DEF GroupSpec

-----------------------------------------------------------------------------
(* The lanes *)

States == {"new", "waiting", "woken", "running", "done"}
ModeNames == {"plain", "semantic", "recovery", "refused"}

LaneTypes ==
  /\ pc \in [Calls -> States]
  /\ mode \in [Calls -> ModeNames]
  /\ binding \in [Calls -> Binding]
  /\ entries \in [Lanes -> Entry]
  /\ nonces \in 0..MaxNonce
  /\ begun \in [Lanes -> Seq(Calls)]

LastBegun(l) == begun[l][Len(begun[l])]

\* The entry of a lane counts its scoped calls and queues its waiting ones.
CountOf(l) ==
  /\ IsFiniteSet(Scoped(l))
  /\ entries[l].active = Cardinality(Scoped(l))
  /\ entries[l].waiters = {c \in Calls : LaneOf[c] = l /\ pc[c] = "waiting"}
  /\ entries[l].nonce <= nonces
  /\ entries[l].nonce = 0 => entries[l] = NoEntry

\* Only its holder is scoped while it is leased.
LeaseOf(l) ==
  entries[l].exclusive => \E c \in Calls : Scoped(l) = {c} /\ mode[c] = "semantic"

\* A scoped call that has the lane's last generation is the last that began.
OrderOf(l) ==
  \A c \in Scoped(l) :
    /\ binding[c].nonce = entries[l].nonce
    /\ binding[c].generation <= entries[l].generation
    /\ binding[c].generation = entries[l].generation => begun[l] # << >> /\ LastBegun(l) = c

\* Only a call that runs is bound.
Unbound == \A c \in Calls : pc[c] # "running" => binding[c] = None

Rooms == IsFiniteSet(Present) /\ Cardinality(Present) <= MaxLanes

LaneInv ==
  /\ LaneTypes
  /\ Rooms
  /\ Unbound
  /\ \A l \in Lanes : CountOf(l) /\ LeaseOf(l) /\ OrderOf(l)

\* The call o got the binding b.  As long as its lane has the entry of that
\* binding, who has begun since can be told from the generation.
Source(o, b) ==
  /\ o \in Calls /\ b \in Binding
  /\ 1 <= b.nonce /\ b.nonce <= nonces
  /\ pc[o] = "done" \/ (pc[o] = "running" /\ binding[o] = b)
  /\ LET l == LaneOf[o]
     IN  entries[l].nonce = b.nonce =>
           /\ b.generation <= entries[l].generation
           /\ entries[l].generation = b.generation => begun[l] # << >> /\ LastBegun(l) = o
           /\ entries[l].generation = b.generation + 1 =>
                Len(begun[l]) >= 2 /\ begun[l][Len(begun[l]) - 1] = o

-----------------------------------------------------------------------------
(* The group *)

StoreTypes ==
  /\ plan \in [Plans -> Binding]
  /\ minter \in [Plans -> SUBSET Calls]
  /\ marker \in [Plans -> {"none", "pending", "claimed", "gone"}]
  /\ restarts \in 0..MaxRestarts

\* The binding of a plan is that of its minter.
MintedOf(k) == \A d \in minter[k] : Source(d, plan[k])

GroupTypes ==
  /\ marked \in {{}, Siblings}
  /\ group \in Group
  /\ queue \in Seq(Calls)
  /\ Len(queue) <= MaxPending
  /\ turn \in Turn
  /\ disk \in 0..MaxWrites
  /\ seen \in 0..disk
  /\ foreign \in BOOLEAN

\* The queue: calls that bring members, each once, all but the head not made yet.
QueueInv ==
  /\ \A i, j \in 1..Len(queue) : queue[i] = queue[j] => i = j
  /\ \A i \in 1..Len(queue) :
       /\ CursorOf[queue[i]] \in marked
       /\ Known(queue[i], CursorOf[queue[i]])
       /\ i > 1 => pc[queue[i]] = "new"
  /\ queue # << >> => group.live

TurnInv ==
  turn.leased # None =>
    /\ queue # << >>
    /\ mode[queue[1]] = "semantic"
    /\ pc[queue[1]] \in {"running", "done"}
    /\ pc[queue[1]] = "running" => binding[queue[1]] = turn.leased

\* The members are minted once, together, by one call.
MarkedInv ==
  /\ \A k \in marked : marker[k] # "none"
  /\ group.live => marked = Siblings

\* The call whose binding the next member inherits.
OwnerIs(o) ==
  /\ Source(o, group.owner)
  /\ \A k \in marked : \A d \in minter[k] : LaneOf[d] = LaneOf[o]
  /\ \/ \A k \in marked : o \in minter[k]
     \/ CursorOf[o] \in marked /\ mode[o] = "semantic"

OwnerInv == Inheritable => \E o \in Calls : OwnerIs(o)

\* Whatever else wrote the task record left it at another version than the
\* one the next member must find, or than the turn has seen to the end.
VersionInv ==
  Inheritable =>
    /\ group.version <= disk
    /\ foreign => group.version < disk
    /\ turn.leased # None /\ ~turn.finished =>
         turn.owned <= disk /\ (~turn.lost /\ foreign => turn.owned < disk)

GroupInv ==
  /\ LaneInv /\ StoreTypes /\ GroupTypes
  /\ \A k \in Plans : MintedOf(k)
  /\ QueueInv /\ TurnInv /\ MarkedInv /\ OwnerInv /\ VersionInv
\* A set of numbers has a least one.
LEMMA Least ==
  ASSUME NEW S, S \subseteq Nat, S # {}
  PROVE  \E m \in S : \A n \in S : m <= n
<1> DEFINE R == OpToRel(<, Nat)
<1>1. \A x, y \in Nat : x < y => <<x, y>> \in R
  BY DEF OpToRel
<1>2. IsWellFoundedOn(R, Nat)
  BY NatLessThanWellFounded
<1> HIDE DEF R
<1>3. PICK m \in S : \A n \in S : ~ (<<n, m>> \in R)
  BY <1>2, WFMin
<1>4. \A n \in S : ~ (n < m)
  BY <1>1, <1>3
<1>5. m \in Nat /\ \A n \in S : n \in Nat
  BY <1>3
<1>6. \A n \in S : m <= n
  BY <1>4, <1>5
<1> QED
  BY <1>6

-----------------------------------------------------------------------------
(* Entries and calls of a lane *)

\* Every call has a lane.
LEMMA LaneOfCall == \A c \in Calls : LaneOf[c] \in Lanes
BY ReadCallLaneAssumption

\* What the invariant of the lanes says, and the numbers it speaks of.
LEMMA LaneParts ==
  ASSUME LaneInv
  PROVE  /\ pc \in [Calls -> States] /\ mode \in [Calls -> ModeNames]
         /\ binding \in [Calls -> Binding] /\ entries \in [Lanes -> Entry]
         /\ nonces \in 0..MaxNonce /\ nonces \in Nat /\ begun \in [Lanes -> Seq(Calls)]
         /\ Rooms /\ Unbound
         /\ \A l \in Lanes : CountOf(l) /\ LeaseOf(l) /\ OrderOf(l)
<1>1. MaxNonce \in Nat
  BY ReadCallLaneAssumption
<1> QED
  BY <1>1 DEF LaneInv, LaneTypes

\* The fields of entries and bindings.
LEMMA EntryFields ==
  /\ NoEntry \in Entry /\ NoEntry.nonce = 0 /\ NoEntry.generation = 0 /\ NoEntry.active = 0
  /\ NoEntry.exclusive = FALSE /\ NoEntry.waiters = {}
  /\ None \in Binding /\ None.nonce = 0 /\ None.generation = 0
  /\ \A e \in Entry :
       /\ e.nonce \in Nat /\ e.generation \in Nat /\ e.active \in Nat
       /\ e.exclusive \in BOOLEAN /\ e.waiters \subseteq Calls
  /\ \A b \in Binding : b.nonce \in Nat /\ b.generation \in Nat
  /\ \A n, g \in Nat : [nonce |-> n, generation |-> g] \in Binding
BY DEF Entry, NoEntry, Binding, None

\* The ways an entry changes.
LEMMA WaiterEntry ==
  ASSUME NEW e \in Entry, NEW w \in SUBSET Calls, NEW f, f = [e EXCEPT !.waiters = w]
  PROVE  /\ f \in Entry /\ f.nonce = e.nonce /\ f.generation = e.generation /\ f.active = e.active
         /\ f.exclusive = e.exclusive /\ f.waiters = w
BY DEF Entry

\* A call joins: a new generation, one more call.
LEMMA JoinedEntry ==
  ASSUME NEW e \in Entry, NEW f,
         f = [e EXCEPT !.generation = e.generation + 1, !.active = e.active + 1]
  PROVE  /\ f \in Entry /\ f.nonce = e.nonce
         /\ f.generation = e.generation + 1 /\ f.active = e.active + 1
         /\ f.exclusive = e.exclusive /\ f.waiters = e.waiters
<1>1. e.generation + 1 \in Nat /\ e.active + 1 \in Nat
  BY EntryFields
<1> QED
  BY <1>1 DEF Entry

\* A call ends: one call less, no lease, nobody waits.
LEMMA FinishedEntry ==
  ASSUME NEW e \in Entry, e.active # 0, NEW f,
         f = [e EXCEPT !.active = e.active - 1, !.exclusive = FALSE, !.waiters = {}]
  PROVE  /\ f \in Entry /\ f.nonce = e.nonce /\ f.generation = e.generation
         /\ f.active = e.active - 1 /\ f.exclusive = FALSE /\ f.waiters = {}
<1>1. e.active - 1 \in Nat
  BY EntryFields
<1> QED
  BY <1>1 DEF Entry

\* The lease is taken.
LEMMA LeasedEntry ==
  ASSUME NEW e \in Entry, NEW f, f = [e EXCEPT !.exclusive = TRUE]
  PROVE  /\ f \in Entry /\ f.nonce = e.nonce /\ f.generation = e.generation /\ f.active = e.active
         /\ f.exclusive = TRUE /\ f.waiters = e.waiters
BY DEF Entry

\* The entry of a lane that is opened.
LEMMA NewEntry ==
  ASSUME NEW n \in Nat, NEW f, f = [NoEntry EXCEPT !.nonce = n, !.generation = 1, !.active = 1]
  PROVE  /\ f \in Entry /\ f.nonce = n /\ f.generation = 1 /\ f.active = 1
         /\ ~ f.exclusive /\ f.waiters = {}
BY DEF Entry, NoEntry

\* A lane that nothing happens in.
LEMMA LaneStays ==
  ASSUME NEW l \in Lanes, CountOf(l), LeaseOf(l), OrderOf(l),
         entries'[l] = entries[l], begun'[l] = begun[l],
         nonces \in Nat, nonces' \in Nat, nonces <= nonces', entries[l] \in Entry,
         \A d \in Calls : LaneOf[d] = l =>
           /\ pc'[d] = pc[d] /\ binding'[d] = binding[d]
           /\ mode[d] = "semantic" => mode'[d] = "semantic"
  PROVE  CountOf(l)' /\ LeaseOf(l)' /\ OrderOf(l)'
<1>1. Scoped(l)' = Scoped(l)
  BY DEF Scoped, Running
<1>2. CountOf(l)'
  <2>1. {c \in Calls : LaneOf[c] = l /\ pc'[c] = "waiting"}
          = {c \in Calls : LaneOf[c] = l /\ pc[c] = "waiting"}
    OBVIOUS
  <2>2. entries[l].nonce \in Nat
    BY EntryFields
  <2> QED
    BY <1>1, <2>1, <2>2 DEF CountOf
<1>3. \A c \in Scoped(l) : c \in Calls /\ LaneOf[c] = l
  BY DEF Scoped, Running
<1>4. LeaseOf(l)'
  BY <1>1, <1>3 DEF LeaseOf
<1>5. OrderOf(l)'
  BY <1>1, <1>3 DEF OrderOf, LastBegun
<1> QED
  BY <1>2, <1>4, <1>5

\* A source that nothing happens to, in a lane that nothing happens in.
LEMMA SourceStays ==
  ASSUME NEW o, NEW b, Source(o, b), nonces \in Nat, nonces' \in Nat, nonces <= nonces',
         pc'[o] = "done" \/ (pc'[o] = pc[o] /\ binding'[o] = binding[o]),
         \/ entries'[LaneOf[o]].nonce = 0
         \/ entries'[LaneOf[o]].nonce > nonces
         \/ /\ entries'[LaneOf[o]].nonce = entries[LaneOf[o]].nonce
            /\ entries'[LaneOf[o]].generation = entries[LaneOf[o]].generation
            /\ begun'[LaneOf[o]] = begun[LaneOf[o]]
  PROVE  Source(o, b)'
<1>1. b.nonce \in Nat
  BY EntryFields DEF Source
<1>2. b.nonce >= 1 /\ b.nonce <= nonces /\ b.nonce <= nonces'
  BY <1>1 DEF Source
<1>3. pc'[o] = "done" \/ (pc'[o] = "running" /\ binding'[o] = b)
  BY DEF Source
<1>4. CASE entries'[LaneOf[o]].nonce = 0
  BY <1>2, <1>3, <1>4 DEF Source
<1>5. CASE entries'[LaneOf[o]].nonce > nonces
  BY <1>1, <1>2, <1>3, <1>5 DEF Source
<1>6. CASE /\ entries'[LaneOf[o]].nonce = entries[LaneOf[o]].nonce
           /\ entries'[LaneOf[o]].generation = entries[LaneOf[o]].generation
           /\ begun'[LaneOf[o]] = begun[LaneOf[o]]
  BY <1>2, <1>3, <1>6 DEF Source, LastBegun
<1> QED
  BY <1>4, <1>5, <1>6

\* Who is scoped, and a call that is not.
LEMMA ScopedFacts ==
  ASSUME LaneInv, NEW l \in Lanes
  PROVE  /\ \A c : c \in Scoped(l) <=> c \in Calls /\ LaneOf[c] = l /\ pc[c] = "running" /\ binding[c] # None
         /\ IsFiniteSet(Scoped(l)) /\ entries[l].active = Cardinality(Scoped(l))
         /\ entries[l].active \in Nat
         /\ entries[l].active = 0 => Scoped(l) = {}
         /\ entries[l].nonce = 0 => Scoped(l) = {} /\ ~ entries[l].exclusive /\ entries[l].waiters = {}
         /\ entries[l].active = 1 => \A c, d \in Scoped(l) : c = d
         /\ entries[l].nonce \in Nat /\ entries[l].generation \in Nat /\ entries[l].nonce <= nonces
         /\ entries[l].exclusive => entries[l].nonce # 0 /\ entries[l].active = 1
         /\ entries[l].waiters = {c \in Calls : LaneOf[c] = l /\ pc[c] = "waiting"}
         /\ entries[l].exclusive \in BOOLEAN
<1>1. \A c : c \in Scoped(l) <=> c \in Calls /\ LaneOf[c] = l /\ pc[c] = "running" /\ binding[c] # None
  BY DEF Scoped, Running
<1>2. /\ IsFiniteSet(Scoped(l)) /\ entries[l].active = Cardinality(Scoped(l))
      /\ entries[l].nonce <= nonces /\ (entries[l].nonce = 0 => entries[l] = NoEntry)
      /\ entries[l].waiters = {c \in Calls : LaneOf[c] = l /\ pc[c] = "waiting"}
  BY LaneParts DEF CountOf
<1>3. entries[l] \in Entry
  BY LaneParts
<1>4. entries[l].active = 0 => Scoped(l) = {}
  BY <1>2, FS_EmptySet
<1>5. entries[l].active = 1 => \A c, d \in Scoped(l) : c = d
  <2>1. SUFFICES ASSUME entries[l].active = 1 PROVE \A c, d \in Scoped(l) : c = d
    OBVIOUS
  <2>2. PICK x : Scoped(l) = {x}
    BY <1>2, <2>1, FS_Singleton
  <2> QED
    BY <2>2
<1>6. entries[l].nonce = 0 => Scoped(l) = {} /\ ~ entries[l].exclusive /\ entries[l].waiters = {}
  BY <1>2, <1>4, EntryFields
<1>7. entries[l].exclusive => entries[l].active = 1
  BY <1>2, FS_Singleton, LaneParts DEF LeaseOf
<1> QED
  BY <1>1, <1>2, <1>3, <1>4, <1>5, <1>6, <1>7, EntryFields

\* The binding of a call that is alone in its lane and current is a source.
LEMMA CurrentIsSource ==
  ASSUME LaneInv, NEW c \in Calls, pc[c] = "running", Current(LaneOf[c], binding[c])
  PROVE  Source(c, binding[c])
<1> DEFINE l == LaneOf[c]
<1>1. l \in Lanes /\ binding[c] \in Binding
  BY LaneOfCall, LaneParts
<1>2. /\ entries[l].nonce # 0 /\ entries[l].nonce = binding[c].nonce
      /\ entries[l].generation = binding[c].generation
  BY DEF Current
<1>3. entries[l].nonce \in Nat /\ entries[l].nonce <= nonces /\ entries[l].generation \in Nat
  BY <1>1, ScopedFacts
<1>4. c \in Scoped(l)
  BY <1>1, <1>2, ScopedFacts, EntryFields
<1>5. begun[l] # << >> /\ LastBegun(l) = c
  BY <1>1, <1>2, <1>4, LaneParts DEF OrderOf
<1> QED
  BY <1>1, <1>2, <1>3, <1>5 DEF Source

\* A lease on the binding of o is taken by the call that began right after o,
\* and o is done.
LEMMA LeaseFollows ==
  ASSUME LaneInv, NEW c \in Calls, pc[c] = "running", NEW o, NEW b, Source(o, b),
         LaneOf[o] = LaneOf[c], Leasable(LaneOf[c], binding[c], b)
  PROVE  Predecessor(c) = {o} /\ pc[o] = "done"
<1> DEFINE l == LaneOf[c]
<1>1. l \in Lanes /\ binding[c] \in Binding /\ begun[l] \in Seq(Calls)
  BY LaneOfCall, LaneParts
<1>2. /\ binding[c] # None /\ entries[l].active = 1
      /\ entries[l].nonce # 0 /\ entries[l].nonce = binding[c].nonce
      /\ entries[l].generation = binding[c].generation
      /\ binding[c].nonce = b.nonce /\ binding[c].generation = b.generation + 1
  BY DEF Leasable, Current
<1>3. c \in Scoped(l)
  BY <1>1, <1>2, ScopedFacts
<1>4. begun[l] # << >> /\ begun[l][Len(begun[l])] = c
  BY <1>1, <1>2, <1>3, LaneParts DEF OrderOf, LastBegun
<1>5. Len(begun[l]) >= 2 /\ begun[l][Len(begun[l]) - 1] = o
  BY <1>2 DEF Source
<1>6. Predecessor(c) = {o}
  BY <1>4, <1>5 DEF Predecessor
<1>7. pc[o] = "done"
  <2>1. SUFFICES ASSUME pc[o] = "running", binding[o] = b PROVE FALSE
    BY DEF Source
  <2>2. b # None /\ b.generation \in Nat
    BY <1>2, <1>1, EntryFields DEF Source
  <2>3. o \in Scoped(l)
    BY <1>1, <2>1, <2>2, ScopedFacts DEF Source
  <2>4. o = c
    BY <1>1, <1>2, <1>3, <2>3, ScopedFacts
  <2> QED
    BY <1>2, <2>1, <2>2, <2>4
<1> QED
  BY <1>6, <1>7

-----------------------------------------------------------------------------
(* Steps of the lanes *)

\* The invariant of the lanes from its parts.
LEMMA LaneFrom ==
  ASSUME LaneTypes', Rooms', Unbound',
         \A l \in Lanes : CountOf(l)' /\ LeaseOf(l)' /\ OrderOf(l)'
  PROVE  LaneInv'
BY DEF LaneInv

\* The lanes whose entries have a nonce are the same.
LEMMA RoomsStay ==
  ASSUME Rooms, \A l \in Lanes : entries'[l].nonce = 0 <=> entries[l].nonce = 0
  PROVE  Rooms'
<1>1. Present' = Present
  BY DEF Present
<1> QED
  BY <1>1 DEF Rooms

\* A step of the call c that changes the entry of its own lane only.
LEMMA OwnLane ==
  ASSUME LaneInv, NEW c \in Calls, NEW f \in Entry, entries' = [entries EXCEPT ![LaneOf[c]] = f]
  PROVE  /\ entries' \in [Lanes -> Entry] /\ entries'[LaneOf[c]] = f
         /\ \A l \in Lanes : l # LaneOf[c] => entries'[l] = entries[l]
BY LaneParts, LaneOfCall

\* The lane is leased: the call waits.
LEMMA WaitKeeps ==
  ASSUME LaneInv, NEW c \in Calls, Wait(c)
  PROVE  LaneInv' /\ \A o, b : Source(o, b) => Source(o, b)'
<1> DEFINE L == LaneOf[c]
           e == entries[L]
           f == [e EXCEPT !.waiters = e.waiters \cup {c}]
<1>1. L \in Lanes /\ e \in Entry /\ e.waiters \cup {c} \in SUBSET Calls
  BY LaneParts, LaneOfCall, EntryFields
<1> HIDE DEF e
<1>2. /\ f \in Entry /\ f.nonce = e.nonce /\ f.generation = e.generation /\ f.active = e.active
      /\ f.exclusive = e.exclusive /\ f.waiters = e.waiters \cup {c}
  <2>1. f = [e EXCEPT !.waiters = e.waiters \cup {c}]
    OBVIOUS
  <2> HIDE DEF f
  <2> QED
    BY <1>1, <2>1, WaiterEntry
<1>3. /\ pc' = [pc EXCEPT ![c] = "waiting"] /\ pc[c] \in {"new", "woken"} /\ e.exclusive
      /\ UNCHANGED <<mode, binding, nonces, begun>>
      /\ entries' = [entries EXCEPT ![L] = f]
  BY DEF Wait, Arriving, e
<1> HIDE DEF f
<1>4. /\ entries' \in [Lanes -> Entry] /\ entries'[L] = f
      /\ \A l \in Lanes : l # L => entries'[l] = entries[l]
  BY <1>2, <1>3, OwnLane
<1>5. pc' \in [Calls -> States] /\ pc'[c] = "waiting" /\ \A d \in Calls : d # c => pc'[d] = pc[d]
  BY <1>3, LaneParts DEF States
<1>6. LaneTypes'
  BY <1>3, <1>4, <1>5, LaneParts DEF LaneTypes
<1>7. Rooms'
  BY <1>2, <1>4, LaneParts, RoomsStay DEF e
<1>8. Scoped(L)' = Scoped(L)
  BY <1>3, <1>5 DEF Scoped, Running
<1>9. CountOf(L)'
  <2>1. f.nonce # 0
    BY <1>1, <1>2, <1>3, ScopedFacts DEF e
  <2>2. f.waiters = {d \in Calls : LaneOf[d] = L /\ pc'[d] = "waiting"}
    BY <1>1, <1>2, <1>5, ScopedFacts DEF e
  <2> QED
    BY <1>1, <1>2, <1>3, <1>4, <1>8, <2>1, <2>2, ScopedFacts DEF CountOf, e
<1>10. LeaseOf(L)'
  BY <1>1, <1>2, <1>3, <1>4, <1>8, LaneParts DEF LeaseOf, e
<1>11. OrderOf(L)'
  BY <1>1, <1>2, <1>3, <1>4, <1>8, LaneParts DEF OrderOf, LastBegun, e
<1>12. ASSUME NEW l \in Lanes, l # L PROVE CountOf(l)' /\ LeaseOf(l)' /\ OrderOf(l)'
  BY <1>3, <1>4, <1>5, <1>12, LaneParts, LaneStays
<1>13. ASSUME NEW o, NEW b, Source(o, b) PROVE Source(o, b)'
  <2>1. o \in Calls /\ pc[o] \in {"done", "running"} /\ LaneOf[o] \in Lanes
    BY <1>13, LaneOfCall DEF Source
  <2>2. pc'[o] = pc[o] /\ binding'[o] = binding[o]
    BY <1>3, <1>5, <2>1
  <2>3. /\ entries'[LaneOf[o]].nonce = entries[LaneOf[o]].nonce
        /\ entries'[LaneOf[o]].generation = entries[LaneOf[o]].generation
        /\ begun'[LaneOf[o]] = begun[LaneOf[o]]
    BY <1>2, <1>3, <1>4, <2>1 DEF e
  <2> QED
    BY <1>3, <1>13, <2>2, <2>3, LaneParts, SourceStays
<1>14. Unbound'
  BY <1>3, <1>5, LaneParts DEF Unbound
<1> QED
  BY <1>6, <1>7, <1>9, <1>10, <1>11, <1>12, <1>13, <1>14, LaneFrom

\* The order of two lanes calls, after c has begun.
LEMMA RunFacts ==
  ASSUME LaneInv, NEW c \in Calls, Run(c)
  PROVE  /\ pc' \in [Calls -> States] /\ pc'[c] = "running" /\ \A d \in Calls : d # c => pc'[d] = pc[d]
         /\ begun' \in [Lanes -> Seq(Calls)]
         /\ \A l \in Lanes : l # LaneOf[c] => begun'[l] = begun[l]
         /\ begun'[LaneOf[c]] # << >> /\ begun'[LaneOf[c]][Len(begun'[LaneOf[c]])] = c
         /\ begun[LaneOf[c]] # << >> =>
              /\ Len(begun'[LaneOf[c]]) = 2
              /\ begun'[LaneOf[c]][1] = LastBegun(LaneOf[c])
         /\ mode' = mode
<1> DEFINE L == LaneOf[c]
           s == begun[L]
           t == IF s = << >> THEN <<c>> ELSE <<s[Len(s)], c>>
<1>1. L \in Lanes /\ s \in Seq(Calls)
  BY LaneOfCall, LaneParts
<1>2. s # << >> => s[Len(s)] \in Calls
  BY <1>1
<1>3. t \in Seq(Calls) /\ t # << >> /\ t[Len(t)] = c /\ (s # << >> => Len(t) = 2 /\ t[1] = s[Len(s)])
  <2>1. CASE s = << >>
    BY <2>1
  <2>2. CASE s # << >>
    <3>1. t = <<s[Len(s)], c>>
      BY <2>2
    <3> QED
      BY <1>2, <2>2, <3>1
  <2> QED
    BY <2>1, <2>2
<1>4. begun' = [begun EXCEPT ![L] = t] /\ pc' = [pc EXCEPT ![c] = "running"] /\ mode' = mode
  BY DEF Run
<1> HIDE DEF t
<1>5. /\ begun' \in [Lanes -> Seq(Calls)] /\ begun'[L] = t
      /\ \A l \in Lanes : l # L => begun'[l] = begun[l]
  BY <1>1, <1>3, <1>4, LaneParts
<1>6. pc' \in [Calls -> States] /\ pc'[c] = "running" /\ \A d \in Calls : d # c => pc'[d] = pc[d]
  BY <1>4, LaneParts DEF States
<1> QED
  BY <1>3, <1>4, <1>5, <1>6 DEF LastBegun

\* The call joins the lane: it has the last generation, and the one before it
\* is who had the last generation until then.
LEMMA JoinKeeps ==
  ASSUME LaneInv, NEW c \in Calls, Join(c)
  PROVE  LaneInv' /\ \A o, b : Source(o, b) => Source(o, b)'
<1> DEFINE L == LaneOf[c]
           e == entries[L]
           f == [e EXCEPT !.generation = e.generation + 1, !.active = e.active + 1]
           g == [nonce |-> e.nonce, generation |-> e.generation + 1]
<1>1. L \in Lanes /\ e \in Entry /\ e.nonce \in Nat /\ e.generation \in Nat /\ e.active \in Nat
  BY LaneParts, LaneOfCall, EntryFields
<1> HIDE DEF e
<1>2. /\ f \in Entry /\ f.nonce = e.nonce
      /\ f.generation = e.generation + 1 /\ f.active = e.active + 1
      /\ f.exclusive = e.exclusive /\ f.waiters = e.waiters
  <2>1. f = [e EXCEPT !.generation = e.generation + 1, !.active = e.active + 1]
    OBVIOUS
  <2> HIDE DEF f
  <2> QED
    BY <1>1, <2>1, JoinedEntry
<1>3. /\ pc[c] \in {"new", "woken"} /\ ~ e.exclusive /\ e.nonce # 0
      /\ entries' = [entries EXCEPT ![L] = f]
      /\ binding' = [binding EXCEPT ![c] = g]
      /\ nonces' = nonces /\ Run(c)
  BY DEF Join, Arriving, e
<1> HIDE DEF f
<1>4. /\ entries' \in [Lanes -> Entry] /\ entries'[L] = f
      /\ \A l \in Lanes : l # L => entries'[l] = entries[l]
  BY <1>2, <1>3, OwnLane
<1>5. /\ pc' \in [Calls -> States] /\ pc'[c] = "running" /\ \A d \in Calls : d # c => pc'[d] = pc[d]
      /\ begun' \in [Lanes -> Seq(Calls)]
      /\ \A l \in Lanes : l # L => begun'[l] = begun[l]
      /\ begun'[L] # << >> /\ begun'[L][Len(begun'[L])] = c
      /\ begun[L] # << >> => Len(begun'[L]) = 2 /\ begun'[L][1] = LastBegun(L)
      /\ mode' = mode
  BY <1>3, RunFacts
<1>6. g \in Binding /\ g.nonce = e.nonce /\ g.generation = e.generation + 1 /\ g # None
  BY <1>1, <1>3, EntryFields
<1> HIDE DEF g
<1>7. binding' \in [Calls -> Binding] /\ binding'[c] = g /\ \A d \in Calls : d # c => binding'[d] = binding[d]
  BY <1>3, <1>6, LaneParts
<1>8. LaneTypes'
  BY <1>3, <1>4, <1>5, <1>7, LaneParts DEF LaneTypes
<1>9. Rooms'
  BY <1>2, <1>4, LaneParts, RoomsStay DEF e
<1>10. Scoped(L)' = Scoped(L) \cup {c} /\ c \notin Scoped(L)
  <2>1. c \notin Scoped(L)
    BY <1>1, <1>3, ScopedFacts
  <2>2. ASSUME NEW d \in Calls
        PROVE  (LaneOf[d] = L /\ pc'[d] = "running" /\ binding'[d] # None)
                 <=> (d = c \/ d \in Scoped(L))
    BY <1>1, <1>5, <1>6, <1>7, ScopedFacts
  <2>3. Scoped(L) \subseteq Calls
    BY <1>1, ScopedFacts
  <2>4. Scoped(L)' = {d \in Calls : LaneOf[d] = L /\ pc'[d] = "running" /\ binding'[d] # None}
    BY DEF Scoped, Running
  <2> QED
    BY <2>1, <2>2, <2>3, <2>4
<1>11. CountOf(L)'
  <2>1. IsFiniteSet(Scoped(L)') /\ Cardinality(Scoped(L)') = Cardinality(Scoped(L)) + 1
    <3>1. IsFiniteSet(Scoped(L))
      BY <1>1, ScopedFacts
    <3> QED
      BY <1>10, <3>1, FS_AddElement
  <2>2. f.active = Cardinality(Scoped(L)')
    BY <1>1, <1>2, <2>1, ScopedFacts DEF e
  <2>3. f.waiters = {d \in Calls : LaneOf[d] = L /\ pc'[d] = "waiting"}
    BY <1>1, <1>2, <1>3, <1>5, ScopedFacts DEF e
  <2>4. f.nonce <= nonces' /\ f.nonce # 0
    BY <1>1, <1>2, <1>3, ScopedFacts DEF e
  <2> QED
    BY <1>4, <2>1, <2>2, <2>3, <2>4 DEF CountOf
<1>12. LeaseOf(L)'
  BY <1>2, <1>3, <1>4 DEF LeaseOf
<1>13. OrderOf(L)'
  <2>1. ASSUME NEW d \in Scoped(L)
        PROVE  /\ binding'[d] = binding[d] /\ binding[d].nonce = e.nonce
               /\ binding[d].generation <= e.generation /\ binding[d].generation \in Nat
    BY <1>1, <1>7, <1>10, LaneParts, ScopedFacts, EntryFields DEF OrderOf, e
  <2>2. ASSUME NEW d \in Scoped(L)
        PROVE  binding'[d].generation < f.generation
    BY <1>1, <1>2, <2>1
  <2>3. ASSUME NEW d \in Scoped(L)'
        PROVE  /\ binding'[d].nonce = f.nonce /\ binding'[d].generation <= f.generation
               /\ binding'[d].generation = f.generation => d = c
    <3>1. CASE d = c
      BY <1>1, <1>2, <1>6, <1>7, <3>1
    <3>2. CASE d # c
      BY <1>1, <1>2, <1>10, <2>1, <2>2, <3>2
    <3> QED
      BY <3>1, <3>2
  <2> QED
    BY <1>4, <1>5, <2>3 DEF OrderOf, LastBegun
<1>14. ASSUME NEW l \in Lanes, l # L PROVE CountOf(l)' /\ LeaseOf(l)' /\ OrderOf(l)'
  <2>1. \A d \in Calls : LaneOf[d] = l => pc'[d] = pc[d] /\ binding'[d] = binding[d] /\ mode'[d] = mode[d]
    BY <1>5, <1>7, <1>14
  <2>2. /\ CountOf(l) /\ LeaseOf(l) /\ OrderOf(l) /\ entries[l] \in Entry
        /\ nonces \in Nat /\ nonces' = nonces /\ entries'[l] = entries[l] /\ begun'[l] = begun[l]
    BY <1>3, <1>4, <1>5, <1>14, LaneParts
  <2> QED
    BY <2>1, <2>2, LaneStays
<1>15. ASSUME NEW o, NEW b, Source(o, b) PROVE Source(o, b)'
  <2>1. o \in Calls /\ pc[o] \in {"done", "running"} /\ LaneOf[o] \in Lanes /\ b.generation \in Nat
    BY <1>15, LaneOfCall, EntryFields DEF Source
  <2>2. pc'[o] = pc[o] /\ binding'[o] = binding[o] /\ o # c
    BY <1>3, <1>5, <1>7, <2>1
  <2>3. CASE LaneOf[o] # L
    BY <1>3, <1>4, <1>5, <1>15, <2>1, <2>2, <2>3, LaneParts, SourceStays
  <2>4. CASE LaneOf[o] = L
    <3>1. e.nonce = b.nonce => b.generation <= e.generation
      BY <1>15, <2>4 DEF Source, e
    <3>2. e.nonce = b.nonce /\ e.generation = b.generation => begun[L] # << >> /\ LastBegun(L) = o
      BY <1>15, <2>4 DEF Source, e
    <3>3. ASSUME f.nonce = b.nonce
          PROVE  /\ b.generation <= f.generation /\ f.generation # b.generation
                 /\ (f.generation = b.generation + 1
                       => Len(begun'[L]) >= 2 /\ begun'[L][Len(begun'[L]) - 1] = o)
      <4>1. b.generation <= e.generation /\ f.generation = e.generation + 1
        BY <1>2, <3>1, <3>3
      <4>2. ASSUME f.generation = b.generation + 1
            PROVE  Len(begun'[L]) >= 2 /\ begun'[L][Len(begun'[L]) - 1] = o
        <5>1. e.generation = b.generation
          BY <1>1, <2>1, <4>1, <4>2
        <5>2. Len(begun'[L]) = 2 /\ begun'[L][1] = o
          BY <1>2, <1>5, <3>2, <3>3, <5>1
        <5> QED
          BY <5>2
      <4>3. b.generation <= f.generation /\ f.generation # b.generation
        BY <1>1, <2>1, <4>1
      <4> QED
        BY <4>2, <4>3
    <3>4. b.nonce >= 1 /\ b.nonce <= nonces' /\ b \in Binding
      BY <1>3, <1>15 DEF Source
    <3>5. pc'[o] = "done" \/ (pc'[o] = "running" /\ binding'[o] = b)
      BY <1>15, <2>2 DEF Source
    <3>6. entries'[LaneOf[o]] = f /\ begun'[LaneOf[o]] = begun'[L]
      BY <1>4, <2>4
    <3> QED
      BY <2>1, <3>3, <3>4, <3>5, <3>6 DEF Source
  <2> QED
    BY <2>3, <2>4
<1>16. Unbound'
  BY <1>5, <1>7, LaneParts DEF Unbound
<1> QED
  BY <1>8, <1>9, <1>11, <1>12, <1>13, <1>14, <1>15, <1>16, LaneFrom

\* There is no room for the lane: the call runs without a binding.
LEMMA UnscopedKeeps ==
  ASSUME LaneInv, NEW c \in Calls, RunUnscoped(c)
  PROVE  LaneInv' /\ \A o, b : Source(o, b) => Source(o, b)'
<1> DEFINE L == LaneOf[c]
<1>1. /\ pc[c] \in {"new", "woken"} /\ entries[L].nonce = 0
      /\ UNCHANGED <<binding, entries, nonces>> /\ Run(c)
  BY DEF RunUnscoped, Arriving
<1>2. /\ pc' \in [Calls -> States] /\ pc'[c] = "running" /\ \A d \in Calls : d # c => pc'[d] = pc[d]
      /\ begun' \in [Lanes -> Seq(Calls)]
      /\ \A l \in Lanes : l # L => begun'[l] = begun[l]
      /\ mode' = mode /\ L \in Lanes
  BY <1>1, RunFacts, LaneOfCall
<1>3. LaneTypes'
  BY <1>1, <1>2, LaneParts DEF LaneTypes
<1>4. Rooms'
  BY <1>1, LaneParts, RoomsStay
<1>5. entries[L].waiters = {} /\ ~ entries[L].exclusive /\ Scoped(L) = {}
  BY <1>1, <1>2, ScopedFacts
<1>6. ASSUME NEW l \in Lanes PROVE Scoped(l)' = Scoped(l)
  <2>1. binding[c] = None
    BY <1>1, LaneParts DEF Unbound
  <2> QED
    BY <1>1, <1>2, <2>1 DEF Scoped, Running
<1>7. CountOf(L)'
  <2>1. {d \in Calls : LaneOf[d] = L /\ pc'[d] = "waiting"} = {d \in Calls : LaneOf[d] = L /\ pc[d] = "waiting"}
    BY <1>1, <1>2
  <2> QED
    BY <1>1, <1>2, <1>6, <2>1, LaneParts DEF CountOf
<1>8. LeaseOf(L)' /\ OrderOf(L)'
  BY <1>1, <1>2, <1>5, <1>6 DEF LeaseOf, OrderOf
<1>9. ASSUME NEW l \in Lanes, l # L PROVE CountOf(l)' /\ LeaseOf(l)' /\ OrderOf(l)'
  <2>1. \A d \in Calls : LaneOf[d] = l => pc'[d] = pc[d] /\ binding'[d] = binding[d] /\ mode'[d] = mode[d]
    BY <1>1, <1>2, <1>9
  <2> QED
    BY <1>1, <1>2, <1>9, <2>1, LaneParts, LaneStays
<1>10. ASSUME NEW o, NEW b, Source(o, b) PROVE Source(o, b)'
  <2>1. o \in Calls /\ pc[o] \in {"done", "running"} /\ LaneOf[o] \in Lanes
    BY <1>10, LaneOfCall DEF Source
  <2>2. pc'[o] = pc[o] /\ binding'[o] = binding[o]
    BY <1>1, <1>2, <2>1
  <2>3. \/ entries'[LaneOf[o]].nonce = 0
        \/ entries'[LaneOf[o]] = entries[LaneOf[o]] /\ begun'[LaneOf[o]] = begun[LaneOf[o]]
    BY <1>1, <1>2, <2>1
  <2>4. nonces \in Nat /\ nonces' = nonces
    BY <1>1, LaneParts
  <2> QED
    BY <1>10, <2>2, <2>3, <2>4, SourceStays
<1>11. Unbound'
  BY <1>1, <1>2, LaneParts DEF Unbound
<1> QED
  BY <1>3, <1>4, <1>7, <1>8, <1>9, <1>10, <1>11, LaneFrom

\* The waiters of the lane of c are woken, c is done.
LEMMA FinishKeeps ==
  ASSUME LaneInv, NEW c \in Calls, Finish(c)
  PROVE  LaneInv' /\ \A o, b : Source(o, b) => Source(o, b)'
<1> DEFINE L == LaneOf[c]
           e == entries[L]
<1>1. L \in Lanes /\ e \in Entry /\ e.nonce \in Nat /\ e.generation \in Nat /\ e.active \in Nat
  BY LaneParts, LaneOfCall, EntryFields
<1> HIDE DEF e
<1>2. /\ pc[c] = "running" /\ binding' = [binding EXCEPT ![c] = None]
      /\ UNCHANGED <<mode, nonces, begun>>
  BY DEF Finish
<1>3. /\ binding' \in [Calls -> Binding] /\ binding'[c] = None
      /\ \A d \in Calls : d # c => binding'[d] = binding[d]
  BY <1>2, LaneParts, EntryFields
<1>4. CASE binding[c] = None
  <2>1. pc' = [pc EXCEPT ![c] = "done"] /\ entries' = entries
    BY <1>4 DEF Finish
  <2>2. pc' \in [Calls -> States] /\ pc'[c] = "done" /\ \A d \in Calls : d # c => pc'[d] = pc[d]
    BY <2>1, LaneParts DEF States
  <2>3. LaneTypes' /\ Unbound' /\ Rooms'
    BY <1>2, <1>3, <2>1, <2>2, LaneParts, RoomsStay DEF LaneTypes, Unbound
  <2>4. ASSUME NEW l \in Lanes PROVE CountOf(l)' /\ LeaseOf(l)' /\ OrderOf(l)'
    <3>1. Scoped(l)' = Scoped(l)
      BY <1>2, <1>3, <1>4, <2>2 DEF Scoped, Running
    <3>2. {d \in Calls : LaneOf[d] = l /\ pc'[d] = "waiting"} = {d \in Calls : LaneOf[d] = l /\ pc[d] = "waiting"}
      BY <1>2, <2>2
    <3>3. \A d \in Scoped(l) : binding'[d] = binding[d] /\ mode'[d] = mode[d]
      BY <1>2, <1>3, <1>4, ScopedFacts
    <3>4. CountOf(l)'
      BY <1>2, <2>1, <3>1, <3>2, LaneParts DEF CountOf
    <3>5. LeaseOf(l)'
      BY <1>2, <2>1, <3>1, LaneParts DEF LeaseOf
    <3>6. OrderOf(l)'
      BY <1>2, <2>1, <3>1, <3>3, LaneParts DEF OrderOf, LastBegun
    <3> QED
      BY <3>4, <3>5, <3>6
  <2>5. ASSUME NEW o, NEW b, Source(o, b) PROVE Source(o, b)'
    <3>1. o \in Calls /\ LaneOf[o] \in Lanes
      BY <2>5, LaneOfCall DEF Source
    <3>2. pc'[o] = "done" \/ (pc'[o] = pc[o] /\ binding'[o] = binding[o])
      BY <1>3, <2>2, <3>1
    <3> QED
      BY <1>2, <2>1, <2>5, <3>2, LaneParts, SourceStays
  <2> QED
    BY <2>3, <2>4, <2>5, LaneFrom
<1>5. CASE binding[c] # None
  <2> DEFINE f == [e EXCEPT !.active = e.active - 1, !.exclusive = FALSE, !.waiters = {}]
  <2>1. c \in Scoped(L) /\ e.active \in Nat \ {0} /\ e.nonce # 0
    BY <1>1, <1>2, <1>5, ScopedFacts DEF e
  <2>2. e.active - 1 \in Nat
    BY <2>1
  <2>3. /\ f \in Entry /\ f.nonce = e.nonce /\ f.generation = e.generation /\ f.active = e.active - 1
        /\ f.exclusive = FALSE /\ f.waiters = {}
    <3>1. f = [e EXCEPT !.active = e.active - 1, !.exclusive = FALSE, !.waiters = {}]
      OBVIOUS
    <3> HIDE DEF f
    <3> QED
      BY <1>1, <2>1, <3>1, FinishedEntry
  <2>4. pc' = [Woken(L) EXCEPT ![c] = "done"] /\ entries' = [entries EXCEPT ![L] = f]
    BY <1>5 DEF Finish, e
  <2> HIDE DEF f
  <2>5. /\ entries' \in [Lanes -> Entry] /\ entries'[L] = f
        /\ \A l \in Lanes : l # L => entries'[l] = entries[l]
    BY <2>3, <2>4, OwnLane
  <2>6. e.waiters = {d \in Calls : LaneOf[d] = L /\ pc[d] = "waiting"}
    BY <1>1, ScopedFacts DEF e
  <2>7. /\ pc' \in [Calls -> States] /\ pc'[c] = "done"
        /\ \A d \in Calls : d # c =>
             IF LaneOf[d] = L /\ pc[d] = "waiting" THEN pc'[d] = "woken" ELSE pc'[d] = pc[d]
    BY <2>4, <2>6, LaneParts DEF Woken, States, e
  <2>8. LaneTypes' /\ Unbound'
    BY <1>2, <1>3, <2>5, <2>7, LaneParts DEF LaneTypes, Unbound
  <2>9. Rooms'
    BY <2>3, <2>5, LaneParts, RoomsStay DEF e
  <2>10. Scoped(L)' = Scoped(L) \ {c}
    <3>1. Scoped(L)' = {d \in Calls : LaneOf[d] = L /\ pc'[d] = "running" /\ binding'[d] # None}
      BY DEF Scoped, Running
    <3>2. ASSUME NEW d \in Calls
          PROVE  (LaneOf[d] = L /\ pc'[d] = "running" /\ binding'[d] # None) <=> (d # c /\ d \in Scoped(L))
      BY <1>1, <1>3, <2>7, ScopedFacts
    <3>3. Scoped(L) \subseteq Calls
      BY <1>1, ScopedFacts
    <3> QED
      BY <3>1, <3>2, <3>3
  <2>11. CountOf(L)'
    <3>1. IsFiniteSet(Scoped(L)') /\ Cardinality(Scoped(L)') = Cardinality(Scoped(L)) - 1
      BY <1>1, <2>1, <2>10, ScopedFacts, FS_RemoveElement
    <3>2. f.active = Cardinality(Scoped(L)')
      BY <1>1, <2>3, <3>1, ScopedFacts DEF e
    <3>3. {d \in Calls : LaneOf[d] = L /\ pc'[d] = "waiting"} = {}
      BY <2>7
    <3>4. f.nonce <= nonces' /\ f.nonce # 0
      BY <1>1, <1>2, <2>1, <2>3, ScopedFacts DEF e
    <3> QED
      BY <2>3, <2>5, <3>1, <3>2, <3>3, <3>4 DEF CountOf
  <2>12. LeaseOf(L)'
    BY <2>3, <2>5 DEF LeaseOf
  <2>13. OrderOf(L)'
    <3>1. \A d \in Scoped(L)' : d \in Scoped(L) /\ binding'[d] = binding[d]
      BY <1>1, <1>3, <2>10, ScopedFacts
    <3> QED
      BY <1>1, <1>2, <2>3, <2>5, <3>1, LaneParts DEF OrderOf, LastBegun, e
  <2>14. ASSUME NEW l \in Lanes, l # L PROVE CountOf(l)' /\ LeaseOf(l)' /\ OrderOf(l)'
    <3>1. \A d \in Calls : LaneOf[d] = l => pc'[d] = pc[d] /\ binding'[d] = binding[d] /\ mode'[d] = mode[d]
      BY <1>2, <1>3, <2>7, <2>14
    <3>2. /\ CountOf(l) /\ LeaseOf(l) /\ OrderOf(l) /\ entries[l] \in Entry
          /\ nonces \in Nat /\ nonces' = nonces /\ entries'[l] = entries[l] /\ begun'[l] = begun[l]
      BY <1>2, <2>5, <2>14, LaneParts
    <3> QED
      BY <3>1, <3>2, LaneStays
  <2>15. ASSUME NEW o, NEW b, Source(o, b) PROVE Source(o, b)'
    <3>1. o \in Calls /\ LaneOf[o] \in Lanes /\ pc[o] \in {"done", "running"}
      BY <2>15, LaneOfCall DEF Source
    <3>2. pc'[o] = "done" \/ (pc'[o] = pc[o] /\ binding'[o] = binding[o])
      BY <1>3, <2>7, <3>1
    <3>3. /\ entries'[LaneOf[o]].nonce = entries[LaneOf[o]].nonce
          /\ entries'[LaneOf[o]].generation = entries[LaneOf[o]].generation
          /\ begun'[LaneOf[o]] = begun[LaneOf[o]]
      BY <1>2, <2>3, <2>5, <3>1 DEF e
    <3> QED
      BY <1>2, <2>15, <3>2, <3>3, LaneParts, SourceStays
  <2> QED
    BY <2>8, <2>9, <2>11, <2>12, <2>13, <2>14, <2>15, LaneFrom
<1> QED
  BY <1>4, <1>5

\* A call that is current takes the lease of its lane.
LEMMA LeaseKeeps ==
  ASSUME LaneInv, NEW c \in Calls, pc[c] = "running", Current(LaneOf[c], binding[c]), binding[c] # None,
         entries' = [entries EXCEPT ![LaneOf[c]].exclusive = TRUE],
         mode' = [mode EXCEPT ![c] = "semantic"],
         UNCHANGED <<pc, binding, nonces, begun>>
  PROVE  LaneInv' /\ \A o, b : Source(o, b) => Source(o, b)'
<1> DEFINE L == LaneOf[c]
           e == entries[L]
           f == [e EXCEPT !.exclusive = TRUE]
<1>1. L \in Lanes /\ e \in Entry
  BY LaneParts, LaneOfCall
<1>2. /\ f \in Entry /\ f.nonce = e.nonce /\ f.generation = e.generation /\ f.active = e.active
      /\ f.exclusive = TRUE /\ f.waiters = e.waiters
  <2>1. f = [e EXCEPT !.exclusive = TRUE]
    OBVIOUS
  <2> HIDE DEF f, e
  <2> QED
    BY <1>1, <2>1, LeasedEntry
<1>3. entries' = [entries EXCEPT ![L] = f]
  OBVIOUS
<1> HIDE DEF f
<1>4. /\ entries' \in [Lanes -> Entry] /\ entries'[L] = f
      /\ \A l \in Lanes : l # L => entries'[l] = entries[l]
  BY <1>2, <1>3, OwnLane
<1>5. /\ mode' \in [Calls -> ModeNames] /\ mode'[c] = "semantic"
      /\ \A d \in Calls : d # c => mode'[d] = mode[d]
  BY LaneParts DEF ModeNames
<1>6. LaneTypes' /\ Unbound'
  BY <1>4, <1>5, LaneParts DEF LaneTypes, Unbound
<1>7. Rooms'
  BY <1>2, <1>4, LaneParts, RoomsStay
<1>8. Scoped(L)' = Scoped(L) /\ Scoped(L) = {c}
  <2>1. Scoped(L)' = Scoped(L)
    BY DEF Scoped, Running
  <2>2. c \in Scoped(L) /\ entries[L].active = 1
    BY <1>1, ScopedFacts DEF Current
  <2>3. \A d \in Scoped(L) : d = c
    BY <1>1, <2>2, ScopedFacts
  <2> QED
    BY <2>1, <2>2, <2>3
<1>9. CountOf(L)'
  <2>1. entries[L].nonce # 0
    BY DEF Current
  <2> QED
    BY <1>1, <1>2, <1>4, <1>8, <2>1, LaneParts DEF CountOf
<1>10. LeaseOf(L)'
  BY <1>5, <1>8 DEF LeaseOf
<1>11. OrderOf(L)'
  BY <1>1, <1>2, <1>4, <1>8, LaneParts DEF OrderOf, LastBegun
<1>12. ASSUME NEW l \in Lanes, l # L PROVE CountOf(l)' /\ LeaseOf(l)' /\ OrderOf(l)'
  BY <1>4, <1>5, <1>12, LaneParts, LaneStays
<1>13. ASSUME NEW o, NEW b, Source(o, b) PROVE Source(o, b)'
  <2>1. o \in Calls /\ LaneOf[o] \in Lanes
    BY <1>13, LaneOfCall DEF Source
  <2>2. /\ entries'[LaneOf[o]].nonce = entries[LaneOf[o]].nonce
        /\ entries'[LaneOf[o]].generation = entries[LaneOf[o]].generation
    BY <1>2, <1>4, <2>1
  <2> QED
    BY <1>13, <2>2, LaneParts, SourceStays
<1> QED
  BY <1>6, <1>7, <1>9, <1>10, <1>11, <1>12, <1>13, LaneFrom

\* No call of the lanes starts, ends or takes a lease.
LEMMA LanesStand ==
  ASSUME LaneInv, UNCHANGED <<pc, binding, entries, nonces, begun>>,
         mode' \in [Calls -> ModeNames],
         \A d \in Calls : mode[d] = "semantic" => mode'[d] = "semantic"
  PROVE  LaneInv' /\ \A o, b : Source(o, b) => Source(o, b)'
<1>1. LaneTypes' /\ Unbound' /\ Rooms'
  BY LaneParts, RoomsStay DEF LaneTypes, Unbound
<1>2. ASSUME NEW l \in Lanes PROVE CountOf(l)' /\ LeaseOf(l)' /\ OrderOf(l)'
  BY <1>2, LaneParts, LaneStays
<1>3. ASSUME NEW o, NEW b, Source(o, b) PROVE Source(o, b)'
  BY <1>3, LaneParts, SourceStays
<1> QED
  BY <1>1, <1>2, <1>3, LaneFrom

\* A restart empties the lanes: no binding is that of an entry any more.
LEMMA RestartKeeps ==
  ASSUME LaneInv, Restart
  PROVE  LaneInv' /\ \A o, b : Source(o, b) => Source(o, b)'
<1>1. /\ pc' = [c \in Calls |-> IF pc[c] = "new" THEN "new" ELSE "done"]
      /\ entries' = [l \in Lanes |-> NoEntry] /\ binding' = [c \in Calls |-> None]
      /\ UNCHANGED <<mode, nonces, begun>>
  BY DEF Restart
<1>2. LaneTypes' /\ Unbound'
  BY <1>1, LaneParts, EntryFields DEF LaneTypes, Unbound, States
<1>3. Present' = {}
  BY <1>1, EntryFields DEF Present
<1>4. Rooms'
  BY <1>3, FS_EmptySet, ReadCallLaneAssumption DEF Rooms
<1>5. ASSUME NEW l \in Lanes PROVE CountOf(l)' /\ LeaseOf(l)' /\ OrderOf(l)'
  <2>1. Scoped(l)' = {} /\ {c \in Calls : LaneOf[c] = l /\ pc'[c] = "waiting"} = {}
    BY <1>1 DEF Scoped, Running
  <2>2. entries'[l] = NoEntry /\ nonces' \in Nat
    BY <1>1, LaneParts
  <2> QED
    BY <2>1, <2>2, FS_EmptySet, EntryFields DEF CountOf, LeaseOf, OrderOf
<1>6. ASSUME NEW o, NEW b, Source(o, b) PROVE Source(o, b)'
  <2>1. o \in Calls /\ LaneOf[o] \in Lanes /\ pc[o] \in {"done", "running"}
    BY <1>6, LaneOfCall DEF Source
  <2>2. pc'[o] = "done" /\ entries'[LaneOf[o]].nonce = 0
    BY <1>1, <2>1, EntryFields
  <2>3. nonces \in Nat /\ nonces' = nonces
    BY <1>1, LaneParts
  <2> QED
    BY <1>6, <2>2, <2>3, SourceStays
<1> QED
  BY <1>2, <1>4, <1>5, <1>6, LaneFrom

\* The oldest idle lane exists.
LEMMA OldestIsIdle ==
  ASSUME LaneInv, Idle # {}
  PROVE  Oldest \in Idle
<1> DEFINE S == {entries[l].nonce : l \in Idle}
<1>1. \A l \in Idle : l \in Lanes /\ entries[l].nonce \in Nat
  BY LaneParts, EntryFields DEF Idle, Present
<1>2. S \subseteq Nat /\ S # {}
  BY <1>1
<1> HIDE DEF S
<1>3. PICK m \in S : \A n \in S : m <= n
  BY <1>2, Least
<1> USE DEF S
<1>4. \E l \in Idle : \A k \in Idle : entries[l].nonce <= entries[k].nonce
  BY <1>3
<1> QED
  BY <1>4 DEF Oldest

\* A lane is opened, and the oldest idle one forgotten if there is no room: the
\* nonce is new, so no earlier binding is taken for one of this entry.
LEMMA OpenLaneKeeps ==
  ASSUME LaneInv, NEW c \in Calls, OpenLane(c)
  PROVE  LaneInv' /\ \A o, b : Source(o, b) => Source(o, b)'
<1> DEFINE L == LaneOf[c]
           full == Cardinality(Present) >= MaxLanes
           kept == IF full THEN [entries EXCEPT ![Oldest] = NoEntry] ELSE entries
           n == nonces + 1
           f == [NoEntry EXCEPT !.nonce = n, !.generation = 1, !.active = 1]
           g == [nonce |-> n, generation |-> 1]
<1>1. L \in Lanes /\ nonces \in Nat /\ n \in Nat /\ n > nonces /\ n # 0
  BY LaneParts, LaneOfCall
<1>2. /\ pc[c] \in {"new", "woken"} /\ entries[L].nonce = 0 /\ (full => Idle # {})
      /\ nonces < MaxNonce /\ nonces' = n /\ entries' = [kept EXCEPT ![L] = f]
      /\ binding' = [binding EXCEPT ![c] = g] /\ Run(c)
  BY DEF OpenLane, Arriving
<1> HIDE DEF n
<1>3. /\ f \in Entry /\ f.nonce = n /\ f.generation = 1 /\ f.active = 1
      /\ ~ f.exclusive /\ f.waiters = {}
  <2>1. f = [NoEntry EXCEPT !.nonce = n, !.generation = 1, !.active = 1]
    OBVIOUS
  <2> HIDE DEF f
  <2> QED
    BY <1>1, <2>1, NewEntry
<1> HIDE DEF f
<1>4. full => Oldest \in Present /\ Oldest # L /\ entries[Oldest].active = 0 /\ entries[Oldest].waiters = {}
  BY <1>2, OldestIsIdle DEF Idle, Present
<1>5. /\ kept \in [Lanes -> Entry]
      /\ \A l \in Lanes : kept[l] = IF full /\ l = Oldest THEN NoEntry ELSE entries[l]
  BY <1>4, LaneParts, EntryFields DEF Present
<1> HIDE DEF kept
<1>6. /\ entries' \in [Lanes -> Entry] /\ entries'[L] = f
      /\ \A l \in Lanes : l # L => entries'[l] = IF full /\ l = Oldest THEN NoEntry ELSE entries[l]
  BY <1>1, <1>2, <1>3, <1>5
<1>7. /\ pc' \in [Calls -> States] /\ pc'[c] = "running" /\ \A d \in Calls : d # c => pc'[d] = pc[d]
      /\ begun' \in [Lanes -> Seq(Calls)]
      /\ \A l \in Lanes : l # L => begun'[l] = begun[l]
      /\ begun'[L] # << >> /\ begun'[L][Len(begun'[L])] = c
      /\ mode' = mode
  BY <1>2, RunFacts
<1>8. g \in Binding /\ g.nonce = n /\ g.generation = 1 /\ g # None
  BY <1>1, EntryFields
<1> HIDE DEF g
<1>9. binding' \in [Calls -> Binding] /\ binding'[c] = g /\ \A d \in Calls : d # c => binding'[d] = binding[d]
  BY <1>2, <1>8, LaneParts
<1>10. LaneTypes' /\ Unbound'
  <2>1. nonces' \in 0..MaxNonce
    BY <1>1, <1>2, ReadCallLaneAssumption DEF n
  <2> QED
    BY <1>6, <1>7, <1>9, <2>1, LaneParts DEF LaneTypes, Unbound
<1>11. Rooms'
  <2>1. IsFiniteSet(Present) /\ Cardinality(Present) <= MaxLanes /\ Cardinality(Present) \in Nat /\ MaxLanes \in Nat
    BY LaneParts, FS_CardinalityType, ReadCallLaneAssumption DEF Rooms
  <2>2. L \notin Present
    BY <1>2 DEF Present
  <2>3. CASE full
    <3> DEFINE P == Present \ {Oldest}
    <3>1. IsFiniteSet(P) /\ Cardinality(P) = Cardinality(Present) - 1 /\ L \notin P
      BY <1>4, <2>1, <2>2, <2>3, FS_RemoveElement
    <3>2. Present' = P \cup {L}
      BY <1>1, <1>3, <1>6, <2>3, EntryFields DEF Present
    <3> HIDE DEF P
    <3>3. IsFiniteSet(Present') /\ Cardinality(Present') = Cardinality(P) + 1
      BY <3>1, <3>2, FS_AddElement
    <3> QED
      BY <2>1, <3>1, <3>3 DEF Rooms
  <2>4. CASE ~full
    <3>1. Present' = Present \cup {L}
      BY <1>1, <1>3, <1>6, <2>4 DEF Present
    <3>2. IsFiniteSet(Present') /\ Cardinality(Present') = Cardinality(Present) + 1
      BY <2>1, <2>2, <3>1, FS_AddElement
    <3> QED
      BY <2>1, <2>4, <3>2 DEF Rooms
  <2> QED
    BY <2>3, <2>4
<1>12. Scoped(L)' = {c}
  <2>1. Scoped(L)' = {d \in Calls : LaneOf[d] = L /\ pc'[d] = "running" /\ binding'[d] # None}
    BY DEF Scoped, Running
  <2>2. \A d \in Calls : (LaneOf[d] = L /\ pc'[d] = "running" /\ binding'[d] # None) <=> d = c
    BY <1>1, <1>2, <1>7, <1>8, <1>9, ScopedFacts
  <2> QED
    BY <2>1, <2>2
<1>13. CountOf(L)'
  <2>1. {d \in Calls : LaneOf[d] = L /\ pc'[d] = "waiting"} = {}
    <3>1. {d \in Calls : LaneOf[d] = L /\ pc[d] = "waiting"} = {}
      BY <1>1, <1>2, ScopedFacts
    <3> QED
      BY <1>7, <3>1
  <2>2. n <= nonces'
    BY <1>1, <1>2
  <2> QED
    BY <1>1, <1>3, <1>6, <1>12, <2>1, <2>2, FS_Singleton DEF CountOf
<1>14. LeaseOf(L)' /\ OrderOf(L)'
  BY <1>3, <1>6, <1>7, <1>8, <1>9, <1>12 DEF LeaseOf, OrderOf, LastBegun
<1>15. ASSUME NEW l \in Lanes, l # L PROVE CountOf(l)' /\ LeaseOf(l)' /\ OrderOf(l)'
  <2>1. \A d \in Calls : LaneOf[d] = l => pc'[d] = pc[d] /\ binding'[d] = binding[d] /\ mode'[d] = mode[d]
    BY <1>7, <1>9, <1>15
  <2>2. nonces' \in Nat /\ nonces <= nonces'
    BY <1>1, <1>2
  <2>3. CASE full /\ l = Oldest
    <3>1. Scoped(l)' = {} /\ {d \in Calls : LaneOf[d] = l /\ pc'[d] = "waiting"} = {}
      <4>1. Scoped(l)' = Scoped(l)
        BY <2>1 DEF Scoped, Running
      <4>2. {d \in Calls : LaneOf[d] = l /\ pc'[d] = "waiting"} = {d \in Calls : LaneOf[d] = l /\ pc[d] = "waiting"}
        BY <2>1
      <4> QED
        BY <1>4, <2>3, <4>1, <4>2, ScopedFacts
    <3>2. entries'[l] = NoEntry
      BY <1>6, <1>15, <2>3
    <3> QED
      BY <2>2, <3>1, <3>2, FS_EmptySet, EntryFields DEF CountOf, LeaseOf, OrderOf
  <2>4. CASE ~ (full /\ l = Oldest)
    <3>1. /\ CountOf(l) /\ LeaseOf(l) /\ OrderOf(l) /\ entries[l] \in Entry
          /\ entries'[l] = entries[l] /\ begun'[l] = begun[l]
      BY <1>6, <1>7, <1>15, <2>4, LaneParts
    <3> QED
      BY <1>1, <2>1, <2>2, <3>1, LaneStays
  <2> QED
    BY <2>3, <2>4
<1>16. ASSUME NEW o, NEW b, Source(o, b) PROVE Source(o, b)'
  <2>1. o \in Calls /\ pc[o] \in {"done", "running"} /\ LaneOf[o] \in Lanes
    BY <1>16, LaneOfCall DEF Source
  <2>2. pc'[o] = pc[o] /\ binding'[o] = binding[o]
    BY <1>2, <1>7, <1>9, <2>1
  <2>3. \/ entries'[LaneOf[o]].nonce = 0
        \/ entries'[LaneOf[o]].nonce > nonces
        \/ entries'[LaneOf[o]] = entries[LaneOf[o]] /\ begun'[LaneOf[o]] = begun[LaneOf[o]]
    BY <1>1, <1>3, <1>6, <1>7, <2>1, EntryFields
  <2>4. nonces' \in Nat /\ nonces <= nonces'
    BY <1>1, <1>2
  <2> QED
    BY <1>1, <1>16, <2>2, <2>3, <2>4, SourceStays
<1> QED
  BY <1>10, <1>11, <1>13, <1>14, <1>15, <1>16, LaneFrom

-----------------------------------------------------------------------------
(* The lanes by themselves *)

TypeInv == LaneInv /\ StoreTypes

\* The lease is for a call that is alone in its lane and the last that began.
LEMMA LeasableIsCurrent ==
  ASSUME NEW l, NEW cur, NEW minted, Leasable(l, cur, minted)
  PROVE  Current(l, cur) /\ cur # None
BY DEF Leasable

\* A claim of a plan moves no call, and leases the lane of a call that is current.
LEMMA ClaimKeeps ==
  ASSUME LaneInv, NEW c \in Calls, NEW k \in Plans, ClaimSemantic(c, k) \/ ClaimRecovery(c, k)
  PROVE  LaneInv' /\ \A o, b : Source(o, b) => Source(o, b)'
<1>1. pc[c] = "running" /\ mode[c] = "plain" /\ UNCHANGED <<pc, binding, nonces, begun>>
  BY DEF ClaimSemantic, ClaimRecovery, Presents
<1>2. CASE ClaimSemantic(c, k) /\ k \notin Repacks
  <2>1. /\ entries' = [entries EXCEPT ![LaneOf[c]].exclusive = TRUE]
        /\ mode' = [mode EXCEPT ![c] = "semantic"] /\ Leasable(LaneOf[c], binding[c], plan[k])
    BY <1>2 DEF ClaimSemantic
  <2> QED
    BY <1>1, <2>1, LeasableIsCurrent, LeaseKeeps
<1>3. CASE ClaimRecovery(c, k) \/ (ClaimSemantic(c, k) /\ k \in Repacks)
  <2>1. /\ entries' = entries
        /\ mode' = [mode EXCEPT ![c] = "semantic"] \/ mode' = [mode EXCEPT ![c] = "recovery"]
    BY <1>3 DEF ClaimSemantic, ClaimRecovery
  <2>2. mode' \in [Calls -> ModeNames] /\ \A d \in Calls : mode[d] = "semantic" => mode'[d] = "semantic"
    BY <1>1, <2>1, LaneParts DEF ModeNames
  <2> QED
    BY <1>1, <2>1, <2>2, LanesStand
<1> QED
  BY <1>2, <1>3

\* However a call enters, the lanes stay right.
LEMMA EnterKeeps ==
  ASSUME LaneInv, NEW c \in Calls, Enter(c)
  PROVE  LaneInv' /\ \A o, b : Source(o, b) => Source(o, b)'
BY WaitKeeps, JoinKeeps, OpenLaneKeeps, UnscopedKeeps DEF Enter

\* Every step keeps the lanes right, and every source a source.
LEMMA LanesKeep ==
  ASSUME LaneInv, [Next]_vars
  PROVE  LaneInv' /\ \A o, b : Source(o, b) => Source(o, b)'
<1>1. CASE UNCHANGED vars
  BY <1>1, LanesStand, LaneParts DEF vars
<1>2. ASSUME NEW c \in Calls, Enter(c) \/ Finish(c)
      PROVE  LaneInv' /\ \A o, b : Source(o, b) => Source(o, b)'
  BY <1>2, EnterKeeps, FinishKeeps
<1>3. ASSUME NEW c \in Calls, NEW k \in Plans, Mint(c, k)
      PROVE  LaneInv' /\ \A o, b : Source(o, b) => Source(o, b)'
  BY <1>3, LanesStand, LaneParts DEF Mint
<1>4. ASSUME NEW c \in Calls, NEW k \in Plans, ClaimSemantic(c, k) \/ ClaimRecovery(c, k)
      PROVE  LaneInv' /\ \A o, b : Source(o, b) => Source(o, b)'
  BY <1>4, ClaimKeeps
<1>5. ASSUME NEW c \in Calls, NEW k \in Plans, Replay(c, k) \/ RefusePlan(c, k)
      PROVE  LaneInv' /\ \A o, b : Source(o, b) => Source(o, b)'
  <2>1. /\ UNCHANGED <<pc, binding, entries, nonces, begun>> /\ mode[c] = "plain"
        /\ mode' = [mode EXCEPT ![c] = "recovery"] \/ mode' = [mode EXCEPT ![c] = "refused"]
    BY <1>5 DEF Replay, RefusePlan, Presents
  <2>2. mode' \in [Calls -> ModeNames] /\ \A d \in Calls : mode[d] = "semantic" => mode'[d] = "semantic"
    BY <2>1, LaneParts DEF ModeNames
  <2> QED
    BY <2>1, <2>2, LanesStand
<1>6. ASSUME NEW k \in Plans, LoseMarker(k)
      PROVE  LaneInv' /\ \A o, b : Source(o, b) => Source(o, b)'
  BY <1>6, LanesStand, LaneParts DEF LoseMarker
<1>7. CASE Restart
  BY <1>7, RestartKeeps
<1> QED
  BY <1>1, <1>2, <1>3, <1>4, <1>5, <1>6, <1>7 DEF Next

\* Every step keeps the types of the plans.
LEMMA StoreKeeps ==
  ASSUME LaneInv, StoreTypes, [Next]_vars
  PROVE  StoreTypes'
<1>1. CASE UNCHANGED vars
  BY <1>1 DEF StoreTypes, vars
<1>2. ASSUME NEW c \in Calls, Enter(c) \/ Finish(c) PROVE StoreTypes'
  BY <1>2 DEF StoreTypes, Enter, Wait, Join, OpenLane, RunUnscoped, Run, Finish
<1>3. ASSUME NEW c \in Calls, NEW k \in Plans, Mint(c, k) PROVE StoreTypes'
  BY <1>3, LaneParts DEF StoreTypes, Mint
<1>4. ASSUME NEW c \in Calls, NEW k \in Plans, ClaimSemantic(c, k) \/ ClaimRecovery(c, k) PROVE StoreTypes'
  BY <1>4 DEF StoreTypes, ClaimSemantic, ClaimRecovery, Presents
<1>5. ASSUME NEW c \in Calls, NEW k \in Plans, Replay(c, k) \/ RefusePlan(c, k) PROVE StoreTypes'
  BY <1>5 DEF StoreTypes, Replay, RefusePlan, Presents
<1>6. ASSUME NEW k \in Plans, LoseMarker(k) PROVE StoreTypes'
  BY <1>6 DEF StoreTypes, LoseMarker
<1>7. CASE Restart
  BY <1>7, ReadCallLaneAssumption DEF StoreTypes, Restart
<1> QED
  BY <1>1, <1>2, <1>3, <1>4, <1>5, <1>6, <1>7 DEF Next

\* The lanes are right at first.
LEMMA InitTypeInv == Init => TypeInv
<1> SUFFICES ASSUME Init PROVE TypeInv
  OBVIOUS
<1>1. LaneTypes /\ Unbound /\ StoreTypes
  BY EntryFields, ReadCallLaneAssumption
     DEF Init, LaneTypes, Unbound, StoreTypes, States, ModeNames
<1>2. Present = {}
  BY EntryFields DEF Init, Present
<1>3. Rooms
  BY <1>2, FS_EmptySet, ReadCallLaneAssumption DEF Rooms
<1>4. ASSUME NEW l \in Lanes PROVE CountOf(l) /\ LeaseOf(l) /\ OrderOf(l)
  <2>1. Scoped(l) = {} /\ {c \in Calls : LaneOf[c] = l /\ pc[c] = "waiting"} = {}
    BY DEF Init, Scoped, Running
  <2>2. entries[l] = NoEntry /\ nonces = 0
    BY DEF Init
  <2> QED
    BY <2>1, <2>2, FS_EmptySet, EntryFields DEF CountOf, LeaseOf, OrderOf
<1> QED
  BY <1>1, <1>3, <1>4 DEF TypeInv, LaneInv

\* The invariant is what the two properties say, and more.
LEMMA TypeInvIsTypeOK == TypeInv => TypeOK /\ LeaseExcludes
BY DEF TypeInv, LaneInv, LaneTypes, StoreTypes, Rooms, CountOf, LeaseOf, TypeOK,
   LeaseExcludes, States, ModeNames

\* The lanes are counted right: a lane has no more calls in its scope than it
\* says, wakes all that wait, and there are never more lanes than allowed
\* (beginReadCallDispatch, finish).
THEOREM LanesTypeCorrect == Spec => []TypeOK
<1>1. TypeInv /\ [Next]_vars => TypeInv'
  BY LanesKeep, StoreKeeps DEF TypeInv
<1> QED
  BY <1>1, InitTypeInv, TypeInvIsTypeOK, PTL DEF Spec

\* While a lane is leased, its holder is the only call that runs in its scope,
\* whoever comes, ends or finds the table of lanes full
\* (takeReadCallSemanticLease, beginReadCallDispatch, finish).
THEOREM LeaseIsExclusive == Spec => []LeaseExcludes
<1>1. TypeInv /\ [Next]_vars => TypeInv'
  BY LanesKeep, StoreKeeps DEF TypeInv
<1> QED
  BY <1>1, InitTypeInv, TypeInvIsTypeOK, PTL DEF Spec

-----------------------------------------------------------------------------
(* Steps of a group *)

\* What the invariant of a group says, and the numbers it speaks of.
LEMMA GroupParts ==
  ASSUME GroupInv
  PROVE  /\ LaneInv /\ StoreTypes /\ (\A k \in Plans : MintedOf(k))
         /\ QueueInv /\ TurnInv /\ MarkedInv /\ OwnerInv /\ VersionInv
         /\ marked \in {{}, Siblings} /\ marked \subseteq Plans /\ Siblings \subseteq Plans \ Repacks
         /\ group \in Group /\ queue \in Seq(Calls) /\ Len(queue) \in Nat /\ Len(queue) <= MaxPending
         /\ turn \in Turn /\ disk \in 0..MaxWrites /\ disk \in Nat /\ seen \in 0..disk
         /\ seen \in Nat /\ seen <= disk /\ foreign \in BOOLEAN /\ MaxWrites \in Nat
<1>1. MaxWrites \in Nat /\ Siblings \subseteq Plans \ Repacks
  BY ReadCallBatchGroupAssumption
<1> QED
  BY <1>1 DEF GroupInv, GroupTypes

\* The invariant of a group from its parts.
LEMMA GroupFrom ==
  ASSUME LaneInv', StoreTypes', GroupTypes', \A k \in Plans : MintedOf(k)',
         QueueInv', TurnInv', MarkedInv', OwnerInv', VersionInv'
  PROVE  GroupInv'
BY DEF GroupInv

\* The fields of groups and turns.
LEMMA GroupFields ==
  /\ NoGroup \in Group /\ ~ NoGroup.live
  /\ FreshTurn \in Turn /\ FreshTurn.leased = None
  /\ \A g \in Group : /\ g.live \in BOOLEAN /\ g.tainted \in BOOLEAN /\ g.owner \in Binding
                      /\ g.version \in Nat /\ g.used \in SUBSET Plans
  /\ \A t \in Turn : /\ t.leased \in Binding /\ t.owned \in Nat /\ t.lost \in BOOLEAN /\ t.finished \in BOOLEAN
BY EntryFields DEF Group, NoGroup, Turn, FreshTurn

\* A member has been used up, and the group may be lost with it.
LEMMA FailedGroup ==
  ASSUME NEW g \in Group, NEW k \in Plans, NEW f,
         f = g \/ f = [g EXCEPT !.used = g.used \cup {k}, !.tainted = TRUE]
  PROVE  /\ f \in Group /\ f.live = g.live /\ (g.tainted => f.tainted)
         /\ f.owner = g.owner /\ f.version = g.version
<1>1. g.used \cup {k} \in SUBSET Plans
  BY GroupFields
<1> QED
  BY <1>1 DEF Group

\* A plan that is not minted keeps its minter.
LEMMA MintedStays ==
  ASSUME GroupInv, NEW k \in Plans, minter'[k] = minter[k], plan'[k] = plan[k],
         \A o, b : Source(o, b) => Source(o, b)'
  PROVE  MintedOf(k)'
<1>1. PICK b : b = plan[k]
  OBVIOUS
<1>2. ASSUME NEW d \in minter[k] PROVE Source(d, plan[k])'
  <2>1. Source(d, b)
    BY <1>1, <1>2, GroupParts DEF MintedOf
  <2>2. Source(d, b)'
    BY <2>1
  <2> QED
    BY <1>1, <2>2 DEF Source
<1> QED
  BY <1>2 DEF MintedOf

\* The group, its queue and its turn are left as they are, but for what taints
\* it; nobody that waits in the queue begins, and nobody that had the lease is
\* called again.
LEMMA GroupStands ==
  ASSUME GroupInv, LaneInv', StoreTypes', \A o, b : Source(o, b) => Source(o, b)',
         UNCHANGED <<plan, minter, marked, queue, turn, disk, foreign>>, seen' \in 0..disk,
         \A d \in Calls : mode[d] = "semantic" => mode'[d] = "semantic",
         \A k \in Plans : marker[k] # "none" => marker'[k] # "none",
         group' \in Group, group'.live = group.live, group.tainted => group'.tainted,
         group'.owner = group.owner, group'.version = group.version,
         \A i \in 1..Len(queue) : i > 1 /\ pc[queue[i]] = "new" => pc'[queue[i]] = "new",
         queue # << >> /\ pc[queue[1]] \in {"running", "done"} =>
           /\ pc'[queue[1]] \in {"running", "done"}
           /\ (pc'[queue[1]] = "running" => pc[queue[1]] = "running" /\ binding'[queue[1]] = binding[queue[1]])
  PROVE  GroupInv'
<1>1. GroupTypes'
  BY GroupParts DEF GroupTypes
<1>2. \A k \in Plans : MintedOf(k)'
  BY MintedStays
<1>3. QueueInv'
  BY GroupParts DEF QueueInv, Known
<1>4. TurnInv'
  <2>1. SUFFICES ASSUME turn.leased # None
                 PROVE  /\ queue # << >> /\ mode'[queue[1]] = "semantic"
                        /\ pc'[queue[1]] \in {"running", "done"}
                        /\ (pc'[queue[1]] = "running" => binding'[queue[1]] = turn.leased)
    BY DEF TurnInv
  <2>2. /\ queue # << >> /\ mode[queue[1]] = "semantic"
        /\ pc[queue[1]] \in {"running", "done"}
        /\ (pc[queue[1]] = "running" => binding[queue[1]] = turn.leased)
    BY <2>1, GroupParts DEF TurnInv
  <2>3. queue[1] \in Calls
    BY <2>2, GroupParts
  <2> QED
    BY <2>2, <2>3
<1>5. MarkedInv'
  BY GroupParts DEF MarkedInv
<1>6. Inheritable' => Inheritable
  BY GroupParts, GroupFields DEF Inheritable
<1>7. OwnerInv'
  <2>1. SUFFICES ASSUME Inheritable PROVE \E o \in Calls : OwnerIs(o)'
    BY <1>6 DEF OwnerInv
  <2>2. PICK o \in Calls : OwnerIs(o)
    BY <2>1, GroupParts DEF OwnerInv
  <2>3. PICK b : b = group.owner
    OBVIOUS
  <2>4. Source(o, b)
    BY <2>2, <2>3 DEF OwnerIs
  <2>5. Source(o, b)'
    BY <2>4
  <2>6. Source(o, group.owner)'
    BY <2>3, <2>5 DEF Source
  <2> QED
    BY <2>2, <2>6 DEF OwnerIs
<1>8. VersionInv'
  BY <1>6, GroupParts DEF VersionInv
<1> QED
  BY <1>1, <1>2, <1>3, <1>4, <1>5, <1>7, <1>8, GroupFrom

\* An entry into the lane, or the end of a call, seen from outside.
LEMMA EnterMoves ==
  ASSUME LaneInv, NEW c \in Calls, Enter(c)
  PROVE  /\ UNCHANGED <<mode, plan, minter, marker, restarts>>
         /\ pc[c] \in {"new", "woken"}
         /\ \A d \in Calls : d # c => pc'[d] = pc[d] /\ binding'[d] = binding[d]
<1>1. CASE Wait(c)
  BY <1>1, LaneParts DEF Wait, Arriving
<1>2. CASE Join(c)
  BY <1>2, LaneParts DEF Join, Arriving, Run
<1>3. CASE OpenLane(c)
  BY <1>3, LaneParts DEF OpenLane, Arriving, Run
<1>4. CASE RunUnscoped(c)
  BY <1>4, LaneParts DEF RunUnscoped, Arriving, Run
<1> QED
  BY <1>1, <1>2, <1>3, <1>4 DEF Enter

\* The end of a call wakes who waits and moves nobody else.
LEMMA FinishMoves ==
  ASSUME LaneInv, NEW c \in Calls, Finish(c)
  PROVE  /\ UNCHANGED <<mode, plan, minter, marker, restarts>>
         /\ pc[c] = "running" /\ pc'[c] = "done"
         /\ \A d \in Calls : d # c /\ pc[d] # "waiting" => pc'[d] = pc[d] /\ binding'[d] = binding[d]
<1>1. /\ UNCHANGED <<mode, plan, minter, marker, restarts>> /\ pc[c] = "running"
      /\ binding' = [binding EXCEPT ![c] = None]
      /\ pc' = [pc EXCEPT ![c] = "done"] \/ pc' = [Woken(LaneOf[c]) EXCEPT ![c] = "done"]
  BY DEF Finish
<1>2. entries[LaneOf[c]].waiters = {d \in Calls : LaneOf[d] = LaneOf[c] /\ pc[d] = "waiting"}
  BY LaneOfCall, ScopedFacts
<1>3. pc'[c] = "done" /\ \A d \in Calls : d # c /\ pc[d] # "waiting" => pc'[d] = pc[d]
  BY <1>1, <1>2, LaneParts DEF Woken
<1> QED
  BY <1>1, <1>3, LaneParts

\* The store has the types it had when a step changes none of its parts.
LEMMA StoreStays ==
  ASSUME StoreTypes, UNCHANGED <<plan, minter, marker, restarts>>
  PROVE  StoreTypes'
BY DEF StoreTypes

\* The head of the queue and the others.
LEMMA QueueFacts ==
  ASSUME GroupInv
  PROVE  /\ \A i \in 1..Len(queue) : queue[i] \in Calls /\ queue[i] \in Queued
         /\ \A i \in 1..Len(queue) : i > 1 => queue[i] # queue[1] /\ pc[queue[i]] = "new"
         /\ queue # << >> => Len(queue) >= 1 /\ queue[1] \in Calls /\ queue[1] \in Queued /\ group.live
         /\ \A c : InTurn(c) <=> queue # << >> /\ queue[1] = c
         /\ turn.leased # None => queue # << >> /\ mode[queue[1]] = "semantic"
<1>1. queue \in Seq(Calls) /\ Len(queue) \in Nat /\ QueueInv /\ TurnInv
  BY GroupParts
<1>2. queue # << >> => Len(queue) >= 1
  BY <1>1
<1>3. \A i \in 1..Len(queue) : queue[i] \in Calls /\ queue[i] \in Queued
  BY <1>1 DEF Queued
<1>4. \A i \in 1..Len(queue) : i > 1 => queue[i] # queue[1] /\ pc[queue[i]] = "new"
  BY <1>1 DEF QueueInv
<1>5. \A c : InTurn(c) <=> queue # << >> /\ queue[1] = c
  BY <1>1 DEF InTurn
<1>6. 1 \in 1..Len(queue) <=> queue # << >>
  BY <1>1
<1> QED
  BY <1>1, <1>2, <1>3, <1>4, <1>5, <1>6 DEF QueueInv, TurnInv

\* A call comes: outside the queue, past it, or because its turn has come.
LEMMA GroupEnter ==
  ASSUME GroupInv, NEW c \in Calls,
         EnterUnqueued(c) \/ EnterInTurn(c) \/ EnterPastQueue(c) \/ EnterExpired(c)
  PROVE  GroupInv'
<1>1. /\ Enter(c) /\ UNCHANGED <<marked, queue, turn, disk, seen, foreign>>
      /\ group' = group \/ group' = [group EXCEPT !.tainted = TRUE]
      /\ c \notin Queued \/ InTurn(c)
  BY DEF EnterUnqueued, EnterInTurn, EnterPastQueue, EnterExpired, Joins, groupVars
<1>2. LaneInv /\ StoreTypes /\ group \in Group /\ seen \in 0..disk
  BY GroupParts
<1>3. LaneInv' /\ \A o, b : Source(o, b) => Source(o, b)'
  BY <1>1, <1>2, EnterKeeps
<1>4. /\ UNCHANGED <<mode, plan, minter, marker, restarts>> /\ pc[c] \in {"new", "woken"}
      /\ \A d \in Calls : d # c => pc'[d] = pc[d] /\ binding'[d] = binding[d]
  BY <1>1, <1>2, EnterMoves
<1>5. StoreTypes'
  BY <1>2, <1>4, StoreStays
<1>6. /\ group' \in Group /\ group'.live = group.live /\ (group.tainted => group'.tainted)
      /\ group'.owner = group.owner /\ group'.version = group.version
  BY <1>1, <1>2 DEF Group
<1>7. \A i \in 1..Len(queue) : i > 1 => queue[i] # c
  BY <1>1, QueueFacts
<1>8. \A i \in 1..Len(queue) : i > 1 /\ pc[queue[i]] = "new" => pc'[queue[i]] = "new"
  BY <1>4, <1>7, QueueFacts
<1>9. queue # << >> /\ pc[queue[1]] \in {"running", "done"} =>
        pc'[queue[1]] = pc[queue[1]] /\ binding'[queue[1]] = binding[queue[1]]
  BY <1>4, QueueFacts
<1> QED
  BY <1>1, <1>2, <1>3, <1>4, <1>5, <1>6, <1>8, <1>9, GroupStands

\* A call ends, one in its turn after the turn has.
LEMMA GroupFinish ==
  ASSUME GroupInv, NEW c \in Calls, FinishCall(c)
  PROVE  GroupInv'
<1>1. Finish(c) /\ UNCHANGED <<marked, group, queue, turn, disk, seen, foreign>>
  BY DEF FinishCall, groupVars
<1>2. LaneInv /\ StoreTypes /\ group \in Group /\ seen \in 0..disk
  BY GroupParts
<1>3. LaneInv' /\ \A o, b : Source(o, b) => Source(o, b)'
  BY <1>1, <1>2, FinishKeeps
<1>4. /\ UNCHANGED <<mode, plan, minter, marker, restarts>> /\ pc[c] = "running" /\ pc'[c] = "done"
      /\ \A d \in Calls : d # c /\ pc[d] # "waiting" => pc'[d] = pc[d] /\ binding'[d] = binding[d]
  BY <1>1, <1>2, FinishMoves
<1>5. StoreTypes'
  BY <1>2, <1>4, StoreStays
<1>6. \A i \in 1..Len(queue) : i > 1 /\ pc[queue[i]] = "new" => pc'[queue[i]] = "new"
  BY <1>4, QueueFacts
<1>7. queue # << >> /\ pc[queue[1]] \in {"running", "done"} =>
           /\ pc'[queue[1]] \in {"running", "done"}
           /\ (pc'[queue[1]] = "running" => pc[queue[1]] = "running" /\ binding'[queue[1]] = binding[queue[1]])
  BY <1>4, QueueFacts
<1> QED
  BY <1>1, <1>2, <1>3, <1>4, <1>5, <1>6, <1>7, GroupStands

\* A step of the plans in which no call begins or ends.
LEMMA GroupClaim ==
  ASSUME GroupInv, LaneInv', \A o, b : Source(o, b) => Source(o, b)',
         UNCHANGED <<pc, binding, plan, minter, restarts, marked, queue, turn, disk, foreign>>,
         seen' \in 0..disk, NEW c \in Calls, mode[c] = "plain",
         \E m \in ModeNames : mode' = [mode EXCEPT ![c] = m],
         NEW k \in Plans, marker' = [marker EXCEPT ![k] = "claimed"] \/ marker' = marker,
         group' \in Group, group'.live = group.live, group.tainted => group'.tainted,
         group'.owner = group.owner, group'.version = group.version
  PROVE  GroupInv'
<1>1. StoreTypes'
  BY GroupParts DEF StoreTypes
<1>2. \A d \in Calls : mode[d] = "semantic" => mode'[d] = "semantic"
  BY GroupParts, LaneParts
<1>3. \A l \in Plans : marker[l] # "none" => marker'[l] # "none"
  BY GroupParts DEF StoreTypes
<1> QED
  BY <1>1, <1>2, <1>3, GroupStands

\* A plan that is not of the group is claimed.
LEMMA GroupUnmarked ==
  ASSUME GroupInv, NEW c \in Calls, NEW k \in Plans, ClaimUnmarked(c, k)
  PROVE  GroupInv'
<1>1. /\ ClaimSemantic(c, k) \/ ClaimRecovery(c, k)
      /\ seen' = disk /\ UNCHANGED <<marked, group, queue, turn, disk, foreign>>
  BY DEF ClaimUnmarked
<1>2. LaneInv' /\ \A o, b : Source(o, b) => Source(o, b)'
  BY <1>1, ClaimKeeps, GroupParts
<1>3. /\ UNCHANGED <<pc, binding, plan, minter, restarts>> /\ mode[c] = "plain"
      /\ marker' = [marker EXCEPT ![k] = "claimed"]
      /\ \E m \in ModeNames : mode' = [mode EXCEPT ![c] = m]
  BY <1>1 DEF ClaimSemantic, ClaimRecovery, Presents, ModeNames
<1>4. seen' \in 0..disk /\ group \in Group
  BY <1>1, GroupParts
<1> QED
  BY <1>1, <1>2, <1>3, <1>4, GroupClaim

\* A member that is not executed.
LEMMA GroupRecovers ==
  ASSUME GroupInv, NEW c \in Calls, NEW k \in Plans, TakeFails(c, k) \/ RecoverMember(c, k)
  PROVE  GroupInv'
<1>1. /\ UNCHANGED <<pc, binding, nonces, plan, minter, begun, restarts>> /\ mode[c] = "plain"
      /\ marker' = [marker EXCEPT ![k] = "claimed"] /\ seen' = disk
      /\ mode' = [mode EXCEPT ![c] = "recovery"]
      /\ group' = group \/ group' = [group EXCEPT !.used = group.used \cup {k}, !.tainted = TRUE]
      /\ UNCHANGED <<entries, marked, queue, turn, disk, foreign>>
  BY DEF TakeFails, RecoverMember, ClaimMember, Presents
<1>2. mode' \in [Calls -> ModeNames] /\ \A d \in Calls : mode[d] = "semantic" => mode'[d] = "semantic"
  BY <1>1, GroupParts, LaneParts DEF ModeNames
<1>3. LaneInv' /\ \A o, b : Source(o, b) => Source(o, b)'
  BY <1>1, <1>2, GroupParts, LanesStand
<1>4. /\ group' \in Group /\ group'.live = group.live /\ (group.tainted => group'.tainted)
      /\ group'.owner = group.owner /\ group'.version = group.version
  <2>1. group \in Group
    BY GroupParts
  <2> QED
    BY <1>1, <2>1, FailedGroup
<1>5. seen' \in 0..disk /\ \E m \in ModeNames : mode' = [mode EXCEPT ![c] = m]
  BY <1>1, GroupParts DEF ModeNames
<1> QED
  BY <1>1, <1>3, <1>4, <1>5, GroupClaim

\* A plan that has been claimed is read again, a lost one refused.
LEMMA GroupUnclaimed ==
  ASSUME GroupInv, NEW c \in Calls, NEW k \in Plans, Unclaimed(c, k)
  PROVE  GroupInv'
<1>1. /\ UNCHANGED <<pc, binding, nonces, plan, minter, begun, restarts>> /\ mode[c] = "plain"
      /\ \E m \in {"recovery", "refused"} : mode' = [mode EXCEPT ![c] = m]
      /\ UNCHANGED <<marker, entries, marked, group, queue, turn, disk, seen, foreign>>
  BY DEF Unclaimed, Replay, RefusePlan, Presents, groupVars
<1>2. mode' \in [Calls -> ModeNames] /\ \A d \in Calls : mode[d] = "semantic" => mode'[d] = "semantic"
  BY <1>1, GroupParts, LaneParts DEF ModeNames
<1>3. LaneInv' /\ \A o, b : Source(o, b) => Source(o, b)'
  BY <1>1, <1>2, GroupParts, LanesStand
<1>4. seen' \in 0..disk /\ (\E m \in ModeNames : mode' = [mode EXCEPT ![c] = m]) /\ group \in Group
  BY <1>1, GroupParts DEF ModeNames
<1> QED
  BY <1>1, <1>3, <1>4, GroupClaim

\* A marker is lost: it is not taken for one that was never made.
LEMMA GroupLoses ==
  ASSUME GroupInv, NEW k \in Plans, LoseMarkerOf(k)
  PROVE  GroupInv'
<1>1. /\ LoseMarker(k) /\ marker' = [marker EXCEPT ![k] = "gone"]
      /\ UNCHANGED <<pc, mode, binding, entries, nonces, plan, minter, begun, restarts>>
      /\ UNCHANGED <<marked, group, queue, turn, disk, seen, foreign>>
  BY DEF LoseMarkerOf, LoseMarker, groupVars
<1>2. LaneInv' /\ \A o, b : Source(o, b) => Source(o, b)'
  BY <1>1, GroupParts, LaneParts, LanesStand
<1>3. StoreTypes' /\ \A l \in Plans : marker[l] # "none" => marker'[l] # "none"
  BY <1>1, GroupParts DEF StoreTypes
<1>4. seen' \in 0..disk /\ group \in Group
  BY <1>1, GroupParts
<1> QED
  BY <1>1, <1>2, <1>3, <1>4, GroupStands

\* Nothing happens in the lanes and to the plans.
LEMMA LanesUntouched ==
  ASSUME GroupInv, UNCHANGED vars
  PROVE  LaneInv' /\ StoreTypes' /\ \A o, b : Source(o, b) => Source(o, b)'
BY GroupParts, LaneParts, LanesStand, StoreStays DEF vars

\* The call whose binding is inherited is still that call.
LEMMA OwnerStays ==
  ASSUME NEW o \in Calls, OwnerIs(o), \A b : Source(o, b) => Source(o, b)',
         group'.owner = group.owner, marked' = marked,
         \A k \in marked : minter'[k] = minter[k],
         mode[o] = "semantic" => mode'[o] = "semantic"
  PROVE  OwnerIs(o)'
<1>1. PICK b : b = group.owner
  OBVIOUS
<1>2. Source(o, b)
  BY <1>1 DEF OwnerIs
<1>3. Source(o, b)'
  BY <1>2
<1>4. Source(o, group.owner)'
  BY <1>1, <1>3 DEF Source
<1> QED
  BY <1>4 DEF OwnerIs

\* The call that makes the group, when none of its members is minted yet.
LEMMA GroupRegisters ==
  ASSUME GroupInv, NEW c \in Calls, RegisterGroup(c)
  PROVE  GroupInv'
<1>1. /\ Siblings # {} /\ pc[c] = "running" /\ Current(LaneOf[c], binding[c])
      /\ \A k \in Siblings : marker[k] = "none"
      /\ plan' = [k \in Plans |-> IF k \in Siblings THEN binding[c] ELSE plan[k]]
      /\ minter' = [k \in Plans |-> IF k \in Siblings THEN {c} ELSE minter[k]]
      /\ marker' = [k \in Plans |-> IF k \in Siblings THEN "pending" ELSE marker[k]]
      /\ marked' = Siblings /\ seen' = disk /\ foreign' = FALSE
      /\ group' = [NoGroup EXCEPT !.live = TRUE, !.owner = binding[c], !.version = disk]
      /\ UNCHANGED <<pc, mode, binding, entries, nonces, begun, restarts, queue, turn, disk>>
  BY DEF RegisterGroup, MintMembers
<1>2. /\ LaneInv /\ StoreTypes /\ Siblings \subseteq Plans /\ disk \in Nat /\ marked \in {{}, Siblings}
      /\ binding[c] \in Binding
  BY GroupParts, LaneParts
<1>3. marked = {} /\ queue = << >> /\ turn.leased = None
  <2>1. marked = {}
    BY <1>1, <1>2, GroupParts DEF MarkedInv
  <2>2. queue = << >>
    BY <2>1, GroupParts, QueueFacts DEF QueueInv
  <2> QED
    BY <2>1, <2>2, QueueFacts
<1>4. LaneInv' /\ \A o, b : Source(o, b) => Source(o, b)'
  BY <1>1, <1>2, LaneParts, LanesStand
<1>5. StoreTypes'
  BY <1>1, <1>2 DEF StoreTypes
<1>6. /\ group' \in Group /\ group'.live /\ ~ group'.tainted /\ group'.owner = binding[c] /\ group'.version = disk
  BY <1>1, <1>2 DEF Group, NoGroup
<1>7. GroupTypes'
  <2>1. /\ queue' \in Seq(Calls) /\ Len(queue') <= MaxPending /\ turn' \in Turn /\ disk' \in 0..MaxWrites
    BY <1>1, GroupParts
  <2>2. seen' \in 0..disk'
    BY <1>1, <1>2
  <2>3. marked' \in {{}, Siblings} /\ foreign' \in BOOLEAN
    BY <1>1
  <2> QED
    BY <1>6, <2>1, <2>2, <2>3 DEF GroupTypes
<1>8. PICK g : g = binding[c]
  OBVIOUS
<1>9. Source(c, g)
  BY <1>1, <1>2, <1>8, CurrentIsSource
<1>10. Source(c, g)'
  BY <1>4, <1>9
<1>11. ASSUME NEW k \in Plans PROVE MintedOf(k)'
  <2>1. CASE k \in Siblings
    <3>1. minter'[k] = {c} /\ plan'[k] = g
      BY <1>1, <1>8, <2>1
    <3> QED
      BY <1>10, <3>1 DEF MintedOf, Source
  <2>2. CASE k \notin Siblings
    <3>1. minter'[k] = minter[k] /\ plan'[k] = plan[k]
      BY <1>1, <2>2
    <3> QED
      BY <1>4, <3>1, MintedStays
  <2> QED
    BY <2>1, <2>2
<1>12. QueueInv' /\ TurnInv'
  BY <1>1, <1>3 DEF QueueInv, TurnInv
<1>13. MarkedInv'
  BY <1>1, <1>2 DEF MarkedInv
<1>14. OwnerInv'
  <2>1. \A k \in Siblings : minter'[k] = {c}
    BY <1>1, <1>2
  <2>2. Source(c, group.owner)'
    BY <1>6, <1>8, <1>10 DEF Source
  <2>3. OwnerIs(c)'
    BY <1>1, <2>1, <2>2 DEF OwnerIs
  <2> QED
    BY <2>3 DEF OwnerInv
<1>15. VersionInv'
  BY <1>1, <1>2, <1>3, <1>6 DEF VersionInv
<1> QED
  BY <1>4, <1>5, <1>7, <1>11, <1>12, <1>13, <1>14, <1>15, GroupFrom

\* A plan of its own is minted.
LEMMA GroupMints ==
  ASSUME GroupInv, NEW c \in Calls, NEW k \in Plans, MintPlan(c, k)
  PROVE  GroupInv'
<1>1. /\ pc[c] = "running" /\ marker[k] = "none" /\ Current(LaneOf[c], binding[c])
      /\ plan' = [plan EXCEPT ![k] = binding[c]] /\ minter' = [minter EXCEPT ![k] = {c}]
      /\ marker' = [marker EXCEPT ![k] = "pending"] /\ seen' = disk
      /\ UNCHANGED <<pc, mode, binding, entries, nonces, begun, restarts>>
      /\ UNCHANGED <<marked, group, queue, turn, disk, foreign>>
  BY DEF MintPlan, Mint
<1>2. LaneInv /\ StoreTypes /\ disk \in Nat /\ marked \subseteq Plans /\ binding[c] \in Binding
  BY GroupParts, LaneParts
<1>3. LaneInv' /\ \A o, b : Source(o, b) => Source(o, b)'
  BY <1>1, <1>2, LaneParts, LanesStand
<1>4. StoreTypes'
  BY <1>1, <1>2 DEF StoreTypes
<1>5. GroupTypes'
  BY <1>1, <1>2, GroupParts DEF GroupTypes
<1>6. k \notin marked
  BY <1>1, GroupParts DEF MarkedInv
<1>7. \A l \in marked : minter'[l] = minter[l]
  BY <1>1, <1>2, <1>6 DEF StoreTypes
<1>8. PICK g : g = binding[c]
  OBVIOUS
<1>9. Source(c, g)'
  BY <1>1, <1>2, <1>3, <1>8, CurrentIsSource
<1>10. ASSUME NEW l \in Plans PROVE MintedOf(l)'
  <2>1. CASE l = k
    <3>1. minter'[l] = {c} /\ plan'[l] = g
      BY <1>1, <1>2, <1>8, <2>1 DEF StoreTypes
    <3> QED
      BY <1>9, <3>1 DEF MintedOf, Source
  <2>2. CASE l # k
    <3>1. minter'[l] = minter[l] /\ plan'[l] = plan[l]
      BY <1>1, <1>2, <2>2 DEF StoreTypes
    <3> QED
      BY <1>3, <3>1, MintedStays
  <2> QED
    BY <2>1, <2>2
<1>11. QueueInv'
  BY <1>1, <1>7, GroupParts DEF QueueInv, Known
<1>12. TurnInv'
  BY <1>1, GroupParts DEF TurnInv
<1>13. MarkedInv'
  BY <1>1, <1>2, GroupParts DEF MarkedInv, StoreTypes
<1>14. OwnerInv'
  <2>1. SUFFICES ASSUME Inheritable PROVE \E o \in Calls : OwnerIs(o)'
    BY <1>1 DEF OwnerInv, Inheritable
  <2>2. PICK o \in Calls : OwnerIs(o)
    BY <2>1, GroupParts DEF OwnerInv
  <2>3. OwnerIs(o)'
    BY <1>1, <1>3, <1>7, <2>2, OwnerStays
  <2> QED
    BY <2>3
<1>15. VersionInv'
  BY <1>1, GroupParts DEF VersionInv, Inheritable
<1> QED
  BY <1>3, <1>4, <1>5, <1>10, <1>11, <1>12, <1>13, <1>14, <1>15, GroupFrom

\* The member whose turn it is takes the lease.
LEMMA GroupTakes ==
  ASSUME GroupInv, NEW c \in Calls, NEW k \in Plans, Take(c, k)
  PROVE  GroupInv'
<1>1. /\ pc[c] = "running" /\ mode[c] = "plain" /\ UNCHANGED <<pc, binding, nonces, plan, minter, begun, restarts>>
      /\ marker' = [marker EXCEPT ![k] = "claimed"] /\ seen' = disk
      /\ InTurn(c) /\ turn.leased = None /\ ~ group.tainted /\ disk = group.version
      /\ Leasable(LaneOf[c], binding[c], group.owner)
      /\ mode' = [mode EXCEPT ![c] = "semantic"]
      /\ entries' = [entries EXCEPT ![LaneOf[c]].exclusive = TRUE]
      /\ group' = [group EXCEPT !.used = group.used \cup {k}]
      /\ turn' = [turn EXCEPT !.leased = binding[c], !.owned = disk]
      /\ UNCHANGED <<marked, queue, disk, foreign>>
  BY DEF Take, TakeTurn, ClaimMember, Presents
<1>2. /\ LaneInv /\ StoreTypes /\ disk \in Nat /\ marked \subseteq Plans /\ binding[c] \in Binding
      /\ group \in Group /\ turn \in Turn
  BY GroupParts, LaneParts
<1>3. queue # << >> /\ queue[1] = c /\ group.live
  BY <1>1, QueueFacts
<1>4. Inheritable /\ ~ foreign
  BY <1>1, <1>2, <1>3, GroupParts DEF Inheritable, VersionInv
<1>5. LaneInv' /\ \A o, b : Source(o, b) => Source(o, b)'
  BY <1>1, <1>2, LeasableIsCurrent, LeaseKeeps
<1>6. StoreTypes' /\ \A l \in Plans : marker[l] # "none" => marker'[l] # "none"
  BY <1>1, <1>2 DEF StoreTypes
<1>7. mode'[c] = "semantic" /\ \A d \in Calls : mode[d] = "semantic" => mode'[d] = "semantic"
  BY <1>1, <1>2, LaneParts
<1>8. /\ group' \in Group /\ group'.live = group.live /\ group'.tainted = group.tainted
      /\ group'.owner = group.owner /\ group'.version = group.version
  <2>1. group.used \cup {k} \in SUBSET Plans
    BY <1>2, GroupFields
  <2> QED
    BY <1>1, <1>2, <2>1 DEF Group
<1>9. turn' \in Turn /\ turn'.leased = binding[c] /\ turn'.owned = disk
  BY <1>1, <1>2 DEF Turn
<1>10. GroupTypes'
  BY <1>1, <1>2, <1>8, <1>9, GroupParts DEF GroupTypes
<1>11. ASSUME NEW l \in Plans PROVE MintedOf(l)'
  BY <1>1, <1>5, MintedStays
<1>12. QueueInv'
  BY <1>1, <1>8, GroupParts DEF QueueInv, Known
<1>13. TurnInv'
  BY <1>1, <1>3, <1>7, <1>9 DEF TurnInv
<1>14. MarkedInv'
  BY <1>1, <1>2, <1>6, <1>8, GroupParts DEF MarkedInv
<1>15. OwnerInv'
  <2>1. PICK o \in Calls : OwnerIs(o)
    BY <1>4, GroupParts DEF OwnerInv
  <2>2. OwnerIs(o)'
    BY <1>1, <1>5, <1>7, <1>8, <2>1, OwnerStays
  <2> QED
    BY <2>2 DEF OwnerInv
<1>16. VersionInv'
  BY <1>1, <1>2, <1>4, <1>8, <1>9, GroupParts DEF VersionInv
<1> QED
  BY <1>5, <1>6, <1>10, <1>11, <1>12, <1>13, <1>14, <1>15, <1>16, GroupFrom

\* A step in which nothing happens in the lanes and to the plans, and the group
\* has the owner it had, if it is still good.
LEMMA GroupAside ==
  ASSUME GroupInv, UNCHANGED vars, marked' = marked, GroupTypes', QueueInv', TurnInv', VersionInv',
         group'.live = group.live, Inheritable' => group'.owner = group.owner /\ Inheritable
  PROVE  GroupInv'
<1>1. LaneInv' /\ StoreTypes' /\ \A o, b : Source(o, b) => Source(o, b)'
  BY LanesUntouched
<1>2. UNCHANGED <<mode, plan, minter, marker>>
  BY DEF vars
<1>3. ASSUME NEW l \in Plans PROVE MintedOf(l)'
  BY <1>1, <1>2, MintedStays
<1>4. MarkedInv'
  BY <1>2, GroupParts DEF MarkedInv
<1>5. OwnerInv'
  <2>1. SUFFICES ASSUME Inheritable' PROVE \E o \in Calls : OwnerIs(o)'
    BY DEF OwnerInv
  <2>2. PICK o \in Calls : OwnerIs(o)
    BY <2>1, GroupParts DEF OwnerInv
  <2>3. OwnerIs(o)'
    BY <1>1, <1>2, <2>1, <2>2, OwnerStays
  <2> QED
    BY <2>3
<1> QED
  BY <1>1, <1>3, <1>4, <1>5, GroupFrom

\* The task record is written.
LEMMA GroupWrites ==
  ASSUME GroupInv, NEW c \in Calls, WriteTask(c)
  PROVE  GroupInv'
<1>1. /\ Inheritable /\ UNCHANGED vars /\ UNCHANGED <<marked, group, queue>>
  BY DEF WriteTask
<1>2. /\ disk \in Nat /\ seen \in Nat /\ turn \in Turn /\ MaxWrites \in Nat /\ disk <= MaxWrites
      /\ group.version \in Nat /\ group \in Group /\ QueueInv /\ TurnInv /\ MarkedInv
      /\ turn.owned \in Nat /\ turn.lost \in BOOLEAN /\ turn.finished \in BOOLEAN /\ foreign \in BOOLEAN
  BY GroupParts, GroupFields
<1>3. /\ group.version <= disk /\ (foreign => group.version < disk)
      /\ (turn.leased # None /\ ~turn.finished =>
            turn.owned <= disk /\ (~turn.lost /\ foreign => turn.owned < disk))
  BY <1>1, GroupParts DEF VersionInv
<1>4. UNCHANGED <<pc, mode, binding, minter>>
  BY <1>1 DEF vars
<1>5. QueueInv'
  BY <1>1, <1>2, <1>4 DEF QueueInv, Known
<1>6. Inheritable'
  BY <1>1 DEF Inheritable
<1>7. CASE seen = disk /\ InTurn(c) /\ turn.leased # None
  <2> DEFINE t == [turn EXCEPT !.lost = turn.lost \/ turn.owned # seen, !.owned = disk + 1]
  <2>1. /\ disk < MaxWrites /\ disk' = disk + 1 /\ seen' = disk + 1 /\ turn' = t
        /\ foreign' = (foreign \/ turn.finished)
    BY <1>2, <1>7 DEF WriteTask, Noted
  <2>2. /\ t \in Turn /\ t.leased = turn.leased /\ t.finished = turn.finished
        /\ t.lost = (turn.lost \/ turn.owned # seen) /\ t.owned = disk + 1
    <3>1. disk + 1 \in Nat /\ (turn.lost \/ turn.owned # seen) \in BOOLEAN
      BY <1>2
    <3> QED
      BY <1>2, <3>1 DEF Turn
  <2> HIDE DEF t
  <2>3. TurnInv'
    BY <1>1, <1>2, <1>4, <2>1, <2>2 DEF TurnInv
  <2>4. GroupTypes'
    BY <1>1, <1>2, <2>1, <2>2, GroupParts DEF GroupTypes
  <2>5. /\ group'.version <= disk' /\ (foreign' => group'.version < disk')
    BY <1>1, <1>2, <1>3, <2>1
  <2>6. ASSUME ~ turn.finished, ~ t.lost, foreign' PROVE FALSE
    BY <1>2, <1>3, <1>7, <2>1, <2>2, <2>6
  <2>7. VersionInv'
    BY <1>2, <2>1, <2>2, <2>5, <2>6 DEF VersionInv
  <2> QED
    BY <1>1, <1>5, <2>3, <2>4, <2>7, GroupAside
<1>8. CASE seen = disk /\ ~ (InTurn(c) /\ turn.leased # None)
  <2>1. disk < MaxWrites /\ disk' = disk + 1 /\ seen' = disk + 1 /\ turn' = turn /\ foreign' \in BOOLEAN
    BY <1>2, <1>8 DEF WriteTask
  <2>2. TurnInv'
    BY <1>1, <1>2, <1>4, <2>1 DEF TurnInv
  <2>3. GroupTypes'
    BY <1>1, <1>2, <2>1, GroupParts DEF GroupTypes
  <2>4. VersionInv'
    BY <1>1, <1>2, <1>3, <2>1 DEF VersionInv
  <2> QED
    BY <1>1, <1>5, <2>2, <2>3, <2>4, GroupAside
<1>9. CASE seen # disk
  <2>1. seen' = disk /\ UNCHANGED <<turn, disk, foreign>>
    BY <1>9 DEF WriteTask
  <2>2. TurnInv' /\ VersionInv'
    BY <1>1, <1>2, <1>3, <1>4, <2>1 DEF TurnInv, VersionInv
  <2>3. GroupTypes'
    BY <1>1, <1>2, <2>1, GroupParts DEF GroupTypes
  <2> QED
    BY <1>1, <1>5, <2>2, <2>3, GroupAside
<1> QED
  BY <1>7, <1>8, <1>9

\* Another server writes the task record: the version moves away from the one
\* that is to be inherited.
LEMMA GroupWrittenElsewhere ==
  ASSUME GroupInv, WriteElsewhere
  PROVE  GroupInv'
<1>1. /\ Inheritable /\ UNCHANGED vars /\ UNCHANGED <<marked, group, queue, turn, seen>>
      /\ disk < MaxWrites /\ disk' = disk + 1 /\ foreign' = TRUE
  BY DEF WriteElsewhere
<1>2. /\ disk \in Nat /\ seen \in Nat /\ seen <= disk /\ MaxWrites \in Nat
      /\ group.version \in Nat /\ QueueInv /\ TurnInv /\ turn.owned \in Nat
  BY GroupParts, GroupFields
<1>3. /\ group.version <= disk
      /\ (turn.leased # None /\ ~turn.finished => turn.owned <= disk)
  BY <1>1, GroupParts DEF VersionInv
<1>4. UNCHANGED <<pc, mode, binding, minter>>
  BY <1>1 DEF vars
<1>5. QueueInv' /\ TurnInv'
  BY <1>1, <1>2, <1>4 DEF QueueInv, Known, TurnInv
<1>6. GroupTypes'
  BY <1>1, <1>2, GroupParts DEF GroupTypes
<1>7. VersionInv'
  BY <1>1, <1>2, <1>3 DEF VersionInv
<1> QED
  BY <1>1, <1>5, <1>6, <1>7, GroupAside DEF Inheritable

\* A call queues behind the others.
LEMMA GroupEnqueues ==
  ASSUME GroupInv, NEW c \in Calls, Enqueue(c)
  PROVE  GroupInv'
<1>1. /\ pc[c] = "new" /\ group.live /\ CursorOf[c] \in marked /\ Known(c, CursorOf[c]) /\ c \notin Queued
      /\ Len(queue) < MaxPending /\ queue' = Append(queue, c)
      /\ UNCHANGED <<marked, group, turn, disk, seen, foreign>> /\ UNCHANGED vars
  BY DEF Enqueue, Joins
<1>2. queue \in Seq(Calls) /\ Len(queue) \in Nat /\ QueueInv /\ TurnInv /\ VersionInv
  BY GroupParts
<1>3. /\ queue' \in Seq(Calls) /\ Len(queue') = Len(queue) + 1 /\ queue' # << >>
      /\ \A i \in 1..Len(queue) : queue'[i] = queue[i]
      /\ queue'[Len(queue) + 1] = c
  BY <1>1, <1>2
<1>4. UNCHANGED <<pc, mode, binding, minter>>
  BY <1>1 DEF vars
<1>5. GroupTypes'
  <2>1. Len(queue') <= MaxPending
    BY <1>1, <1>2, <1>3, ReadCallBatchGroupAssumption
  <2> QED
    BY <1>1, <1>3, <2>1, GroupParts DEF GroupTypes
<1>6. QueueInv'
  <2>1. \A i \in 1..Len(queue) : queue[i] # c
    BY <1>1 DEF Queued
  <2>2. \A i \in 1..Len(queue') : i \in 1..Len(queue) \/ i = Len(queue) + 1
    BY <1>2, <1>3
  <2>3. \A i, j \in 1..Len(queue') : queue'[i] = queue'[j] => i = j
    BY <1>2, <1>3, <2>1, <2>2 DEF QueueInv
  <2>4. ASSUME NEW i \in 1..Len(queue')
        PROVE  /\ CursorOf[queue'[i]] \in marked /\ Known(queue'[i], CursorOf[queue'[i]])
               /\ i > 1 => pc[queue'[i]] = "new"
    <3>1. CASE i \in 1..Len(queue)
      BY <1>2, <1>3, <3>1 DEF QueueInv
    <3>2. CASE i = Len(queue) + 1
      BY <1>1, <1>3, <3>2
    <3> QED
      BY <2>2, <3>1, <3>2
  <2> QED
    BY <1>1, <1>4, <2>3, <2>4 DEF QueueInv, Known
<1>7. TurnInv'
  <2>1. queue # << >> => queue'[1] = queue[1]
    BY <1>2, <1>3
  <2> QED
    BY <1>1, <1>2, <1>3, <1>4, <2>1 DEF TurnInv
<1>8. VersionInv'
  BY <1>1, <1>2 DEF VersionInv, Inheritable
<1> QED
  BY <1>1, <1>5, <1>6, <1>7, <1>8, GroupAside DEF Inheritable

\* The head leaves the queue, the next one has not begun yet.
LEMMA GroupLeft ==
  ASSUME GroupInv, NEW c \in Calls, Leave(c)
  PROVE  GroupInv'
<1>1. /\ InTurn(c) /\ queue' = Tail(queue) /\ turn' = FreshTurn
      /\ UNCHANGED <<marked, group, disk, seen, foreign>> /\ UNCHANGED vars
  BY DEF Leave
<1>2. queue \in Seq(Calls) /\ Len(queue) \in Nat /\ QueueInv /\ VersionInv /\ queue # << >> /\ group.live
  BY <1>1, GroupParts, QueueFacts
<1>3. /\ queue' \in Seq(Calls) /\ Len(queue') = Len(queue) - 1
      /\ \A i \in 1..Len(queue') : queue'[i] = queue[i + 1] /\ i + 1 \in 1..Len(queue) /\ i + 1 > 1
  BY <1>1, <1>2
<1>4. UNCHANGED <<pc, mode, binding, minter>>
  BY <1>1 DEF vars
<1>5. turn' \in Turn /\ turn'.leased = None
  BY <1>1, GroupFields
<1>6. GroupTypes'
  <2>1. Len(queue') <= MaxPending
    BY <1>2, <1>3, GroupParts, ReadCallBatchGroupAssumption
  <2> QED
    BY <1>1, <1>3, <1>5, <2>1, GroupParts DEF GroupTypes
<1>7. QueueInv'
  <2>1. \A i, j \in 1..Len(queue') : queue'[i] = queue'[j] => i = j
    BY <1>2, <1>3 DEF QueueInv
  <2>2. ASSUME NEW i \in 1..Len(queue')
        PROVE  /\ CursorOf[queue'[i]] \in marked /\ Known(queue'[i], CursorOf[queue'[i]])
               /\ pc[queue'[i]] = "new"
    BY <1>2, <1>3 DEF QueueInv
  <2> QED
    BY <1>1, <1>2, <1>4, <2>1, <2>2 DEF QueueInv, Known
<1>8. TurnInv' /\ VersionInv'
  BY <1>1, <1>2, <1>5 DEF TurnInv, VersionInv, Inheritable
<1> QED
  BY <1>1, <1>6, <1>7, <1>8, GroupAside DEF Inheritable

\* The turn is over, the lease is still noted.
LEMMA FinishedTurn ==
  ASSUME NEW t \in Turn, NEW u, u = [t EXCEPT !.finished = TRUE]
  PROVE  u \in Turn /\ u.finished /\ u.leased = t.leased
BY DEF Turn

\* The turn ends with the loss of the group.
LEMMA GroupTaints ==
  ASSUME GroupInv, NEW c \in Calls, Taint(c)
  PROVE  GroupInv'
<1>1. /\ turn' = [turn EXCEPT !.finished = TRUE] /\ group' = [group EXCEPT !.tainted = TRUE]
      /\ UNCHANGED <<marked, queue, disk, seen, foreign>> /\ UNCHANGED vars
  BY DEF Taint, Ends
<1>2. QueueInv /\ TurnInv /\ group \in Group /\ turn \in Turn
  BY GroupParts
<1>3. turn' \in Turn /\ turn'.leased = turn.leased
  BY <1>1, <1>2, FinishedTurn
<1>4. group' \in Group /\ group'.live = group.live /\ group'.tainted
  BY <1>1, <1>2 DEF Group
<1>5. UNCHANGED <<pc, mode, binding, minter>>
  BY <1>1 DEF vars
<1>6. GroupTypes'
  BY <1>1, <1>3, <1>4, GroupParts DEF GroupTypes
<1>7. QueueInv' /\ TurnInv'
  BY <1>1, <1>2, <1>3, <1>4, <1>5 DEF QueueInv, TurnInv, Known
<1>8. VersionInv' /\ ~ Inheritable'
  BY <1>4 DEF VersionInv, Inheritable
<1> QED
  BY <1>1, <1>4, <1>6, <1>7, <1>8, GroupAside

\* The turn ends and the next member inherits.
LEMMA GroupPassesOn ==
  ASSUME GroupInv, NEW c \in Calls, PassOn(c)
  PROVE  GroupInv'
<1>1. /\ pc[c] = "running" /\ InTurn(c) /\ ~ turn.finished /\ turn' = [turn EXCEPT !.finished = TRUE]
      /\ turn.leased # None /\ turn.leased = binding[c] /\ Current(LaneOf[c], binding[c])
      /\ ~ group.tainted /\ ~ turn.lost /\ seen = turn.owned
      /\ group' = [group EXCEPT !.owner = binding[c], !.version = seen]
      /\ UNCHANGED <<marked, queue, disk, seen, foreign>> /\ UNCHANGED vars
  BY DEF PassOn, Ends
<1>2. /\ QueueInv /\ TurnInv /\ MarkedInv /\ group \in Group /\ turn \in Turn /\ binding[c] \in Binding
      /\ seen \in Nat /\ disk \in Nat /\ seen <= disk /\ LaneInv /\ \A k \in Plans : MintedOf(k)
      /\ turn.owned \in Nat /\ marked \subseteq Plans
  BY GroupParts, LaneParts, GroupFields
<1>3. queue # << >> /\ queue[1] = c /\ group.live /\ mode[c] = "semantic"
  BY <1>1, QueueFacts
<1>4. Inheritable
  BY <1>1, <1>3 DEF Inheritable
<1>5. foreign => seen < disk
  BY <1>1, <1>4, GroupParts DEF VersionInv
<1>6. turn' \in Turn /\ turn'.leased = turn.leased /\ turn'.finished
  BY <1>1, <1>2, FinishedTurn
<1>7. /\ group' \in Group /\ group'.live = group.live /\ group'.tainted = group.tainted
      /\ group'.owner = binding[c] /\ group'.version = seen
  BY <1>1, <1>2 DEF Group
<1>8. UNCHANGED <<pc, mode, binding, minter, plan, marker>>
  BY <1>1 DEF vars
<1>9. LaneInv' /\ StoreTypes' /\ \A o, b : Source(o, b) => Source(o, b)'
  BY <1>1, LanesUntouched
<1>10. GroupTypes'
  BY <1>1, <1>6, <1>7, GroupParts DEF GroupTypes
<1>11. QueueInv' /\ TurnInv' /\ MarkedInv'
  BY <1>1, <1>2, <1>6, <1>7, <1>8 DEF QueueInv, TurnInv, MarkedInv, Known
<1>12. ASSUME NEW l \in Plans PROVE MintedOf(l)'
  BY <1>8, <1>9, MintedStays
<1>13. OwnerInv'
  <2>1. PICK o \in Calls : OwnerIs(o)
    BY <1>4, GroupParts DEF OwnerInv
  <2>2. PICK g : g = binding[c]
    OBVIOUS
  <2>3. Source(c, g)'
    BY <1>1, <1>2, <1>9, <2>2, CurrentIsSource
  <2>4. Source(c, group.owner)'
    BY <1>7, <2>2, <2>3 DEF Source
  <2>5. CursorOf[c] \in marked /\ Known(c, CursorOf[c])
    BY <1>2, <1>3, QueueFacts DEF QueueInv
  <2>6. LaneOf[c] = LaneOf[o]
    BY <2>1, <2>5 DEF OwnerIs, Known
  <2>7. \A k \in marked : \A d \in minter[k] : LaneOf[d] = LaneOf[c]
    BY <2>1, <2>6 DEF OwnerIs
  <2>8. OwnerIs(c)'
    BY <1>1, <1>3, <1>8, <2>4, <2>5, <2>7 DEF OwnerIs
  <2> QED
    BY <2>8 DEF OwnerInv
<1>14. VersionInv'
  BY <1>1, <1>2, <1>5, <1>6, <1>7 DEF VersionInv
<1> QED
  BY <1>9, <1>10, <1>11, <1>12, <1>13, <1>14, GroupFrom

\* The server forgets the group, the queue and the turn.
LEMMA GroupRestarts ==
  ASSUME GroupInv, RestartServer
  PROVE  GroupInv'
<1>1. /\ Restart /\ group' = NoGroup /\ queue' = << >> /\ turn' = FreshTurn /\ seen' = disk
      /\ UNCHANGED <<marked, disk, foreign>> /\ UNCHANGED <<mode, plan, minter, marker>>
      /\ restarts' = restarts + 1 /\ restarts < MaxRestarts
  BY DEF RestartServer, Restart
<1>2. /\ LaneInv /\ StoreTypes /\ disk \in Nat /\ MarkedInv
  BY GroupParts
<1>3. LaneInv' /\ \A o, b : Source(o, b) => Source(o, b)'
  BY <1>1, <1>2, RestartKeeps
<1>4. StoreTypes'
  BY <1>1, <1>2, ReadCallLaneAssumption DEF StoreTypes
<1>5. GroupTypes'
  <2>1. seen' \in 0..disk' /\ queue' \in Seq(Calls) /\ Len(queue') <= MaxPending
    BY <1>1, <1>2, ReadCallBatchGroupAssumption
  <2> QED
    BY <1>1, <2>1, GroupParts, GroupFields DEF GroupTypes
<1>6. ASSUME NEW l \in Plans PROVE MintedOf(l)'
  BY <1>1, <1>3, MintedStays
<1>7. QueueInv' /\ TurnInv'
  BY <1>1, GroupFields DEF QueueInv, TurnInv
<1>8. MarkedInv' /\ ~ Inheritable'
  BY <1>1, <1>2, GroupFields DEF MarkedInv, Inheritable
<1> QED
  BY <1>3, <1>4, <1>5, <1>6, <1>7, <1>8, GroupFrom DEF OwnerInv, VersionInv

-----------------------------------------------------------------------------
(* What holds of a group *)

\* There is no group at first.
LEMMA InitGroupInv == GroupInit => GroupInv
<1> SUFFICES ASSUME GroupInit PROVE GroupInv
  OBVIOUS
<1>1. LaneInv /\ StoreTypes
  BY InitTypeInv DEF GroupInit, TypeInv
<1>2. /\ marked = {} /\ group = NoGroup /\ queue = << >> /\ turn = FreshTurn
      /\ disk = 0 /\ seen = 0 /\ foreign = FALSE /\ minter = [k \in Plans |-> {}]
  BY DEF GroupInit, Init
<1>3. GroupTypes
  <2>1. queue \in Seq(Calls) /\ Len(queue) <= MaxPending
    BY <1>2, ReadCallBatchGroupAssumption
  <2>2. disk \in 0..MaxWrites /\ seen \in 0..disk
    BY <1>2, ReadCallBatchGroupAssumption
  <2> QED
    BY <1>2, <2>1, <2>2, GroupFields DEF GroupTypes
<1>4. \A k \in Plans : MintedOf(k)
  BY <1>2 DEF MintedOf
<1>5. QueueInv /\ TurnInv /\ MarkedInv /\ OwnerInv /\ VersionInv
  BY <1>2, GroupFields DEF QueueInv, TurnInv, MarkedInv, OwnerInv, VersionInv, Inheritable
<1> QED
  BY <1>1, <1>3, <1>4, <1>5 DEF GroupInv

\* A step in which nothing happens.
LEMMA GroupStutters ==
  ASSUME GroupInv, UNCHANGED allVars
  PROVE  GroupInv'
<1>1. UNCHANGED vars /\ UNCHANGED <<marked, group, queue, turn, disk, seen, foreign>>
  BY DEF allVars, groupVars
<1>2. UNCHANGED <<pc, mode, binding, minter>>
  BY <1>1 DEF vars
<1>3. GroupTypes' /\ QueueInv' /\ TurnInv' /\ VersionInv'
  BY <1>1, <1>2, GroupParts
     DEF GroupTypes, QueueInv, TurnInv, VersionInv, Inheritable, Known
<1> QED
  BY <1>1, <1>3, GroupAside DEF Inheritable

\* Every step keeps the invariant of the group.
LEMMA GroupStep == GroupInv /\ [GroupNext]_allVars => GroupInv'
<1> SUFFICES ASSUME GroupInv, [GroupNext]_allVars PROVE GroupInv'
  OBVIOUS
<1>1. CASE UNCHANGED allVars
  BY <1>1, GroupStutters
<1>2. ASSUME NEW c \in Calls,
             \/ RegisterGroup(c) \/ WriteTask(c) \/ FinishCall(c)
             \/ Enqueue(c) \/ EnterUnqueued(c) \/ EnterInTurn(c)
             \/ EnterPastQueue(c) \/ EnterExpired(c)
             \/ PassOn(c) \/ Taint(c) \/ Leave(c)
      PROVE  GroupInv'
  BY <1>2, GroupRegisters, GroupWrites, GroupFinish, GroupEnqueues, GroupEnter,
     GroupPassesOn, 
     GroupTaints, GroupLeft
<1>3. ASSUME NEW c \in Calls, NEW k \in Plans,
             MintPlan(c, k) \/ ClaimUnmarked(c, k) \/ InGroup(c, k) \/ Unclaimed(c, k)
      PROVE  GroupInv'
  BY <1>3, GroupMints, GroupUnmarked, GroupTakes, GroupRecovers, GroupUnclaimed DEF InGroup
<1>4. ASSUME NEW k \in Plans, LoseMarkerOf(k) PROVE GroupInv'
  BY <1>4, GroupLoses
<1>5. CASE WriteElsewhere
  BY <1>5, GroupWrittenElsewhere
<1>6. CASE RestartServer
  BY <1>6, GroupRestarts
<1> QED
  BY <1>1, <1>2, <1>3, <1>4, <1>5, <1>6 DEF GroupNext

\* The invariant is what the two properties say, and more.
LEMMA GroupInvIsTypeOK == GroupInv => GroupTypeOK /\ LeaseExcludes
<1> SUFFICES ASSUME GroupInv PROVE GroupTypeOK /\ LeaseExcludes
  OBVIOUS
<1>1. TypeOK /\ LeaseExcludes
  BY GroupParts, TypeInvIsTypeOK DEF TypeInv
<1>2. queue \in Seq(Calls) /\ Head(queue) = queue[1]
  BY GroupParts DEF Head
<1>3. ASSUME NEW c \in Queued, ~ InTurn(c) PROVE pc[c] = "new"
  <2>1. PICK i \in 1..Len(queue) : queue[i] = c
    BY DEF Queued
  <2>2. i # 1
    BY <1>3, <2>1, QueueFacts
  <2> QED
    BY <2>1, <2>2, QueueFacts
<1>4. turn.leased # None =>
       /\ queue # << >>
       /\ mode[queue[1]] = "semantic"
       /\ pc[queue[1]] = "running" => binding[queue[1]] = turn.leased
  BY GroupParts DEF TurnInv
<1> QED
  BY <1>1, <1>2, <1>3, <1>4, GroupParts DEF GroupTypeOK

\* With batch groups a lane still counts its calls right, only the head of the
\* queue has begun, and a noted lease is that of the call in its turn
\* (withReadCallBatchQueue, takeReadCallBatchSemanticLease).
THEOREM GroupTypeCorrect == GroupSpec => []GroupTypeOK
BY InitGroupInv, GroupStep, GroupInvIsTypeOK, PTL DEF GroupSpec

\* With batch groups the holder of the lease of a lane is still the only call
\* that runs in its scope.
THEOREM MemberLeaseIsExclusive == GroupSpec => []LeaseExcludes
BY InitGroupInv, GroupStep, GroupInvIsTypeOK, PTL DEF GroupSpec

\* The plan is executed, outside a group, right after its minter.
LEMMA UnmarkedFollows ==
  ASSUME GroupInv, NEW c \in Calls, NEW k \in Plans, ClaimUnmarked(c, k), ClaimSemantic(c, k), k \notin Repacks
  PROVE  CursorOf[c] = k /\ k \notin marked /\ FollowsMinter(c)
<1>1. /\ pc[c] = "running" /\ CursorOf[c] = k /\ Known(c, k) /\ k \notin marked
      /\ Leasable(LaneOf[c], binding[c], plan[k])
  BY DEF ClaimUnmarked, ClaimSemantic, Presents
<1>2. PICK d \in minter[k] : LaneOf[d] = LaneOf[c]
  BY <1>1 DEF Known
<1>3. Source(d, plan[k]) /\ LaneInv
  BY <1>2, GroupParts DEF MintedOf
<1>4. Predecessor(c) = {d} /\ pc[d] = "done"
  BY <1>1, <1>2, <1>3, LeaseFollows
<1> QED
  BY <1>1, <1>2, <1>4 DEF FollowsMinter

\* In a group, right after it or the member before, and nobody else has
\* written the task.
LEMMA MemberFollows ==
  ASSUME GroupInv, NEW c \in Calls, NEW k \in Plans, Take(c, k)
  PROVE  CursorOf[c] = k /\ k \in marked /\ (FollowsMinter(c) \/ FollowsMember(c)) /\ ~ foreign
<1>1. /\ pc[c] = "running" /\ CursorOf[c] = k /\ Known(c, k) /\ k \in marked
      /\ InTurn(c) /\ ~ group.tainted /\ disk = group.version
      /\ Leasable(LaneOf[c], binding[c], group.owner)
  BY DEF Take, ClaimMember, Presents
<1>2. Inheritable
  BY <1>1, QueueFacts DEF Inheritable
<1>3. ~ foreign
  BY <1>1, <1>2, GroupParts DEF VersionInv
<1>4. PICK o \in Calls : OwnerIs(o)
  BY <1>2, GroupParts DEF OwnerInv
<1>5. PICK d \in minter[k] : LaneOf[d] = LaneOf[c]
  BY <1>1 DEF Known
<1>6. LaneOf[o] = LaneOf[c] /\ Source(o, group.owner)
  BY <1>1, <1>4, <1>5 DEF OwnerIs
<1>7. Predecessor(c) = {o} /\ pc[o] = "done"
  BY <1>1, <1>6, GroupParts, LeaseFollows
<1>8. FollowsMinter(c) \/ FollowsMember(c)
  BY <1>1, <1>4, <1>7 DEF OwnerIs, FollowsMinter, FollowsMember
<1> QED
  BY <1>1, <1>3, <1>8

\* The call c begins to execute its cursor, and that cursor is a query plan.
Begins(c) == mode[c] = "plain" /\ mode'[c] = "semantic" /\ CursorOf[c] \notin Repacks

\* Only these two steps execute a query plan.
LEMMA WhoBegins ==
  ASSUME GroupInv, [GroupNext]_allVars, NEW c \in Calls, Begins(c)
  PROVE  \E k \in Plans : Take(c, k) \/ (ClaimUnmarked(c, k) /\ ClaimSemantic(c, k) /\ k \notin Repacks)
<1> DEFINE Goal == \E k \in Plans : Take(c, k) \/ (ClaimUnmarked(c, k) /\ ClaimSemantic(c, k) /\ k \notin Repacks)
<1>1. mode \in [Calls -> ModeNames] /\ mode' # mode /\ ~ UNCHANGED vars
  BY GroupParts, LaneParts DEF Begins, vars
<1>2. ~ \E d \in Calls : Enter(d) \/ Finish(d)
  BY <1>1, GroupParts, EnterMoves, FinishMoves
<1>3. ASSUME NEW d \in Calls,
             \/ RegisterGroup(d) \/ WriteTask(d) \/ FinishCall(d)
             \/ Enqueue(d) \/ EnterUnqueued(d) \/ EnterInTurn(d)
             \/ EnterPastQueue(d) \/ EnterExpired(d)
             \/ PassOn(d) \/ Taint(d) \/ Leave(d)
      PROVE  Goal
  BY <1>1, <1>2, <1>3
     DEF RegisterGroup, WriteTask, FinishCall, Enqueue, EnterUnqueued, EnterInTurn, 
     EnterPastQueue, EnterExpired, PassOn, Taint, Leave, Ends
<1>4. ASSUME NEW d \in Calls, NEW k \in Plans,
             MintPlan(d, k) \/ ClaimUnmarked(d, k) \/ InGroup(d, k) \/ Unclaimed(d, k)
      PROVE  Goal
  <2>1. ASSUME NEW m, m # "semantic", mode' = [mode EXCEPT ![d] = m] PROVE FALSE
    BY <1>1, <2>1 DEF Begins
  <2>2. CASE MintPlan(d, k)
    BY <1>1, <2>2 DEF MintPlan, Mint
  <2>3. CASE Unclaimed(d, k)
    BY <2>1, <2>3 DEF Unclaimed, Replay, RefusePlan
  <2>4. CASE TakeFails(d, k) \/ RecoverMember(d, k)
    BY <2>1, <2>4 DEF TakeFails, RecoverMember
  <2>5. CASE Take(d, k)
    <3>1. d = c
      BY <1>1, <2>5 DEF Begins, Take, TakeTurn
    <3> QED
      BY <2>5, <3>1
  <2>6. CASE ClaimUnmarked(d, k)
    <3>1. ClaimSemantic(d, k)
      BY <2>1, <2>6 DEF ClaimUnmarked, ClaimRecovery
    <3>2. mode' = [mode EXCEPT ![d] = "semantic"] /\ CursorOf[d] = k
      BY <3>1 DEF ClaimSemantic, Presents
    <3>3. d = c
      BY <1>1, <3>2 DEF Begins
    <3> QED
      BY <2>6, <3>1, <3>2, <3>3 DEF Begins
  <2> QED
    BY <1>4, <2>2, <2>3, <2>4, <2>5, <2>6 DEF InGroup
<1>5. ASSUME NEW k \in Plans, LoseMarkerOf(k) PROVE Goal
  BY <1>1, <1>5 DEF LoseMarkerOf, LoseMarker
<1>6. CASE WriteElsewhere
  BY <1>1, <1>6 DEF WriteElsewhere
<1>7. CASE RestartServer
  BY <1>1, <1>7 DEF RestartServer, Restart
<1>8. CASE UNCHANGED allVars
  BY <1>1, <1>8 DEF allVars
<1> QED
  BY <1>3, <1>4, <1>5, <1>6, <1>7, <1>8 DEF GroupNext

\* A query plan is executed only by the call that directly follows its minter
\* in the lane, or, in a batch group, an executed member, after a task that
\* nobody but the members has written: for any number of calls, lanes, plans
\* and other servers (takeReadCallSemanticLease, takeReadCallBatchSemanticLease,
\* finishReadCallBatchMember).
THEOREM ExecutionFollows == GroupSpec => SemanticFollows
<1> DEFINE Follows ==
      \A c \in Calls : mode[c] = "plain" /\ mode'[c] = "semantic" /\ CursorOf[c] \notin Repacks =>
        IF CursorOf[c] \in marked
          THEN (FollowsMinter(c) \/ FollowsMember(c)) /\ ~foreign
          ELSE FollowsMinter(c)
<1>1. ASSUME GroupInv, [GroupNext]_allVars PROVE Follows
  <2>1. SUFFICES ASSUME NEW c \in Calls, Begins(c)
                 PROVE  IF CursorOf[c] \in marked
                          THEN (FollowsMinter(c) \/ FollowsMember(c)) /\ ~foreign
                          ELSE FollowsMinter(c)
    BY DEF Begins
  <2>2. PICK k \in Plans :
          Take(c, k) \/ (ClaimUnmarked(c, k) /\ ClaimSemantic(c, k) /\ k \notin Repacks)
    BY <1>1, <2>1, WhoBegins
  <2>3. CASE Take(c, k)
    BY <1>1, <2>3, MemberFollows
  <2>4. CASE ClaimUnmarked(c, k) /\ ClaimSemantic(c, k) /\ k \notin Repacks
    BY <1>1, <2>4, UnmarkedFollows
  <2> QED
    BY <2>2, <2>3, <2>4
<1>2. GroupInv /\ [GroupNext]_allVars => [Follows]_allVars
  BY <1>1
<1> QED
  BY <1>2, InitGroupInv, GroupStep, PTL DEF GroupSpec, SemanticFollows
=============
