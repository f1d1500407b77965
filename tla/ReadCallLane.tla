---------------------------- MODULE ReadCallLane ----------------------------
(***************************************************************************)
(* Lane leases and once-only continuation plans of read calls:             *)
(* packages/mcp-server/src/state/readCallDispatch.ts, with the mint and    *)
(* the claim of state/readCallContinuationStore.ts and the decision of     *)
(* protocol/readCallContinuation.ts.                                       *)
(*                                                                         *)
(* One server process: a step is a stretch of code without an await.  The  *)
(* lanes live in its memory, the plans and their execution markers in the  *)
(* store, which a restart keeps.                                           *)
(***************************************************************************)
EXTENDS Naturals, FiniteSets, Sequences

CONSTANTS
  Lanes,       \* lanes of one workspace
  Calls,       \* tool calls the clients make
  LaneOf,      \* the lane of a call
  Plans,       \* cursors that may be minted
  CursorOf,    \* the cursor a call presents, or NoPlan
  NoPlan,
  Repacks,     \* plans whose stored call carries a qref
  MayLose,     \* bound: plans whose marker may expire or be evicted
  MaxLanes,    \* MAX_LANES
  MaxRestarts, \* bound: restarts of the server
  MaxNonce     \* bound: lane entries ever made

ASSUME ReadCallLaneAssumption ==
  /\ LaneOf \in [Calls -> Lanes]
  /\ CursorOf \in [Calls -> Plans \cup {NoPlan}]
  /\ NoPlan \notin Plans
  /\ Repacks \subseteq Plans
  /\ MayLose \subseteq Plans
  /\ MaxLanes \in Nat \ {0}
  /\ MaxRestarts \in Nat
  /\ MaxNonce \in Nat

VARIABLES
  pc,       \* where each call is
  mode,     \* how a call that presented a cursor runs
  binding,  \* its dispatch binding; nonce 0 is none
  entries,  \* the entry of each lane; nonce 0 is none
  nonces,   \* nonces drawn so far
  plan,     \* dispatch_binding of each minted plan; nonce 0 is not minted
  minter,   \* history: the call that minted it
  marker,   \* its execution marker in the store
  begun,    \* history: the two calls that began last in each lane, in order
  restarts

vars == <<pc, mode, binding, entries, nonces, plan, minter, marker, begun, restarts>>

Binding == [nonce : Nat, generation : Nat]
None == [nonce |-> 0, generation |-> 0]
Entry == [nonce : Nat, generation : Nat, active : Nat, exclusive : BOOLEAN, waiters : SUBSET Calls]
NoEntry == [nonce |-> 0, generation |-> 0, active |-> 0, exclusive |-> FALSE, waiters |-> {}]

Present == {l \in Lanes : entries[l].nonce # 0}
Running(l) == {c \in Calls : LaneOf[c] = l /\ pc[c] = "running"}
Scoped(l) == {c \in Running(l) : binding[c] # None}

\* Besides the types: an entry counts the scoped calls of its lane and queues
\* those that wait.
TypeOK ==
  /\ pc \in [Calls -> {"new", "waiting", "woken", "running", "done"}]
  /\ mode \in [Calls -> {"plain", "semantic", "recovery", "refused"}]
  /\ binding \in [Calls -> Binding]
  /\ entries \in [Lanes -> Entry]
  /\ nonces \in 0..MaxNonce
  /\ plan \in [Plans -> Binding]
  /\ minter \in [Plans -> SUBSET Calls]
  /\ marker \in [Plans -> {"none", "pending", "claimed", "gone"}]
  /\ begun \in [Lanes -> Seq(Calls)]
  /\ restarts \in 0..MaxRestarts
  /\ Cardinality(Present) <= MaxLanes
  /\ \A l \in Lanes :
       /\ entries[l].active = Cardinality(Scoped(l))
       /\ entries[l].waiters = {c \in Calls : LaneOf[c] = l /\ pc[c] = "waiting"}

Init ==
  /\ pc = [c \in Calls |-> "new"]
  /\ mode = [c \in Calls |-> "plain"]
  /\ binding = [c \in Calls |-> None]
  /\ entries = [l \in Lanes |-> NoEntry]
  /\ nonces = 0
  /\ plan = [k \in Plans |-> None]
  /\ minter = [k \in Plans |-> {}]
  /\ marker = [k \in Plans |-> "none"]
  /\ begun = [l \in Lanes |-> << >>]
  /\ restarts = 0

-----------------------------------------------------------------------------
(* withReadCallDispatch and beginReadCallDispatch *)

Arriving(c) == pc[c] \in {"new", "woken"}

Wait(c) ==
  /\ Arriving(c)
  /\ entries[LaneOf[c]].exclusive
  /\ pc' = [pc EXCEPT ![c] = "waiting"]
  /\ entries' = [entries EXCEPT ![LaneOf[c]].waiters = @ \cup {c}]
  /\ UNCHANGED <<mode, binding, nonces, plan, minter, marker, begun, restarts>>

Run(c) ==
  /\ pc' = [pc EXCEPT ![c] = "running"]
  /\ begun' = [begun EXCEPT ![LaneOf[c]] = IF @ = << >> THEN <<c>> ELSE <<@[Len(@)], c>>]
  /\ UNCHANGED <<mode, plan, minter, marker, restarts>>

JoinIgnoresLease(c) ==
  LET e == entries[LaneOf[c]]
  IN  /\ Arriving(c)
      /\ e.nonce # 0
      /\ entries' = [entries EXCEPT ![LaneOf[c]] =
                       [e EXCEPT !.generation = @ + 1, !.active = @ + 1]]
      /\ binding' = [binding EXCEPT ![c] = [nonce |-> e.nonce, generation |-> e.generation + 1]]
      /\ UNCHANGED nonces
      /\ Run(c)

Join(c) ==
  LET e == entries[LaneOf[c]]
  IN  /\ Arriving(c)
      /\ ~e.exclusive
      /\ e.nonce # 0
      /\ entries' = [entries EXCEPT ![LaneOf[c]] =
                       [e EXCEPT !.generation = @ + 1, !.active = @ + 1]]
      /\ binding' = [binding EXCEPT ![c] = [nonce |-> e.nonce, generation |-> e.generation + 1]]
      /\ UNCHANGED nonces
      /\ Run(c)

\* The oldest entry nobody uses makes room.
Idle == {l \in Present : entries[l].active = 0 /\ entries[l].waiters = {}}
Oldest == CHOOSE l \in Idle : \A m \in Idle : entries[l].nonce <= entries[m].nonce

OpenLane(c) ==
  LET full == Cardinality(Present) >= MaxLanes
      kept == IF full THEN [entries EXCEPT ![Oldest] = NoEntry] ELSE entries
  IN  /\ Arriving(c)
      /\ entries[LaneOf[c]].nonce = 0
      /\ full => Idle # {}
      /\ nonces < MaxNonce
      /\ nonces' = nonces + 1
      /\ entries' = [kept EXCEPT ![LaneOf[c]] =
                       [NoEntry EXCEPT !.nonce = nonces', !.generation = 1, !.active = 1]]
      /\ binding' = [binding EXCEPT ![c] = [nonce |-> nonces', generation |-> 1]]
      /\ Run(c)

\* No room for another lane: the call runs without a scope.
RunUnscoped(c) ==
  /\ Arriving(c)
  /\ entries[LaneOf[c]].nonce = 0
  /\ Cardinality(Present) >= MaxLanes
  /\ Idle = {}
  /\ UNCHANGED <<binding, entries, nonces>>
  /\ Run(c)

Woken(l) == [c \in Calls |-> IF c \in entries[l].waiters THEN "woken" ELSE pc[c]]

FinishClearsFirst(c) ==   \* empties the queue before it wakes it
  LET l == LaneOf[c]
      e == entries[l]
  IN  /\ pc[c] = "running"
      /\ binding' = [binding EXCEPT ![c] = None]
      /\ pc' = [pc EXCEPT ![c] = "done"]
      /\ IF binding[c] = None
           THEN UNCHANGED entries
           ELSE entries' = [entries EXCEPT ![l] =
                  [e EXCEPT !.active = @ - 1, !.exclusive = FALSE, !.waiters = {}]]
      /\ UNCHANGED <<mode, nonces, plan, minter, marker, begun, restarts>>

FinishKeepsWaiters(c) ==
  LET l == LaneOf[c]
      e == entries[l]
  IN  /\ pc[c] = "running"
      /\ binding' = [binding EXCEPT ![c] = None]
      /\ IF binding[c] = None
           THEN pc' = [pc EXCEPT ![c] = "done"] /\ UNCHANGED entries
           ELSE /\ pc' = [Woken(l) EXCEPT ![c] = "done"]
                /\ entries' = [entries EXCEPT ![l] =
                     [e EXCEPT !.active = @ - 1, !.exclusive = FALSE]]
      /\ UNCHANGED <<mode, nonces, plan, minter, marker, begun, restarts>>

\* finish: whoever finishes ends the lease and wakes all that wait.
Finish(c) ==
  LET l == LaneOf[c]
      e == entries[l]
  IN  /\ pc[c] = "running"
      /\ binding' = [binding EXCEPT ![c] = None]
      /\ IF binding[c] = None
           THEN pc' = [pc EXCEPT ![c] = "done"] /\ UNCHANGED entries
           ELSE /\ pc' = [Woken(l) EXCEPT ![c] = "done"]
                /\ entries' = [entries EXCEPT ![l] =
                     [e EXCEPT !.active = @ - 1, !.exclusive = FALSE, !.waiters = {}]]
      /\ UNCHANGED <<mode, nonces, plan, minter, marker, begun, restarts>>

-----------------------------------------------------------------------------
(* Plans *)

\* isReadCallDispatchCurrent.
CurrentIgnoresActive(l, b) ==
  /\ entries[l].nonce # 0
  /\ entries[l].nonce = b.nonce
  /\ entries[l].generation = b.generation

Current(l, b) ==
  /\ entries[l].nonce # 0
  /\ entries[l].active = 1
  /\ entries[l].nonce = b.nonce
  /\ entries[l].generation = b.generation

\* mintReadCallContinuation: the pending marker, then the plan.
Mint(c, k) ==
  /\ pc[c] = "running"
  /\ marker[k] = "none"
  /\ Current(LaneOf[c], binding[c])
  /\ plan' = [plan EXCEPT ![k] = binding[c]]
  /\ minter' = [minter EXCEPT ![k] = {c}]
  /\ marker' = [marker EXCEPT ![k] = "pending"]
  /\ UNCHANGED <<pc, mode, binding, entries, nonces, begun, restarts>>

\* takeReadCallSemanticLease, for a call that holds cur, on a plan of minted.
LeasableAnyGeneration(l, cur, minted) ==
  /\ cur # None
  /\ ~entries[l].exclusive
  /\ Current(l, cur)
  /\ cur.nonce = minted.nonce

Leasable(l, cur, minted) ==
  /\ cur # None
  /\ ~entries[l].exclusive
  /\ Current(l, cur)
  /\ cur.nonce = minted.nonce
  /\ cur.generation = minted.generation + 1

\* The plan has been minted in the lane of the call; that of another lane is
\* refused.
Known(c, k) == \E d \in minter[k] : LaneOf[d] = LaneOf[c]

Presents(c, k) ==
  /\ pc[c] = "running"
  /\ mode[c] = "plain"
  /\ CursorOf[c] = k
  /\ Known(c, k)
  /\ UNCHANGED <<pc, binding, nonces, plan, minter, begun, restarts>>

\* The first claim of a query plan runs it if the lease can be taken; a qref
\* plan runs without one.
ClaimSemanticUnclaimed(c, k) ==
  /\ Presents(c, k)
  /\ marker[k] = "pending"
  /\ k \in Repacks \/ Leasable(LaneOf[c], binding[c], plan[k])
  /\ mode' = [mode EXCEPT ![c] = "semantic"]
  /\ entries' = IF k \in Repacks THEN entries
                ELSE [entries EXCEPT ![LaneOf[c]].exclusive = TRUE]
  /\ UNCHANGED marker

ClaimSemantic(c, k) ==
  /\ Presents(c, k)
  /\ marker[k] = "pending"
  /\ k \in Repacks \/ Leasable(LaneOf[c], binding[c], plan[k])
  /\ marker' = [marker EXCEPT ![k] = "claimed"]
  /\ mode' = [mode EXCEPT ![c] = "semantic"]
  /\ entries' = IF k \in Repacks THEN entries
                ELSE [entries EXCEPT ![LaneOf[c]].exclusive = TRUE]

\* No lease, or an override of the budget or of force_serve.
ClaimRecovery(c, k) ==
  /\ Presents(c, k)
  /\ marker[k] = "pending"
  /\ k \notin Repacks
  /\ marker' = [marker EXCEPT ![k] = "claimed"]
  /\ mode' = [mode EXCEPT ![c] = "recovery"]
  /\ UNCHANGED entries

\* Claimed before: the stored windows are read again.
Replay(c, k) ==
  /\ Presents(c, k)
  /\ marker[k] = "claimed"
  /\ mode' = [mode EXCEPT ![c] = "recovery"]
  /\ UNCHANGED <<entries, marker>>

\* A marker that is missing never grants an execution.
RefusePlan(c, k) ==
  /\ Presents(c, k)
  /\ marker[k] = "gone"
  /\ mode' = [mode EXCEPT ![c] = "refused"]
  /\ UNCHANGED <<entries, marker>>

-----------------------------------------------------------------------------
(* The store and the process *)

\* The marker expires or is evicted.
LoseMarker(k) ==
  /\ k \in MayLose
  /\ marker[k] \in {"pending", "claimed"}
  /\ marker' = [marker EXCEPT ![k] = "gone"]
  /\ UNCHANGED <<pc, mode, binding, entries, nonces, plan, minter, begun, restarts>>

Restart ==
  /\ restarts < MaxRestarts
  /\ restarts' = restarts + 1
  /\ pc' = [c \in Calls |-> IF pc[c] = "new" THEN "new" ELSE "done"]
  /\ entries' = [l \in Lanes |-> NoEntry]
  /\ binding' = [c \in Calls |-> None]
  /\ UNCHANGED <<mode, nonces, plan, minter, marker, begun>>

Enter(c) == Wait(c) \/ Join(c) \/ OpenLane(c) \/ RunUnscoped(c)

Next ==
  \/ \E c \in Calls : Enter(c) \/ Finish(c)
  \/ \E c \in Calls, k \in Plans :
       \/ Mint(c, k) \/ ClaimSemantic(c, k) \/ ClaimRecovery(c, k)
       \/ Replay(c, k) \/ RefusePlan(c, k)
  \/ \E k \in Plans : LoseMarker(k)
  \/ Restart

Spec == Init /\ [][Next]_vars

-----------------------------------------------------------------------------
(* Properties *)

\* A cursor is executed at most once, by however many calls, over restarts
\* and whatever happens to its marker.
Executes(c, k) == CursorOf[c] = k /\ mode[c] = "semantic"

OnceOnly ==
  \A k \in Plans : \A c, d \in Calls : Executes(c, k) /\ Executes(d, k) => c = d

\* While a lane is leased its holder is the only call that runs in its scope
\* (a call that found no room in the table of lanes runs in none).
LeaseExcludes ==
  \A l \in Lanes : entries[l].exclusive =>
    \E c \in Calls : Scoped(l) = {c} /\ mode[c] = "semantic"
=============================================================================
