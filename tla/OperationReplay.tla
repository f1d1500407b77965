-------------------------- MODULE OperationReplay --------------------------
(***************************************************************************)
(* Idempotency keys of edit calls: runEditWithOperationId in               *)
(* packages/mcp-server/src/serverOwned/edit-transaction.ts over the        *)
(* operation table of packages/mcp-server/src/state/stateStore.ts.         *)
(*                                                                         *)
(* Clients send edit calls, some of them repeats, to servers that share    *)
(* one workspace.  A server looks the operation up in its memory, runs the *)
(* edit, and records the outcome under two keys.  A synchronous stretch of *)
(* code is a step; the mutations of the store are atomic here because they *)
(* run under its lock (StateStore).                                        *)
(***************************************************************************)
EXTENDS Naturals, Sequences, FiniteSets

CONSTANTS
  Servers,   \* server processes on the workspace
  Calls,     \* the calls clients ever make
  Reach,     \* the servers whose client may make the call
  IdOf,      \* operation_id of a call
  DigestOf,  \* operationRequestDigest of a call
  Big,       \* the calls whose outcome does not fit OPERATION_REPLAY_MAX_BYTES
  Oversize,  \* OPERATION_OVERSIZE_MARKER
  NoServer,  \* a call not sent yet
  Cap,       \* OPERATION_CAP
  MaxFaults  \* bound: kills and failed lock acquisitions

ASSUME OperationReplayAssumption ==
  /\ NoServer \notin Servers
  /\ Reach \in [Calls -> SUBSET Servers]
  /\ Big \subseteq Calls
  /\ \A c \in Calls : DigestOf[c] # Oversize
  /\ Cap \in Nat \ {0}
  /\ MaxFaults \in Nat

VARIABLES
  pc,        \* where each call is
  srv,       \* the server it was sent to
  up,        \* the servers that run
  avail,     \* store.available
  table,     \* _operations of each server, in insertion order
  fresh,     \* the server's fingerprint of the store fits the files
  log,       \* the table a server would load from disk
  inFlight,  \* _operationsInFlight
  faults,
  landed,    \* history: the calls whose edit was applied
  recorded   \* history: those of them whose first key reached the disk

stores == <<up, avail, table, fresh, log>>
history == <<landed, recorded>>
vars == <<pc, srv, inFlight, faults, stores, history>>

Ids == {IdOf[c] : c \in Calls}
Digests == {DigestOf[c] : c \in Calls}
Entry == [key : {"legacy", "v2"} \X Ids, val : Digests \cup {Oversize}]

\* How a call ends: "known" is the refusal of an operation that has a record.
Outcomes == {"applied", "replayed", "known", "overlap", "failed", "lost"}

-----------------------------------------------------------------------------
(* The operation table *)

Legacy(c) == <<"legacy", IdOf[c]>>
V2(c) == <<"v2", IdOf[c]>>

KeysIn(t) == {t[i].key : i \in DOMAIN t}
Value(t, k) == t[CHOOSE i \in DOMAIN t : t[i].key = k].val

\* Map.set: a key that is there keeps its place.
Set(t, k, v) ==
  IF k \in KeysIn(t) THEN [i \in DOMAIN t |-> IF t[i].key = k THEN [key |-> k, val |-> v] ELSE t[i]]
                     ELSE Append(t, [key |-> k, val |-> v])

RememberSingleCap(t, k, v) ==
  IF k \in KeysIn(t) THEN t
  ELSE LET grown == Append(t, [key |-> k, val |-> v])
       IN  IF Len(grown) > Cap \div 2 THEN Tail(grown) ELSE grown

\* _rememberOperationEntry: insert-only, the oldest entry makes room.
Remember(t, k, v) ==
  IF k \in KeysIn(t) THEN t
  ELSE LET grown == Append(t, [key |-> k, val |-> v])
       IN  IF Len(grown) > Cap THEN Tail(grown) ELSE grown

\* _resyncLocked.
Resynced(s) == IF fresh[s] THEN table[s] ELSE log

\* rememberOperation under the lock: memory first, then the journal.
Persist(s, k, v) ==
  LET t == Resynced(s)
  IN  /\ table' = [table EXCEPT ![s] = Remember(t, k, v)]
      /\ log' = IF k \in KeysIn(t) THEN log ELSE Set(log, k, v)
      /\ fresh' = [q \in Servers |-> IF q = s THEN TRUE ELSE fresh[q] /\ k \in KeysIn(t)]
      /\ UNCHANGED avail

\* rememberOperation without the lock, or with an append that fails after
\* the resync: this process's memory only.
MemoryOnly(s, k, v) ==
  /\ \E t \in {table[s]} \cup (IF avail[s] THEN {Resynced(s)} ELSE {}) :
       table' = [table EXCEPT ![s] = Remember(t, k, v)]
  /\ avail' = [avail EXCEPT ![s] = FALSE]
  /\ UNCHANGED <<log, fresh>>

-----------------------------------------------------------------------------
TypeOK ==
  /\ pc \in [Calls -> {"unsent", "running", "plain", "landed", "half"} \cup Outcomes]
  /\ srv \in [Calls -> Servers \cup {NoServer}]
  /\ up \subseteq Servers
  /\ avail \in [Servers -> BOOLEAN]
  /\ table \in [Servers -> Seq(Entry)]
  /\ fresh \in [Servers -> BOOLEAN]
  /\ log \in Seq(Entry)
  /\ inFlight \in [Servers -> SUBSET Ids]
  /\ faults \in Nat
  /\ landed \subseteq Calls
  /\ recorded \subseteq Calls
  /\ \A s \in Servers : avail[s] => s \in up

Init ==
  /\ pc = [c \in Calls |-> "unsent"]
  /\ srv = [c \in Calls |-> NoServer]
  /\ up = {}
  /\ avail = [s \in Servers |-> FALSE]
  /\ table = [s \in Servers |-> << >>]
  /\ fresh = [s \in Servers |-> FALSE]
  /\ log = << >>
  /\ inFlight = [s \in Servers |-> {}]
  /\ faults = 0
  /\ landed = {}
  /\ recorded = {}

\* No call of the server is in the middle of a synchronous stretch.
Free(s) == s \in up /\ \A c \in Calls : srv[c] = s => pc[c] # "half"

-----------------------------------------------------------------------------
(* runEditWithOperationId up to run() *)

Send(c, s, to) ==
  /\ Free(s)
  /\ s \in Reach[c]
  /\ pc[c] = "unsent"
  /\ pc' = [pc EXCEPT ![c] = to]
  /\ srv' = [srv EXCEPT ![c] = s]
  /\ UNCHANGED <<faults, stores, history>>

\* lookupOperation: the record under the v2 key wins.
FoundV2Only(c, s) == V2(c) \in KeysIn(table[s])
Found(c, s) == {Legacy(c), V2(c)} \cap KeysIn(table[s]) # {}
Lookup(c, s) == Value(table[s], IF V2(c) \in KeysIn(table[s]) THEN V2(c) ELSE Legacy(c))

ReplayAnyDigest(c, s) ==
  /\ Send(c, s, "replayed")
  /\ avail[s]
  /\ Found(c, s)
  /\ Lookup(c, s) # Oversize
  /\ UNCHANGED inFlight

Replay(c, s) ==
  /\ Send(c, s, "replayed")
  /\ avail[s]
  /\ Found(c, s)
  /\ Lookup(c, s) = DigestOf[c]
  /\ UNCHANGED inFlight

\* An outcome too large to replay, or one of a different edit.
RefuseRecorded(c, s) ==
  /\ Send(c, s, "known")
  /\ avail[s]
  /\ Found(c, s)
  /\ Lookup(c, s) # DigestOf[c]
  /\ UNCHANGED inFlight

RefuseOverlap(c, s) ==
  /\ Send(c, s, "overlap")
  /\ avail[s]
  /\ ~Found(c, s)
  /\ IdOf[c] \in inFlight[s]
  /\ UNCHANGED inFlight

Run(c, s) ==
  /\ Send(c, s, "running")
  /\ avail[s]
  /\ ~Found(c, s)
  /\ IdOf[c] \notin inFlight[s]
  /\ inFlight' = [inFlight EXCEPT ![s] = @ \cup {IdOf[c]}]

\* No durable store: the edit runs without idempotency.
RunPlain(c, s) ==
  /\ Send(c, s, "plain")
  /\ ~avail[s]
  /\ UNCHANGED inFlight

-----------------------------------------------------------------------------
(* run() and what follows it *)

\* The edit reaches the files.
Land(c) ==
  /\ pc[c] = "running"
  /\ Free(srv[c])
  /\ pc' = [pc EXCEPT ![c] = "landed"]
  /\ landed' = landed \cup {c}
  /\ UNCHANGED <<srv, inFlight, faults, stores, recorded>>

\* Without a store the wrapper is not there: nothing is claimed or recorded.
LandPlain(c) ==
  /\ pc[c] = "plain"
  /\ Free(srv[c])
  /\ \E end \in {"applied", "failed"} : pc' = [pc EXCEPT ![c] = end]
  /\ landed' = landed \cup {c}
  /\ UNCHANGED <<srv, inFlight, faults, stores, recorded>>

\* The call is refused or rolled back: nothing is recorded.
FailPlain(c) ==
  /\ pc[c] = "plain"
  /\ Free(srv[c])
  /\ pc' = [pc EXCEPT ![c] = "failed"]
  /\ UNCHANGED <<srv, inFlight, faults, stores, history>>

FailKeepsClaim(c) ==
  /\ pc[c] \in {"running", "landed"}
  /\ Free(srv[c])
  /\ pc' = [pc EXCEPT ![c] = "failed"]
  /\ UNCHANGED <<srv, inFlight, faults, stores, history>>

\* run() ends in an error, refused, rolled back or in a state it does not
\* know, or it throws, perhaps after its bytes reached the files: the claim
\* goes and nothing is recorded.
Fail(c) ==
  /\ pc[c] \in {"running", "landed"}
  /\ Free(srv[c])
  /\ pc' = [pc EXCEPT ![c] = "failed"]
  /\ inFlight' = [inFlight EXCEPT ![srv[c]] = @ \ {IdOf[c]}]
  /\ UNCHANGED <<srv, faults, stores, history>>

\* run() has returned an edit: the claim goes and the legacy key is written, always
\* as the oversize marker.
RecordLegacy(c) ==
  /\ pc[c] = "landed"
  /\ Free(srv[c])
  /\ pc' = [pc EXCEPT ![c] = "half"]
  /\ inFlight' = [inFlight EXCEPT ![srv[c]] = @ \ {IdOf[c]}]
  /\ \/ /\ avail[srv[c]]
        /\ Persist(srv[c], Legacy(c), Oversize)
        /\ recorded' = recorded \cup {c}
        /\ UNCHANGED faults
     \/ /\ faults < MaxFaults \/ ~avail[srv[c]]
        /\ faults' = IF avail[srv[c]] THEN faults + 1 ELSE faults
        /\ MemoryOnly(srv[c], Legacy(c), Oversize)
        /\ UNCHANGED recorded
  /\ UNCHANGED <<srv, up, landed>>

Outcome(c) == IF c \in Big THEN Oversize ELSE DigestOf[c]

RecordV2(c) ==
  /\ pc[c] = "half"
  /\ srv[c] \in up
  /\ pc' = [pc EXCEPT ![c] = "applied"]
  /\ \/ /\ avail[srv[c]]
        /\ Persist(srv[c], V2(c), Outcome(c))
        /\ UNCHANGED faults
     \/ /\ faults < MaxFaults \/ ~avail[srv[c]]
        /\ faults' = IF avail[srv[c]] THEN faults + 1 ELSE faults
        /\ MemoryOnly(srv[c], V2(c), Outcome(c))
  /\ UNCHANGED <<srv, up, inFlight, history>>

-----------------------------------------------------------------------------
(* The servers and their store *)

Open(s) ==
  /\ s \notin up
  /\ up' = up \cup {s}
  /\ avail' = [avail EXCEPT ![s] = TRUE]
  /\ table' = [table EXCEPT ![s] = log]
  /\ fresh' = [fresh EXCEPT ![s] = TRUE]
  /\ UNCHANGED <<pc, srv, inFlight, faults, log, history>>

\* Every other locked mutation (a put, say) brings the table up to date.
Resync(s) ==
  /\ Free(s)
  /\ avail[s]
  /\ ~fresh[s]
  /\ table' = [table EXCEPT ![s] = log]
  /\ fresh' = [fresh EXCEPT ![s] = TRUE]
  /\ UNCHANGED <<pc, srv, up, avail, log, inFlight, faults, history>>

\* A compaction publishes the table of the process that compacts.
Compact(s) ==
  /\ Free(s)
  /\ avail[s]
  /\ Resynced(s) # log
  /\ log' = Resynced(s)
  /\ table' = [table EXCEPT ![s] = Resynced(s)]
  /\ fresh' = [q \in Servers |-> q = s]
  /\ UNCHANGED <<pc, srv, up, avail, inFlight, faults, history>>

\* Another mutation of the store misses the lock, or its append fails.
LoseStore(s) ==
  /\ Free(s)
  /\ avail[s]
  /\ faults < MaxFaults
  /\ faults' = faults + 1
  /\ avail' = [avail EXCEPT ![s] = FALSE]
  /\ fresh' = [fresh EXCEPT ![s] = FALSE]
  /\ UNCHANGED <<pc, srv, up, table, log, inFlight, history>>

CrashStaysAvailable(s) ==
  /\ s \in up
  /\ faults < MaxFaults
  /\ faults' = faults + 1
  /\ up' = up \ {s}
  /\ pc' = [c \in Calls |-> IF srv[c] = s /\ pc[c] \in {"running", "plain", "landed", "half"}
                            THEN "lost" ELSE pc[c]]
  /\ table' = [table EXCEPT ![s] = << >>]
  /\ fresh' = [fresh EXCEPT ![s] = FALSE]
  /\ inFlight' = [inFlight EXCEPT ![s] = {}]
  /\ UNCHANGED <<srv, avail, log, history>>

Crash(s) ==
  /\ s \in up
  /\ faults < MaxFaults
  /\ faults' = faults + 1
  /\ up' = up \ {s}
  /\ pc' = [c \in Calls |-> IF srv[c] = s /\ pc[c] \in {"running", "plain", "landed", "half"}
                            THEN "lost" ELSE pc[c]]
  /\ avail' = [avail EXCEPT ![s] = FALSE]
  /\ table' = [table EXCEPT ![s] = << >>]
  /\ fresh' = [fresh EXCEPT ![s] = FALSE]
  /\ inFlight' = [inFlight EXCEPT ![s] = {}]
  /\ UNCHANGED <<srv, log, history>>

-----------------------------------------------------------------------------
Next ==
  \/ \E c \in Calls, s \in Servers :
       Replay(c, s) \/ RefuseRecorded(c, s) \/ RefuseOverlap(c, s)
         \/ Run(c, s) \/ RunPlain(c, s)
  \/ \E c \in Calls :
       Land(c) \/ LandPlain(c) \/ Fail(c) \/ FailPlain(c) \/ RecordLegacy(c) \/ RecordV2(c)
  \/ \E s \in Servers : Open(s) \/ Resync(s) \/ Compact(s) \/ LoseStore(s) \/ Crash(s)

Spec == Init /\ [][Next]_vars

-----------------------------------------------------------------------------
(* Properties *)

\* The call c starts its edit under the protection of the store.
Starts(c) == pc[c] = "unsent" /\ pc'[c] = "running"

\* Two entries an operation: Cap \div 2 of them fit (the operation cap of
\* stateStoreOperationCap.spec.ts).
PushedOut(id) == Cardinality({IdOf[b] : b \in recorded} \ {id}) >= Cap \div 2

\* An edit is never applied a second time on the server that applied it
\* first, across any interleaving of the calls and across a restart of the
\* server, unless the first call was answered with an error (after its bytes
\* were written: edit.state_unknown, or a throw), lost its server or its
\* store before the first of its two records was on disk (the wrapper's
\* disclosed window), or as many other operations were recorded as the table
\* has room for.
AppliedOnce ==
  [][\A c \in landed' \ landed, b \in landed :
       pc[c] = "running" /\ IdOf[b] = IdOf[c] /\ srv[b] = srv[c]
         => \/ b \notin recorded /\ pc[b] \in {"applied", "failed", "lost"}
            \/ PushedOut(IdOf[c])]_vars

\* The claims of a server are exactly those of its calls that still run: a
\* throw strands no key, and no call ends while its claim is gone.
NoStrandedClaim ==
  \A s \in Servers :
    inFlight[s] = {IdOf[c] : c \in {b \in Calls : srv[b] = s /\ pc[b] \in {"running", "landed"}}}

\* What a repeated call is told is true: a replayed outcome belongs to an
\* edit with the same payload that was applied, and "already applied" is
\* said of an operation that was.
AnswersTrue ==
  \A c \in Calls :
    /\ pc[c] = "replayed" => \E b \in landed : IdOf[b] = IdOf[c] /\ DigestOf[b] = DigestOf[c]
    /\ pc[c] = "known" => \E b \in landed : IdOf[b] = IdOf[c]

\* A retry finds the outcome that another process recorded (the comment of
\* rememberOperation).
AppliedOnceAnywhere ==
  [][\A c \in Calls : Starts(c) => \A b \in recorded : IdOf[b] # IdOf[c]]_vars
=============================================================================
