----------------------- MODULE OperationReplayProofs -----------------------
(***************************************************************************)
(* What a repeated edit call does and is told, for any number of servers,  *)
(* calls and operations and any capacity of the table.                     *)
(*                                                                         *)
(* The argument: tables, journal and lookups are only ever extended by an  *)
(* entry of a call that has landed its edit, so every entry anywhere is    *)
(* about an applied operation; eviction and a lost store only take entries *)
(* away.  The claims of a server are compared with the calls between claim *)
(* and release, of which there is at most one per operation_id: without    *)
(* that the release of one call would free the claim of another.  And what *)
(* is recorded is known to every table that is up to date, unless it was   *)
(* evicted from a full one, which then knows half a table of others, as an *)
(* operation has two keys.                                                 *)
(***************************************************************************)
EXTENDS OperationReplay, FiniteSetTheorems, TLAPS

\* Keys and values of the table.
Keys == {"legacy", "v2"} \X Ids
Values == Digests \cup {Oversize}

\* The fields of an entry of the operation table.
LEMMA EntryFields ==
  /\ \A k \in Keys, v \in Values : [key |-> k, val |-> v] \in Entry
  /\ \A e \in Entry : e.key \in Keys /\ e.val \in Values
BY DEF Entry, Keys, Values

\* What a call records fits the table: its two keys differ (rememberOperation
\* writes a legacy and a v2 entry), its outcome and digest are values.
LEMMA CallEntries ==
  ASSUME NEW c \in Calls
  PROVE  /\ Legacy(c) \in Keys /\ V2(c) \in Keys /\ Legacy(c) # V2(c)
         /\ DigestOf[c] \in Values /\ Oversize \in Values /\ Outcome(c) \in Values
         /\ IdOf[c] \in Ids
BY DEF Legacy, V2, Keys, Values, Ids, Digests, Outcome

\* Every entry of u is one of t, or [key |-> k, val |-> v].
From(u, t, k, v) ==
  \A i \in DOMAIN u : u[i] = [key |-> k, val |-> v] \/ \E j \in DOMAIN t : u[i] = t[j]

\* Adding an entry at the end, with or without the eviction of the oldest one,
\* brings nothing else into a table.
LEMMA AppendFrom ==
  ASSUME NEW t \in Seq(Entry), NEW k \in Keys, NEW v \in Values
  PROVE  /\ Append(t, [key |-> k, val |-> v]) \in Seq(Entry)
         /\ From(Append(t, [key |-> k, val |-> v]), t, k, v)
         /\ Tail(Append(t, [key |-> k, val |-> v])) \in Seq(Entry)
         /\ From(Tail(Append(t, [key |-> k, val |-> v])), t, k, v)
<1> DEFINE e == [key |-> k, val |-> v]
           g == Append(t, e)
<1>1. e \in Entry
  BY EntryFields
<1> HIDE DEF e
<1>2. /\ g \in Seq(Entry) /\ Len(g) = Len(t) + 1 /\ Len(t) \in Nat
      /\ \A i \in 1 .. Len(t) : g[i] = t[i]
      /\ g[Len(t) + 1] = e
  BY <1>1
<1>3. DOMAIN g = 1 .. Len(g) /\ DOMAIN t = 1 .. Len(t) /\ Len(t) \in Nat
  BY <1>2
<1>4. \A i \in DOMAIN g : g[i] = e \/ \E j \in DOMAIN t : g[i] = t[j]
  BY <1>2, <1>3
<1> HIDE DEF g
<1>5. /\ Tail(g) \in Seq(Entry) /\ DOMAIN Tail(g) = 1 .. Len(g) - 1
      /\ \A i \in 1 .. Len(g) - 1 : Tail(g)[i] = g[i + 1]
  BY <1>2
<1>6. \A i \in DOMAIN Tail(g) : Tail(g)[i] = e \/ \E j \in DOMAIN t : Tail(g)[i] = t[j]
  BY <1>2, <1>3, <1>4, <1>5
<1> QED
  BY <1>2, <1>4, <1>5, <1>6 DEF From, e, g

\* _rememberOperationEntry brings nothing but the new entry into a table.
LEMMA RememberFrom ==
  ASSUME NEW t \in Seq(Entry), NEW k \in Keys, NEW v \in Values
  PROVE  Remember(t, k, v) \in Seq(Entry) /\ From(Remember(t, k, v), t, k, v)
<1>1. From(t, t, k, v)
  BY DEF From
<1> QED
  BY <1>1, AppendFrom DEF Remember

\* Nor does Map.set, which the replay of a journal line uses.
LEMMA SetFrom ==
  ASSUME NEW t \in Seq(Entry), NEW k \in Keys, NEW v \in Values
  PROVE  Set(t, k, v) \in Seq(Entry) /\ From(Set(t, k, v), t, k, v)
<1>1. CASE k \in KeysIn(t)
  <2> DEFINE u == [i \in DOMAIN t |-> IF t[i].key = k THEN [key |-> k, val |-> v] ELSE t[i]]
  <2>1. \A i \in 1 .. Len(t) : u[i] \in Entry
    BY EntryFields
  <2>2. u \in Seq(Entry)
    BY <2>1
  <2>3. From(u, t, k, v)
    BY DEF From
  <2> QED
    BY <1>1, <2>2, <2>3 DEF Set
<1>2. CASE k \notin KeysIn(t)
  BY <1>2, AppendFrom DEF Set
<1> QED
  BY <1>1, <1>2

\* What is found under a key is the value of some entry with that key.
LEMMA ValueIsThere ==
  ASSUME NEW t, NEW k \in KeysIn(t)
  PROVE  \E i \in DOMAIN t : t[i].key = k /\ Value(t, k) = t[i].val
<1>1. \E i \in DOMAIN t : t[i].key = k
  BY DEF KeysIn
<1> QED
  BY <1>1 DEF Value

\* A resync under the lock leaves a table.
LEMMA ResyncedTyped ==
  ASSUME TypeOK, NEW s \in Servers
  PROVE  Resynced(s) \in Seq(Entry)
BY DEF TypeOK, Resynced

\* The types after rememberOperation under the lock.
LEMMA PersistTyped ==
  ASSUME TypeOK, NEW s \in Servers, NEW k \in Keys, NEW v \in Values, Persist(s, k, v)
  PROVE  /\ table' \in [Servers -> Seq(Entry)] /\ log' \in Seq(Entry)
         /\ fresh' \in [Servers -> BOOLEAN] /\ avail' = avail
<1>1. Remember(Resynced(s), k, v) \in Seq(Entry)
  BY ResyncedTyped, RememberFrom
<1>2. Set(log, k, v) \in Seq(Entry)
  BY SetFrom DEF TypeOK
<1> QED
  BY <1>1, <1>2 DEF TypeOK, Persist

\* The types after a rememberOperation that reached this process's memory only.
LEMMA MemoryTyped ==
  ASSUME TypeOK, NEW s \in Servers, NEW k \in Keys, NEW v \in Values, MemoryOnly(s, k, v)
  PROVE  /\ table' \in [Servers -> Seq(Entry)] /\ log' = log /\ fresh' = fresh
         /\ avail' = [avail EXCEPT ![s] = FALSE]
<1>1. PICK t \in {table[s]} \cup (IF avail[s] THEN {Resynced(s)} ELSE {}) :
        table' = [table EXCEPT ![s] = Remember(t, k, v)]
  BY DEF MemoryOnly
<1>2. Remember(t, k, v) \in Seq(Entry)
  BY ResyncedTyped, RememberFrom DEF TypeOK
<1> QED
  BY <1>1, <1>2 DEF TypeOK, MemoryOnly

\* Every step keeps the types.
LEMMA StepTypeOK ==
  ASSUME TypeOK, [Next]_vars
  PROVE  TypeOK'
<1>1. ASSUME NEW c \in Calls, NEW s \in Servers, Replay(c, s)
      PROVE  TypeOK'
  BY <1>1 DEF Replay, Send, TypeOK, stores, history, Free, Outcomes
<1>2. ASSUME NEW c \in Calls, NEW s \in Servers, RefuseRecorded(c, s)
      PROVE  TypeOK'
  BY <1>2 DEF RefuseRecorded, Send, TypeOK, stores, history, Free, Outcomes
<1>3. ASSUME NEW c \in Calls, NEW s \in Servers, RefuseOverlap(c, s)
      PROVE  TypeOK'
  BY <1>3 DEF RefuseOverlap, Send, TypeOK, stores, history, Free, Outcomes
<1>4. ASSUME NEW c \in Calls, NEW s \in Servers, Run(c, s)
      PROVE  TypeOK'
  BY <1>4, CallEntries DEF Run, Send, TypeOK, stores, history, Free, Outcomes
<1>5. ASSUME NEW c \in Calls, NEW s \in Servers, RunPlain(c, s)
      PROVE  TypeOK'
  BY <1>5 DEF RunPlain, Send, TypeOK, stores, history, Free, Outcomes
<1>6. ASSUME NEW c \in Calls, Land(c)
      PROVE  TypeOK'
  BY <1>6 DEF Land, TypeOK, stores, history, Free, Outcomes
<1>7. ASSUME NEW c \in Calls, LandPlain(c)
      PROVE  TypeOK'
  BY <1>7 DEF LandPlain, TypeOK, stores, history, Free, Outcomes
<1>8. ASSUME NEW c \in Calls, Fail(c)
      PROVE  TypeOK'
  BY <1>8 DEF Fail, Ids, TypeOK, stores, history, Free, Outcomes
<1>9. ASSUME NEW c \in Calls, FailPlain(c)
      PROVE  TypeOK'
  BY <1>9 DEF FailPlain, TypeOK, stores, history, Free, Outcomes
<1>10. ASSUME NEW c \in Calls, RecordLegacy(c)
      PROVE  TypeOK'
  <2>1. srv[c] \in Servers /\ srv[c] \in up
    BY <1>10 DEF RecordLegacy, Free, TypeOK
  <2>2. CASE Persist(srv[c], Legacy(c), Oversize)
    BY <1>10, <2>1, <2>2, CallEntries, PersistTyped DEF RecordLegacy, TypeOK
  <2>3. CASE MemoryOnly(srv[c], Legacy(c), Oversize)
    <3>1. /\ table' \in [Servers -> Seq(Entry)] /\ log' = log /\ fresh' = fresh
          /\ avail' = [avail EXCEPT ![srv[c]] = FALSE]
      BY <2>1, <2>3, CallEntries, MemoryTyped
    <3>2. faults' \in Nat /\ inFlight' \in [Servers -> SUBSET Ids] /\ recorded' \subseteq Calls
      BY <1>10, <2>1 DEF RecordLegacy, TypeOK
    <3> QED
      BY <1>10, <2>1, <3>1, <3>2 DEF RecordLegacy, TypeOK
  <2> QED
    BY <1>10, <2>2, <2>3 DEF RecordLegacy
<1>11. ASSUME NEW c \in Calls, RecordV2(c)
      PROVE  TypeOK'
  <2>1. srv[c] \in Servers /\ srv[c] \in up
    BY <1>11 DEF RecordV2, Free, TypeOK
  <2>2. CASE Persist(srv[c], V2(c), Outcome(c))
    <3>1. /\ table' \in [Servers -> Seq(Entry)] /\ log' \in Seq(Entry)
          /\ fresh' \in [Servers -> BOOLEAN] /\ avail' = avail
      BY <2>1, <2>2, CallEntries, PersistTyped
    <3>2. faults' \in Nat
      BY <1>11 DEF RecordV2, TypeOK
    <3> QED
      BY <1>11, <2>1, <3>1, <3>2 DEF RecordV2, TypeOK, history, Outcomes
  <2>3. CASE MemoryOnly(srv[c], V2(c), Outcome(c))
    <3>1. /\ table' \in [Servers -> Seq(Entry)] /\ log' = log /\ fresh' = fresh
          /\ avail' = [avail EXCEPT ![srv[c]] = FALSE]
      BY <2>1, <2>3, CallEntries, MemoryTyped
    <3>2. faults' \in Nat
      BY <1>11 DEF RecordV2, TypeOK
    <3> QED
      BY <1>11, <2>1, <3>1, <3>2 DEF RecordV2, TypeOK, history, Outcomes
  <2> QED
    BY <1>11, <2>2, <2>3 DEF RecordV2
<1>12. ASSUME NEW s \in Servers, Open(s)
      PROVE  TypeOK'
  BY <1>12 DEF Open, TypeOK, stores, history, Free, Outcomes
<1>13. ASSUME NEW s \in Servers, Resync(s)
      PROVE  TypeOK'
  BY <1>13 DEF Resync, TypeOK, stores, history, Free, Outcomes
<1>14. ASSUME NEW s \in Servers, Compact(s)
      PROVE  TypeOK'
  <2>1. table' \in [Servers -> Seq(Entry)] /\ log' \in Seq(Entry)
    BY <1>14, ResyncedTyped DEF Compact, TypeOK
  <2>2. fresh' \in [Servers -> BOOLEAN]
    BY <1>14 DEF Compact
  <2> QED
    BY <1>14, <2>1, <2>2 DEF Compact, TypeOK, history
<1>15. ASSUME NEW s \in Servers, LoseStore(s)
      PROVE  TypeOK'
  BY <1>15 DEF LoseStore, TypeOK, stores, history, Free, Outcomes
<1>16. ASSUME NEW s \in Servers, Crash(s)
      PROVE  TypeOK'
  BY <1>16 DEF Crash, TypeOK, stores, history, Free, Outcomes
<1>17. CASE UNCHANGED vars
  BY <1>17 DEF vars, TypeOK, stores, history, Free, Outcomes
<1> QED
  BY <1>1, <1>2, <1>3, <1>4, <1>5, <1>6, <1>7, <1>8, <1>9, <1>10, <1>11, <1>12, <1>13,
     <1>14, <1>15, <1>16, <1>17
     DEF Next

\* The types hold at the start.
LEMMA InitTypeOK == Init => TypeOK
BY DEF Init, TypeOK

\* The type invariant of the replay table and its calls.
THEOREM TypeCorrect == Spec => []TypeOK
<1>1. TypeOK /\ [Next]_vars => TypeOK'
  BY StepTypeOK
<1> QED
  BY <1>1, InitTypeOK, PTL DEF Spec

-----------------------------------------------------------------------------
(* Claims *)

\* The calls of s between their claim and its release.
Claiming(s) == {c \in Calls : srv[c] = s /\ pc[c] \in {"running", "landed"}}

\* No two calls of a server run under the same operation_id at the same time.
OneClaimEach ==
  \A s \in Servers : \A b, c \in Claiming(s) : IdOf[b] = IdOf[c] => b = c

\* The inductive invariant behind NoStrandedClaim.
Claims == TypeOK /\ NoStrandedClaim /\ OneClaimEach

\* Every step keeps the claims of a server those of its calls that still run.
LEMMA StepClaims ==
  ASSUME Claims, [Next]_vars
  PROVE  Claims'
<1>0. TypeOK'
  BY StepTypeOK DEF Claims
<1> SUFFICES NoStrandedClaim' /\ OneClaimEach'
  BY <1>0 DEF Claims
<1> USE DEF Claims, NoStrandedClaim, OneClaimEach, Claiming
<1>1. ASSUME NEW c \in Calls, NEW s \in Servers, Replay(c, s)
      PROVE  NoStrandedClaim' /\ OneClaimEach'
  <2>1. \A q \in Servers : {b \in Calls : srv'[b] = q /\ pc'[b] \in {"running", "landed"}}
                           = {b \in Calls : srv[b] = q /\ pc[b] \in {"running", "landed"}}
    BY <1>1 DEF Replay, Send, TypeOK
  <2>2. inFlight' = inFlight
    BY <1>1 DEF Replay
  <2> QED
    BY <2>1, <2>2
<1>2. ASSUME NEW c \in Calls, NEW s \in Servers, RefuseRecorded(c, s)
      PROVE  NoStrandedClaim' /\ OneClaimEach'
  <2>1. \A q \in Servers : {b \in Calls : srv'[b] = q /\ pc'[b] \in {"running", "landed"}}
                           = {b \in Calls : srv[b] = q /\ pc[b] \in {"running", "landed"}}
    BY <1>2 DEF RefuseRecorded, Send, TypeOK
  <2>2. inFlight' = inFlight
    BY <1>2 DEF RefuseRecorded
  <2> QED
    BY <2>1, <2>2
<1>3. ASSUME NEW c \in Calls, NEW s \in Servers, RefuseOverlap(c, s)
      PROVE  NoStrandedClaim' /\ OneClaimEach'
  <2>1. \A q \in Servers : {b \in Calls : srv'[b] = q /\ pc'[b] \in {"running", "landed"}}
                           = {b \in Calls : srv[b] = q /\ pc[b] \in {"running", "landed"}}
    BY <1>3 DEF RefuseOverlap, Send, TypeOK
  <2>2. inFlight' = inFlight
    BY <1>3 DEF RefuseOverlap
  <2> QED
    BY <2>1, <2>2
<1>4. ASSUME NEW c \in Calls, NEW s \in Servers, Run(c, s)
      PROVE  NoStrandedClaim' /\ OneClaimEach'
  <2> DEFINE Now(q) == {b \in Calls : srv[b] = q /\ pc[b] \in {"running", "landed"}}
             Then(q) == {b \in Calls : srv'[b] = q /\ pc'[b] \in {"running", "landed"}}
  <2>1. /\ \A q \in Servers \ {s} : Then(q) = Now(q)
        /\ Then(s) = Now(s) \cup {c}
    BY <1>4 DEF Run, Send, TypeOK
  <2>2. inFlight' = [inFlight EXCEPT ![s] = @ \cup {IdOf[c]}] /\ IdOf[c] \notin inFlight[s]
    BY <1>4 DEF Run
  <2>3. \A q \in Servers : inFlight'[q] = {IdOf[b] : b \in Then(q)}
    <3>1. \A q \in Servers : inFlight[q] = {IdOf[b] : b \in Now(q)}
      OBVIOUS
    <3> HIDE DEF Now, Then
    <3>2. inFlight'[s] = {IdOf[b] : b \in Now(s)} \cup {IdOf[c]}
      BY <2>2, <3>1 DEF TypeOK
    <3>3. \A q \in Servers \ {s} : inFlight'[q] = {IdOf[b] : b \in Now(q)}
      BY <2>2, <3>1 DEF TypeOK
    <3> QED
      BY <2>1, <3>2, <3>3
  <2>4. ASSUME NEW q \in Servers, NEW b \in Then(q), NEW d \in Then(q), IdOf[b] = IdOf[d]
        PROVE  b = d
    BY <2>1, <2>2, <2>4
  <2> QED
    BY <2>3, <2>4
<1>5. ASSUME NEW c \in Calls, NEW s \in Servers, RunPlain(c, s)
      PROVE  NoStrandedClaim' /\ OneClaimEach'
  <2>1. \A q \in Servers : {b \in Calls : srv'[b] = q /\ pc'[b] \in {"running", "landed"}}
                           = {b \in Calls : srv[b] = q /\ pc[b] \in {"running", "landed"}}
    BY <1>5 DEF RunPlain, Send, TypeOK
  <2>2. inFlight' = inFlight
    BY <1>5 DEF RunPlain
  <2> QED
    BY <2>1, <2>2
<1>6. ASSUME NEW c \in Calls, Land(c)
      PROVE  NoStrandedClaim' /\ OneClaimEach'
  BY <1>6 DEF Land, TypeOK, Free
<1>7. ASSUME NEW c \in Calls, LandPlain(c)
      PROVE  NoStrandedClaim' /\ OneClaimEach'
  <2>1. pc[c] = "plain" /\ pc'[c] \in {"applied", "failed"} /\ UNCHANGED <<srv, inFlight>>
    BY <1>7 DEF LandPlain, TypeOK
  <2>2. \A b \in Calls \ {c} : pc'[b] = pc[b]
    BY <1>7 DEF LandPlain, TypeOK
  <2>3. \A q \in Servers : {b \in Calls : srv'[b] = q /\ pc'[b] \in {"running", "landed"}}
                           = {b \in Calls : srv[b] = q /\ pc[b] \in {"running", "landed"}}
    BY <2>1, <2>2
  <2> QED
    BY <2>1, <2>3
<1>8. ASSUME NEW c \in Calls, Fail(c)
      PROVE  NoStrandedClaim' /\ OneClaimEach'
  <2> DEFINE Now(q) == {b \in Calls : srv[b] = q /\ pc[b] \in {"running", "landed"}}
             Then(q) == {b \in Calls : srv'[b] = q /\ pc'[b] \in {"running", "landed"}}
  <2>1. /\ srv[c] \in Servers /\ c \in Now(srv[c])
        /\ inFlight' = [inFlight EXCEPT ![srv[c]] = @ \ {IdOf[c]}]
    BY <1>8 DEF Fail, Free, TypeOK
  <2>2. \A q \in Servers : Then(q) = Now(q) \ {c}
    BY <1>8 DEF Fail, TypeOK
  <2>3. \A q \in Servers : q # srv[c] => c \notin Now(q)
    OBVIOUS
  <2>4. \A q \in Servers : inFlight[q] = {IdOf[b] : b \in Now(q)}
    OBVIOUS
  <2>5. \A q \in Servers : \A b, d \in Now(q) : IdOf[b] = IdOf[d] => b = d
    OBVIOUS
  <2> HIDE DEF Now, Then
  <2>6. \A q \in Servers : inFlight'[q] = {IdOf[b] : b \in Then(q)}
    <3>1. inFlight'[srv[c]] = {IdOf[b] : b \in Now(srv[c]) \ {c}}
      BY <2>1, <2>4, <2>5 DEF TypeOK
    <3>2. \A q \in Servers \ {srv[c]} : inFlight'[q] = {IdOf[b] : b \in Now(q) \ {c}}
      BY <2>1, <2>3, <2>4 DEF TypeOK
    <3> QED
      BY <2>2, <3>1, <3>2
  <2>7. \A q \in Servers : \A b, d \in Then(q) : IdOf[b] = IdOf[d] => b = d
    BY <2>2, <2>5
  <2> QED
    BY <2>6, <2>7 DEF Then
<1>9. ASSUME NEW c \in Calls, FailPlain(c)
      PROVE  NoStrandedClaim' /\ OneClaimEach'
  BY <1>9 DEF FailPlain, TypeOK, Free
<1>10. ASSUME NEW c \in Calls, RecordLegacy(c)
      PROVE  NoStrandedClaim' /\ OneClaimEach'
  BY <1>10 DEF RecordLegacy, TypeOK, Free
<1>11. ASSUME NEW c \in Calls, RecordV2(c)
      PROVE  NoStrandedClaim' /\ OneClaimEach'
  BY <1>11 DEF RecordV2, TypeOK, Free
<1>12. ASSUME NEW s \in Servers, Open(s)
      PROVE  NoStrandedClaim' /\ OneClaimEach'
  BY <1>12 DEF Open, TypeOK, Free
<1>13. ASSUME NEW s \in Servers, Resync(s)
      PROVE  NoStrandedClaim' /\ OneClaimEach'
  BY <1>13 DEF Resync, TypeOK, Free
<1>14. ASSUME NEW s \in Servers, Compact(s)
      PROVE  NoStrandedClaim' /\ OneClaimEach'
  BY <1>14 DEF Compact, TypeOK, Free
<1>15. ASSUME NEW s \in Servers, LoseStore(s)
      PROVE  NoStrandedClaim' /\ OneClaimEach'
  BY <1>15 DEF LoseStore, TypeOK, Free
<1>16. ASSUME NEW s \in Servers, Crash(s)
      PROVE  NoStrandedClaim' /\ OneClaimEach'
  <2>1. /\ \A q \in Servers \ {s} :
              {b \in Calls : srv'[b] = q /\ pc'[b] \in {"running", "landed"}}
                = {b \in Calls : srv[b] = q /\ pc[b] \in {"running", "landed"}}
        /\ {b \in Calls : srv'[b] = s /\ pc'[b] \in {"running", "landed"}} = {}
    BY <1>16 DEF Crash, TypeOK
  <2>2. inFlight' = [inFlight EXCEPT ![s] = {}]
    BY <1>16 DEF Crash
  <2> QED
    BY <2>1, <2>2 DEF TypeOK
<1>17. CASE UNCHANGED vars
  BY <1>17 DEF vars, TypeOK, Free
<1> QED
  BY <1>1, <1>2, <1>3, <1>4, <1>5, <1>6, <1>7, <1>8, <1>9, <1>10, <1>11, <1>12, <1>13,
     <1>14, <1>15, <1>16, <1>17
     DEF Next

\* A server's claims on operation_ids are those of the calls it still runs: a
\* throw strands none, and none is released by a call that does not own it
\* (the finally of runEditWithOperationId).
THEOREM ClaimsFollowCalls == Spec => []NoStrandedClaim
<1>1. Init => Claims
  BY InitTypeOK DEF Init, Claims, NoStrandedClaim, OneClaimEach, Claiming
<1>2. Claims /\ [Next]_vars => Claims'
  BY StepClaims
<1>3. Claims => NoStrandedClaim
  BY DEF Claims
<1> QED
  BY <1>1, <1>2, <1>3, PTL DEF Spec

-----------------------------------------------------------------------------
(* Answers *)

\* The entry is about an operation that was applied, with that outcome if it
\* has one.
TrueOf(e, L) == \E b \in L : IdOf[b] = e.key[2] /\ e.val \in {Oversize, DigestOf[b]}
AllTrue(t, L) == \A i \in DOMAIN t : TrueOf(t[i], L)

\* Applied, and on the way to its records.
Recording == {"landed", "half"}

\* The inductive invariant behind AnswersTrue.
Answers ==
  /\ TypeOK
  /\ AllTrue(log, landed)
  /\ \A s \in Servers : AllTrue(table[s], landed)
  /\ \A c \in Calls : pc[c] \in Recording => c \in landed
  /\ AnswersTrue

\* A table extended by a true entry still says nothing but the truth.
LEMMA FromTrue ==
  ASSUME NEW t, NEW u, NEW k, NEW v, NEW L, AllTrue(t, L), From(u, t, k, v),
         TrueOf([key |-> k, val |-> v], L)
  PROVE  AllTrue(u, L)
BY DEF AllTrue, From

\* What was true of the applied edits stays true when more are applied.
LEMMA StillTrue ==
  ASSUME NEW t, NEW L, NEW M, L \subseteq M, AllTrue(t, L)
  PROVE  AllTrue(t, M)
BY DEF AllTrue, TrueOf

\* What a call records after its edit is true of it.
LEMMA OwnTrue ==
  ASSUME NEW c \in Calls, c \in landed
  PROVE  /\ TrueOf([key |-> Legacy(c), val |-> Oversize], landed)
         /\ TrueOf([key |-> V2(c), val |-> Outcome(c)], landed)
BY DEF TrueOf, Legacy, V2, Outcome

\* What a lookup finds under either key is true of an applied edit.
LEMMA FoundTrue ==
  ASSUME Answers, NEW c \in Calls, NEW s \in Servers, Found(c, s)
  PROVE  \E b \in landed : IdOf[b] = IdOf[c] /\ Lookup(c, s) \in {Oversize, DigestOf[b]}
<1> DEFINE k == IF V2(c) \in KeysIn(table[s]) THEN V2(c) ELSE Legacy(c)
<1>1. k \in KeysIn(table[s]) /\ k[2] = IdOf[c]
  BY DEF Found, Legacy, V2
<1>2. Lookup(c, s) = Value(table[s], k)
  BY DEF Lookup
<1> HIDE DEF k
<1>3. PICK i \in DOMAIN table[s] : table[s][i].key = k /\ Value(table[s], k) = table[s][i].val
  BY <1>1, ValueIsThere
<1>4. TrueOf(table[s][i], landed)
  BY DEF Answers, AllTrue
<1> QED
  BY <1>1, <1>2, <1>3, <1>4 DEF TrueOf

\* rememberOperation of a true entry keeps every table and the journal true.
LEMMA RecordingTrue ==
  ASSUME Answers, NEW s \in Servers, NEW k \in Keys, NEW v \in Values,
         TrueOf([key |-> k, val |-> v], landed), Persist(s, k, v) \/ MemoryOnly(s, k, v)
  PROVE  AllTrue(log', landed) /\ \A q \in Servers : AllTrue(table'[q], landed)
<1>1. ASSUME NEW t \in Seq(Entry), AllTrue(t, landed)
      PROVE  AllTrue(Remember(t, k, v), landed) /\ AllTrue(Set(t, k, v), landed)
  BY <1>1, RememberFrom, SetFrom, FromTrue
<1>2. /\ log \in Seq(Entry) /\ AllTrue(log, landed)
      /\ table \in [Servers -> Seq(Entry)] /\ \A q \in Servers : AllTrue(table[q], landed)
      /\ Resynced(s) \in Seq(Entry) /\ AllTrue(Resynced(s), landed)
  BY ResyncedTyped DEF Answers, TypeOK, Resynced
<1>3. CASE Persist(s, k, v)
  <2>1. /\ table' = [table EXCEPT ![s] = Remember(Resynced(s), k, v)]
        /\ log' = log \/ log' = Set(log, k, v)
    BY <1>3 DEF Persist
  <2> QED
    BY <1>1, <1>2, <2>1
<1>4. CASE MemoryOnly(s, k, v)
  <2>1. PICK t \in {table[s], Resynced(s)} : table' = [table EXCEPT ![s] = Remember(t, k, v)]
    BY <1>4 DEF MemoryOnly
  <2>2. log' = log
    BY <1>4 DEF MemoryOnly
  <2> QED
    BY <1>1, <1>2, <2>1, <2>2
<1> QED
  BY <1>3, <1>4

\* Every step keeps tables, journal and answers true.
LEMMA StepAnswers ==
  ASSUME Answers, [Next]_vars
  PROVE  Answers'
<1>0. TypeOK'
  BY StepTypeOK DEF Answers
<1> SUFFICES /\ AllTrue(log', landed')
             /\ \A s \in Servers : AllTrue(table'[s], landed')
             /\ \A c \in Calls : pc'[c] \in Recording => c \in landed'
             /\ AnswersTrue'
  BY <1>0 DEF Answers
<1> DEFINE Goal == /\ AllTrue(log', landed')
                   /\ \A s \in Servers : AllTrue(table'[s], landed')
                   /\ \A c \in Calls : pc'[c] \in Recording => c \in landed'
                   /\ AnswersTrue'
<1> USE DEF Answers, AnswersTrue, Recording
<1>1. ASSUME NEW c \in Calls, NEW s \in Servers, Replay(c, s)
      PROVE  Goal
  BY <1>1, FoundTrue, OperationReplayAssumption
     DEF Replay, Send, TypeOK, stores, history
<1>2. ASSUME NEW c \in Calls, NEW s \in Servers, RefuseRecorded(c, s)
      PROVE  Goal
  BY <1>2, FoundTrue, OperationReplayAssumption
     DEF RefuseRecorded, Send, TypeOK, stores, history
<1>3. ASSUME NEW c \in Calls, NEW s \in Servers, RefuseOverlap(c, s)
      PROVE  Goal
  BY <1>3 DEF RefuseOverlap, Send, TypeOK, Free, stores, history
<1>4. ASSUME NEW c \in Calls, NEW s \in Servers, Run(c, s)
      PROVE  Goal
  BY <1>4 DEF Run, Send, TypeOK, Free, stores, history
<1>5. ASSUME NEW c \in Calls, NEW s \in Servers, RunPlain(c, s)
      PROVE  Goal
  BY <1>5 DEF RunPlain, Send, TypeOK, Free, stores, history
<1>6. ASSUME NEW c \in Calls, Land(c)
      PROVE  Goal
  <2>1. landed \subseteq landed'
    BY <1>6 DEF Land
  <2> QED
    BY <1>6, <2>1, StillTrue DEF Land, TypeOK, stores
<1>7. ASSUME NEW c \in Calls, LandPlain(c)
      PROVE  Goal
  <2>1. landed \subseteq landed'
    BY <1>7 DEF LandPlain
  <2> QED
    BY <1>7, <2>1, StillTrue DEF LandPlain, TypeOK, stores
<1>8. ASSUME NEW c \in Calls, Fail(c)
      PROVE  Goal
  BY <1>8 DEF Fail, TypeOK, Free, stores, history
<1>9. ASSUME NEW c \in Calls, FailPlain(c)
      PROVE  Goal
  BY <1>9 DEF FailPlain, TypeOK, Free, stores, history
<1>10. ASSUME NEW c \in Calls, RecordLegacy(c)
      PROVE  Goal
  <2>1. srv[c] \in Servers /\ c \in landed /\ landed' = landed
    BY <1>10 DEF RecordLegacy, Free, TypeOK, history
  <2>2. AllTrue(log', landed) /\ \A q \in Servers : AllTrue(table'[q], landed)
    BY <1>10, <2>1, CallEntries, OwnTrue, RecordingTrue DEF RecordLegacy
  <2> QED
    BY <1>10, <2>1, <2>2 DEF RecordLegacy, TypeOK
<1>11. ASSUME NEW c \in Calls, RecordV2(c)
      PROVE  Goal
  <2>1. srv[c] \in Servers /\ c \in landed /\ landed' = landed
    BY <1>11 DEF RecordV2, Free, TypeOK, history
  <2>2. AllTrue(log', landed) /\ \A q \in Servers : AllTrue(table'[q], landed)
    BY <1>11, <2>1, CallEntries, OwnTrue, RecordingTrue DEF RecordV2
  <2> QED
    BY <1>11, <2>1, <2>2 DEF RecordV2, TypeOK
<1>12. ASSUME NEW s \in Servers, Open(s)
      PROVE  Goal
  <2>1. AllTrue(<< >>, landed)
    BY DEF AllTrue
  <2> QED
    BY <1>12, <2>1 DEF Open, TypeOK, history
<1>13. ASSUME NEW s \in Servers, Resync(s)
      PROVE  Goal
  BY <1>13 DEF Resync, TypeOK, Free, stores, history
<1>14. ASSUME NEW s \in Servers, Compact(s)
      PROVE  Goal
  BY <1>14 DEF Compact, Resynced, TypeOK, history
<1>15. ASSUME NEW s \in Servers, LoseStore(s)
      PROVE  Goal
  BY <1>15 DEF LoseStore, TypeOK, Free, stores, history
<1>16. ASSUME NEW s \in Servers, Crash(s)
      PROVE  Goal
  <2>1. AllTrue(<< >>, landed)
    BY DEF AllTrue
  <2> QED
    BY <1>16, <2>1 DEF Crash, TypeOK, history
<1>17. CASE UNCHANGED vars
  BY <1>17 DEF vars, TypeOK, Free, stores, history
<1> QED
  BY <1>1, <1>2, <1>3, <1>4, <1>5, <1>6, <1>7, <1>8, <1>9, <1>10, <1>11, <1>12, <1>13,
     <1>14, <1>15, <1>16, <1>17
     DEF Next

\* A replayed outcome is that of an applied edit with the same payload, and
\* "already applied" is said only of an operation that was
\* (runEditWithOperationId over the table of stateStore.ts).
THEOREM RepeatsAreToldTheTruth == Spec => []AnswersTrue
<1>1. Init => Answers
  BY InitTypeOK DEF Init, Answers, AllTrue, Recording, AnswersTrue
<1>2. Answers /\ [Next]_vars => Answers'
  BY StepAnswers
<1>3. Answers => AnswersTrue
  BY DEF Answers
<1> QED
  BY <1>1, <1>2, <1>3, PTL DEF Spec

-----------------------------------------------------------------------------
(* Applied once *)

\* The operations with a record, and those that a table knows.
Recs == {IdOf[b] : b \in recorded}
IdsIn(t) == {k[2] : k \in KeysIn(t)}

\* As many other operations as a full table has at least.
Ample(R, id) == Cardinality(R \ {id}) >= Cap \div 2

\* A table of recorded operations only, and one that lacks none of them but
\* those it had no room for.
OncePerKey(t) == \A i, j \in DOMAIN t : t[i].key = t[j].key => i = j
Sound(t, R) == OncePerKey(t) /\ IdsIn(t) \subseteq R
Complete(t, R) == \A id \in R : id \in IdsIn(t) \/ Ample(R, id)

\* A lookup finds what the table knows.
LEMMA FoundIs ==
  ASSUME NEW c \in Calls, NEW s \in Servers, table[s] \in Seq(Entry)
  PROVE  Found(c, s) <=> IdOf[c] \in IdsIn(table[s])
<1>1. KeysIn(table[s]) \subseteq Keys
  BY EntryFields DEF KeysIn
<1> QED
  BY <1>1 DEF Found, IdsIn, Legacy, V2, Keys

\* More records push out no less.
LEMMA AmpleStays ==
  ASSUME NEW R, NEW Q, IsFiniteSet(Q), R \subseteq Q, NEW id, Ample(R, id)
  PROVE  Ample(Q, id)
<1>1. IsFiniteSet(Q \ {id}) /\ R \ {id} \subseteq Q \ {id}
  BY FS_Subset
<1>2. IsFiniteSet(R \ {id}) /\ Cardinality(R \ {id}) <= Cardinality(Q \ {id})
  BY <1>1, FS_Subset
<1>3. Cardinality(R \ {id}) \in Nat /\ Cardinality(Q \ {id}) \in Nat /\ Cap \div 2 \in Nat
  BY <1>1, <1>2, FS_CardinalityType, OperationReplayAssumption
<1> QED
  BY <1>2, <1>3 DEF Ample

\* An operation has two keys at most, so a full table without one of them
\* knows half as many others.
LEMMA FullTable ==
  ASSUME NEW u \in Seq(Entry), Len(u) >= Cap, NEW R, IsFiniteSet(R), Sound(u, R),
         NEW id, id \notin IdsIn(u)
  PROVE  Ample(R, id)
<1> DEFINE n == Len(u)
           names == {"legacy", "v2"}
           pairs == names \X (R \ {id})
           f == [i \in 1 .. n |-> u[i].key]
<1>1. n \in Nat /\ DOMAIN u = 1 .. n
  OBVIOUS
<1>2. IsFiniteSet(names) /\ Cardinality(names) = 2
  <2>1. "v2" \notin {"legacy"} /\ names = {"legacy"} \cup {"v2"}
    OBVIOUS
  <2>2. IsFiniteSet({"legacy"}) /\ Cardinality({"legacy"}) = 1
    BY FS_Singleton
  <2>3. IsFiniteSet(names) /\ Cardinality(names) = 1 + 1
    BY <2>1, <2>2, FS_AddElement
  <2> QED
    BY <2>3
<1>3. IsFiniteSet(R \ {id}) /\ Cardinality(R \ {id}) \in Nat
  BY FS_Subset, FS_CardinalityType
<1>4. IsFiniteSet(pairs) /\ Cardinality(pairs) = 2 * Cardinality(R \ {id})
  BY <1>2, <1>3, FS_Product
<1>5. \A i \in 1 .. n : u[i].key \in pairs
  <2> SUFFICES ASSUME NEW i \in 1 .. n PROVE u[i].key \in pairs
    OBVIOUS
  <2>1. u[i].key \in Keys
    BY <1>1, EntryFields
  <2>2. u[i].key \in KeysIn(u)
    BY <1>1 DEF KeysIn
  <2>3. u[i].key[2] \in R \ {id}
    BY <2>2 DEF IdsIn, Sound
  <2> QED
    BY <2>1, <2>3 DEF Keys
<1> HIDE DEF pairs
<1>6. f \in Injection(1 .. n, pairs)
  BY <1>1, <1>5 DEF Injection, IsInjective, Sound, OncePerKey
<1>7. Cardinality(1 .. n) = n
  BY <1>1, FS_Interval
<1>8. n <= Cardinality(pairs)
  BY <1>4, <1>6, <1>7, FS_Injection
<1>9. Cap <= 2 * Cardinality(R \ {id})
  BY <1>1, <1>3, <1>4, <1>8, OperationReplayAssumption
<1> QED
  BY <1>3, <1>9, OperationReplayAssumption DEF Ample

\* An entry more at the end of a table.
LEMMA AppendKnows ==
  ASSUME NEW t \in Seq(Entry), OncePerKey(t), NEW e \in Entry, e.key \notin KeysIn(t)
  PROVE  /\ OncePerKey(Append(t, e))
         /\ IdsIn(Append(t, e)) = IdsIn(t) \cup {e.key[2]}
<1> DEFINE g == Append(t, e)
<1>1. /\ Len(t) \in Nat /\ DOMAIN t = 1 .. Len(t) /\ DOMAIN g = 1 .. Len(t) + 1
      /\ \A i \in 1 .. Len(t) : g[i] = t[i]
      /\ g[Len(t) + 1] = e
  OBVIOUS
<1> HIDE DEF g
<1>2. KeysIn(g) = KeysIn(t) \cup {e.key}
  <2>1. \A i \in DOMAIN g : i \in DOMAIN t \/ i = Len(t) + 1
    BY <1>1
  <2>2. DOMAIN t \subseteq DOMAIN g /\ Len(t) + 1 \in DOMAIN g
    BY <1>1
  <2> QED
    BY <1>1, <2>1, <2>2 DEF KeysIn
<1>3. OncePerKey(g)
  BY <1>1 DEF OncePerKey, KeysIn
<1>4. IdsIn(g) = IdsIn(t) \cup {e.key[2]}
  BY <1>2 DEF IdsIn
<1> QED
  BY <1>3, <1>4 DEF g

\* _rememberOperationEntry: the new operation is known, and an older one
\* unless it was evicted from a full table.
LEMMA RememberKnows ==
  ASSUME NEW t \in Seq(Entry), NEW k \in Keys, NEW v \in Values, NEW R, IsFiniteSet(R),
         Sound(t, R), k[2] \in R
  PROVE  /\ Sound(Remember(t, k, v), R) /\ k[2] \in IdsIn(Remember(t, k, v))
         /\ \A id \in IdsIn(t) : id \in IdsIn(Remember(t, k, v)) \/ Ample(R, id)
<1>1. CASE k \in KeysIn(t)
  BY <1>1 DEF Remember, IdsIn
<1>2. CASE k \notin KeysIn(t)
  <2> DEFINE e == [key |-> k, val |-> v]
             g == Append(t, e)
  <2>1. e \in Entry /\ e.key = k
    BY EntryFields
  <2> HIDE DEF e
  <2>2. Remember(t, k, v) = IF Len(g) > Cap THEN Tail(g) ELSE g
    BY <1>2 DEF Remember, e
  <2>3. /\ g \in Seq(Entry) /\ Len(g) = Len(t) + 1 /\ Len(t) \in Nat /\ DOMAIN g = 1 .. Len(g)
        /\ g[Len(g)] = e
    BY <2>1
  <2>4. OncePerKey(g) /\ IdsIn(g) = IdsIn(t) \cup {k[2]}
    BY <1>2, <2>1, AppendKnows DEF Sound
  <2> HIDE DEF g
  <2>5. Sound(g, R)
    BY <2>4 DEF Sound
  <2>6. CASE Len(g) <= Cap
    BY <2>2, <2>3, <2>4, <2>5, <2>6, OperationReplayAssumption
  <2>7. CASE Len(g) > Cap
    <3> DEFINE u == Tail(g)
    <3>1. /\ u \in Seq(Entry) /\ Len(u) = Len(t) /\ DOMAIN u = 1 .. Len(t)
          /\ \A i \in 1 .. Len(t) : u[i] = g[i + 1]
      BY <2>3
    <3>2. Len(u) >= Cap /\ Len(t) >= 1
      BY <2>3, <2>7, <3>1, OperationReplayAssumption
    <3> HIDE DEF u
    <3>3. Remember(t, k, v) = u
      BY <2>2, <2>7 DEF u
    <3>4. KeysIn(u) \subseteq KeysIn(g)
      BY <2>3, <3>1 DEF KeysIn
    <3>5. OncePerKey(u)
      <4> SUFFICES ASSUME NEW i \in 1 .. Len(t), NEW j \in 1 .. Len(t), u[i].key = u[j].key
                   PROVE  i = j
        BY <3>1 DEF OncePerKey
      <4>1. i + 1 \in DOMAIN g /\ j + 1 \in DOMAIN g /\ g[i + 1].key = g[j + 1].key
        BY <2>3, <3>1
      <4>2. i + 1 = j + 1
        BY <2>4, <4>1 DEF OncePerKey
      <4> QED
        BY <2>3, <4>2
    <3>6. Sound(u, R)
      BY <2>5, <3>4, <3>5 DEF Sound, IdsIn
    <3>7. u[Len(t)] = e /\ Len(t) \in DOMAIN u
      BY <2>3, <3>1, <3>2
    <3>8. k[2] \in IdsIn(u)
      BY <2>1, <3>7 DEF IdsIn, KeysIn
    <3> QED
      BY <3>1, <3>2, <3>3, <3>6, <3>8, FullTable
  <2> QED
    BY <2>3, <2>6, <2>7, OperationReplayAssumption
<1> QED
  BY <1>1, <1>2

\* Map.set, which evicts nothing.
LEMMA SetKnows ==
  ASSUME NEW t \in Seq(Entry), NEW k \in Keys, NEW v \in Values, NEW R,
         Sound(t, R), k[2] \in R
  PROVE  Sound(Set(t, k, v), R) /\ IdsIn(Set(t, k, v)) = IdsIn(t) \cup {k[2]}
<1>1. CASE k \in KeysIn(t)
  <2> DEFINE u == [i \in DOMAIN t |-> IF t[i].key = k THEN [key |-> k, val |-> v] ELSE t[i]]
  <2>1. Set(t, k, v) = u
    BY <1>1 DEF Set
  <2>2. DOMAIN u = DOMAIN t /\ \A i \in DOMAIN t : u[i].key = t[i].key
    OBVIOUS
  <2> HIDE DEF u
  <2>3. KeysIn(u) = KeysIn(t)
    BY <2>2 DEF KeysIn
  <2> QED
    BY <1>1, <2>1, <2>2, <2>3 DEF Sound, OncePerKey, IdsIn
<1>2. CASE k \notin KeysIn(t)
  <2> DEFINE e == [key |-> k, val |-> v]
  <2>1. e \in Entry /\ e.key = k
    BY EntryFields
  <2>2. Set(t, k, v) = Append(t, e)
    BY <1>2 DEF Set
  <2> HIDE DEF e
  <2> QED
    BY <1>2, <2>1, <2>2, AppendKnows DEF Sound
<1> QED
  BY <1>1, <1>2

\* A server knows the operations that it has recorded itself.
Own(s) ==
  \A b \in recorded : srv[b] = s => IdOf[b] \in IdsIn(table[s]) \/ Ample(Recs, IdOf[b])

\* The journal, and the tables of the servers that have their store: one that
\* is up to date lacks nothing that is recorded, and another nothing of its own.
Tables ==
  /\ Sound(log, Recs) /\ Complete(log, Recs)
  /\ \A s \in Servers : avail[s] =>
       /\ Sound(table[s], Recs) /\ Own(s)
       /\ fresh[s] => Complete(table[s], Recs)

\* What calls have recorded; and one that runs again what its server recorded
\* does so as its record was pushed out before it started.
CallRecords(c) ==
  /\ pc[c] = "landed" => c \in landed
  /\ c \in landed => pc[c] \in {"landed", "half", "applied", "failed", "lost"}
  /\ c \in recorded => c \in landed
  /\ pc[c] = "half" => srv[c] \in up /\ (avail[srv[c]] => c \in recorded)
  /\ pc[c] = "running" =>
       \A b \in recorded : IdOf[b] = IdOf[c] /\ srv[b] = srv[c] => Ample(Recs, IdOf[c])

\* The inductive invariant behind AppliedOnce, with Claims.
Once == IsFiniteSet(Recs) /\ Tables /\ \A c \in Calls : CallRecords(c)

\* What a complete table lacks is what there was no room for, in more records.
LEMMA CompleteStays ==
  ASSUME NEW t, NEW u, NEW R, NEW Q, IsFiniteSet(Q), R \subseteq Q, Complete(t, R),
         \A id \in IdsIn(t) : id \in IdsIn(u) \/ Ample(Q, id), Q \ R \subseteq IdsIn(u)
  PROVE  Complete(u, Q)
BY AmpleStays DEF Complete

\* Only the calls and the stores they were sent to change.
LEMMA SameTables ==
  ASSUME Tables, UNCHANGED <<avail, table, fresh, log, recorded>>,
         \A b \in recorded : srv'[b] = srv[b]
  PROVE  Tables' /\ Recs' = Recs
<1>1. Recs' = Recs
  BY DEF Recs
<1>2. \A s \in Servers : Own(s) => Own(s)'
  BY <1>1 DEF Own
<1> QED
  BY <1>1, <1>2 DEF Tables

\* rememberOperation under the lock, of an operation that is recorded with it.
LEMMA PersistTables ==
  ASSUME TypeOK, IsFiniteSet(Recs), Tables, NEW s \in Servers, avail[s],
         NEW k \in Keys, NEW v \in Values, Persist(s, k, v), srv' = srv,
         recorded \subseteq recorded', Recs' = Recs \cup {k[2]},
         \A b \in recorded' \ recorded : srv[b] = s
  PROVE  IsFiniteSet(Recs') /\ Tables'
<1> DEFINE t == Resynced(s)
           u == Remember(t, k, v)
<1>1. IsFiniteSet(Recs') /\ Recs \subseteq Recs' /\ k[2] \in Recs'
  BY FS_AddElement
<1>2. t \in Seq(Entry) /\ log \in Seq(Entry)
  BY ResyncedTyped DEF TypeOK
<1>3. Sound(t, Recs) /\ Complete(t, Recs) /\ Sound(log, Recs) /\ Complete(log, Recs)
  BY DEF Resynced, Tables
<1>4. /\ table' = [table EXCEPT ![s] = u] /\ avail' = avail
      /\ log' = IF k \in KeysIn(t) THEN log ELSE Set(log, k, v)
      /\ fresh' = [q \in Servers |-> IF q = s THEN TRUE ELSE fresh[q] /\ k \in KeysIn(t)]
  BY DEF Persist
<1> HIDE DEF t
<1>5. Sound(t, Recs') /\ Sound(log, Recs')
  BY <1>1, <1>3 DEF Sound
<1>6. /\ Sound(u, Recs') /\ k[2] \in IdsIn(u)
      /\ \A id \in IdsIn(t) : id \in IdsIn(u) \/ Ample(Recs', id)
  BY <1>1, <1>2, <1>5, RememberKnows
<1> HIDE DEF u
<1>7. Complete(u, Recs')
  BY <1>1, <1>3, <1>6, CompleteStays
<1>8. k \in KeysIn(t) => Recs' = Recs
  BY <1>3 DEF Sound, IdsIn
<1>9. Sound(log', Recs') /\ Complete(log', Recs')
  <2>1. CASE k \in KeysIn(t)
    BY <1>3, <1>4, <1>8, <2>1
  <2>2. CASE k \notin KeysIn(t)
    <3>1. Sound(Set(log, k, v), Recs') /\ IdsIn(Set(log, k, v)) = IdsIn(log) \cup {k[2]}
      BY <1>1, <1>2, <1>5, SetKnows
    <3>2. Complete(Set(log, k, v), Recs')
      BY <1>1, <1>3, <3>1, CompleteStays
    <3> QED
      BY <1>4, <2>2, <3>1, <3>2
  <2> QED
    BY <2>1, <2>2
<1>10. ASSUME NEW q \in Servers, avail'[q]
       PROVE  /\ Sound(table'[q], Recs') /\ Own(q)'
              /\ fresh'[q] => Complete(table'[q], Recs')
  <2>1. CASE q = s
    <3>1. table'[q] = u
      BY <1>4, <2>1 DEF TypeOK
    <3>2. \A b \in recorded' : IdOf[b] \in Recs'
      BY DEF Recs
    <3>3. Own(q)'
      BY <1>7, <3>1, <3>2 DEF Own, Complete
    <3> QED
      BY <1>6, <1>7, <3>1, <3>3
  <2>2. CASE q # s
    <3>1. table'[q] = table[q] /\ avail[q] /\ (fresh'[q] => fresh[q] /\ k \in KeysIn(t))
      BY <1>4, <1>10, <2>2 DEF TypeOK
    <3>2. Sound(table[q], Recs) /\ Own(q) /\ (fresh[q] => Complete(table[q], Recs))
      BY <3>1 DEF Tables
    <3>3. Sound(table[q], Recs')
      BY <1>1, <3>2 DEF Sound
    <3>4. \A b \in recorded' : srv'[b] = q => b \in recorded /\ srv[b] = q
      BY <2>2
    <3>5. Own(q)'
      BY <1>1, <3>1, <3>2, <3>4, AmpleStays DEF Own
    <3> QED
      BY <1>8, <3>1, <3>2, <3>3, <3>5
  <2> QED
    BY <2>1, <2>2
<1> QED
  BY <1>1, <1>9, <1>10 DEF Tables

\* rememberOperation in memory only: the server is without its store then.
LEMMA MemoryTables ==
  ASSUME TypeOK, Tables, NEW s \in Servers, NEW k \in Keys, NEW v \in Values,
         MemoryOnly(s, k, v), UNCHANGED <<srv, recorded>>
  PROVE  Tables' /\ Recs' = Recs /\ \A q \in Servers : avail'[q] => avail[q]
<1>1. /\ \A q \in Servers \ {s} : table'[q] = table[q] /\ avail'[q] = avail[q]
      /\ ~avail'[s] /\ log' = log /\ fresh' = fresh
  BY DEF MemoryOnly, TypeOK
<1>2. Recs' = Recs
  BY DEF Recs
<1>3. \A q \in Servers \ {s} : Own(q) => Own(q)'
  BY <1>1, <1>2 DEF Own
<1> QED
  BY <1>1, <1>2, <1>3 DEF Tables

\* A call is sent; it runs only if its server knows of no record.
LEMMA SendOnce ==
  ASSUME TypeOK, Once, NEW c \in Calls, NEW s \in Servers, NEW to, Send(c, s, to),
         \/ to \in {"replayed", "known", "overlap", "plain"}
         \/ to = "running" /\ avail[s] /\ ~Found(c, s)
  PROVE  Once'
<1>1. /\ pc[c] = "unsent" /\ c \notin landed /\ c \notin recorded
      /\ pc' = [pc EXCEPT ![c] = to] /\ srv' = [srv EXCEPT ![c] = s]
      /\ UNCHANGED <<up, avail, table, fresh, log, landed, recorded>>
  BY DEF Send, Once, CallRecords, stores, history
<1>2. \A d \in Calls \ {c} : pc'[d] = pc[d] /\ srv'[d] = srv[d]
  BY <1>1 DEF TypeOK
<1>3. pc'[c] = to /\ srv'[c] = s
  BY <1>1 DEF TypeOK
<1>4. recorded \subseteq Calls \ {c}
  BY <1>1 DEF TypeOK
<1>5. Tables' /\ Recs' = Recs
  BY <1>1, <1>2, <1>4, SameTables DEF Once
<1>6. ASSUME NEW d \in Calls \ {c} PROVE CallRecords(d)'
  <2>1. CallRecords(d)
    BY DEF Once
  <2> QED
    BY <1>1, <1>2, <1>4, <1>5, <2>1 DEF CallRecords
<1>7. CallRecords(c)'
  <2>1. ASSUME to = "running", NEW b \in recorded, IdOf[b] = IdOf[c], srv'[b] = s
        PROVE  Ample(Recs, IdOf[c])
    <3>1. IdOf[c] \notin IdsIn(table[s]) /\ avail[s]
      BY <2>1, FoundIs DEF TypeOK
    <3>2. Own(s) /\ srv[b] = s
      BY <1>2, <1>4, <2>1, <3>1 DEF Once, Tables
    <3> QED
      BY <2>1, <3>1, <3>2 DEF Own
  <2> QED
    BY <1>1, <1>3, <1>5, <2>1 DEF CallRecords
<1> QED
  BY <1>5, <1>6, <1>7 DEF Once

\* A call goes on without a record: it lands its edit, or fails, or both.
LEMMA MoveOnce ==
  ASSUME TypeOK, Once, NEW c \in Calls, NEW to, pc' = [pc EXCEPT ![c] = to],
         \/ pc[c] \in {"running", "plain", "landed"} /\ to = "failed" /\ landed' = landed
         \/ /\ pc[c] \in {"running", "plain"} /\ to \in {"landed", "applied", "failed"}
            /\ landed' = landed \cup {c},
         UNCHANGED <<srv, stores, recorded>>
  PROVE  Once'
<1>1. Tables' /\ Recs' = Recs
  BY SameTables DEF Once, stores
<1>2. \A d \in Calls \ {c} : pc'[d] = pc[d]
  BY DEF TypeOK
<1>3. pc'[c] = to /\ (pc[c] # "landed" => c \notin landed)
  BY DEF TypeOK, Once, CallRecords
<1>4. ASSUME NEW d \in Calls PROVE CallRecords(d)'
  <2>1. CallRecords(d)
    BY DEF Once
  <2>2. CASE d = c
    BY <1>1, <1>3, <2>1, <2>2 DEF CallRecords
  <2>3. CASE d # c
    BY <1>1, <1>2, <2>1, <2>3 DEF CallRecords, stores
  <2> QED
    BY <2>2, <2>3
<1> QED
  BY <1>1, <1>4 DEF Once

\* The first of a call's two records: no call of its id runs on its server.
LEMMA LegacyOnce ==
  ASSUME Claims, Once, NEW c \in Calls, RecordLegacy(c)
  PROVE  Once'
<1> DEFINE s == srv[c]
<1>1. /\ TypeOK /\ s \in Servers /\ s \in up /\ pc[c] = "landed" /\ c \in landed
      /\ UNCHANGED <<srv, up, landed>>
  BY DEF RecordLegacy, Free, TypeOK, Claims, Once, CallRecords
<1>2. pc'[c] = "half" /\ \A d \in Calls \ {c} : pc'[d] = pc[d]
  BY <1>1 DEF RecordLegacy, TypeOK
<1>3. Legacy(c) \in Keys /\ Legacy(c)[2] = IdOf[c] /\ Oversize \in Values
  BY CallEntries DEF Legacy
<1>4. ASSUME NEW d \in Calls, pc'[d] = "running", IdOf[c] = IdOf[d], srv[c] = srv[d]
      PROVE  FALSE
  <2>1. pc[d] = "running"
    BY <1>2, <1>4
  <2>2. d \in Claiming(s) /\ c \in Claiming(s)
    BY <1>1, <1>4, <2>1 DEF Claiming
  <2> QED
    BY <1>1, <1>4, <2>1, <2>2 DEF Claims, OneClaimEach
<1> HIDE DEF s
<1>5. CASE avail[s] /\ Persist(s, Legacy(c), Oversize) /\ recorded' = recorded \cup {c}
  <2>1. Recs' = Recs \cup {IdOf[c]}
    BY <1>5 DEF Recs
  <2>2. IsFiniteSet(Recs') /\ Tables'
    <3>1. \A b \in recorded' \ recorded : srv[b] = s
      BY <1>5 DEF s
    <3> QED
      BY <1>1, <1>3, <1>5, <2>1, <3>1, PersistTables DEF Once
  <2>3. avail' = avail
    BY <1>5 DEF Persist
  <2>4. ASSUME NEW d \in Calls PROVE CallRecords(d)'
    <3>1. CallRecords(d)
      BY DEF Once
    <3>2. ASSUME pc'[d] = "running", NEW b \in recorded', IdOf[b] = IdOf[d], srv[b] = srv[d]
          PROVE  Ample(Recs', IdOf[d])
      <4>1. b \in recorded /\ pc[d] = "running"
        BY <1>2, <1>4, <1>5, <3>2
      <4>2. Ample(Recs, IdOf[d])
        BY <3>1, <3>2, <4>1 DEF CallRecords
      <4> QED
        BY <2>1, <2>2, <4>2, AmpleStays
    <3>3. CASE d = c
      BY <1>1, <1>2, <1>5, <3>3 DEF CallRecords, s
    <3>4. CASE d # c
      BY <1>1, <1>2, <1>5, <2>3, <3>1, <3>2, <3>4 DEF CallRecords
    <3> QED
      BY <3>3, <3>4
  <2> QED
    BY <2>2, <2>4 DEF Once
<1>6. CASE MemoryOnly(s, Legacy(c), Oversize) /\ recorded' = recorded
  <2>1. Tables' /\ Recs' = Recs /\ \A q \in Servers : avail'[q] => avail[q]
    BY <1>1, <1>3, <1>6, MemoryTables DEF Once
  <2>2. ~avail'[s]
    BY <1>1, <1>6 DEF MemoryOnly, TypeOK
  <2>3. ASSUME NEW d \in Calls PROVE CallRecords(d)'
    <3>1. CallRecords(d)
      BY DEF Once
    <3>2. CASE d = c
      BY <1>1, <1>2, <1>6, <2>2, <3>1, <3>2 DEF CallRecords, s
    <3>3. CASE d # c
      BY <1>1, <1>2, <1>6, <2>1, <3>1, <3>3 DEF CallRecords, TypeOK
    <3> QED
      BY <3>2, <3>3
  <2> QED
    BY <2>1, <2>3 DEF Once
<1> QED
  BY <1>5, <1>6 DEF RecordLegacy, s

\* The second, of an operation that has the first or a server without store.
LEMMA V2Once ==
  ASSUME TypeOK, Once, NEW c \in Calls, RecordV2(c)
  PROVE  Once'
<1> DEFINE s == srv[c]
<1>1. /\ s \in Servers /\ s \in up /\ pc[c] = "half" /\ CallRecords(c)
      /\ UNCHANGED <<srv, up, landed, recorded>>
  BY DEF RecordV2, TypeOK, Once, history
<1>2. pc'[c] = "applied" /\ \A d \in Calls \ {c} : pc'[d] = pc[d]
  BY DEF RecordV2, TypeOK
<1>3. V2(c) \in Keys /\ V2(c)[2] = IdOf[c] /\ Outcome(c) \in Values
  BY CallEntries DEF V2
<1>4. Recs' = Recs
  BY <1>1 DEF Recs
<1>5. IsFiniteSet(Recs') /\ Tables' /\ \A q \in Servers : avail'[q] => avail[q]
  <2>1. CASE avail[s] /\ Persist(s, V2(c), Outcome(c))
    <3>1. c \in recorded /\ avail' = avail
      BY <1>1, <2>1 DEF CallRecords, Persist
    <3>2. Recs' = Recs \cup {V2(c)[2]}
      BY <1>3, <1>4, <3>1 DEF Recs
    <3> HIDE DEF s
    <3> QED
      BY <1>1, <1>3, <2>1, <3>1, <3>2, PersistTables DEF Once
  <2>2. CASE MemoryOnly(s, V2(c), Outcome(c))
    BY <1>1, <1>3, <1>4, <2>2, MemoryTables DEF Once
  <2> QED
    BY <2>1, <2>2 DEF RecordV2
<1>6. ASSUME NEW d \in Calls PROVE CallRecords(d)'
  <2>1. CallRecords(d)
    BY DEF Once
  <2>2. CASE d = c
    BY <1>1, <1>2, <1>4, <2>1, <2>2 DEF CallRecords
  <2>3. CASE d # c
    BY <1>1, <1>2, <1>4, <1>5, <2>1, <2>3 DEF CallRecords, TypeOK
  <2> QED
    BY <2>2, <2>3
<1> QED
  BY <1>5, <1>6 DEF Once

\* The servers and their stores: a table is loaded from the journal, or
\* becomes the journal, or is lost.
LEMMA ServerOnce ==
  ASSUME TypeOK, Once, NEW s \in Servers,
         Open(s) \/ Resync(s) \/ Compact(s) \/ LoseStore(s) \/ Crash(s)
  PROVE  Once'
<1>1. UNCHANGED <<srv, landed, recorded>> /\ Recs' = Recs
  BY DEF Open, Resync, Compact, LoseStore, Crash, Recs, history
<1>2. /\ log' = log \/ (avail[s] /\ log' = Resynced(s))
      /\ avail'[s] => table'[s] = log' /\ fresh'[s]
      /\ \A q \in Servers \ {s} :
           /\ avail'[q] = avail[q] /\ table'[q] = table[q]
           /\ fresh'[q] => fresh[q] /\ log' = log
  <2>1. CASE Open(s)
    BY <2>1 DEF Open, TypeOK
  <2>2. CASE Resync(s)
    BY <2>2 DEF Resync, TypeOK
  <2>3. CASE Compact(s)
    BY <2>3 DEF Compact, TypeOK
  <2>4. CASE LoseStore(s) \/ Crash(s)
    BY <2>4 DEF LoseStore, Crash, TypeOK
  <2> QED
    BY <2>1, <2>2, <2>3, <2>4
<1>3. Sound(log', Recs) /\ Complete(log', Recs)
  BY <1>2 DEF Once, Tables, Resynced
<1>4. ASSUME NEW q \in Servers, avail'[q]
      PROVE  /\ Sound(table'[q], Recs') /\ Own(q)'
             /\ fresh'[q] => Complete(table'[q], Recs')
  <2>1. CASE q = s
    <3>1. table'[q] = log'
      BY <1>2, <1>4, <2>1
    <3>2. \A b \in recorded' : IdOf[b] \in Recs'
      BY DEF Recs
    <3>3. Own(q)'
      BY <1>1, <1>3, <3>1, <3>2 DEF Own, Complete
    <3> QED
      BY <1>1, <1>3, <3>1, <3>3
  <2>2. CASE q # s
    <3>1. avail[q] /\ table'[q] = table[q] /\ (fresh'[q] => fresh[q])
      BY <1>2, <1>4, <2>2
    <3>2. Own(q) => Own(q)'
      BY <1>1, <3>1 DEF Own
    <3> QED
      BY <1>1, <3>1, <3>2 DEF Once, Tables
  <2> QED
    BY <2>1, <2>2
<1>5. Tables' /\ IsFiniteSet(Recs')
  BY <1>1, <1>3, <1>4 DEF Tables, Once
<1>6. ASSUME NEW d \in Calls PROVE CallRecords(d)'
  <2>1. CallRecords(d)
    BY DEF Once
  <2>2. CASE pc'[d] = pc[d]
    <3>1. pc[d] = "half" => srv[d] \in up' /\ (avail'[srv[d]] => avail[srv[d]])
      <4> SUFFICES ASSUME pc[d] = "half"
                   PROVE  srv[d] \in up' /\ (avail'[srv[d]] => avail[srv[d]])
        OBVIOUS
      <4>1. srv[d] \in up /\ srv[d] \in Servers
        BY <2>1 DEF CallRecords, TypeOK
      <4>2. CASE srv[d] # s
        BY <1>2, <4>1, <4>2 DEF Open, Resync, Compact, LoseStore, Crash, TypeOK
      <4>3. CASE srv[d] = s
        BY <2>2, <4>1, <4>3 DEF Open, Resync, Compact, LoseStore, Crash, TypeOK
      <4> QED
        BY <4>2, <4>3
    <3> QED
      BY <1>1, <2>1, <2>2, <3>1 DEF CallRecords
  <2>3. CASE pc'[d] = "lost" /\ pc[d] \in {"running", "plain", "landed", "half"}
    BY <1>1, <2>1, <2>3 DEF CallRecords
  <2> QED
    BY <2>2, <2>3 DEF Open, Resync, Compact, LoseStore, Crash, TypeOK
<1> QED
  BY <1>5, <1>6 DEF Once

\* Every step keeps what tables and calls know of the records.
LEMMA StepOnce ==
  ASSUME Claims, Once, [Next]_vars
  PROVE  Once'
<1>0. TypeOK
  BY DEF Claims
<1>1. ASSUME NEW c \in Calls, NEW s \in Servers,
             \/ Replay(c, s) \/ RefuseRecorded(c, s) \/ RefuseOverlap(c, s)
             \/ Run(c, s) \/ RunPlain(c, s)
      PROVE  Once'
  BY <1>0, <1>1, SendOnce DEF Replay, RefuseRecorded, RefuseOverlap, Run, RunPlain
<1>2. ASSUME NEW c \in Calls, Land(c) \/ LandPlain(c) \/ Fail(c) \/ FailPlain(c)
      PROVE  Once'
  BY <1>0, <1>2, MoveOnce DEF Land, LandPlain, Fail, FailPlain, history
<1>3. ASSUME NEW c \in Calls, RecordLegacy(c) \/ RecordV2(c)
      PROVE  Once'
  BY <1>0, <1>3, LegacyOnce, V2Once
<1>4. ASSUME NEW s \in Servers,
             Open(s) \/ Resync(s) \/ Compact(s) \/ LoseStore(s) \/ Crash(s)
      PROVE  Once'
  BY <1>0, <1>4, ServerOnce
<1>5. CASE UNCHANGED vars
  <2>1. Tables' /\ Recs' = Recs
    BY <1>5, SameTables DEF Once, vars, stores, history
  <2> QED
    BY <1>5, <2>1 DEF Once, CallRecords, vars, stores, history
<1> QED
  BY <1>1, <1>2, <1>3, <1>4, <1>5 DEF Next

\* An edit is never applied twice on the server that applied it first, in any
\* interleaving of calls and servers and across restarts, unless its call was
\* answered with an error, lost server or store before its first record was on
\* disk, or as many other operations were recorded as a table has room for
\* (runEditWithOperationId, rememberOperation).
THEOREM EditsAreAppliedOnce == Spec => AppliedOnce
<1>1. Init => Claims /\ Once
  <2>1. Init => Claims
    BY InitTypeOK DEF Init, Claims, NoStrandedClaim, OneClaimEach, Claiming
  <2>2. ASSUME Init PROVE Once
    <3>1. Recs = {} /\ IsFiniteSet(Recs)
      BY <2>2, FS_EmptySet DEF Init, Recs
    <3>2. IdsIn(log) = {} /\ OncePerKey(log)
      BY <2>2 DEF Init, IdsIn, KeysIn, OncePerKey
    <3>3. Tables
      BY <2>2, <3>1, <3>2 DEF Init, Tables, Sound, Complete
    <3> QED
      BY <2>2, <3>1, <3>3 DEF Init, Once, CallRecords
  <2> QED
    BY <2>1, <2>2
<1>2. Claims /\ Once /\ [Next]_vars => Claims' /\ Once'
  BY StepClaims, StepOnce
<1>3. Claims /\ Once /\ [Next]_vars =>
        [\A c \in landed' \ landed, b \in landed :
           pc[c] = "running" /\ IdOf[b] = IdOf[c] /\ srv[b] = srv[c]
             => \/ b \notin recorded /\ pc[b] \in {"applied", "failed", "lost"}
                \/ PushedOut(IdOf[c])]_vars
  <2> SUFFICES ASSUME Claims, Once, Next, NEW c \in landed' \ landed, NEW b \in landed,
                      pc[c] = "running", IdOf[b] = IdOf[c], srv[b] = srv[c],
                      b \in recorded \/ pc[b] \notin {"applied", "failed", "lost"}
               PROVE  PushedOut(IdOf[c])
    OBVIOUS
  <2>1. c \in Calls /\ Land(c)
    <3>1. PICK d \in Calls : (Land(d) \/ LandPlain(d)) /\ landed' = landed \cup {d}
      BY DEF Next, Send, Replay, RefuseRecorded, RefuseOverlap, Run, RunPlain, Land, LandPlain,
             Fail, FailPlain, RecordLegacy, RecordV2, Open, Resync, Compact, LoseStore, Crash,
             history
    <3> QED
      BY <3>1 DEF LandPlain
  <2>2. b \in Calls /\ CallRecords(b) /\ CallRecords(c)
    BY <2>1 DEF Once, Claims, TypeOK
  <2>3. CASE b \in recorded
    BY <2>2, <2>3 DEF CallRecords, Ample, PushedOut, Recs
  <2>4. CASE b \notin recorded
    <3>1. pc[b] \in {"landed", "half"}
      BY <2>2, <2>4 DEF CallRecords
    <3>2. srv[c] \in Servers /\ pc[b] # "half"
      BY <2>1, <2>2 DEF Land, Free, Claims, TypeOK
    <3>3. b \in Claiming(srv[c]) /\ c \in Claiming(srv[c])
      BY <2>1, <2>2, <3>1, <3>2 DEF Claiming
    <3> QED
      BY <3>2, <3>3 DEF Claims, OneClaimEach
  <2> QED
    BY <2>3, <2>4
<1> QED
  BY <1>1, <1>2, <1>3, PTL DEF Spec, AppliedOnce

=============================================================================
