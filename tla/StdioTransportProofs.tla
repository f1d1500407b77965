------------------------ MODULE StdioTransportProofs ------------------------
(***************************************************************************)
(* What the stdio transport promises of a cancel, for any number of lines  *)
(* and any ids.                                                            *)
(*                                                                         *)
(* The argument: between a request and its cancel the client writes no     *)
(* line with the same id, since it uses an id again only when its request  *)
(* was answered or cancelled.  So the entry of the id, when the cancel is  *)
(* read, is the request's own, unless that was answered; and an entry that *)
(* an older request of the id might have left has been removed by then.    *)
(***************************************************************************)
EXTENDS StdioTransport, TLAPS

CancelledBetween(m, k) ==
  \E j \in (m + 1)..(k - 1) : line[j].kind = "cancel" /\ line[j].names = m

(* A request was answered or cancelled before its id came again.           *)
IdsReused ==
  \A k \in 1..sent : \A m \in 1..(k - 1) :
    IsRequest(k) /\ IsRequest(m) /\ line[m].id = line[k].id =>
      m \in seen \/ (Tracked(m) /\ CancelledBetween(m, k))

(* A cancel names a request of its id and directly follows it among the    *)
(* lines with that id.                                                     *)
CancelFollows(k) ==
  LET m == line[k].names IN
  /\ m \in 1..(k - 1) /\ IsRequest(m) /\ line[m].id = line[k].id
  /\ \A j \in (m + 1)..(k - 1) : line[j].id # line[k].id

CancelsFollow == \A k \in 1..sent : line[k].kind = "cancel" => CancelFollows(k)

(* A tracked request that is neither answered nor dropped is found by its  *)
(* id; one whose cancel was read is answered or dropped.                   *)
Found ==
  \A m \in 1..taken : Tracked(m) /\ m \notin answered \cup dropped => live[line[m].id] = m

CancelsDone ==
  \A k \in 1..taken : line[k].kind = "cancel" /\ Tracked(line[k].names) =>
    line[k].names \in answered \cup dropped

Inv ==
  /\ TypeOK
  /\ IdsReused /\ CancelsFollow
  /\ Found /\ CancelsDone
  /\ CancelExact

-----------------------------------------------------------------------------

(* The inductive invariant.                                                *)
LEMMA Initially == Init => Inv
  BY TransportAssumption
  DEF Init, Inv, TypeOK, IdsReused, CancelsFollow, Found, CancelsDone, CancelExact,
      Lines, None, NoLine

(* A line of the client: what it says of earlier requests of its id is     *)
(* what the guards of SendRequest and SendCancel have looked up.           *)
LEMMA WriteKeepsTypes ==
  ASSUME Inv, NEW l \in Line, Write(l)
  PROVE  TypeOK' /\ Found' /\ CancelsDone' /\ CancelExact'
<1> USE TransportAssumption DEF Inv, Write, Lines
<1>1. /\ \A n \in 1..sent : line'[n] = line[n]
      /\ line'[sent + 1] = l
  BY DEF TypeOK
<1>2. TypeOK'
  BY <1>1 DEF TypeOK, Tracked
<1>3. Found' /\ CancelsDone' /\ CancelExact'
  BY <1>1 DEF TypeOK, Found, CancelsDone, CancelExact, Tracked, CancelsFollow, CancelFollows
<1> QED BY <1>2, <1>3

(* An id that comes again: its last request was answered or cancelled.    *)
LEMMA SendRequestKeeps ==
  ASSUME Inv, NEW kind \in Kinds, NEW id \in Ids, SendRequest(kind, id)
  PROVE  Inv'
<1> USE TransportAssumption DEF Inv, Lines
<1> DEFINE l == Request(kind, id)
<1>1. l \in Line /\ Write(l) /\ l.kind = kind /\ l.id = id
  BY DEF SendRequest, Request, Line, Kinds
<1>2. /\ sent' = sent + 1 /\ seen' = seen /\ sent \in Nat
      /\ \A n \in 1..sent : line'[n] = line[n]
      /\ line'[sent + 1] = l
  BY <1>1 DEF TypeOK, Write
<1> HIDE DEF l
<1>3. IdsReused'
  <2> SUFFICES ASSUME NEW k \in 1..(sent + 1), NEW m \in 1..(k - 1),
                      IsRequest(k)', IsRequest(m)', line'[m].id = line'[k].id
               PROVE  m \in seen \/ (Tracked(m)' /\ CancelledBetween(m, k)')
    BY <1>2 DEF IdsReused
  <2>1. CASE k \in 1..sent
    BY <2>1, <1>2 DEF IdsReused, IsRequest, Tracked, CancelledBetween
  <2>2. CASE k = sent + 1
    <3>1. m \in 1..sent /\ IsRequest(m) /\ line[m].id = id
      BY <2>2, <1>1, <1>2 DEF IsRequest
    <3>2. ~Awaited(m)
      BY <3>1 DEF SendRequest
    <3>3. m \in seen \/ (Tracked(m) /\ CancelSent(m))
      BY <3>1, <3>2, <1>2 DEF Awaited
    <3>4. CancelSent(m) => CancelledBetween(m, k)'
      BY <3>1, <2>2, <1>2 DEF CancelSent, CancelledBetween, CancelsFollow, CancelFollows
    <3>5. Tracked(m) => Tracked(m)'
      BY <3>1, <1>2 DEF Tracked
    <3> QED BY <3>3, <3>4, <3>5
  <2> QED BY <2>1, <2>2, <1>2
<1>4. CancelsFollow'
  <2> SUFFICES ASSUME NEW k \in 1..(sent + 1), line'[k].kind = "cancel"
               PROVE  CancelFollows(k)'
    BY <1>2 DEF CancelsFollow
  <2>1. k \in 1..sent
    BY <1>1, <1>2 DEF Kinds
  <2> QED BY <2>1, <1>2 DEF CancelsFollow, CancelFollows, IsRequest
<1> QED BY <1>1, <1>3, <1>4, WriteKeepsTypes

(* A cancel: no line with the id was written since its request.            *)
LEMMA SendCancelKeeps ==
  ASSUME Inv, NEW m \in Lines, SendCancel(m)
  PROVE  Inv'
<1> USE TransportAssumption DEF Inv, Lines
<1> DEFINE l == CancelOf(m)
<1>1. m \in 1..sent /\ IsRequest(m) /\ m \notin seen /\ ~CancelSent(m)
  BY DEF SendCancel, Awaited, TypeOK
<1>2. l \in Line /\ Write(l) /\ l.kind = "cancel" /\ l.id = line[m].id /\ l.names = m
  BY <1>1 DEF SendCancel, CancelOf, Line, TypeOK, IsRequest
<1>3. /\ sent' = sent + 1 /\ seen' = seen /\ sent \in Nat
      /\ \A n \in 1..sent : line'[n] = line[n]
      /\ line'[sent + 1] = l
  BY <1>2 DEF TypeOK, Write
<1> HIDE DEF l
<1>4. IdsReused'
  <2> SUFFICES ASSUME NEW k \in 1..(sent + 1), NEW n \in 1..(k - 1),
                      IsRequest(k)', IsRequest(n)', line'[n].id = line'[k].id
               PROVE  n \in seen \/ (Tracked(n)' /\ CancelledBetween(n, k)')
    BY <1>3 DEF IdsReused
  <2>1. k \in 1..sent
    BY <1>2, <1>3 DEF IsRequest, Kinds
  <2> QED BY <2>1, <1>3 DEF IdsReused, IsRequest, Tracked, CancelledBetween
<1>5. ASSUME NEW j \in (m + 1)..sent PROVE line[j].id # line[m].id
  <2> SUFFICES ASSUME line[j].id = line[m].id PROVE FALSE
    OBVIOUS
  <2>1. CASE IsRequest(j)
    <3>1. m \in seen \/ CancelledBetween(m, j)
      BY <1>1, <1>3, <2>1 DEF IdsReused
    <3> QED BY <3>1, <1>1, <1>3 DEF CancelledBetween, CancelSent
  <2>2. CASE line[j].kind = "cancel"
    <3> DEFINE n == line[j].names
    <3>1. n \in 1..(j - 1) /\ IsRequest(n) /\ line[n].id = line[m].id
      BY <1>1, <1>3, <2>2 DEF CancelsFollow, CancelFollows
    <3>2. n # m
      BY <1>1, <1>3, <2>2 DEF CancelSent
    <3>3. ~(n < m)
      BY <1>1, <1>3, <2>2, <3>1 DEF CancelsFollow, CancelFollows
    <3>4. m \in seen \/ CancelledBetween(m, n)
      BY <1>1, <1>3, <3>1, <3>2, <3>3 DEF IdsReused
    <3> QED BY <3>1, <3>4, <1>1, <1>3 DEF CancelledBetween, CancelSent
  <2> QED BY <2>1, <2>2, <1>1, <1>3 DEF TypeOK, Line, IsRequest
<1>6. CancelsFollow'
  <2> SUFFICES ASSUME NEW k \in 1..(sent + 1), line'[k].kind = "cancel"
               PROVE  CancelFollows(k)'
    BY <1>3 DEF CancelsFollow
  <2>1. CASE k \in 1..sent
    BY <2>1, <1>3 DEF CancelsFollow, CancelFollows, IsRequest
  <2>2. CASE k = sent + 1
    BY <2>2, <1>1, <1>2, <1>3, <1>5 DEF CancelFollows, IsRequest
  <2> QED BY <2>1, <2>2, <1>3
<1> QED BY <1>2, <1>4, <1>6, WriteKeepsTypes

-----------------------------------------------------------------------------
(* The server reads a line.                                                *)

(* Whoever holds the id of a request that a cancel names is that request.  *)
LEMMA OwnEntry ==
  ASSUME Inv, NEW k \in 1..sent, k = taken + 1, line[k].kind = "cancel"
  PROVE  LET m == line[k].names IN live[line[k].id] \in {None, m}
<1> USE TransportAssumption DEF Inv, Lines
<1> DEFINE m == line[k].names
           n == live[line[k].id]
<1>1. m \in 1..taken /\ IsRequest(m) /\ line[m].id = line[k].id /\ line[k].id \in Ids
  BY DEF CancelsFollow, CancelFollows, TypeOK, Line
<1> SUFFICES ASSUME n # None, n # m PROVE FALSE
  BY DEF None
<1>2. /\ n \in 1..taken /\ Tracked(n) /\ line[n].id = line[k].id
      /\ n \notin answered \cup dropped
  BY <1>1 DEF TypeOK, None
<1>3. ~(m < n)
  BY <1>2 DEF CancelsFollow, CancelFollows, TypeOK
<1>4. n \in seen \/ CancelledBetween(n, m)
  BY <1>1, <1>2, <1>3 DEF IdsReused, Tracked, IsRequest, Kinds, TypeOK
<1>5. CancelledBetween(n, m) => n \in answered \cup dropped
  BY <1>1, <1>2 DEF CancelledBetween, CancelsDone, TypeOK
<1> QED BY <1>2, <1>4, <1>5 DEF TypeOK

(* A cancel is read: its request is dropped, or was answered, and nothing  *)
(* else changes.                                                           *)
LEMMA ReadCancelKeeps ==
  ASSUME Inv, Read, line[taken + 1].kind = "cancel"
  PROVE  Inv'
<1> USE TransportAssumption DEF Inv, Lines
<1> DEFINE k == taken + 1
           m == line[k].names
           id == line[k].id
<1>1. /\ k \in 1..sent /\ taken' = k /\ taken \in Nat
      /\ UNCHANGED <<line, sent, turn, running, written, answered, seen>>
      /\ Cancel(k)
      /\ heard' = IF Tracked(m) THEN heard \cup ({m} \ answered) ELSE heard
  BY DEF Read, TypeOK, IsRequest, Kinds
<1>2. /\ m \in 1..taken /\ IsRequest(m) /\ line[m].id = id /\ id \in Ids
  BY <1>1 DEF CancelsFollow, CancelFollows, TypeOK, Line
<1>3. live[id] \in {None, m}
  BY <1>1, OwnEntry
<1>4. Tracked(m) /\ m \notin answered \cup dropped <=> live[id] = m
  BY <1>1, <1>2 DEF Found, TypeOK, None
<1>5. dropped' = heard' /\ heard' \cap answered' = {}
  BY <1>1, <1>3, <1>4, <1>2 DEF Cancel, CancelExact, None
<1>6. /\ live' = [live EXCEPT ![id] = None]
      /\ dropped' = IF live[id] = m THEN dropped \cup {m} ELSE dropped
  BY <1>1, <1>2, <1>3 DEF Cancel, None, TypeOK
<1>7. TypeOK'
  <2>1. live \in [Ids -> 0..taken]
    BY DEF TypeOK
  <2>2. live' \in [Ids -> 0..taken']
    BY <1>1, <1>2, <1>6, <2>1 DEF None
  <2>3. ASSUME NEW i \in Ids, live'[i] # None
        PROVE  live'[i] = live[i] /\ i # id
    BY <1>2, <1>6, <2>1, <2>3 DEF None
  <2>4. ASSUME NEW i \in Ids, live'[i] # None
        PROVE  /\ Tracked(live[i])' /\ line'[live'[i]].id = i
               /\ live'[i] \notin answered' \cup dropped'
    <3>1. live[i] # None /\ live'[i] = live[i] /\ i # id
      BY <2>3, <2>4
    <3>2. /\ Tracked(live[i]) /\ line[live[i]].id = i
          /\ live[i] \notin answered \cup dropped
      BY <3>1 DEF TypeOK
    <3>3. live[i] # m
      BY <3>1, <3>2, <1>2
    <3> QED BY <1>1, <1>6, <3>1, <3>2, <3>3 DEF Tracked
  <2>5. dropped' \subseteq 1..taken' /\ heard' = dropped'
    <3>1. dropped \subseteq 1..taken
      BY DEF TypeOK
    <3>2. dropped' \subseteq dropped \cup {m}
      BY <1>6
    <3>3. \A x \in 1..taken : x \in 1..taken'
      BY <1>1
    <3> QED BY <1>2, <1>5, <3>1, <3>2, <3>3
  <2> HIDE DEF m, id
  <2>6. /\ sent' \in 0..MaxLines /\ taken' \in 0..sent' /\ turn' \in 0..taken'
        /\ line' \in [Lines -> Line \cup {NoLine}]
        /\ \A n \in 1..sent' : line'[n] \in Line
        /\ running' \subseteq 1..turn' /\ answered' \subseteq 1..turn' /\ seen' \subseteq answered'
        /\ written' \subseteq 1..turn'
    BY <1>1 DEF TypeOK
  <2> QED BY <2>2, <2>4, <2>5, <2>6 DEF TypeOK
<1>8. IdsReused' /\ CancelsFollow'
  BY <1>1 DEF IdsReused, CancelsFollow, CancelFollows, IsRequest, Tracked, CancelledBetween
<1>9. Found'
  BY <1>1, <1>2, <1>3, <1>4, <1>6 DEF Found, TypeOK, Tracked, None
<1>10. CancelsDone'
  BY <1>1, <1>2, <1>4, <1>6 DEF CancelsDone, Tracked
<1> QED BY <1>5, <1>7, <1>8, <1>9, <1>10 DEF CancelExact

(* A request is read: the entry it takes was nobody's any more.            *)
LEMMA ReadRequestKeeps ==
  ASSUME Inv, Read, IsRequest(taken + 1)
  PROVE  Inv'
<1> USE TransportAssumption DEF Inv, Lines
<1> DEFINE k == taken + 1
           id == line[k].id
<1>1. /\ k \in 1..sent /\ taken' = k /\ taken \in Nat
      /\ UNCHANGED <<line, sent, turn, running, written, answered, seen, dropped, heard>>
      /\ live' = IF Tracked(k) THEN [live EXCEPT ![id] = k] ELSE live
  BY DEF Read, TypeOK, IsRequest, Kinds
<1>2. id \in Ids /\ k \notin answered \cup dropped
  BY <1>1 DEF TypeOK, Line, IsRequest, Kinds
<1>3. ASSUME NEW m \in 1..taken, Tracked(m), line[m].id = id PROVE m \in answered \cup dropped
  <2>1. m \in seen \/ CancelledBetween(m, k)
    BY <1>1, <1>3 DEF IdsReused, Tracked, IsRequest, Kinds
  <2>2. CancelledBetween(m, k) => m \in answered \cup dropped
    BY <1>1, <1>3 DEF CancelledBetween, CancelsDone
  <2> QED BY <2>1, <2>2 DEF TypeOK
<1>4. TypeOK'
  BY <1>1, <1>2 DEF TypeOK, Tracked, None
<1>5. IdsReused' /\ CancelsFollow'
  BY <1>1 DEF IdsReused, CancelsFollow, CancelFollows, IsRequest, Tracked, CancelledBetween
<1>6. Found'
  BY <1>1, <1>2, <1>3 DEF Found, TypeOK, Tracked
<1>7. CancelsDone'
  BY <1>1 DEF CancelsDone, Tracked, IsRequest, Kinds
<1> QED BY <1>1, <1>4, <1>5, <1>6, <1>7 DEF CancelExact

-----------------------------------------------------------------------------
(* The queue and the handlers.                                             *)

(* A handler ends: the entry that is removed is the request's own.         *)
LEMMA EndKeeps ==
  ASSUME Inv, NEW n \in running, Ends(n)
  PROVE  Inv'
<1> USE TransportAssumption DEF Inv, Lines
<1>1. n \in 1..taken /\ n \in 1..turn /\ line[n].id \in Ids
  <2>1. n \in 1..taken /\ n \in 1..turn /\ n \in 1..sent
    BY DEF TypeOK
  <2>2. line[n] \in Line
    BY <2>1 DEF TypeOK
  <2> QED BY <2>1, <2>2 DEF Line
<1>2. /\ UNCHANGED <<line, sent, taken, turn, dropped, written, seen, heard>>
      /\ running' = running \ {n}
      /\ answered' = IF n \in dropped THEN answered ELSE answered \cup {n}
      /\ live' = IF live[line[n].id] = n THEN [live EXCEPT ![line[n].id] = None] ELSE live
  BY DEF Ends, Untrack
<1>3. TypeOK'
  <2>1. live \in [Ids -> 0..taken] /\ taken \in Nat
    BY DEF TypeOK
  <2>2. live' \in [Ids -> 0..taken]
    BY <1>1, <1>2, <2>1 DEF None
  <2>3. ASSUME NEW i \in Ids, live'[i] # None
        PROVE  live'[i] = live[i] /\ live[i] # n
    BY <1>1, <1>2, <2>1, <2>3 DEF TypeOK, None
  <2>4. ASSUME NEW i \in Ids, live'[i] # None
        PROVE  /\ Tracked(live[i])' /\ line'[live'[i]].id = i
               /\ live'[i] \notin answered' \cup dropped'
    <3>1. live[i] # None /\ live'[i] = live[i] /\ live[i] # n
      BY <2>3, <2>4
    <3>2. /\ Tracked(live[i]) /\ line[live[i]].id = i
          /\ live[i] \notin answered \cup dropped
      BY <3>1 DEF TypeOK
    <3> QED BY <1>2, <3>1, <3>2 DEF Tracked
  <2>5. /\ running' \subseteq 1..turn /\ answered' \subseteq 1..turn /\ seen \subseteq answered'
    BY <1>1, <1>2 DEF TypeOK
  <2> QED BY <1>2, <2>2, <2>4, <2>5 DEF TypeOK
<1>4. IdsReused' /\ CancelsFollow' /\ CancelsDone' /\ CancelExact'
  BY <1>2 DEF IdsReused, CancelsFollow, CancelFollows, CancelsDone, CancelExact,
              IsRequest, Tracked, CancelledBetween
<1>5. Found'
  BY <1>1, <1>2 DEF Found, TypeOK, Tracked
<1> QED BY <1>3, <1>4, <1>5

(* Every step keeps the invariant.                                         *)
LEMMA StepKeeps == Inv /\ [Next]_vars => Inv'
<1> SUFFICES ASSUME Inv, [Next]_vars PROVE Inv'
  OBVIOUS
<1> USE TransportAssumption DEF Inv, Lines
<1>1. ASSUME NEW kind \in Kinds, NEW id \in Ids, SendRequest(kind, id) PROVE Inv'
  BY <1>1, SendRequestKeeps
<1>2. ASSUME NEW n \in Lines, SendCancel(n) PROVE Inv'
  BY <1>2, SendCancelKeeps
<1>3. CASE SeeAnswer
  BY <1>3 DEF SeeAnswer, TypeOK, IdsReused, CancelsFollow, CancelFollows, Found, CancelsDone,
              CancelExact, IsRequest, Tracked, CancelledBetween
<1>4. CASE Read
  BY <1>4, ReadCancelKeeps, ReadRequestKeeps DEF Read
<1>5. CASE TakeTurn
  BY <1>5 DEF TakeTurn, TypeOK, IdsReused, CancelsFollow, CancelFollows, Found, CancelsDone,
              CancelExact, IsRequest, Tracked, CancelledBetween
<1>6. ASSUME NEW n \in Lines, n \in running, Commit(n) PROVE Inv'
  BY <1>6 DEF Commit, TypeOK, IdsReused, CancelsFollow, CancelFollows, Found, CancelsDone,
              CancelExact, IsRequest, Tracked, CancelledBetween
<1>7. ASSUME NEW n \in Lines, n \in running, Return(n) \/ Throw(n) PROVE Inv'
  BY <1>7, EndKeeps DEF Return, Throw
<1>8. CASE UNCHANGED vars
  BY <1>8 DEF vars, TypeOK, IdsReused, CancelsFollow, CancelFollows, Found, CancelsDone,
              CancelExact, IsRequest, Tracked, CancelledBetween
<1> QED BY <1>1, <1>2, <1>3, <1>4, <1>5, <1>6, <1>7, <1>8 DEF Next, Runs

-----------------------------------------------------------------------------

(* The types, and that an id names a request that was read and is neither  *)
(* answered nor dropped (track, untrack).                                  *)
THEOREM TypeCorrect == Spec => []TypeOK
<1>1. Inv => TypeOK
  BY DEF Inv
<1> QED BY <1>1, Initially, StepKeeps, PTL DEF Spec

(* A cancel that is read in time keeps its request from being answered,    *)
(* and reaches no other, however ids are used again (cancel, untrack).     *)
THEOREM CancelsRight == Spec => []CancelExact
<1>1. Inv => CancelExact
  BY DEF Inv
<1> QED BY <1>1, Initially, StepKeeps, PTL DEF Spec

(* No request writes after its cancel was read (throwIfRequestCancelled).  *)
THEOREM NothingWritten == Spec => NoWriteAfterCancel
<1>1. Inv /\ [Next]_vars => [\A n \in written' \ written : n \notin heard]_vars
  <2> SUFFICES ASSUME Inv, Next, NEW n \in written' \ written
               PROVE  n \notin heard
    BY DEF vars
  <2>1. PICK m \in Lines : Runs(m)
    BY DEF Next, SendRequest, SendCancel, Write, SeeAnswer, Read, TakeTurn
  <2>2. Commit(m)
    BY <2>1 DEF Runs, Return, Throw, Ends
  <2> QED BY <2>2 DEF Commit, Inv, CancelExact
<1> QED BY <1>1, Initially, StepKeeps, PTL DEF Spec, NoWriteAfterCancel

=============================================================================
