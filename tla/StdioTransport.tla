--------------------------- MODULE StdioTransport ---------------------------
(***************************************************************************)
(* The stdio transport (mcp/transport/legacyStdio.ts) with the signal of a *)
(* cancelled request (util/requestCancellation.ts).                        *)
(*                                                                         *)
(* The client writes lines: requests, and cancels that name a request by   *)
(* its id.  The server reads a line at a time.  A request takes its place  *)
(* in one queue and is tracked by its id until it is answered or dropped;  *)
(* a cancel takes effect as soon as it is read.  A handler gives way at    *)
(* its awaits, so lines are read while it runs; what follows its last      *)
(* await, the answer and the end of the tracking, is one turn.  A write    *)
(* looks at its signal once, in the turn that puts its first byte on disk. *)
(*                                                                         *)
(* Lines are numbered in the order in which they were written, and a       *)
(* request is known by the number of its line, its id being the client's.  *)
(***************************************************************************)
EXTENDS Integers, FiniteSets

CONSTANTS
  Ids,        \* JSON-RPC ids
  MaxLines    \* lines the client writes

ASSUME TransportAssumption == MaxLines \in Nat

Lines == 1..MaxLines
None == 0
Kinds == {"initialize", "read", "write"}

VARIABLES
  line,       \* what the client wrote
  sent,       \* the last line written
  taken,      \* the last line read
  turn,       \* the last line whose turn in the queue has come
  running,    \* requests whose handler is running
  live,       \* the tracked request of an id
  dropped,    \* requests whose entry is marked cancelled
  written,    \* writes that are past their commit point
  answered,
  seen,       \* answers the client has read
  heard       \* requests whose cancel was read before they were answered

vars == <<line, sent, taken, turn, running, live, dropped, written, answered, seen, heard>>

Request(kind, id) == [kind |-> kind, id |-> id, names |-> None]
CancelOf(n) == [kind |-> "cancel", id |-> line[n].id, names |-> n]
NoLine == [kind |-> "none", id |-> None, names |-> None]

IsRequest(n) == line[n].kind \in Kinds
Tracked(n) == line[n].kind \in {"read", "write"}

-----------------------------------------------------------------------------
(* The client: it uses an id again when its request was answered or        *)
(* cancelled, and may cancel before it has read an answer under way.       *)

CancelSent(n) == \E m \in 1..sent : line[m].kind = "cancel" /\ line[m].names = n
Awaited(n) == n <= sent /\ IsRequest(n) /\ n \notin seen /\ ~(Tracked(n) /\ CancelSent(n))

Write(l) ==
  /\ sent < MaxLines
  /\ sent' = sent + 1
  /\ line' = [line EXCEPT ![sent + 1] = l]
  /\ UNCHANGED <<taken, turn, running, live, dropped, written, answered, seen, heard>>

SendRequest(kind, id) ==
  /\ \A n \in 1..sent : Awaited(n) => line[n].id # id
  /\ Write(Request(kind, id))

SendCancel(n) ==
  /\ Awaited(n) /\ ~CancelSent(n)
  /\ Write(CancelOf(n))

SeeAnswer ==
  /\ answered # seen
  /\ seen' = answered
  /\ UNCHANGED <<line, sent, taken, turn, running, live, dropped, written, answered, heard>>

-----------------------------------------------------------------------------
(* The server.                                                             *)

(* A cancel finds the request that its id names, marks its entry and       *)
(* aborts its signal; an id that names nothing is ignored.                 *)
Cancel(n) ==
  LET id == line[n].id IN
  IF live[id] = None THEN UNCHANGED <<live, dropped>>
  ELSE live' = [live EXCEPT ![id] = None] /\ dropped' = dropped \cup {live[id]}

Read ==
  LET n == taken + 1 IN
  /\ taken < sent
  /\ taken' = n
  /\ \/ /\ line[n].kind = "cancel"
        /\ Cancel(n)
        /\ heard' = IF Tracked(line[n].names) THEN heard \cup ({line[n].names} \ answered)
                    ELSE heard
     \/ /\ IsRequest(n)
        /\ live' = IF Tracked(n) THEN [live EXCEPT ![line[n].id] = n] ELSE live
        /\ UNCHANGED <<dropped, heard>>
  /\ UNCHANGED <<line, sent, turn, running, written, answered, seen>>

(* Only the entry that is still the id's own ends its tracking: the client *)
(* may have used the id of a cancelled request again.                      *)
UntrackNone(n) == UNCHANGED live   \* the entry of an answered request stays

UntrackById(n) == live' = [live EXCEPT ![line[n].id] = None]   \* whoever has the id

Untrack(n) ==
  live' = IF live[line[n].id] = n THEN [live EXCEPT ![line[n].id] = None] ELSE live

(* The next request in the queue: one that was cancelled while it waited   *)
(* is passed over.                                                         *)
TakeTurn ==
  /\ running = {}
  /\ turn < taken
  /\ turn' = turn + 1
  /\ running' = IF IsRequest(turn + 1) /\ turn + 1 \notin dropped
                THEN {turn + 1} ELSE {}
  /\ UNCHANGED <<line, sent, taken, live, dropped, written, answered, seen, heard>>

(* The commit point: the signal is looked at and the first byte written in *)
(* one turn of the event loop.                                             *)
CommitUnchecked(n) ==   \* does not look at the signal
  /\ line[n].kind = "write" /\ n \notin written
  /\ written' = written \cup {n}
  /\ UNCHANGED <<line, sent, taken, turn, running, live, dropped, answered, seen, heard>>

Commit(n) ==
  /\ line[n].kind = "write" /\ n \notin written
  /\ n \notin dropped
  /\ written' = written \cup {n}
  /\ UNCHANGED <<line, sent, taken, turn, running, live, dropped, answered, seen, heard>>

(* The handler returns, or throws and is answered with an error; the       *)
(* response to a cancelled request is dropped.                             *)
Ends(n) ==
  /\ running' = running \ {n}
  /\ answered' = IF n \in dropped THEN answered ELSE answered \cup {n}
  /\ Untrack(n)
  /\ UNCHANGED <<line, sent, taken, turn, dropped, written, seen, heard>>

Return(n) == Ends(n)

ThrowUncaught(n) ==   \* the chain of promises stays rejected
  /\ turn' = MaxLines
  /\ running' = running \ {n}
  /\ Untrack(n)
  /\ UNCHANGED <<line, sent, taken, dropped, written, answered, seen, heard>>

Throw(n) == Ends(n)

-----------------------------------------------------------------------------

Init ==
  /\ line = [n \in Lines |-> NoLine]
  /\ sent = 0 /\ taken = 0 /\ turn = 0
  /\ running = {}
  /\ live = [id \in Ids |-> None]
  /\ dropped = {} /\ written = {} /\ answered = {} /\ seen = {} /\ heard = {}

Runs(n) == n \in running /\ (Commit(n) \/ Return(n) \/ Throw(n))

Next ==
  \/ \E kind \in Kinds, id \in Ids : SendRequest(kind, id)
  \/ \E n \in Lines : SendCancel(n)
  \/ SeeAnswer
  \/ Read
  \/ TakeTurn
  \/ \E n \in Lines : Runs(n)

(* Lines are read, the queue goes on and handlers come to an end.          *)
Fairness ==
  /\ WF_vars(Read)
  /\ WF_vars(TakeTurn)
  /\ \A n \in Lines : WF_vars(Runs(n))

Spec == Init /\ [][Next]_vars /\ Fairness

-----------------------------------------------------------------------------

Line == [kind : Kinds, id : Ids, names : {None}]
          \cup [kind : {"cancel"}, id : Ids, names : Lines]

(* Types; an id names a request that was read and is not answered yet      *)
(* (track, untrack).                                                       *)
TypeOK ==
  /\ sent \in 0..MaxLines /\ taken \in 0..sent /\ turn \in 0..taken
  /\ line \in [Lines -> Line \cup {NoLine}]
  /\ \A n \in 1..sent : line[n] \in Line
  /\ live \in [Ids -> 0..taken]
  /\ \A id \in Ids : live[id] # None =>
       /\ Tracked(live[id]) /\ line[live[id]].id = id
       /\ live[id] \notin answered \cup dropped
  /\ running \subseteq 1..turn /\ answered \subseteq 1..turn /\ seen \subseteq answered
  /\ written \subseteq 1..turn
  /\ dropped \subseteq 1..taken /\ heard \subseteq 1..taken

(* A request whose cancel was read before its answer was written is never  *)
(* answered, although its id may name another request by then; and no      *)
(* other request is dropped (cancel, untrack, the queue's tail).           *)
CancelExact ==
  /\ heard \cap answered = {}
  /\ dropped = heard

(* No byte is written for a request whose cancel had been read             *)
(* (throwIfRequestCancelled at the commit points).                         *)
NoWriteAfterCancel ==
  [][\A n \in written' \ written : n \notin heard]_vars

(* Every request that is read is answered, or its cancel was read in time. *)
EveryAnswered ==
  \A n \in Lines : (n <= taken /\ IsRequest(n)) ~> (n \in answered \cup heard)

=============================================================================
