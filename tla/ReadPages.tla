------------------------------ MODULE ReadPages ------------------------------
(***************************************************************************)
(* Reads of one file: the ledger of served lines (state/session.ts), the   *)
(* paged read request and its cursor (state/readRequestStore.ts), the      *)
(* dispatch of a cursor (mcp/dispatch/dispatchRead.ts), the slice door     *)
(* (mcp/dispatch/read/slice.ts), the tail of the response funnel           *)
(* (protocol/emit.ts, protocol/readRequestContinuation.ts) and the marker  *)
(* by which a host says that its model forgot (state/compactionEpoch.ts).  *)
(*                                                                         *)
(* A client opens a request for every line under a budget, follows the     *)
(* cursor of each answer, and reads windows besides.  The server answers a *)
(* line with its bytes, or, when the ledger claims that the client holds   *)
(* it, with a receipt.  Spans are booked while a response is built and     *)
(* settled against what the finished response carries; the request's       *)
(* remainder is then computed from the ledger and the page's own account.  *)
(*                                                                         *)
(* Lines stand for the lines a request is owed, so comment blocks that its *)
(* representation elides are not among them.  A record of the store that   *)
(* holds the request is put under compare-and-swap; puts of one server are *)
(* synchronous, so a step of this module puts at most once.                *)
(***************************************************************************)
EXTENDS Integers, FiniteSets, Sequences, SequencesExt

CONSTANTS
  Calls,        \* requests the client has open at a time
  NLines,       \* length of the file
  Windows,      \* the windows that plain reads ask for
  Budgets,      \* the page sizes, in whole lines, that calls declare
  Forces,       \* whether a request may ask for bytes it already holds
  Eras,         \* whether the transport runs calls concurrently
  LowValue,     \* whether the file is a changelog or docs page that no task named
  MayThrow,     \* whether a handler may throw after it has booked
  MaxEvents     \* plain reads, duplicates, refusals, faults, compactions

Lines == 1..NLines

ASSUME PagesAssumption ==
  /\ NLines \in Nat \ {0}
  /\ MaxEvents \in Nat
  /\ Windows \subseteq (SUBSET Lines) \ {{}}
  /\ Budgets # {} /\ Budgets \subseteq Nat \ {0}
  /\ LowValue \in BOOLEAN /\ MayThrow \in BOOLEAN
  /\ Forces # {} /\ Forces \subseteq BOOLEAN
  /\ Eras # {} /\ Eras \subseteq BOOLEAN

VARIABLES
  concurrent,   \* the modern transports run calls side by side
  settled,      \* lines of the ledger's settled spans
  pending,      \* lines of the provisional spans, of every call in flight
  marker,       \* the compaction marker on disk
  seen,         \* the marker this server saw last
  request,      \* the stored read request
  call,         \* the calls in flight
  wire,         \* responses written and not yet read
  cursor,       \* the client's place in its request
  given,        \* cursors the client has been given
  held,         \* lines in the client's context
  got,          \* what the request may count: held when it began, or received since
  told,         \* lines the last answer said the client holds
  lost,         \* lines whose response was dropped or never built
  events

server == <<settled, pending, seen>>
client == <<cursor, given, held, got, told>>
vars == <<concurrent, settled, pending, marker, seen, request, call, wire,
          cursor, given, held, got, told, lost, events>>

None == -1        \* nothing answered yet
Finished == -2    \* the last answer carried no next
Withheld == -3    \* nor did it, but a limit that says it was capped

(* A page is chosen once for a cursor version; shipped is what its answers *)
(* carried.  Version 0 is the opening answer, to which no cursor leads.    *)
Page(version, plan, shipped) ==
  [version |-> version, plan |-> plan, shipped |-> shipped]

NewRequest(force, base) ==
  [version |-> 0, left |-> Lines, pages |-> <<>>, force |-> force, base |-> base]

(* at is the cursor of the call, page the page it serves, request its copy *)
(* of the stored request.                                                  *)
NoCall == [pc |-> "idle", kind |-> "plain", at |-> 0, page |-> 0,
           request |-> NewRequest(FALSE, {}), plan |-> {}, body |-> {},
           told |-> {}, cancelled |-> FALSE]

Claims == settled \cup pending

FirstOf(n, S) == {l \in S : Cardinality({m \in S : m <= l}) <= n}

Pages(r) == Range(r.pages)
Fixed(r, v) == \E p \in Pages(r) : p.version = v
PageAt(r, v) == CHOOSE p \in Pages(r) : p.version = v
Shipped(r) == UNION {p.shipped : p \in Pages(r)}

Event == events < MaxEvents /\ events' = events + 1

-----------------------------------------------------------------------------
(* The client.                                                             *)

Send(c, kind, v, force, plan) ==
  /\ call[c].pc = "idle"
  /\ call' = [call EXCEPT ![c] = [NoCall EXCEPT !.pc = "sent", !.kind = kind, !.at = v,
                                  !.request.force = force, !.plan = plan]]
  /\ UNCHANGED <<concurrent, server, marker, request, wire, cursor, given, held, told, lost>>

(* Calls that move the client on; it asks again for their answers when the *)
(* server dies, and not for those of a resent cursor or a plain window.    *)
Steps == {"open", "page"}

Awaiting ==
  \/ \E c \in Calls : call[c].pc # "idle" /\ call[c].kind \in Steps /\ ~call[c].cancelled
  \/ \E i \in DOMAIN wire : wire[i].kind \in Steps

OpenRequest(c) ==
  /\ cursor = None /\ ~Awaiting
  /\ \E f \in Forces :
       /\ Send(c, "open", 0, f, Lines)
       /\ got' = IF f THEN {} ELSE held
  /\ UNCHANGED events

FollowCursor(c) ==
  /\ cursor > 0 /\ ~Awaiting
  /\ Send(c, "page", cursor, FALSE, {})
  /\ UNCHANGED <<got, events>>

ResendCursor(c) ==
  /\ \E v \in given : Send(c, "again", v, FALSE, {})
  /\ Event
  /\ UNCHANGED got

ReadWindow(c) ==
  /\ \E W \in Windows : Send(c, "plain", 0, FALSE, W)
  /\ Event
  /\ UNCHANGED got

(* Answers are read in the order in which they were written.               *)
Receive ==
  /\ wire # <<>>
  /\ LET answer == Head(wire) IN
       /\ held' = held \cup answer.lines
       /\ got' = got \cup answer.lines
       /\ told' = answer.told
       /\ cursor' = IF answer.kind \in Steps THEN answer.next ELSE cursor
       /\ given' = given \cup ({answer.next} \ {None, Finished, Withheld})
  /\ wire' = Tail(wire)
  /\ UNCHANGED <<concurrent, server, marker, request, call, lost, events>>

(* The host compacts its conversation between calls and moves the marker.  *)
Compact ==
  /\ \A c \in Calls : call[c].pc = "idle"
  /\ wire = <<>>
  /\ marker' = marker + 1
  /\ held' = {} /\ told' = {}
  /\ Event
  /\ UNCHANGED <<concurrent, server, request, call, wire, cursor, given, got, lost>>

(* A cancel reaches the stdio transport out of band: a waiting call never  *)
(* runs, a running one is left to finish and its response is dropped.      *)
Cancel(c) ==
  /\ ~concurrent
  /\ call[c].pc # "idle" /\ ~call[c].cancelled
  /\ call' = [call EXCEPT ![c] = IF @.pc = "sent" THEN NoCall
                                 ELSE [@ EXCEPT !.cancelled = TRUE]]
  /\ Event
  /\ UNCHANGED <<concurrent, server, marker, request, wire, client, lost>>

-----------------------------------------------------------------------------
(* The server.                                                             *)

Resumes(c) == call[c].kind \in {"page", "again"}
Running == {c \in Calls : call[c].pc \notin {"idle", "sent"}}

(* The first sight of the marker is the baseline, taken by the first call. *)
Forgotten == seen # None /\ seen # marker
NoteCompactionMarkerOnce ==   \* forgets to clear
  /\ seen' = marker
  /\ UNCHANGED <<settled, pending>>

NoteCompactionMarker ==
  /\ seen' = marker
  /\ settled' = IF Forgotten THEN {} ELSE settled
  /\ pending' = IF Forgotten THEN {} ELSE pending

(* A call starts: the marker is looked at, and a cursor is resolved to a   *)
(* copy of the stored request.  A forced request counts from what the      *)
(* ledger claims now.                                                      *)
Start(c) ==
  /\ call[c].pc = "sent"
  /\ concurrent \/ Running = {}
  /\ NoteCompactionMarker
  /\ call' = [call EXCEPT
       ![c].pc = IF Resumes(c) THEN "resolved" ELSE "planned",
       ![c].request = IF Resumes(c) THEN request
                      ELSE [@ EXCEPT !.base = IF call[c].request.force THEN settled' \cup pending' ELSE {}]]
  /\ UNCHANGED <<concurrent, marker, request, client, wire, lost, events>>

(* The live record wins; what is added to it are pages that it lacks and   *)
(* the accounts of pages that both have, within their boundary.            *)
Rebase(mine, live) ==
  LET Merged(p) ==
        IF Fixed(mine, p.version)
          THEN [p EXCEPT !.shipped = @ \cup (p.plan \cap PageAt(mine, p.version).shipped)]
          ELSE p
      lacking == {i \in DOMAIN mine.pages : ~Fixed(live, mine.pages[i].version)}
      new == [n \in 1..Cardinality(lacking) |->
                mine.pages[CHOOSE i \in lacking : Cardinality({j \in lacking : j <= i}) = n]]
  IN  [live EXCEPT !.pages = [i \in DOMAIN live.pages |-> Merged(live.pages[i])] \o new]

(* The request as a put under compare-and-swap leaves it: on a conflict it *)
(* is rebased on the live record and put again.                            *)
OnLive(mine) == IF mine.version = request.version THEN mine ELSE Rebase(mine, request)

WithPage(r, v, plan) == [r EXCEPT !.pages = Append(@, Page(v, plan, {}))]
Put(r) == [r EXCEPT !.version = request.version + 1]

(* A page that is not fixed yet, at the boundary this call chose; unless   *)
(* the conflict shows that another call has fixed it.                      *)
FixNewOverwrites(r, v, plan) == Put(WithPage(r, v, plan))   \* puts its stale copy

FixNewTwice(r, v, plan) ==   \* does not look whether the page is there
  Put(WithPage(OnLive(r), v, plan))

FixNew(r, v, plan) ==
  LET live == OnLive(r) IN
  IF Fixed(live, v) THEN live ELSE Put(WithPage(live, v, plan))

ServesPage(c, r, p) ==
  /\ call' = [call EXCEPT ![c].pc = "planned", ![c].request = r,
                          ![c].page = p.version, ![c].plan = p.plan]
  /\ UNCHANGED <<concurrent, server, marker, client, wire, lost, events>>

(* The page of a cursor: the one its version names; else a prefix of what  *)
(* is left, within the budget; else, with nothing left, the last page.     *)
FixPage(c) ==
  LET r == call[c].request
      v == call[c].at
  IN  /\ call[c].pc = "resolved"
      /\ \/ /\ Fixed(r, v)
            /\ ServesPage(c, r, PageAt(r, v))
            /\ UNCHANGED request
         \/ /\ ~Fixed(r, v) /\ r.left = {}
            /\ ServesPage(c, r, Last(r.pages))
            /\ UNCHANGED request
         \/ /\ ~Fixed(r, v) /\ r.left # {}
            /\ \E b \in Budgets :
                 LET new == FixNew(r, v, FirstOf(b, r.left)) IN
                 /\ request' = IF new.version > request.version THEN new ELSE request
                 /\ ServesPage(c, new, PageAt(new, v))

(* Lines that the ledger claims are named as held, by the receipt of a     *)
(* whole window or as the prior part of a difference; windows of a batch   *)
(* are sent whole when any line of them is fresh.  What is sent is booked. *)
Unclaimed(W) == W \ Claims

Serve(c) ==
  LET W == call[c].plan
      fresh == Unclaimed(W)
  IN  /\ call[c].pc = "planned"
      /\ \E body \in IF call[c].request.force THEN {W}
                     ELSE IF fresh = {} THEN {{}} ELSE {fresh, W} :
           /\ pending' = pending \cup body
           /\ call' = [call EXCEPT ![c].pc = "booked", ![c].body = body,
                                   ![c].told = W \ body]
      /\ UNCHANGED <<concurrent, settled, seen, marker, request, client, wire, lost, events>>

(* A span stays booked as far as the response carries it.  The provisional *)
(* spans are the session's: those of other calls are judged as well.       *)
SettleBookings(sent) == pending \cap sent

(* What the response proves of the page: a receipt its whole plan, bodies  *)
(* what they carry and name as held, a refusal nothing.                    *)
AccountPlanned(c, sent) == call[c].plan             \* planned, not shipped

Account(c, sent) ==
  CASE call[c].body = {} -> call[c].plan
    [] call[c].body # {} /\ sent = {} -> {}
    [] OTHER -> call[c].plan \cap (sent \cup call[c].told)

(* The account replaces the page's earlier one; the opening answer becomes *)
(* page 0 unless it is a receipt.                                          *)
WithAccount(c, sent) ==
  LET r == call[c].request IN
  IF Resumes(c)
    THEN [r EXCEPT !.pages = [i \in DOMAIN @ |->
            IF @[i].version = call[c].page THEN [@[i] EXCEPT !.shipped = Account(c, sent)]
            ELSE @[i]]]
    ELSE IF call[c].body = {} THEN r
    ELSE [r EXCEPT !.pages = <<Page(0, Account(c, sent), Account(c, sent))>>]

(* What is left of the request: not claimed (by what the ledger learnt     *)
(* since, for a forced one) and not on any of its pages.                   *)
LeftOf(r, ledger) ==
  Lines \ ((IF r.force THEN ledger \ r.base ELSE ledger) \cup Shipped(r))

(* A refused opening settles nothing; a request that its first answer      *)
(* completes is never stored; any other is put, and its version minted.    *)
SettledRequestStale(c, sent) ==   \* settles its copy over the live record
  LET mine == WithAccount(c, sent) IN [mine EXCEPT !.left = LeftOf(mine, settled')]

SettledRequest(c, sent) ==
  LET mine == WithAccount(c, sent)
      base == IF Resumes(c) THEN OnLive(mine) ELSE mine
  IN  [base EXCEPT !.left = LeftOf(base, settled')]

Settles(c, sent) ==
  LET r == SettledRequest(c, sent) IN
  CASE call[c].kind = "plain" -> request
    [] call[c].kind = "open" ->
         IF (call[c].body # {} /\ sent = {}) \/ r.left = {} THEN request
         ELSE [r EXCEPT !.version = 1]
    [] Resumes(c) -> Put(r)

(* The next of a page of a chain may be withheld, never that of an opening *)
(* answer or of a refusal: when the task has spent its exploration budget, *)
(* on this and all its other reads, and the file is not what it looks for. *)
(* A new task begins with nothing spent.                                   *)
WithholdLowValuePageNext(c) == {FALSE, LowValue /\ Resumes(c)}

(* A refusal that names no next is followed by the same call.              *)
NextOf(c, sent, withheld) ==
  LET refused == call[c].body # {} /\ sent = {}
      left == SettledRequest(c, sent).left
  IN  CASE call[c].kind = "plain" -> None
        [] call[c].kind = "open" /\ refused -> None
        [] Resumes(c) /\ refused /\ left = {} -> call[c].at
        [] OTHER -> IF left = {} THEN Finished
                    ELSE IF withheld THEN Withheld ELSE request'.version

(* The tail of the funnel, in one turn: the response is cut, the ledger    *)
(* and the request are settled by it and the next cursor is minted.  The   *)
(* response to a cancelled call is then dropped.                           *)
Emit(c, sent, withheld) ==
  /\ call[c].pc = "booked"
  /\ settled' = settled \cup SettleBookings(sent)
  /\ pending' = {}
  /\ request' = Settles(c, sent)
  /\ call' = [call EXCEPT ![c] = NoCall]
  /\ IF call[c].cancelled
       THEN lost' = lost \cup sent \cup call[c].told /\ UNCHANGED wire
       ELSE /\ wire' = Append(wire, [kind |-> call[c].kind, lines |-> sent,
                                     told |-> IF call[c].body # {} /\ sent = {} THEN {}
                                              ELSE call[c].told,
                                     next |-> NextOf(c, sent, withheld)])
            /\ UNCHANGED lost
  /\ UNCHANGED <<concurrent, seen, marker, client>>

(* The whole body, or the prefix of it that the budget leaves.  Plain      *)
(* windows are small: none of them is cut.                                 *)
Answer(c) ==
  /\ \E n \in IF call[c].kind = "plain" THEN {NLines} ELSE 1..NLines,
        withheld \in WithholdLowValuePageNext(c) :
       Emit(c, FirstOf(n, call[c].body), withheld)
  /\ UNCHANGED events

(* Not even one line fits, or the funnel refuses for another reason.       *)
Refuse(c) ==
  /\ call[c].body # {}
  /\ Emit(c, {}, FALSE)
  /\ Event

(* The handler throws after it has booked: no funnel runs.                 *)
ThrowWedges(c) ==   \* the serial transport never takes another call
  /\ MayThrow /\ call[c].pc = "booked"
  /\ call' = [call EXCEPT ![c].pc = "thrown"]
  /\ lost' = lost \cup call[c].body
  /\ Event
  /\ UNCHANGED <<concurrent, server, marker, request, wire, client>>

Throw(c) ==
  /\ MayThrow /\ call[c].pc = "booked"
  /\ call' = [call EXCEPT ![c] = NoCall]
  /\ lost' = lost \cup call[c].body
  /\ Event
  /\ UNCHANGED <<concurrent, server, marker, request, wire, client>>

(* What a lost answer leaves undelivered: a plain window, which nobody     *)
(* asks for again, and the lines that a resent cursor was told of.  That   *)
(* receipt has credited its page in the store for lines which, perhaps,    *)
(* only another lost answer carried.                                       *)
Undelivered(answer) ==
  CASE answer.kind = "plain" -> answer.lines
    [] answer.kind = "again" -> answer.lines \cup answer.told
    [] OTHER -> {}

(* The server dies and is started again: the ledger was its memory, the    *)
(* request is in the store, and the client asks again for its own pages.   *)
Kill ==
  /\ settled' = {} /\ pending' = {} /\ seen' = None
  /\ call' = [c \in Calls |-> NoCall]
  /\ wire' = <<>>
  /\ lost' = lost \cup UNION {Undelivered(a) : a \in Range(wire)}
  /\ Event
  /\ UNCHANGED <<concurrent, marker, request, client>>

-----------------------------------------------------------------------------

Init ==
  /\ concurrent \in Eras
  /\ settled = {} /\ pending = {}
  /\ marker = 0 /\ seen = None
  /\ request = NewRequest(FALSE, {})
  /\ call = [c \in Calls |-> NoCall]
  /\ wire = <<>>
  /\ cursor = None /\ given = {}
  /\ held = {} /\ got = {} /\ told = {} /\ lost = {}
  /\ events = 0

Serves(c) == Start(c) \/ FixPage(c) \/ Serve(c) \/ Answer(c)
Follows(c) == OpenRequest(c) \/ FollowCursor(c)

Next ==
  \/ \E c \in Calls : \/ Follows(c) \/ ResendCursor(c) \/ ReadWindow(c) \/ Cancel(c)
                      \/ Serves(c) \/ Refuse(c) \/ Throw(c)
  \/ Receive \/ Compact \/ Kill

(* The event loop comes round to every call it has begun, the client reads *)
(* what was written and goes on with its request.  Nothing else need occur.*)
Fairness ==
  /\ \A c \in Calls : WF_vars(Serves(c))
  /\ WF_vars(Receive)
  /\ WF_vars(\E c \in Calls : Follows(c))

Spec == Init /\ [][Next]_vars /\ Fairness

-----------------------------------------------------------------------------

IsRequest(r) ==
  /\ r.version \in Nat /\ r.left \subseteq Lines /\ r.base \subseteq Lines
  /\ r.force \in BOOLEAN
  /\ \A p \in Pages(r) : p.version \in Nat /\ p.shipped \subseteq p.plan
                         /\ p.plan \subseteq Lines

(* Types; what was put on a page is within its boundary, one page per      *)
(* version, and no bytes are in flight twice on the serial transport       *)
(* (unionShipped, fixPage, legacyStdio's queue).                           *)
TypeOK ==
  /\ settled \subseteq Lines /\ pending \subseteq Lines
  /\ held \subseteq Lines /\ got \subseteq Lines /\ told \subseteq Lines /\ lost \subseteq Lines
  /\ cursor \in Nat \cup {None, Finished, Withheld} /\ \A v \in given : v \in Nat
  /\ seen \in {None} \cup 0..marker
  /\ IsRequest(request) /\ \A c \in Calls : IsRequest(call[c].request)
  /\ \A i, j \in DOMAIN request.pages :
       request.pages[i].version = request.pages[j].version => i = j
  /\ ~concurrent => Cardinality(Running) <= 1

(* A line that an answer names as held is in the client's context, unless  *)
(* the response that carried it was dropped or a handler threw after it    *)
(* had booked: spans are booked before delivery, cut with the response,    *)
(* kept across requests and forgotten with the client (session.ts          *)
(* servedRangeReceipt, settleServedCallBookings, compactionEpoch.ts).      *)
ReceiptTrue == ~concurrent => told \subseteq held \cup lost

(* The same without the exception: what session.ts says of its receipts,   *)
(* that every receipted line was on some response's wire, and              *)
(* requestCancellation.ts of a read whose response is dropped.             *)
ReceiptOnWire == ~concurrent => told \subseteq held

(* A request whose last answer carries no next has delivered every line,   *)
(* through cuts, refusals, resent cursors, compactions and restarts: D is  *)
(* computed from what shipped, never from what was planned (readRequest-   *)
(* Store.ts settledTargets, recordShippedPage).  A chain of a changelog    *)
(* whose next the funnel withheld, in a task that has spent its budget, is *)
(* the exception: it owes lines, and its last answer says it was capped.   *)
ChainComplete == ~concurrent /\ cursor = Finished => Lines \subseteq got \cup lost

(* Calls that serve one cursor serve one page: the loser of a race adopts  *)
(* the boundary of the winner (fixPage).                                   *)
PagesAgree ==
  \A c \in Calls : Resumes(c) /\ call[c].pc \in {"planned", "booked"} =>
    Fixed(request, call[c].page) /\ PageAt(request, call[c].page).plan = call[c].plan

(* A page once fixed is neither moved nor forgotten while the request goes *)
(* on, whoever else puts the record (fixPage, rebaseOnLive).               *)
PagesStay ==
  [][request'.version > request.version =>
       \A p \in Pages(request) : \E q \in Pages(request') :
         q.version = p.version /\ q.plan = p.plan]_vars

(* A client that follows its cursors comes to the end of its request, or   *)
(* to the page at which the next is withheld: no page is offered for ever  *)
(* (settledTargets subtracts what shipped).                                *)
ComesToAnEnd == <>(cursor \in {Finished, Withheld})

=============================================================================
