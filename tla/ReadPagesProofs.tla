-------------------------- MODULE ReadPagesProofs --------------------------
(***************************************************************************)
(* What read requests with cursors promise, for any set of lines, any      *)
(* number of calls, pages and tokens, through cuts, refusals, throws,      *)
(* cancels, compactions and deaths of the server.                          *)
(*                                                                         *)
(* The argument is in three layers.  PageInv, of every transport: a call   *)
(* works on a copy of the stored record that only what pages shipped can   *)
(* have left behind, so the page it serves is the stored one, and a put    *)
(* moves no boundary.  Receipts, of the serial transport: what the ledger  *)
(* claims to have been served has left the server, or is in the response   *)
(* being made.  Chain, of the serial transport: what pages other than the  *)
(* one the client asks for have shipped, the client has; so has it all     *)
(* that an opening read took off the request, as it asks for nothing it    *)
(* was told of and misses.  When nothing is left and no page is out, the   *)
(* lines are therefore delivered.                                          *)
(***************************************************************************)
EXTENDS ReadPages, FiniteSetTheorems, SequenceTheorems, TLAPS

-----------------------------------------------------------------------------
(* The invariant of the stored request and its pages *)

Kinds == {"open", "page", "again", "plain"}
Phases == {"idle", "sent", "resolved", "planned", "booked"}
Places == Nat \cup {None, Finished, Withheld}

PageRec == [version : Nat, plan : SUBSET Lines, shipped : SUBSET Lines]
RequestRec == [version : Nat, left : SUBSET Lines, pages : Seq(PageRec), force : BOOLEAN,
               base : SUBSET Lines]
CallRec == [pc : Phases, kind : Kinds, at : Nat, page : Nat, request : RequestRec,
            plan : SUBSET Lines, body : SUBSET Lines, told : SUBSET Lines, cancelled : BOOLEAN]
AnswerRec == [kind : Kinds, lines : SUBSET Lines, told : SUBSET Lines, next : Places]

Types ==
  /\ concurrent \in BOOLEAN
  /\ settled \subseteq Lines /\ pending \subseteq Lines
  /\ held \subseteq Lines /\ got \subseteq Lines /\ told \subseteq Lines /\ lost \subseteq Lines
  /\ marker \in Nat /\ seen \in {None} \cup 0..marker
  /\ cursor \in Places /\ given \subseteq Nat \ {0}
  /\ request \in RequestRec
  /\ call \in [Calls -> CallRec]
  /\ wire \in Seq(AnswerRec)

Active(c) == call[c].pc # "idle"
Opens(c) == call[c].kind = "open"
Moves(c) == call[c].kind \in Steps

\* What a call is in each phase.
CallOf(c) ==
  /\ ~Active(c) => call[c] = NoCall
  /\ call[c].pc = "resolved" => Resumes(c)
  /\ ~Resumes(c) \/ call[c].pc = "sent" =>
       call[c].request.version = 0 /\ call[c].request.pages = <<>> /\ call[c].request.left = Lines
  /\ Active(c) /\ Resumes(c) => call[c].at > 0
  /\ Active(c) /\ Opens(c) => call[c].plan = Lines
  /\ call[c].pc # "booked" => call[c].body = {} /\ call[c].told = {}
  /\ call[c].pc = "booked" =>
       call[c].body \subseteq call[c].plan /\ call[c].told = call[c].plan \ call[c].body
  /\ call[c].cancelled => ~concurrent /\ c \in Running

\* The client has one step of its request under way, and the serial transport
\* one call.
Turns ==
  /\ ~concurrent => \A c, d \in Running : c = d
  /\ \A c, d \in Calls :
       Active(c) /\ Active(d) /\ Moves(c) /\ Moves(d) /\ ~call[c].cancelled /\ ~call[d].cancelled
         => c = d
  /\ \A i, j \in DOMAIN wire : wire[i].kind \in Steps /\ wire[j].kind \in Steps => i = j
  /\ \A i \in DOMAIN wire : wire[i].kind \in Steps => \A c \in Calls : Active(c) => ~Moves(c)

\* Where the client is in its request: nothing is opened twice, and no cursor
\* is brought before it was given.
Place ==
  /\ cursor # 0
  /\ given # {} => cursor # None
  /\ \A c \in Calls : Active(c) /\ Resumes(c) => cursor # None
  /\ \A c \in Calls : Active(c) /\ call[c].kind = "page" => call[c].at = cursor
  /\ \A i \in DOMAIN wire :
       /\ wire[i].next # 0
       /\ wire[i].kind = "plain" => wire[i].next = None
       /\ wire[i].kind \in {"page", "again"} => cursor # None /\ wire[i].next # None
  /\ cursor # None =>
       /\ \A c \in Calls : Active(c) => ~Opens(c)
       /\ \A i \in DOMAIN wire : wire[i].kind # "open"
  /\ cursor = Finished =>
       /\ \A c \in Calls : Active(c) => ~Moves(c)
       /\ \A i \in DOMAIN wire : wire[i].kind \notin Steps

Distinct(r) == \A i, j \in DOMAIN r.pages : r.pages[i].version = r.pages[j].version => i = j
Within(r) == \A i \in DOMAIN r.pages : r.pages[i].shipped \subseteq r.pages[i].plan

\* The same pages with the same boundaries, and of the same request.
Paged(r, s) ==
  /\ r.force = s.force /\ r.base = s.base
  /\ Len(r.pages) = Len(s.pages)
  /\ \A i \in DOMAIN s.pages :
       r.pages[i].version = s.pages[i].version /\ r.pages[i].plan = s.pages[i].plan
Alike(r, s) == r.left = s.left /\ Paged(r, s)

\* Page v is one of r, with this boundary.
Has(r, v, plan) == \E i \in DOMAIN r.pages : r.pages[i].version = v /\ r.pages[i].plan = plan

\* The record was the stored one, but for what its pages shipped.
CopyOf(r) ==
  /\ r.version <= request.version
  /\ r.version = request.version => Alike(r, request)
  /\ \A i \in DOMAIN r.pages : Has(request, r.pages[i].version, r.pages[i].plan)
  /\ r.left = {} => r.pages # <<>>
  /\ Distinct(r) /\ Within(r)

Copied(c) ==
  Resumes(c) /\ c \in Running =>
    /\ CopyOf(call[c].request)
    /\ call[c].pc # "resolved" => Has(call[c].request, call[c].page, call[c].plan)

Stored ==
  /\ Distinct(request) /\ Within(request)
  /\ request.version = 0 => request.pages = <<>>
  /\ request.left = {} => request.pages # <<>>

PageInv ==
  /\ Types
  /\ \A c \in Calls : CallOf(c) /\ Copied(c)
  /\ Turns
  /\ Place
  /\ Stored

-----------------------------------------------------------------------------
(* Operators on requests *)

\* One field of a record changes.
LEMMA NewVersion ==
  ASSUME NEW r \in RequestRec, NEW n \in Nat, NEW f, f = [r EXCEPT !.version = n]
  PROVE  /\ f \in RequestRec /\ f.version = n /\ f.pages = r.pages /\ f.left = r.left
         /\ f.force = r.force /\ f.base = r.base
BY DEF RequestRec

LEMMA NewPages ==
  ASSUME NEW r \in RequestRec, NEW n \in Seq(PageRec), NEW f, f = [r EXCEPT !.pages = n]
  PROVE  /\ f \in RequestRec /\ f.version = r.version /\ f.pages = n /\ f.left = r.left
         /\ f.force = r.force /\ f.base = r.base
BY DEF RequestRec

LEMMA FixedIs ==
  ASSUME NEW r \in RequestRec, NEW v
  PROVE  Fixed(r, v) <=> \E i \in DOMAIN r.pages : r.pages[i].version = v
BY DEF Fixed, Pages, Range

LEMMA PageAtIs ==
  ASSUME NEW r \in RequestRec, NEW v, Fixed(r, v)
  PROVE  \E i \in DOMAIN r.pages : PageAt(r, v) = r.pages[i] /\ r.pages[i].version = v
<1>1. \E p \in Pages(r) : p.version = v
  BY DEF Fixed
<1>2. PageAt(r, v) \in Pages(r) /\ PageAt(r, v).version = v
  BY <1>1 DEF PageAt
<1> QED
  BY <1>2 DEF Pages, Range

\* Nothing is added to the live record but accounts, as it has all pages.
LEMMA RebaseIs ==
  ASSUME NEW mine \in RequestRec, NEW live \in RequestRec, Within(live),
         \A i \in DOMAIN mine.pages : Has(live, mine.pages[i].version, mine.pages[i].plan)
  PROVE  /\ Rebase(mine, live) \in RequestRec
         /\ Rebase(mine, live).version = live.version
         /\ Alike(Rebase(mine, live), live) /\ Within(Rebase(mine, live))
<1> DEFINE Merged(p) ==
             IF Fixed(mine, p.version)
               THEN [p EXCEPT !.shipped = @ \cup (p.plan \cap PageAt(mine, p.version).shipped)]
               ELSE p
           merged == [i \in DOMAIN live.pages |-> Merged(live.pages[i])]
           lacking == {i \in DOMAIN mine.pages : ~Fixed(live, mine.pages[i].version)}
           new == [n \in 1..Cardinality(lacking) |->
                     mine.pages[CHOOSE i \in lacking : Cardinality({j \in lacking : j <= i}) = n]]
<1>1. Rebase(mine, live) = [live EXCEPT !.pages = merged \o new]
  BY DEF Rebase
<1>2. lacking = {}
  BY FixedIs DEF Has
<1>3. new = <<>>
  <2>1. Cardinality(lacking) = 0
    BY <1>2, FS_EmptySet
  <2>2. 1..0 = {}
    OBVIOUS
  <2> HIDE DEF lacking
  <2>3. DOMAIN new = {}
    BY <2>1, <2>2
  <2> QED
    BY <2>1, <2>2
<1>4. ASSUME NEW i \in DOMAIN live.pages
      PROVE  /\ Merged(live.pages[i]) \in PageRec
             /\ Merged(live.pages[i]).version = live.pages[i].version
             /\ Merged(live.pages[i]).plan = live.pages[i].plan
             /\ Merged(live.pages[i]).shipped \subseteq Merged(live.pages[i]).plan
  <2>1. live.pages[i] \in PageRec /\ live.pages[i].shipped \subseteq live.pages[i].plan
    BY DEF RequestRec, Within
  <2> DEFINE e == live.pages[i]
             S == PageAt(mine, e.version).shipped
  <2> HIDE DEF S
  <2>2. Merged(e) = IF Fixed(mine, e.version) THEN [e EXCEPT !.shipped = e.shipped \cup (e.plan \cap S)] ELSE e
    BY DEF S
  <2> HIDE DEF Merged, e
  <2> QED
    BY <2>1, <2>2 DEF PageRec, e
<1> HIDE DEF Merged
<1>5. merged \in Seq(PageRec) /\ Len(merged) = Len(live.pages)
  <2>1. live.pages \in Seq(PageRec) /\ DOMAIN live.pages = 1..Len(live.pages) /\ Len(live.pages) \in Nat
    BY DEF RequestRec
  <2>2. merged \in [1..Len(live.pages) -> PageRec]
    BY <1>4, <2>1
  <2> QED
    BY <2>1, <2>2, IsASeq, LenProperties
<1>6. merged \o new = merged
  BY <1>3, <1>5, ConcatEmptySeq
<1>7. Rebase(mine, live) = [live EXCEPT !.pages = merged]
  BY <1>1, <1>6
<1>8. \A i \in DOMAIN live.pages : merged[i] = Merged(live.pages[i])
  OBVIOUS
<1>9. DOMAIN merged = DOMAIN live.pages
  OBVIOUS
<1> HIDE DEF merged
<1>10. /\ Rebase(mine, live) \in RequestRec /\ Rebase(mine, live).pages = merged
       /\ Rebase(mine, live).version = live.version /\ Rebase(mine, live).left = live.left
       /\ Rebase(mine, live).force = live.force /\ Rebase(mine, live).base = live.base
  BY <1>5, <1>7 DEF RequestRec
<1>11. \A i \in DOMAIN live.pages :
         /\ merged[i].version = live.pages[i].version /\ merged[i].plan = live.pages[i].plan
         /\ merged[i].shipped \subseteq merged[i].plan
  BY <1>4, <1>8
<1>12. Alike(Rebase(mine, live), live)
  BY <1>5, <1>10, <1>11 DEF Alike, Paged
<1>13. Within(Rebase(mine, live))
  BY <1>9, <1>10, <1>11 DEF Within
<1> QED
  BY <1>10, <1>12, <1>13

LEMMA PagesOf ==
  ASSUME NEW r \in RequestRec
  PROVE  /\ r.pages \in Seq(PageRec) /\ Len(r.pages) \in Nat /\ DOMAIN r.pages = 1..Len(r.pages)
         /\ \A i \in DOMAIN r.pages : r.pages[i] \in PageRec
BY DEF RequestRec

\* A record with the pages of a copy is one.
LEMMA CopyAlike ==
  ASSUME request \in RequestRec, NEW r \in RequestRec, CopyOf(r),
         NEW s \in RequestRec, s.version = r.version,
         Alike(s, r), Within(s)
  PROVE  CopyOf(s)
<1>1. DOMAIN s.pages = DOMAIN r.pages /\ DOMAIN r.pages = 1..Len(r.pages)
  BY PagesOf DEF Alike, Paged
<1>2. Distinct(s)
  BY <1>1 DEF CopyOf, Alike, Paged, Distinct
<1>3. s.left = {} => s.pages # <<>>
  BY PagesOf, EmptySeq DEF CopyOf, Alike, Paged
<1>4. \A i \in DOMAIN s.pages : Has(request, s.pages[i].version, s.pages[i].plan)
  BY <1>1 DEF CopyOf, Alike, Paged
<1>5. s.version = request.version => Alike(s, request)
  <2>1. ASSUME Alike(r, request) PROVE Alike(s, request)
    <3>1. DOMAIN request.pages = DOMAIN r.pages
      BY <2>1, PagesOf DEF Alike, Paged
    <3>2. Len(r.pages) = Len(request.pages) /\ Len(s.pages) = Len(request.pages)
      BY <2>1 DEF Alike, Paged
    <3> QED
      BY <2>1, <3>1, <3>2 DEF Alike, Paged
  <2> QED
    BY <2>1 DEF CopyOf
<1> QED
  BY <1>2, <1>3, <1>4, <1>5 DEF CopyOf

\* What a put finds on the live record, if it goes over it or is rebased.
LEMMA OnLiveIs ==
  ASSUME request \in RequestRec, Stored, NEW mine \in RequestRec, CopyOf(mine)
  PROVE  /\ OnLive(mine) \in RequestRec /\ OnLive(mine).version = request.version
         /\ Alike(OnLive(mine), request) /\ Within(OnLive(mine))
<1>1. CASE mine.version = request.version
  BY <1>1 DEF OnLive, CopyOf
<1>2. CASE mine.version # request.version
  <2>1. OnLive(mine) = Rebase(mine, request)
    BY <1>2 DEF OnLive
  <2> QED
    BY <2>1, RebaseIs DEF CopyOf, Stored
<1> QED
  BY <1>1, <1>2

LEMMA AccountWithin ==
  ASSUME NEW c, NEW sent
  PROVE  Account(c, sent) \subseteq call[c].plan
BY DEF Account

\* The account of a page changes no page.
LEMMA WithAccountIs ==
  ASSUME NEW c \in Calls, NEW sent, Resumes(c), call[c].request \in RequestRec,
         call[c].plan \subseteq Lines,
         Distinct(call[c].request), Within(call[c].request),
         Has(call[c].request, call[c].page, call[c].plan)
  PROVE  /\ WithAccount(c, sent) \in RequestRec
         /\ WithAccount(c, sent).version = call[c].request.version
         /\ Alike(WithAccount(c, sent), call[c].request)
         /\ Within(WithAccount(c, sent))
         /\ \A i \in DOMAIN call[c].request.pages :
              WithAccount(c, sent).pages[i].shipped =
                IF call[c].request.pages[i].version = call[c].page THEN Account(c, sent)
                ELSE call[c].request.pages[i].shipped
<1> DEFINE r == call[c].request
           a == Account(c, sent)
           New(i) == IF r.pages[i].version = call[c].page THEN [r.pages[i] EXCEPT !.shipped = a]
                     ELSE r.pages[i]
           pages == [i \in DOMAIN r.pages |-> New(i)]
<1>1. WithAccount(c, sent) = [r EXCEPT !.pages = pages]
  BY DEF WithAccount
<1>2. a \subseteq call[c].plan
  BY AccountWithin
<1>3. r \in RequestRec
  OBVIOUS
<1> HIDE DEF a
<1>4. ASSUME NEW i \in DOMAIN r.pages
      PROVE  /\ New(i) \in PageRec /\ New(i).version = r.pages[i].version
             /\ New(i).plan = r.pages[i].plan
             /\ New(i).shipped = IF r.pages[i].version = call[c].page THEN a ELSE r.pages[i].shipped
             /\ New(i).shipped \subseteq New(i).plan
  <2> DEFINE e == r.pages[i]
  <2>1. e \in PageRec /\ e.shipped \subseteq e.plan
    BY PagesOf DEF Within
  <2>2. e.version = call[c].page => e.plan = call[c].plan
    BY DEF Has, Distinct
  <2>3. New(i) = IF e.version = call[c].page THEN [e EXCEPT !.shipped = a] ELSE e
    OBVIOUS
  <2> HIDE DEF e, r, New
  <2>4. /\ New(i) \in PageRec /\ New(i).version = e.version /\ New(i).plan = e.plan
        /\ New(i).shipped = IF e.version = call[c].page THEN a ELSE e.shipped
        /\ New(i).shipped \subseteq New(i).plan
    BY <1>2, <2>1, <2>2, <2>3 DEF PageRec
  <2> QED
    BY <2>4 DEF e
<1> HIDE DEF r, New
<1>5. pages \in Seq(PageRec) /\ Len(pages) = Len(r.pages) /\ DOMAIN pages = DOMAIN r.pages
      /\ \A i \in DOMAIN r.pages : pages[i] = New(i)
  <2>1. DOMAIN r.pages = 1..Len(r.pages) /\ Len(r.pages) \in Nat
    BY <1>3, PagesOf
  <2>2. pages \in [1..Len(r.pages) -> PageRec]
    BY <1>4, <2>1
  <2> QED
    BY <2>1, <2>2
<1> HIDE DEF pages
<1>6. /\ WithAccount(c, sent) \in RequestRec /\ WithAccount(c, sent).pages = pages
      /\ WithAccount(c, sent).version = r.version /\ WithAccount(c, sent).left = r.left
      /\ WithAccount(c, sent).force = r.force /\ WithAccount(c, sent).base = r.base
  BY <1>1, <1>3, <1>5 DEF RequestRec
<1>7. Alike(WithAccount(c, sent), r)
  BY <1>4, <1>5, <1>6 DEF Alike, Paged
<1>8. Within(WithAccount(c, sent))
  BY <1>4, <1>5, <1>6 DEF Within
<1> QED
  BY <1>4, <1>5, <1>6, <1>7, <1>8 DEF r, a

\* A put under compare-and-swap settles what is left and moves no page.
LEMMA SettledIs ==
  ASSUME PageInv, NEW c \in Calls, Resumes(c), call[c].pc = "booked", NEW sent
  PROVE  /\ SettledRequest(c, sent) \in RequestRec
         /\ SettledRequest(c, sent).version = request.version
         /\ Paged(SettledRequest(c, sent), request) /\ Within(SettledRequest(c, sent))
         /\ SettledRequest(c, sent).pages # <<>>
         /\ SettledRequest(c, sent).left = LeftOf(SettledRequest(c, sent), settled')
<1> DEFINE mine == WithAccount(c, sent)
           base == OnLive(mine)
           new == SettledRequest(c, sent)
<1>1. call[c] \in CallRec /\ request \in RequestRec /\ Stored
  BY DEF PageInv, Types
<1>2. CopyOf(call[c].request) /\ Has(call[c].request, call[c].page, call[c].plan)
  BY DEF PageInv, Copied, Running
<1>3. call[c].request \in RequestRec /\ call[c].plan \subseteq Lines
  BY <1>1 DEF CallRec
<1>4. mine \in RequestRec /\ mine.version = call[c].request.version
      /\ Alike(mine, call[c].request) /\ Within(mine)
  BY <1>2, <1>3, WithAccountIs DEF CopyOf
<1> HIDE DEF mine
<1>5. CopyOf(mine)
  BY <1>1, <1>2, <1>3, <1>4, CopyAlike
<1>6. base \in RequestRec /\ base.version = request.version /\ Alike(base, request) /\ Within(base)
  BY <1>1, <1>4, <1>5, OnLiveIs
<1>7. new = [base EXCEPT !.left = LeftOf(base, settled')]
  BY DEF SettledRequest, mine
<1> HIDE DEF base, new
<1>8. LeftOf(base, settled') \subseteq Lines
  BY DEF LeftOf
<1>9. /\ new \in RequestRec /\ new.version = base.version /\ new.pages = base.pages
      /\ new.force = base.force /\ new.base = base.base /\ new.left = LeftOf(base, settled')
  BY <1>6, <1>7, <1>8 DEF RequestRec
<1>10. LeftOf(base, settled') = LeftOf(new, settled')
  BY <1>9 DEF LeftOf, Shipped, Pages
<1>11. Paged(new, request)
  BY <1>6, <1>9 DEF Alike, Paged
<1>12. Within(new)
  BY <1>6, <1>9 DEF Within
<1>13. new.pages # <<>>
  <2>1. PICK i \in DOMAIN call[c].request.pages : call[c].request.pages[i].version = call[c].page
    BY <1>2 DEF Has
  <2>2. \E j \in DOMAIN request.pages : TRUE
    BY <1>2, <2>1 DEF CopyOf, Has
  <2>3. Len(request.pages) \in Nat \ {0}
    BY <1>1, <2>2, PagesOf
  <2> QED
    BY <1>9, <1>11, <2>3, EmptySeq DEF Paged
<1> QED
  BY <1>6, <1>9, <1>10, <1>11, <1>12, <1>13 DEF new

\* The record that the answer to c leaves: a put over the stored one that
\* moves no page, the first record of a request, or the stored one.
LEMMA EmitPuts ==
  ASSUME PageInv, NEW c \in Calls, NEW sent \in SUBSET Lines,
         NEW withheld \in WithholdLowValuePageNext(c), Emit(c, sent, withheld)
  PROVE  /\ request' \in RequestRec /\ Stored'
         /\ call[c].kind = "plain" => request' = request
         /\ Opens(c) => \/ request' = request
                        \/ request'.version = 1
         /\ Resumes(c) => request'.version = request.version + 1 /\ Paged(request', request)
<1>1. call[c] \in CallRec /\ request \in RequestRec /\ Stored /\ call[c].pc = "booked"
      /\ request' = Settles(c, sent) /\ request.version \in Nat
  BY DEF PageInv, Types, Emit, RequestRec
<1>2. CASE call[c].kind = "plain"
  <2>1. request' = request
    BY <1>1, <1>2 DEF Settles, Resumes
  <2> QED
    BY <1>1, <1>2, <2>1 DEF Opens, Resumes, Stored, Distinct, Within
<1>3. CASE Resumes(c)
  <2> DEFINE new == SettledRequest(c, sent)
  <2>1. /\ new \in RequestRec /\ new.version = request.version
        /\ Paged(new, request) /\ Within(new) /\ new.pages # <<>>
    BY <1>1, <1>3, SettledIs
  <2>2. request' = [new EXCEPT !.version = request.version + 1]
    BY <1>1, <1>3 DEF Settles, Put, Resumes
  <2> HIDE DEF new
  <2>3. /\ request' \in RequestRec /\ request'.version = request.version + 1
        /\ request'.pages = new.pages /\ request'.force = new.force /\ request'.base = new.base
    BY <1>1, <2>1, <2>2, NewVersion
  <2>4. Paged(request', request)
    BY <2>1, <2>3 DEF Paged
  <2>5. Within(request')
    BY <2>1, <2>3 DEF Within
  <2>6. DOMAIN request'.pages = DOMAIN request.pages
    BY <1>1, <2>3, <2>4, PagesOf DEF Paged
  <2>7. Distinct(request')
    BY <1>1, <2>4, <2>6 DEF Distinct, Stored, Paged
  <2>8. Stored'
    BY <1>1, <2>1, <2>3, <2>5, <2>7 DEF Stored, Distinct, Within
  <2> QED
    BY <1>3, <2>3, <2>4, <2>8 DEF Opens, Resumes
<1>4. CASE Opens(c)
  <2> DEFINE k == call[c].request
             a == Account(c, sent)
             mine == WithAccount(c, sent)
             new == SettledRequest(c, sent)
  <2>1. ~Resumes(c) /\ k \in RequestRec /\ k.pages = <<>> /\ k.version = 0
    BY <1>1, <1>4 DEF Opens, Resumes, PageInv, CallOf, CallRec
  <2>2. a \subseteq Lines
    BY <1>1, AccountWithin DEF CallRec
  <2>3. mine = (IF call[c].body = {} THEN k ELSE [k EXCEPT !.pages = <<Page(0, a, a)>>])
    BY <2>1 DEF WithAccount
  <2>4. new = [mine EXCEPT !.left = LeftOf(mine, settled')]
    BY <2>1 DEF SettledRequest
  <2>5. request' = request \/ (new.left # {} /\ request' = [new EXCEPT !.version = 1])
    BY <1>1, <1>4, <2>1 DEF Settles, Opens
  <2>6. Page(0, a, a) \in PageRec /\ Page(0, a, a).shipped = Page(0, a, a).plan
    BY <2>2 DEF Page, PageRec
  <2>7. LeftOf(mine, settled') \subseteq Lines
    BY DEF LeftOf
  <2> HIDE DEF a, k
  <2>8. mine \in RequestRec /\ (mine.pages = <<>> \/ mine.pages = <<Page(0, a, a)>>)
    <3>1. CASE call[c].body = {}
      BY <2>1, <2>3, <3>1
    <3>2. CASE call[c].body # {}
      <4>0. <<Page(0, a, a)>> \in Seq(PageRec)
        BY <2>6
      <4>1. PICK s \in Seq(PageRec) : s = <<Page(0, a, a)>>
        BY <4>0
      <4>2. mine = [k EXCEPT !.pages = s]
        BY <2>3, <3>2, <4>1
      <4> HIDE DEF mine
      <4>3. mine \in RequestRec /\ mine.pages = s
        BY <2>1, <4>2, NewPages
      <4> QED
        BY <4>1, <4>3
    <3> QED
      BY <3>1, <3>2
  <2> HIDE DEF mine
  <2>9. new \in RequestRec /\ new.pages = mine.pages
    BY <2>4, <2>7, <2>8 DEF RequestRec
  <2> HIDE DEF new
  <2>10. ASSUME new.left # {}, request' = [new EXCEPT !.version = 1]
         PROVE  request' \in RequestRec /\ request'.version = 1 /\ Stored'
    <3>1. /\ request' \in RequestRec /\ request'.version = 1 /\ request'.pages = new.pages
          /\ request'.left = new.left
      BY <2>9, <2>10, NewVersion
    <3>2. \A i \in DOMAIN request'.pages : i = 1 /\ request'.pages[i] = Page(0, a, a)
      BY <2>8, <2>9, <3>1
    <3> HIDE <2>10
    <3>3. Distinct(request') /\ Within(request')
      BY <2>6, <3>2 DEF Distinct, Within
    <3> QED
      BY <2>10, <3>1, <3>3 DEF Stored, Distinct, Within
  <2>11. ASSUME request' = request PROVE Stored'
    BY <1>1, <2>11 DEF Stored, Distinct, Within
  <2> QED
    BY <1>1, <1>4, <2>1, <2>5, <2>10, <2>11 DEF Opens
<1> QED
  BY <1>1, <1>2, <1>3, <1>4 DEF CallRec, Kinds, Opens, Resumes

\* The page of a cursor is fixed on the record as it is now.
LEMMA FixNewIs ==
  ASSUME request \in RequestRec, Stored, NEW r \in RequestRec, CopyOf(r),
         NEW v \in Nat, NEW plan \in SUBSET Lines, NEW new, new = FixNew(r, v, plan)
  PROVE  /\ new \in RequestRec /\ Within(new) /\ Distinct(new)
         /\ Fixed(new, v) /\ new.left = request.left
         /\ \/ /\ new.version = request.version /\ Alike(new, request)
            \/ /\ new.version = request.version + 1 /\ new.pages # <<>>
               /\ new.force = request.force /\ new.base = request.base
               /\ Len(new.pages) = Len(request.pages) + 1
               /\ \A i \in DOMAIN request.pages :
                    /\ new.pages[i].version = request.pages[i].version
                    /\ new.pages[i].plan = request.pages[i].plan
<1>1. PICK live : live = OnLive(r)
  OBVIOUS
<1>2. /\ live \in RequestRec /\ live.version = request.version /\ Alike(live, request)
      /\ Within(live)
  BY <1>1, OnLiveIs
<1>3. /\ request.version \in Nat /\ DOMAIN request.pages = 1..Len(request.pages)
      /\ DOMAIN live.pages = 1..Len(live.pages)
      /\ Len(live.pages) = Len(request.pages) /\ Len(live.pages) \in Nat
  BY <1>2, PagesOf DEF Alike, Paged, RequestRec
<1>4. Distinct(live)
  BY <1>2, <1>3 DEF Distinct, Stored, Alike, Paged
<1>5. CASE Fixed(live, v)
  <2>1. new = live
    BY <1>1, <1>5 DEF FixNew
  <2> QED
    BY <1>2, <1>4, <1>5, <2>1 DEF Alike
<1>6. CASE ~Fixed(live, v)
  <2> DEFINE e == Page(v, plan, {})
             pages == Append(live.pages, e)
             with == WithPage(live, v, plan)
  <2>1. e \in PageRec /\ e.version = v /\ e.shipped = {}
    BY DEF Page, PageRec
  <2>2. with = [live EXCEPT !.pages = pages]
    BY DEF WithPage
  <2>3. new = [with EXCEPT !.version = request.version + 1]
    BY <1>1, <1>6 DEF FixNew, Put
  <2> HIDE DEF e
  <2>4. live.pages \in Seq(PageRec)
    BY <1>2, PagesOf
  <2>5. /\ pages \in Seq(PageRec) /\ pages # <<>> /\ Len(pages) = Len(live.pages) + 1
        /\ \A i \in 1..Len(live.pages) : pages[i] = live.pages[i]
        /\ pages[Len(live.pages) + 1] = e
        /\ DOMAIN pages = 1..Len(live.pages) + 1
    BY <2>1, <2>4, AppendProperties, LenProperties
  <2> HIDE DEF pages, with
  <2>6. /\ with \in RequestRec /\ with.pages = pages /\ with.left = live.left
        /\ with.force = live.force /\ with.base = live.base
    BY <1>2, <2>2, <2>5, NewPages
  <2>7. /\ new \in RequestRec /\ new.version = request.version + 1 /\ new.pages = pages
        /\ new.left = live.left /\ new.force = live.force /\ new.base = live.base
    <3>1. request.version + 1 \in Nat
      BY <1>3
    <3> QED
      BY <2>3, <2>6, <3>1, NewVersion
  <2>8. \A i \in 1..Len(live.pages) : live.pages[i].version # v
    BY <1>2, <1>3, <1>6, FixedIs
  <2>9. Distinct(new)
    <3>1. ASSUME NEW i \in 1..Len(live.pages) + 1, NEW j \in 1..Len(live.pages) + 1,
                 pages[i].version = pages[j].version
          PROVE  i = j
      <4>1. CASE i \in 1..Len(live.pages) /\ j \in 1..Len(live.pages)
        BY <1>3, <1>4, <2>5, <3>1, <4>1 DEF Distinct
      <4>2. CASE i = Len(live.pages) + 1 /\ j \in 1..Len(live.pages)
        BY <2>1, <2>5, <2>8, <3>1, <4>2
      <4>3. CASE j = Len(live.pages) + 1 /\ i \in 1..Len(live.pages)
        BY <2>1, <2>5, <2>8, <3>1, <4>3
      <4> QED
        BY <1>3, <4>1, <4>2, <4>3
    <3> QED
      BY <2>5, <2>7, <3>1 DEF Distinct
  <2>10. Within(new)
    BY <1>2, <1>3, <2>1, <2>5, <2>7 DEF Within
  <2>11. Fixed(new, v)
    BY <1>3, <2>1, <2>5, <2>7, FixedIs
  <2> QED
    BY <1>2, <1>3, <2>5, <2>7, <2>9, <2>10, <2>11 DEF Alike, Paged
<1> QED
  BY <1>5, <1>6

-----------------------------------------------------------------------------
(* What a step leaves alone *)

\* The stored request is the same, or a later one with all its pages.
Grows ==
  \/ request' = request
  \/ /\ request'.version > request.version
     /\ \A v, plan : Has(request, v, plan) => Has(request', v, plan)

LEMMA CopyStays ==
  ASSUME NEW r \in RequestRec, CopyOf(r), request \in RequestRec, request' \in RequestRec, Grows
  PROVE  CopyOf(r)'
<1>1. CASE request' = request
  BY <1>1 DEF CopyOf, Alike, Paged, Has, Distinct, Within
<1>2. CASE request' # request
  <2>1. request.version \in Nat /\ request'.version \in Nat /\ r.version \in Nat
    BY DEF RequestRec
  <2>2. r.version < request'.version
    BY <1>2, <2>1 DEF CopyOf, Grows
  <2>3. \A i \in DOMAIN r.pages : Has(request', r.pages[i].version, r.pages[i].plan)
    BY <1>2 DEF CopyOf, Grows
  <2> QED
    BY <2>1, <2>2, <2>3 DEF CopyOf, Distinct, Within, Has
<1> QED
  BY <1>1, <1>2

LEMMA CopiedStays ==
  ASSUME NEW d \in Calls, Copied(d), call[d] \in CallRec, call'[d] = call[d],
         request \in RequestRec, request' \in RequestRec, Grows
  PROVE  Copied(d)'
<1> SUFFICES ASSUME (Resumes(d) /\ d \in Running)'
             PROVE  /\ CopyOf(call[d].request)'
                    /\ (call[d].pc # "resolved" => Has(call[d].request, call[d].page, call[d].plan))'
  BY DEF Copied
<1>1. PICK r : r = call[d].request
  OBVIOUS
<1>2. Resumes(d) /\ d \in Running
  BY DEF Resumes, Running
<1>3. r \in RequestRec /\ CopyOf(r)
  BY <1>1, <1>2 DEF CallRec, Copied
<1>4. CopyOf(r)'
  BY <1>3, CopyStays
<1>5. r = call'[d].request
  BY <1>1
<1>6. CopyOf(call[d].request)'
  BY <1>4, <1>5 DEF CopyOf
<1> QED
  BY <1>2, <1>6 DEF Copied, Has

LEMMA CallStays ==
  ASSUME NEW d \in Calls, CallOf(d), call'[d] = call[d], concurrent' = concurrent
  PROVE  CallOf(d)'
BY DEF CallOf, Active, Resumes, Opens, Running

LEMMA StoredStays ==
  ASSUME Stored, request' = request
  PROVE  Stored'
BY DEF Stored, Distinct, Within

\* One call changes.
LEMMA OneCall ==
  ASSUME call \in [Calls -> CallRec], NEW c \in Calls, NEW k \in CallRec,
         call' = [call EXCEPT ![c] = k]
  PROVE  /\ call' \in [Calls -> CallRec] /\ call'[c] = k
         /\ \A d \in Calls \ {c} : call'[d] = call[d]
OBVIOUS

LEMMA NoCallIs ==
  /\ NoCall \in CallRec /\ NoCall.pc = "idle" /\ NoCall.kind = "plain"
  /\ NoCall.body = {} /\ NoCall.told = {} /\ ~NoCall.cancelled
  /\ NoCall.request = NewRequest(FALSE, {})
BY DEF NoCall, CallRec, Phases, Kinds, NewRequest, RequestRec

LEMMA NewRequestIs ==
  ASSUME NEW force \in BOOLEAN
  PROVE  /\ NewRequest(force, {}) \in RequestRec
         /\ NewRequest(force, {}).version = 0 /\ NewRequest(force, {}).pages = <<>>
         /\ NewRequest(force, {}).left = Lines /\ NewRequest(force, {}).force = force
         /\ NewRequest(force, {}).base = {}
BY DEF NewRequest, RequestRec

\* An idle call is as it should be.
LEMMA IdleIs ==
  ASSUME NEW c \in Calls, call[c] = NoCall
  PROVE  CallOf(c) /\ Copied(c) /\ ~Active(c) /\ c \notin Running
<1>1. /\ call[c].pc = "idle" /\ call[c].kind = "plain" /\ call[c].request = NewRequest(FALSE, {})
      /\ call[c].body = {} /\ call[c].told = {} /\ ~call[c].cancelled
  BY NoCallIs
<1>2. call[c].request.version = 0 /\ call[c].request.pages = <<>> /\ call[c].request.left = Lines
  BY <1>1, NewRequestIs
<1>3. ~Active(c) /\ c \notin Running
  BY <1>1 DEF Active, Running
<1> QED
  BY <1>1, <1>2, <1>3 DEF CallOf, Copied

LEMMA IdleNow ==
  ASSUME NEW c \in Calls, call'[c] = NoCall
  PROVE  CallOf(c)' /\ Copied(c)' /\ ~Active(c)' /\ c \notin Running'
<1>1. /\ call'[c].pc = "idle" /\ call'[c].kind = "plain" /\ call'[c].request = NewRequest(FALSE, {})
      /\ call'[c].body = {} /\ call'[c].told = {} /\ ~call'[c].cancelled
  BY NoCallIs
<1>2. call'[c].request.version = 0 /\ call'[c].request.pages = <<>> /\ call'[c].request.left = Lines
  BY <1>1, NewRequestIs
<1>3. ~Active(c)' /\ c \notin Running'
  BY <1>1 DEF Active, Running
<1> QED
  BY <1>1, <1>2, <1>3 DEF CallOf, Copied

-----------------------------------------------------------------------------
(* The client's steps *)

LEMMA SendIs ==
  ASSUME Types, NEW c \in Calls, NEW kind \in Kinds, NEW v \in Nat, NEW force \in BOOLEAN,
         NEW plan \in SUBSET Lines, Send(c, kind, v, force, plan)
  PROVE  /\ call' \in [Calls -> CallRec]
         /\ \A d \in Calls \ {c} : call'[d] = call[d]
         /\ call[c].pc = "idle" /\ call'[c].pc = "sent" /\ call'[c].kind = kind
         /\ call'[c].at = v /\ call'[c].plan = plan /\ call'[c].body = {} /\ call'[c].told = {}
         /\ ~call'[c].cancelled /\ call'[c].request = NewRequest(force, {})
<1> DEFINE k == [NoCall EXCEPT !.pc = "sent", !.kind = kind, !.at = v,
                               !.request.force = force, !.plan = plan]
<1>1. call \in [Calls -> CallRec] /\ call' = [call EXCEPT ![c] = k] /\ call[c].pc = "idle"
  BY DEF Send, Types
<1>2. /\ k.pc = "sent" /\ k.kind = kind /\ k.at = v /\ k.page = 0 /\ k.plan = plan
      /\ k.body = {} /\ k.told = {} /\ ~k.cancelled
      /\ k.request = [NewRequest(FALSE, {}) EXCEPT !.force = force]
  BY DEF NoCall
<1>3. k.request = NewRequest(force, {})
  BY <1>2 DEF NewRequest
<1>4. k \in [pc : Phases, kind : Kinds, at : Nat, page : Nat, request : {NewRequest(force, {})},
             plan : SUBSET Lines, body : SUBSET Lines, told : SUBSET Lines, cancelled : BOOLEAN]
  BY <1>3 DEF NoCall, Phases
<1>5. k \in CallRec
  BY <1>4, NewRequestIs DEF CallRec
<1> HIDE DEF k
<1> QED
  BY <1>1, <1>2, <1>3, <1>5, OneCall

LEMMA SendKeeps ==
  ASSUME PageInv, NEW c \in Calls, NEW kind \in Kinds, NEW v \in Nat, NEW force \in BOOLEAN,
         NEW plan \in SUBSET Lines, Send(c, kind, v, force, plan), got' \subseteq Lines,
         kind \in Steps => ~Awaiting,
         kind = "open" => cursor = None /\ plan = Lines,
         kind \in {"page", "again"} => cursor # None /\ v > 0,
         kind = "page" => v = cursor
  PROVE  PageInv'
<1>0. Types
  BY DEF PageInv
<1>1. /\ call' \in [Calls -> CallRec]
      /\ \A d \in Calls \ {c} : call'[d] = call[d]
      /\ call[c].pc = "idle" /\ call'[c].pc = "sent" /\ call'[c].kind = kind
      /\ call'[c].at = v /\ call'[c].plan = plan /\ call'[c].body = {} /\ call'[c].told = {}
      /\ ~call'[c].cancelled /\ call'[c].request = NewRequest(force, {})
  BY <1>0, SendIs
<1>2. /\ concurrent' = concurrent /\ settled' = settled /\ pending' = pending /\ seen' = seen
      /\ marker' = marker /\ request' = request /\ wire' = wire /\ cursor' = cursor
      /\ given' = given /\ held' = held /\ told' = told /\ lost' = lost
  BY DEF Send, server
<1>3. Types /\ Turns /\ Place /\ Stored /\ \A d \in Calls : CallOf(d) /\ Copied(d)
  BY DEF PageInv
<1>4. Types'
  BY <1>1, <1>2, <1>3 DEF Types
<1>5. Stored'
  BY <1>2, <1>3, StoredStays
<1>6. ASSUME NEW d \in Calls PROVE CallOf(d)' /\ Copied(d)'
  <2>1. CASE d # c
    <3>1. call'[d] = call[d] /\ call[d] \in CallRec /\ request \in RequestRec
      BY <1>1, <1>3, <2>1 DEF Types
    <3> QED
      BY <1>2, <1>3, <3>1, CallStays, CopiedStays DEF Grows
  <2>2. CASE d = c
    <3>1. CallOf(c)'
      BY <1>1, NewRequestIs DEF CallOf, Active, Resumes, Opens, Running
    <3>2. Copied(c)'
      BY <1>1 DEF Copied, Running
    <3> QED
      BY <2>2, <3>1, <3>2
  <2> QED
    BY <2>1, <2>2
<1>7. Running' = Running
  BY <1>1 DEF Running
<1>8. \A d \in Calls \ {c} : (Active(d)' <=> Active(d)) /\ (Moves(d)' <=> Moves(d))
                             /\ (Opens(d)' <=> Opens(d)) /\ (Resumes(d)' <=> Resumes(d))
  BY <1>1 DEF Active, Moves, Opens, Resumes
<1>9. Active(c)' /\ (Moves(c)' <=> kind \in Steps) /\ (Opens(c)' <=> kind = "open")
      /\ (Resumes(c)' <=> kind \in {"page", "again"})
  BY <1>1 DEF Active, Moves, Opens, Resumes
<1>10. kind \in Steps => /\ \A d \in Calls : Active(d) /\ Moves(d) => call[d].cancelled
                         /\ \A i \in DOMAIN wire : wire[i].kind \notin Steps
  BY DEF Awaiting, Active, Moves
<1>11. Turns'
  BY <1>1, <1>2, <1>3, <1>7, <1>8, <1>9, <1>10 DEF Turns
<1>12. kind \in Steps => cursor # Finished
  BY DEF Steps, Finished, Withheld, None
<1>13. Place'
  BY <1>1, <1>2, <1>3, <1>8, <1>9, <1>10, <1>12 DEF Place, Steps
<1> QED
  BY <1>4, <1>5, <1>6, <1>11, <1>13 DEF PageInv

LEMMA ClientSends ==
  ASSUME PageInv, NEW c \in Calls,
         OpenRequest(c) \/ FollowCursor(c) \/ ResendCursor(c) \/ ReadWindow(c)
  PROVE  PageInv'
<1>1. Types /\ Place
  BY DEF PageInv
<1>2. got \subseteq Lines /\ held \subseteq Lines /\ cursor \in Places /\ given \subseteq Nat \ {0}
  BY <1>1 DEF Types
<1>3. CASE OpenRequest(c)
  <2>1. PICK f \in Forces : Send(c, "open", 0, f, Lines) /\ got' = (IF f THEN {} ELSE held)
    BY <1>3 DEF OpenRequest
  <2>2. f \in BOOLEAN /\ cursor = None /\ ~Awaiting
    BY <1>3, PagesAssumption DEF OpenRequest
  <2>3. got' \subseteq Lines
    BY <1>2, <2>1
  <2> QED
    BY <2>1, <2>2, <2>3, SendKeeps DEF Kinds
<1>4. CASE FollowCursor(c)
  <2>1. Send(c, "page", cursor, FALSE, {}) /\ ~Awaiting /\ cursor > 0 /\ got' = got
    BY <1>4 DEF FollowCursor
  <2>2. cursor \in Nat /\ cursor # None
    BY <1>2, <2>1 DEF Places, None, Finished, Withheld
  <2>3. PICK v \in Nat : v = cursor /\ Send(c, "page", v, FALSE, {})
    BY <2>1, <2>2
  <2>4. "page" \in Kinds /\ {} \in SUBSET Lines /\ FALSE \in BOOLEAN /\ v > 0
    BY <2>1, <2>3 DEF Kinds
  <2> QED
    BY <1>2, <2>1, <2>2, <2>3, <2>4, SendKeeps
<1>5. CASE ResendCursor(c)
  <2>1. PICK v \in given : Send(c, "again", v, FALSE, {}) /\ got' = got
    BY <1>5 DEF ResendCursor
  <2>2. v \in Nat /\ v > 0 /\ cursor # None
    BY <1>1, <1>2, <2>1 DEF Place
  <2>3. "again" \notin Steps /\ "again" \in Kinds /\ {} \in SUBSET Lines /\ FALSE \in BOOLEAN
    BY DEF Steps, Kinds
  <2> QED
    BY <1>2, <2>1, <2>2, <2>3, SendKeeps
<1>6. CASE ReadWindow(c)
  <2>1. PICK W \in Windows : Send(c, "plain", 0, FALSE, W) /\ got' = got
    BY <1>6 DEF ReadWindow
  <2>2. W \in SUBSET Lines
    BY PagesAssumption
  <2>3. "plain" \notin Steps /\ "plain" \in Kinds
    BY DEF Steps, Kinds
  <2> QED
    BY <1>2, <2>1, <2>2, <2>3, SendKeeps
<1> QED
  BY <1>3, <1>4, <1>5, <1>6

\* A call goes on.
LEMMA GoesOn ==
  ASSUME PageInv, NEW c \in Calls,
         \A d \in Calls \ {c} : call'[d] = call[d],
         Active(c), Active(c)', call'[c].kind = call[c].kind, call'[c].at = call[c].at,
         call[c].cancelled => call'[c].cancelled,
         ~concurrent => \A d, e \in Running' : d = e,
         concurrent' = concurrent, wire' = wire, cursor' = cursor, given' = given
  PROVE  Turns' /\ Place'
<1>1. Turns /\ Place
  BY DEF PageInv
<1>2. \A d \in Calls : (Active(d)' <=> Active(d)) /\ (Moves(d)' <=> Moves(d))
                       /\ (Opens(d)' <=> Opens(d)) /\ (Resumes(d)' <=> Resumes(d))
                       /\ call'[d].kind = call[d].kind /\ call'[d].at = call[d].at
                       /\ (call[d].cancelled => call'[d].cancelled)
  BY DEF Active, Moves, Opens, Resumes
<1>3. Turns'
  BY <1>1, <1>2 DEF Turns
<1>4. Place'
  BY <1>1, <1>2 DEF Place
<1> QED
  BY <1>3, <1>4

\* A call is over and nothing was written.
LEMMA IsOver ==
  ASSUME PageInv, NEW c \in Calls,
         \A d \in Calls \ {c} : call'[d] = call[d], call'[c] = NoCall,
         concurrent' = concurrent, wire' = wire, cursor' = cursor, given' = given
  PROVE  Turns' /\ Place'
<1>1. Turns /\ Place
  BY DEF PageInv
<1>2. ~Active(c)' /\ c \notin Running'
  BY IdleNow
<1>3. \A d \in Calls \ {c} : (Active(d)' <=> Active(d)) /\ (Moves(d)' <=> Moves(d))
                             /\ (Opens(d)' <=> Opens(d)) /\ (Resumes(d)' <=> Resumes(d))
  BY DEF Active, Moves, Opens, Resumes
<1>4. Running' \subseteq Running
  BY <1>2 DEF Running
<1>5. Turns'
  BY <1>1, <1>2, <1>3, <1>4 DEF Turns
<1>6. Place'
  BY <1>1, <1>2, <1>3 DEF Place
<1> QED
  BY <1>5, <1>6

LEMMA CancelKeeps ==
  ASSUME PageInv, NEW c \in Calls, Cancel(c)
  PROVE  PageInv'
<1>1. Types /\ Turns /\ Stored /\ \A d \in Calls : CallOf(d) /\ Copied(d)
  BY DEF PageInv
<1>2. /\ concurrent' = concurrent /\ settled' = settled /\ pending' = pending /\ seen' = seen
      /\ marker' = marker /\ request' = request /\ wire' = wire /\ cursor' = cursor
      /\ given' = given /\ held' = held /\ told' = told /\ lost' = lost /\ got' = got
      /\ ~concurrent /\ Active(c)
  BY DEF Cancel, server, client, Active
<1> DEFINE k == IF call[c].pc = "sent" THEN NoCall ELSE [call[c] EXCEPT !.cancelled = TRUE]
<1>3. call \in [Calls -> CallRec] /\ call[c] \in CallRec /\ call' = [call EXCEPT ![c] = k]
  BY <1>1 DEF Types, Cancel
<1>4. k \in CallRec
  BY <1>3, NoCallIs DEF CallRec
<1>5. call' \in [Calls -> CallRec] /\ call'[c] = k /\ \A d \in Calls \ {c} : call'[d] = call[d]
  BY <1>3, <1>4, OneCall
<1>6. Types'
  BY <1>1, <1>2, <1>5 DEF Types
<1>7. Stored'
  BY <1>1, <1>2, StoredStays
<1>8. ASSUME NEW d \in Calls, d # c PROVE CallOf(d)' /\ Copied(d)'
  <2>1. call'[d] = call[d] /\ call[d] \in CallRec /\ request \in RequestRec
    BY <1>1, <1>5, <1>8 DEF Types
  <2> QED
    BY <1>1, <1>2, <2>1, CallStays, CopiedStays DEF Grows
<1>9. CASE call[c].pc = "sent"
  <2>1. call'[c] = NoCall
    BY <1>5, <1>9
  <2> QED
    BY <1>2, <1>5, <1>6, <1>7, <1>8, <2>1, IdleNow, IsOver DEF PageInv
<1>10. CASE call[c].pc # "sent"
  <2>1. /\ call'[c].pc = call[c].pc /\ call'[c].kind = call[c].kind /\ call'[c].at = call[c].at
        /\ call'[c].page = call[c].page /\ call'[c].request = call[c].request
        /\ call'[c].plan = call[c].plan /\ call'[c].body = call[c].body
        /\ call'[c].told = call[c].told /\ call'[c].cancelled
    BY <1>3, <1>5, <1>10 DEF CallRec
  <2> HIDE DEF k
  <2>2. c \in Running /\ Running' = Running /\ Active(c)'
    BY <1>2, <1>5, <1>10, <2>1 DEF Running, Active
  <2>3. CallOf(c)'
    BY <1>1, <1>2, <2>1, <2>2 DEF CallOf, Active, Resumes, Opens
  <2>4. Copied(c)'
    BY <1>1, <1>2, <2>1, <2>2
       DEF Copied, Resumes, CopyOf, Alike, Paged, Has, Distinct, Within
  <2>5. Turns' /\ Place'
    BY <1>1, <1>2, <1>5, <2>1, <2>2, GoesOn DEF Turns
  <2> QED
    BY <1>6, <1>7, <1>8, <2>3, <2>4, <2>5 DEF PageInv
<1> QED
  BY <1>9, <1>10

LEMMA ThrowKeeps ==
  ASSUME PageInv, NEW c \in Calls, Throw(c)
  PROVE  PageInv'
<1>1. Types /\ Stored /\ \A d \in Calls : CallOf(d) /\ Copied(d)
  BY DEF PageInv
<1>2. /\ concurrent' = concurrent /\ settled' = settled /\ pending' = pending /\ seen' = seen
      /\ marker' = marker /\ request' = request /\ wire' = wire /\ cursor' = cursor
      /\ given' = given /\ held' = held /\ told' = told /\ got' = got
      /\ lost' = lost \cup call[c].body /\ call' = [call EXCEPT ![c] = NoCall]
  BY DEF Throw, server, client
<1>3. call' \in [Calls -> CallRec] /\ call'[c] = NoCall /\ \A d \in Calls \ {c} : call'[d] = call[d]
  BY <1>1, <1>2, NoCallIs, OneCall DEF Types
<1>4. Types'
  BY <1>1, <1>2, <1>3 DEF Types, CallRec
<1>5. Stored'
  BY <1>1, <1>2, StoredStays
<1>6. ASSUME NEW d \in Calls, d # c PROVE CallOf(d)' /\ Copied(d)'
  <2>1. call'[d] = call[d] /\ call[d] \in CallRec /\ request \in RequestRec
    BY <1>1, <1>3, <1>6 DEF Types
  <2> QED
    BY <1>1, <1>2, <2>1, CallStays, CopiedStays DEF Grows
<1> QED
  BY <1>2, <1>3, <1>4, <1>5, <1>6, IdleNow, IsOver DEF PageInv

-----------------------------------------------------------------------------
(* The server's steps *)

\* The copy that Start makes.
LEMMA CopyNow ==
  ASSUME request \in RequestRec, Stored, request' = request
  PROVE  CopyOf(request)'
<1>1. request.version \in Nat
  BY DEF RequestRec
<1> QED
  BY <1>1 DEF CopyOf, Alike, Paged, Has, Stored, Distinct, Within

LEMMA StartIs ==
  ASSUME Types, NEW c \in Calls, Start(c)
  PROVE  /\ call' \in [Calls -> CallRec] /\ \A d \in Calls \ {c} : call'[d] = call[d]
         /\ call[c].pc = "sent" /\ call'[c].pc = (IF Resumes(c) THEN "resolved" ELSE "planned")
         /\ call'[c].kind = call[c].kind /\ call'[c].at = call[c].at
         /\ call'[c].plan = call[c].plan /\ call'[c].body = call[c].body
         /\ call'[c].told = call[c].told /\ (call'[c].cancelled <=> call[c].cancelled)
         /\ Resumes(c) => call'[c].request = request
         /\ ~Resumes(c) =>
              /\ call'[c].request.version = call[c].request.version
              /\ call'[c].request.pages = call[c].request.pages
              /\ call'[c].request.left = call[c].request.left
              /\ call'[c].request.force = call[c].request.force
              /\ call'[c].request.base =
                   IF call[c].request.force THEN settled' \cup pending' ELSE {}
         /\ seen' = marker /\ (concurrent \/ Running = {})
         /\ settled' \subseteq settled /\ pending' \subseteq pending
<1> DEFINE b == IF call[c].request.force THEN settled' \cup pending' ELSE {}
           r == IF Resumes(c) THEN request ELSE [call[c].request EXCEPT !.base = b]
           k == [call[c] EXCEPT !.pc = IF Resumes(c) THEN "resolved" ELSE "planned", !.request = r]
<1>1. /\ call \in [Calls -> CallRec] /\ call[c] \in CallRec /\ request \in RequestRec
      /\ call[c].request \in RequestRec /\ settled \subseteq Lines /\ pending \subseteq Lines
  BY DEF Types, CallRec
<1>2. seen' = marker /\ settled' \subseteq settled /\ pending' \subseteq pending
  BY DEF Start, NoteCompactionMarker
<1>3. call' = [call EXCEPT ![c] = k]
  BY <1>1 DEF Start
<1>4. b \subseteq Lines
  BY <1>1, <1>2
<1> HIDE DEF b
<1>5. /\ r \in RequestRec /\ (Resumes(c) => r = request)
      /\ (~Resumes(c) =>
            /\ r.version = call[c].request.version /\ r.pages = call[c].request.pages
            /\ r.left = call[c].request.left /\ r.force = call[c].request.force /\ r.base = b)
  BY <1>1, <1>4 DEF RequestRec
<1> HIDE DEF r
<1>6. /\ k \in CallRec /\ k.pc = (IF Resumes(c) THEN "resolved" ELSE "planned")
      /\ k.kind = call[c].kind /\ k.at = call[c].at
      /\ k.plan = call[c].plan /\ k.body = call[c].body
      /\ k.told = call[c].told /\ (k.cancelled <=> call[c].cancelled) /\ k.request = r
  <2>1. (IF Resumes(c) THEN "resolved" ELSE "planned") \in Phases
    BY DEF Phases
  <2>2. PICK p \in Phases : p = IF Resumes(c) THEN "resolved" ELSE "planned"
    BY <2>1
  <2>3. k = [call[c] EXCEPT !.pc = p, !.request = r]
    BY <2>2
  <2> HIDE DEF k
  <2>4. call[c] \in CallRec /\ r \in RequestRec
    BY <1>1, <1>5
  <2>5. /\ k \in CallRec /\ k.pc = p /\ k.kind = call[c].kind /\ k.at = call[c].at
        /\ k.plan = call[c].plan /\ k.body = call[c].body
        /\ k.told = call[c].told /\ (k.cancelled <=> call[c].cancelled) /\ k.request = r
    BY <2>3, <2>4 DEF CallRec
  <2> QED
    BY <2>2, <2>5
<1> HIDE DEF k
<1>7. call' \in [Calls -> CallRec] /\ call'[c] = k /\ \A d \in Calls \ {c} : call'[d] = call[d]
  BY <1>1, <1>3, <1>6, OneCall
<1>8. call[c].pc = "sent" /\ (concurrent \/ Running = {})
  BY DEF Start
<1> QED
  BY <1>2, <1>5, <1>6, <1>7, <1>8 DEF b

LEMMA StartKeeps ==
  ASSUME PageInv, NEW c \in Calls, Start(c)
  PROVE  PageInv'
<1>1. Types /\ Turns /\ Stored /\ \A d \in Calls : CallOf(d) /\ Copied(d)
  BY DEF PageInv
<1>2. /\ concurrent' = concurrent /\ marker' = marker /\ request' = request /\ wire' = wire
      /\ cursor' = cursor /\ given' = given /\ held' = held /\ told' = told /\ lost' = lost
      /\ got' = got
  BY DEF Start, client
<1>3. /\ call' \in [Calls -> CallRec] /\ \A d \in Calls \ {c} : call'[d] = call[d]
      /\ call[c].pc = "sent" /\ call'[c].pc = (IF Resumes(c) THEN "resolved" ELSE "planned")
      /\ call'[c].kind = call[c].kind /\ call'[c].at = call[c].at
      /\ call'[c].plan = call[c].plan /\ call'[c].body = call[c].body
      /\ call'[c].told = call[c].told /\ (call'[c].cancelled <=> call[c].cancelled)
      /\ Resumes(c) => call'[c].request = request
      /\ ~Resumes(c) =>
           /\ call'[c].request.version = call[c].request.version
           /\ call'[c].request.pages = call[c].request.pages
           /\ call'[c].request.left = call[c].request.left
      /\ seen' = marker /\ (concurrent \/ Running = {})
      /\ settled' \subseteq settled /\ pending' \subseteq pending
  BY <1>1, StartIs
<1>4. Types'
  <2>1. marker \in 0..marker
    BY <1>1 DEF Types
  <2> QED
    BY <1>1, <1>2, <1>3, <2>1 DEF Types
<1>5. Stored'
  BY <1>1, <1>2, StoredStays
<1>6. ASSUME NEW d \in Calls, d # c PROVE CallOf(d)' /\ Copied(d)'
  <2>1. call'[d] = call[d] /\ call[d] \in CallRec /\ request \in RequestRec
    BY <1>1, <1>3, <1>6 DEF Types
  <2> QED
    BY <1>1, <1>2, <2>1, CallStays, CopiedStays DEF Grows
<1>7. Active(c) /\ Active(c)' /\ (Resumes(c)' <=> Resumes(c)) /\ (Opens(c)' <=> Opens(c))
      /\ c \in Running' /\ Running' = Running \cup {c}
  BY <1>3 DEF Active, Resumes, Opens, Running
<1>8. CallOf(c)'
  BY <1>1, <1>3, <1>7 DEF CallOf, Active, Running
<1>9. Copied(c)'
  <2>1. CASE Resumes(c)
    <3>1. CopyOf(request)' /\ call'[c].request = request'
      BY <1>1, <1>2, <1>3, <2>1, CopyNow DEF Types
    <3>2. CopyOf(call[c].request)'
      BY <3>1 DEF CopyOf
    <3> QED
      BY <1>3, <2>1, <3>2 DEF Copied
  <2>2. CASE ~Resumes(c)
    BY <1>7, <2>2 DEF Copied
  <2> QED
    BY <2>1, <2>2
<1>10. Turns' /\ Place'
  BY <1>1, <1>2, <1>3, <1>7, GoesOn
<1> QED
  BY <1>4, <1>5, <1>6, <1>8, <1>9, <1>10 DEF PageInv

LEMMA ServeIs ==
  ASSUME Types, NEW c \in Calls, Serve(c)
  PROVE  \E body \in SUBSET Lines :
           /\ call' \in [Calls -> CallRec] /\ \A d \in Calls \ {c} : call'[d] = call[d]
           /\ call[c].pc = "planned" /\ call'[c].pc = "booked"
           /\ call'[c].kind = call[c].kind /\ call'[c].at = call[c].at
           /\ call'[c].page = call[c].page /\ call'[c].request = call[c].request
           /\ call'[c].plan = call[c].plan /\ call'[c].body = body
           /\ call'[c].told = call[c].plan \ body /\ (call'[c].cancelled <=> call[c].cancelled)
           /\ pending' = pending \cup body /\ body \subseteq call[c].plan
           /\ call[c].plan \ body \subseteq Claims
           /\ call[c].request.force => body = call[c].plan
<1>1. call \in [Calls -> CallRec] /\ call[c] \in CallRec /\ call[c].plan \subseteq Lines
  BY DEF Types, CallRec
<1> DEFINE W == call[c].plan
           fresh == Unclaimed(W)
<1>2. PICK body \in IF call[c].request.force THEN {W}
                    ELSE IF fresh = {} THEN {{}} ELSE {fresh, W} :
        /\ pending' = pending \cup body
        /\ call' = [call EXCEPT ![c].pc = "booked", ![c].body = body, ![c].told = W \ body]
  BY DEF Serve
<1>3. body \subseteq call[c].plan /\ call[c].plan \ body \subseteq Claims
      /\ (call[c].request.force => body = call[c].plan)
  BY <1>2 DEF Unclaimed
<1> DEFINE k == [call[c] EXCEPT !.pc = "booked", !.body = body, !.told = call[c].plan \ body]
<1>4. call' = [call EXCEPT ![c] = k]
  BY <1>1, <1>2
<1>5. /\ k \in CallRec /\ k.pc = "booked" /\ k.kind = call[c].kind /\ k.at = call[c].at
      /\ k.page = call[c].page /\ k.request = call[c].request /\ k.plan = call[c].plan
      /\ k.body = body /\ k.told = call[c].plan \ body /\ (k.cancelled <=> call[c].cancelled)
  BY <1>1, <1>3 DEF CallRec, Phases
<1> HIDE DEF k
<1>6. call' \in [Calls -> CallRec] /\ call'[c] = k /\ \A d \in Calls \ {c} : call'[d] = call[d]
  BY <1>1, <1>4, <1>5, OneCall
<1>7. call[c].pc = "planned" /\ body \in SUBSET Lines
  BY <1>1, <1>3 DEF Serve
<1> QED
  BY <1>2, <1>3, <1>5, <1>6, <1>7

LEMMA ServeKeeps ==
  ASSUME PageInv, NEW c \in Calls, Serve(c)
  PROVE  PageInv'
<1>1. Types /\ Turns /\ Stored /\ \A d \in Calls : CallOf(d) /\ Copied(d)
  BY DEF PageInv
<1>2. /\ concurrent' = concurrent /\ marker' = marker /\ request' = request /\ wire' = wire
      /\ cursor' = cursor /\ given' = given /\ held' = held /\ told' = told /\ lost' = lost
      /\ got' = got /\ settled' = settled /\ seen' = seen
  BY DEF Serve, client
<1>3. PICK body \in SUBSET Lines :
        /\ call' \in [Calls -> CallRec] /\ \A d \in Calls \ {c} : call'[d] = call[d]
        /\ call[c].pc = "planned" /\ call'[c].pc = "booked"
        /\ call'[c].kind = call[c].kind /\ call'[c].at = call[c].at
        /\ call'[c].page = call[c].page /\ call'[c].request = call[c].request
        /\ call'[c].plan = call[c].plan /\ call'[c].body = body
        /\ call'[c].told = call[c].plan \ body /\ (call'[c].cancelled <=> call[c].cancelled)
        /\ pending' = pending \cup body /\ body \subseteq call[c].plan
  BY <1>1, ServeIs
<1>4. Types'
  BY <1>1, <1>2, <1>3 DEF Types
<1>5. Stored'
  BY <1>1, <1>2, StoredStays
<1>6. ASSUME NEW d \in Calls, d # c PROVE CallOf(d)' /\ Copied(d)'
  <2>1. call'[d] = call[d] /\ call[d] \in CallRec /\ request \in RequestRec
    BY <1>1, <1>3, <1>6 DEF Types
  <2> QED
    BY <1>1, <1>2, <2>1, CallStays, CopiedStays DEF Grows
<1>7. /\ Active(c) /\ Active(c)' /\ (Resumes(c)' <=> Resumes(c)) /\ (Opens(c)' <=> Opens(c))
      /\ c \in Running /\ Running' = Running
  BY <1>3 DEF Active, Resumes, Opens, Running
<1>8. CallOf(c)'
  BY <1>1, <1>2, <1>3, <1>7 DEF CallOf
<1>9. Copied(c)'
  BY <1>1, <1>2, <1>3, <1>7
     DEF Copied, CopyOf, Alike, Paged, Has, Distinct, Within
<1>10. Turns' /\ Place'
  BY <1>1, <1>2, <1>3, <1>7, GoesOn DEF Turns
<1> QED
  BY <1>4, <1>5, <1>6, <1>8, <1>9, <1>10 DEF PageInv

\* Any record is a copy of itself.
LEMMA SelfCopy ==
  ASSUME request' \in RequestRec, Stored', NEW r, r = request'
  PROVE  CopyOf(r)'
<1>1. request'.version \in Nat
  BY DEF RequestRec
<1>2. /\ r.version = request'.version /\ Alike(r, request')
      /\ r.left = {} => r.pages # <<>>
      /\ \A i \in DOMAIN r.pages : Has(request', r.pages[i].version, r.pages[i].plan)
      /\ Distinct(r) /\ Within(r)
  BY <1>1 DEF Alike, Paged, Has, Stored, Distinct, Within
<1> QED
  BY <1>1, <1>2 DEF CopyOf, Distinct, Within, Alike, Paged, Has

LEMMA FixPageIs ==
  ASSUME PageInv, NEW c \in Calls, FixPage(c)
  PROVE  \E r \in RequestRec, v \in Nat, plan \in SUBSET Lines :
           /\ call' = [call EXCEPT ![c].pc = "planned", ![c].request = r,
                                   ![c].page = v, ![c].plan = plan]
           /\ request' \in RequestRec /\ Stored' /\ Grows /\ CopyOf(r)' /\ Has(r, v, plan)
           /\ \/ /\ request' = request /\ r = call[c].request
                 /\ IF Fixed(r, call[c].at) THEN v = call[c].at ELSE r.left = {}
              \/ /\ ~Fixed(call[c].request, call[c].at) /\ v = call[c].at
                 /\ \E p \in SUBSET Lines : r = FixNew(call[c].request, v, p)
                 /\ request' = IF r.version > request.version THEN r ELSE request
<1> DEFINE r == call[c].request
           v == call[c].at
<1>1. Types /\ Stored /\ CallOf(c) /\ Copied(c) /\ call[c].pc = "resolved"
  BY DEF PageInv, FixPage
<1>2. r \in RequestRec /\ v \in Nat /\ request \in RequestRec /\ request.version \in Nat
  BY <1>1 DEF Types, CallRec, RequestRec
<1>3. CopyOf(r)
  BY <1>1 DEF CallOf, Copied, Running
<1>4. ASSUME NEW p \in PageRec, ServesPage(c, r, p), request' = request,
             \E i \in DOMAIN r.pages : r.pages[i] = p,
             IF Fixed(r, v) THEN p.version = v ELSE r.left = {}
      PROVE  \E s \in RequestRec, n \in Nat, plan \in SUBSET Lines :
               /\ call' = [call EXCEPT ![c].pc = "planned", ![c].request = s,
                                       ![c].page = n, ![c].plan = plan]
               /\ request' \in RequestRec /\ Stored' /\ Grows /\ CopyOf(s)' /\ Has(s, n, plan)
               /\ request' = request /\ s = call[c].request
               /\ IF Fixed(s, v) THEN n = v ELSE s.left = {}
  <2>1. PICK n \in Nat, plan \in SUBSET Lines : n = p.version /\ plan = p.plan
    BY DEF PageRec
  <2>2. PICK s \in RequestRec : s = r
    BY <1>2
  <2>3. call' = [call EXCEPT ![c].pc = "planned", ![c].request = s, ![c].page = n, ![c].plan = plan]
    BY <1>4, <2>1, <2>2 DEF ServesPage
  <2>4. Has(s, n, plan)
    BY <1>4, <2>1, <2>2 DEF Has
  <2>5. Stored' /\ Grows /\ request' \in RequestRec
    BY <1>1, <1>2, <1>4, StoredStays DEF Grows
  <2>6. CopyOf(s)
    BY <1>3, <2>2
  <2>7. CopyOf(s)'
    BY <1>2, <2>5, <2>6, CopyStays
  <2> QED
    BY <1>4, <2>1, <2>2, <2>3, <2>4, <2>5, <2>7
<1>5. CASE Fixed(r, v) /\ ServesPage(c, r, PageAt(r, v)) /\ UNCHANGED request
  <2>1. PICK i \in DOMAIN r.pages : PageAt(r, v) = r.pages[i] /\ r.pages[i].version = v
    BY <1>2, <1>5, PageAtIs
  <2>2. PageAt(r, v) \in PageRec /\ PageAt(r, v).version = v
    BY <1>2, <2>1, PagesOf
  <2>3. \E j \in DOMAIN r.pages : r.pages[j] = PageAt(r, v)
    BY <2>1
  <2> HIDE DEF r, v
  <2>4. PICK p \in PageRec : p = PageAt(r, v)
    BY <2>2
  <2> QED
    BY <1>4, <1>5, <2>2, <2>3, <2>4 DEF r, v
<1>6. CASE ~Fixed(r, v) /\ r.left = {} /\ ServesPage(c, r, Last(r.pages)) /\ UNCHANGED request
  <2>1. r.pages \in Seq(PageRec) /\ r.pages # <<>>
    BY <1>2, <1>3, <1>6, PagesOf DEF CopyOf
  <2>2. Len(r.pages) \in DOMAIN r.pages /\ Last(r.pages) = r.pages[Len(r.pages)]
    BY <2>1, EmptySeq, LenProperties DEF Last
  <2>3. Last(r.pages) \in PageRec /\ \E j \in DOMAIN r.pages : r.pages[j] = Last(r.pages)
    BY <1>2, <2>2, PagesOf
  <2> HIDE DEF r, v
  <2>4. PICK p \in PageRec : p = Last(r.pages)
    BY <2>3
  <2> QED
    BY <1>4, <1>6, <2>3, <2>4 DEF r, v
<1>7. ASSUME ~Fixed(r, v), NEW b \in Budgets,
             LET new == FixNew(r, v, FirstOf(b, r.left)) IN
             /\ request' = IF new.version > request.version THEN new ELSE request
             /\ ServesPage(c, new, PageAt(new, v))
      PROVE  \E s \in RequestRec, n \in Nat, plan \in SUBSET Lines :
               /\ call' = [call EXCEPT ![c].pc = "planned", ![c].request = s,
                                       ![c].page = n, ![c].plan = plan]
               /\ request' \in RequestRec /\ Stored' /\ Grows /\ CopyOf(s)' /\ Has(s, n, plan)
               /\ n = v /\ \E p \in SUBSET Lines : s = FixNew(r, n, p)
               /\ request' = IF s.version > request.version THEN s ELSE request
  <2>1. PICK p \in SUBSET Lines : p = FirstOf(b, r.left)
    BY <1>2 DEF FirstOf, RequestRec
  <2>2. PICK n \in Nat : n = v
    BY <1>2
  <2>3. PICK s : s = FixNew(r, n, p)
    OBVIOUS
  <2>4. /\ s \in RequestRec /\ Within(s) /\ Distinct(s)
        /\ Fixed(s, n) /\ s.left = request.left
        /\ \/ /\ s.version = request.version /\ Alike(s, request)
           \/ /\ s.version = request.version + 1 /\ s.pages # <<>>
              /\ s.force = request.force /\ s.base = request.base
              /\ Len(s.pages) = Len(request.pages) + 1
              /\ \A i \in DOMAIN request.pages :
                   /\ s.pages[i].version = request.pages[i].version
                   /\ s.pages[i].plan = request.pages[i].plan
    BY <1>1, <1>2, <1>3, <2>3, FixNewIs
  <2>5. /\ request' = IF s.version > request.version THEN s ELSE request
        /\ ServesPage(c, s, PageAt(s, n))
    BY <1>7, <2>1, <2>2, <2>3
  <2>6. PICK i \in DOMAIN s.pages : PageAt(s, n) = s.pages[i] /\ s.pages[i].version = n
    BY <2>4, PageAtIs
  <2>7. PICK plan \in SUBSET Lines : plan = PageAt(s, n).plan
    BY <2>4, <2>6, PagesOf DEF PageRec
  <2>8. call' = [call EXCEPT ![c].pc = "planned", ![c].request = s, ![c].page = n, ![c].plan = plan]
    BY <2>5, <2>6, <2>7 DEF ServesPage
  <2>9. Has(s, n, plan)
    BY <2>6, <2>7 DEF Has
  <2>10. request' \in RequestRec /\ Stored' /\ Grows /\ CopyOf(s)'
    <3>1. CASE s.version = request.version /\ Alike(s, request)
      <4>1. request' = request
        BY <1>2, <2>5, <3>1
      <4>2. DOMAIN s.pages = DOMAIN request.pages
        BY <1>2, <2>4, <3>1, PagesOf DEF Alike, Paged
      <4>3. \A j \in DOMAIN s.pages : Has(request, s.pages[j].version, s.pages[j].plan)
        BY <3>1, <4>2 DEF Has, Alike, Paged
      <4>4. s.left = {} => s.pages # <<>>
        BY <1>1, <1>2, <2>4, <3>1, PagesOf, EmptySeq DEF Stored, Alike, Paged
      <4>5. CopyOf(s)
        BY <1>2, <2>4, <3>1, <4>3, <4>4 DEF CopyOf
      <4>6. Stored' /\ Grows
        BY <1>1, <4>1, StoredStays DEF Grows
      <4> QED
        BY <1>2, <2>4, <4>1, <4>5, <4>6, CopyStays
    <3>2. CASE s.version = request.version + 1 /\ s.pages # <<>>
               /\ Len(s.pages) = Len(request.pages) + 1
               /\ \A j \in DOMAIN request.pages :
                    /\ s.pages[j].version = request.pages[j].version
                    /\ s.pages[j].plan = request.pages[j].plan
      <4>1. request' = s
        BY <1>2, <2>5, <3>2
      <4>2. Stored'
        BY <1>2, <2>4, <3>2, <4>1 DEF Stored, Distinct, Within
      <4>3. DOMAIN request.pages \subseteq DOMAIN s.pages
        BY <1>2, <2>4, <3>2, PagesOf
      <4>4. \A w, pl : Has(request, w, pl) => Has(s, w, pl)
        BY <3>2, <4>3 DEF Has
      <4>5. Grows
        BY <1>2, <3>2, <4>1, <4>4 DEF Grows
      <4> QED
        BY <2>4, <4>1, <4>2, <4>5, SelfCopy
    <3> QED
      BY <2>4, <3>1, <3>2
  <2> QED
    BY <2>1, <2>2, <2>3, <2>4, <2>5, <2>8, <2>9, <2>10
<1>8. \/ Fixed(r, v) /\ ServesPage(c, r, PageAt(r, v)) /\ UNCHANGED request
      \/ ~Fixed(r, v) /\ r.left = {} /\ ServesPage(c, r, Last(r.pages)) /\ UNCHANGED request
      \/ ~Fixed(r, v) /\ \E b \in Budgets :
           LET new == FixNew(r, v, FirstOf(b, r.left)) IN
           /\ request' = IF new.version > request.version THEN new ELSE request
           /\ ServesPage(c, new, PageAt(new, v))
  BY DEF FixPage
<1> QED
  BY <1>5, <1>6, <1>7, <1>8

LEMMA FixPageKeeps ==
  ASSUME PageInv, NEW c \in Calls, FixPage(c)
  PROVE  PageInv'
<1>1. Types /\ Turns /\ Stored /\ \A d \in Calls : CallOf(d) /\ Copied(d)
  BY DEF PageInv
<1>2. /\ concurrent' = concurrent /\ marker' = marker /\ wire' = wire
      /\ cursor' = cursor /\ given' = given /\ held' = held /\ told' = told /\ lost' = lost
      /\ got' = got /\ settled' = settled /\ pending' = pending /\ seen' = seen
      /\ call[c].pc = "resolved"
  BY DEF FixPage, ServesPage, server, client
<1>3. PICK r \in RequestRec, v \in Nat, plan \in SUBSET Lines :
        /\ call' = [call EXCEPT ![c].pc = "planned", ![c].request = r,
                                ![c].page = v, ![c].plan = plan]
        /\ request' \in RequestRec /\ Stored' /\ Grows /\ CopyOf(r)' /\ Has(r, v, plan)
  BY FixPageIs
<1> DEFINE k == [call[c] EXCEPT !.pc = "planned", !.request = r, !.page = v, !.plan = plan]
<1>4. call \in [Calls -> CallRec] /\ call[c] \in CallRec /\ call' = [call EXCEPT ![c] = k]
  BY <1>1, <1>3 DEF Types
<1>5. /\ k \in CallRec /\ k.pc = "planned" /\ k.kind = call[c].kind /\ k.at = call[c].at
      /\ k.page = v /\ k.request = r /\ k.plan = plan
      /\ k.body = call[c].body /\ k.told = call[c].told /\ (k.cancelled <=> call[c].cancelled)
  BY <1>4 DEF CallRec, Phases
<1> HIDE DEF k
<1>6. call' \in [Calls -> CallRec] /\ call'[c] = k /\ \A d \in Calls \ {c} : call'[d] = call[d]
  BY <1>4, <1>5, OneCall
<1>7. Types'
  BY <1>1, <1>2, <1>3, <1>6 DEF Types
<1>8. ASSUME NEW d \in Calls, d # c PROVE CallOf(d)' /\ Copied(d)'
  <2>1. call'[d] = call[d] /\ call[d] \in CallRec /\ request \in RequestRec
    BY <1>1, <1>6, <1>8 DEF Types
  <2> QED
    BY <1>1, <1>2, <1>3, <2>1, CallStays, CopiedStays
<1>9. /\ Resumes(c) /\ Resumes(c)' /\ Active(c) /\ Active(c)' /\ ~Opens(c)'
      /\ c \in Running /\ Running' = Running
  BY <1>1, <1>2, <1>5, <1>6 DEF CallOf, Resumes, Active, Opens, Running
<1>10. CallOf(c)'
  BY <1>1, <1>2, <1>5, <1>6, <1>9 DEF CallOf
<1>11. Copied(c)'
  <2>1. CopyOf(call[c].request)'
    BY <1>3, <1>5, <1>6 DEF CopyOf
  <2>2. Has(call[c].request, call[c].page, call[c].plan)'
    BY <1>3, <1>5, <1>6 DEF Has
  <2> QED
    BY <2>1, <2>2 DEF Copied
<1>12. Turns' /\ Place'
  BY <1>1, <1>2, <1>5, <1>6, <1>9, GoesOn DEF Turns
<1> QED
  BY <1>3, <1>7, <1>8, <1>10, <1>11, <1>12 DEF PageInv

\* What an answer to c says, on the wire or to nobody.
LEMMA NextIs ==
  ASSUME PageInv, NEW c \in Calls, NEW sent \in SUBSET Lines,
         NEW withheld \in WithholdLowValuePageNext(c), Emit(c, sent, withheld)
  PROVE  /\ NextOf(c, sent, withheld) \in Places \ {0}
         /\ call[c].kind = "plain" => NextOf(c, sent, withheld) = None
         /\ Resumes(c) => NextOf(c, sent, withheld) # None
<1>1. /\ call[c] \in CallRec /\ request \in RequestRec /\ request.version \in Nat
      /\ CallOf(c) /\ call[c].pc = "booked" /\ request' = Settles(c, sent)
  BY DEF PageInv, Types, Emit, RequestRec
<1> DEFINE left == SettledRequest(c, sent).left
           refused == call[c].body # {} /\ sent = {}
<1> HIDE DEF left, refused
<1>2. CASE call[c].kind = "plain"
  <2>1. NextOf(c, sent, withheld) = None
    BY <1>2 DEF NextOf, Resumes
  <2> QED
    BY <1>2, <2>1 DEF Resumes, Places, None, Finished, Withheld
<1>3. CASE Opens(c)
  <2>1. NextOf(c, sent, withheld) = (IF refused THEN None ELSE IF left = {} THEN Finished
                                     ELSE request'.version)
    BY <1>3 DEF NextOf, Opens, Resumes, WithholdLowValuePageNext, left, refused
  <2>2. ~refused /\ left # {} => request' = [SettledRequest(c, sent) EXCEPT !.version = 1]
    BY <1>1, <1>3 DEF Settles, Opens, Resumes, left, refused
  <2>3. ~refused /\ left # {} => request'.version = 1
    <3>1. request' = request \/ request'.version = 1
      BY <1>3, EmitPuts
    <3>2. CASE Resumes(c)
      BY <1>3, <3>2 DEF Opens, Resumes
    <3>3. CASE ~Resumes(c)
      <4> DEFINE K == call[c].request
                 mine == WithAccount(c, sent)
      <4>1. SettledRequest(c, sent) = [mine EXCEPT !.left = LeftOf(mine, settled')]
        BY <3>3 DEF SettledRequest
      <4>2. mine = K \/ mine = [K EXCEPT !.pages = <<Page(0, Account(c, sent), Account(c, sent))>>]
        BY <3>3 DEF WithAccount
      <4>3. K \in RequestRec
        BY <1>1 DEF CallRec
      <4>4. "version" \in DOMAIN SettledRequest(c, sent)
        BY <4>1, <4>2, <4>3 DEF RequestRec
      <4> QED
        BY <2>2, <4>4
    <3> QED
      BY <3>2, <3>3
  <2> QED
    BY <1>3, <2>1, <2>3 DEF Opens, Resumes, Places, None, Finished, Withheld
<1>4. CASE Resumes(c)
  <2>1. NextOf(c, sent, withheld) \in {call[c].at, Finished, Withheld, request'.version}
    BY <1>4 DEF NextOf, Resumes
  <2>2. request'.version = request.version + 1
    BY <1>4, EmitPuts
  <2>3. call[c].at \in Nat /\ call[c].at > 0
    BY <1>1, <1>4 DEF CallRec, CallOf, Active
  <2> QED
    BY <1>1, <1>4, <2>1, <2>2, <2>3 DEF Resumes, Places, None, Finished, Withheld
<1> QED
  BY <1>1, <1>2, <1>3, <1>4 DEF CallRec, Kinds, Opens, Resumes

\* What is put on the wire, if the call was not cancelled.
AnswerOf(c, sent, withheld) ==
  [kind |-> call[c].kind, lines |-> sent,
   told |-> IF call[c].body # {} /\ sent = {} THEN {} ELSE call[c].told,
   next |-> NextOf(c, sent, withheld)]

LEMMA EmitIs ==
  ASSUME PageInv, NEW c \in Calls, NEW sent \in SUBSET Lines,
         NEW withheld \in WithholdLowValuePageNext(c), Emit(c, sent, withheld)
  PROVE  /\ call' \in [Calls -> CallRec] /\ call'[c] = NoCall
         /\ \A d \in Calls \ {c} : call'[d] = call[d]
         /\ AnswerOf(c, sent, withheld) \in AnswerRec
         /\ call[c].cancelled => wire' = wire
         /\ ~call[c].cancelled => wire' = Append(wire, AnswerOf(c, sent, withheld))
         /\ wire' \in Seq(AnswerRec)
         /\ call[c].pc = "booked" /\ c \in Running /\ Active(c)
<1>1. call \in [Calls -> CallRec] /\ call[c] \in CallRec /\ wire \in Seq(AnswerRec)
  BY DEF PageInv, Types
<1>2. call' = [call EXCEPT ![c] = NoCall] /\ call[c].pc = "booked"
  BY DEF Emit
<1>3. call' \in [Calls -> CallRec] /\ call'[c] = NoCall /\ \A d \in Calls \ {c} : call'[d] = call[d]
  BY <1>1, <1>2, NoCallIs, OneCall
<1>4. AnswerOf(c, sent, withheld) \in AnswerRec
  <2>1. NextOf(c, sent, withheld) \in Places
    BY NextIs
  <2> QED
    BY <1>1, <2>1 DEF AnswerOf, AnswerRec, CallRec
<1>5. /\ call[c].cancelled => wire' = wire
      /\ ~call[c].cancelled => wire' = Append(wire, AnswerOf(c, sent, withheld))
  BY DEF Emit, AnswerOf
<1>6. wire' \in Seq(AnswerRec)
  BY <1>1, <1>4, <1>5
<1> QED
  BY <1>2, <1>3, <1>4, <1>5, <1>6 DEF Running, Active

LEMMA EmitKeeps ==
  ASSUME PageInv, NEW c \in Calls, NEW sent \in SUBSET Lines,
         NEW withheld \in WithholdLowValuePageNext(c), Emit(c, sent, withheld)
  PROVE  PageInv'
<1>1. Types /\ Turns /\ Place /\ Stored /\ \A d \in Calls : CallOf(d) /\ Copied(d)
  BY DEF PageInv
<1>2. /\ concurrent' = concurrent /\ marker' = marker /\ seen' = seen
      /\ cursor' = cursor /\ given' = given /\ held' = held /\ told' = told /\ got' = got
      /\ settled' \subseteq Lines /\ pending' \subseteq Lines
      /\ lost' = lost \/ lost' = lost \cup sent \cup call[c].told
  BY <1>1 DEF Emit, client, SettleBookings, Types
<1>3. /\ call' \in [Calls -> CallRec] /\ call'[c] = NoCall
      /\ \A d \in Calls \ {c} : call'[d] = call[d]
      /\ AnswerOf(c, sent, withheld) \in AnswerRec
      /\ call[c].cancelled => wire' = wire
      /\ ~call[c].cancelled => wire' = Append(wire, AnswerOf(c, sent, withheld))
      /\ wire' \in Seq(AnswerRec)
      /\ call[c].pc = "booked" /\ c \in Running /\ Active(c)
  BY EmitIs
<1>4. /\ request' \in RequestRec /\ Stored'
      /\ call[c].kind = "plain" => request' = request
      /\ Opens(c) => \/ request' = request
                     \/ request'.version = 1
      /\ Resumes(c) => request'.version = request.version + 1 /\ Paged(request', request)
  BY EmitPuts
<1>5. /\ NextOf(c, sent, withheld) \in Places \ {0}
      /\ call[c].kind = "plain" => NextOf(c, sent, withheld) = None
      /\ Resumes(c) => NextOf(c, sent, withheld) # None
  BY NextIs
<1>6. call[c] \in CallRec /\ request \in RequestRec /\ wire \in Seq(AnswerRec)
      /\ lost \subseteq Lines /\ request.version \in Nat
  BY <1>1 DEF Types, RequestRec
<1>7. Types'
  BY <1>1, <1>2, <1>3, <1>4, <1>6 DEF Types, CallRec
<1>8. \/ Grows
      \/ \A d \in Calls : ~(Resumes(d) /\ d \in Running)
  <2>1. CASE Resumes(c)
    <3>1. DOMAIN request'.pages = DOMAIN request.pages
      BY <1>4, <1>6, <2>1, PagesOf DEF Paged
    <3>2. \A v, plan : Has(request, v, plan) => Has(request', v, plan)
      BY <1>4, <2>1, <3>1 DEF Has, Paged
    <3> QED
      BY <1>4, <1>6, <2>1, <3>2 DEF Grows
  <2>2. CASE Opens(c)
    <3>1. cursor = None
      BY <1>1, <1>3, <2>2 DEF Place
    <3> QED
      BY <1>1, <3>1 DEF Place, Active, Running
  <2>3. CASE call[c].kind = "plain"
    BY <1>4, <2>3 DEF Grows
  <2> QED
    BY <1>6, <2>1, <2>2, <2>3 DEF CallRec, Kinds, Opens, Resumes
<1>9. ASSUME NEW d \in Calls, d # c PROVE CallOf(d)' /\ Copied(d)'
  <2>1. call'[d] = call[d] /\ call[d] \in CallRec
    BY <1>1, <1>3, <1>9 DEF Types
  <2>2. CallOf(d)'
    BY <1>1, <1>2, <2>1, CallStays
  <2>3. CASE Grows
    BY <1>1, <1>4, <1>6, <2>1, <2>2, <2>3, CopiedStays
  <2>4. CASE ~(Resumes(d) /\ d \in Running)
    BY <2>1, <2>2, <2>4 DEF Copied, Resumes, Running
  <2> QED
    BY <1>8, <2>3, <2>4
<1>10. CallOf(c)' /\ Copied(c)' /\ ~Active(c)' /\ c \notin Running'
  BY <1>3, IdleNow
<1>11. \A d \in Calls \ {c} : (Active(d)' <=> Active(d)) /\ (Moves(d)' <=> Moves(d))
                              /\ (Opens(d)' <=> Opens(d)) /\ (Resumes(d)' <=> Resumes(d))
  BY <1>3 DEF Active, Moves, Opens, Resumes
<1>12. Running' \subseteq Running
  BY <1>3, <1>10 DEF Running
<1>13. CASE call[c].cancelled
  <2>1. wire' = wire
    BY <1>3, <1>13
  <2> QED
    BY <1>2, <1>3, <1>4, <1>7, <1>9, <1>10, <2>1, IsOver DEF PageInv
<1>14. CASE ~call[c].cancelled
  <2> DEFINE a == AnswerOf(c, sent, withheld)
             n == Len(wire)
  <2>1. /\ a.kind = call[c].kind /\ a.next = NextOf(c, sent, withheld) /\ a \in AnswerRec
    BY <1>3 DEF AnswerOf
  <2>2. wire' = Append(wire, a)
    BY <1>3, <1>14
  <2> HIDE DEF a
  <2>3. /\ n \in Nat /\ DOMAIN wire = 1..n /\ DOMAIN wire' = 1..(n+1)
        /\ \A i \in DOMAIN wire : wire'[i] = wire[i]
        /\ wire'[n+1] = a
        /\ \A i \in DOMAIN wire' : i \in DOMAIN wire \/ i = n + 1
    BY <1>6, <2>1, <2>2, AppendProperties, LenProperties
  <2>4. Moves(c) => \A i \in DOMAIN wire : wire[i].kind \notin Steps
    BY <1>1, <1>3 DEF Turns
  <2>5. Moves(c) => \A d \in Calls \ {c} : Active(d) => ~Moves(d)
    <3> SUFFICES ASSUME Moves(c), NEW d \in Calls \ {c}, Active(d), Moves(d) PROVE FALSE
      OBVIOUS
    <3>1. call[d].cancelled
      BY <1>1, <1>3, <1>14 DEF Turns
    <3>2. ~concurrent /\ d \in Running
      BY <1>1, <3>1 DEF CallOf
    <3> QED
      BY <1>1, <1>3, <3>2 DEF Turns
  <2>6. a.kind \in Steps <=> Moves(c)
    BY <2>1 DEF Moves
  <2> HIDE DEF n
  <2>7. Turns'
    <3>1. ASSUME NEW i \in DOMAIN wire', NEW j \in DOMAIN wire',
                 wire'[i].kind \in Steps, wire'[j].kind \in Steps
          PROVE  i = j
      BY <1>1, <2>3, <2>4, <2>6, <3>1 DEF Turns
    <3>2. ASSUME NEW i \in DOMAIN wire', wire'[i].kind \in Steps, NEW d \in Calls, Active(d)'
          PROVE  ~Moves(d)'
      <4>1. d # c /\ Active(d)
        BY <1>10, <1>11, <3>2
      <4>2. ~Moves(d)
        BY <1>1, <2>3, <2>5, <2>6, <3>2, <4>1 DEF Turns
      <4> QED
        BY <1>11, <4>1, <4>2
    <3>3. \A e, d \in Calls :
            (Active(e) /\ Active(d) /\ Moves(e) /\ Moves(d) /\ ~call[e].cancelled /\ ~call[d].cancelled)'
              => e = d
      <4> SUFFICES ASSUME NEW e \in Calls, NEW d \in Calls,
                          (Active(e) /\ Active(d) /\ Moves(e) /\ Moves(d)
                           /\ ~call[e].cancelled /\ ~call[d].cancelled)'
                   PROVE  e = d
        OBVIOUS
      <4>1. e # c /\ d # c
        BY <1>10
      <4>2. Active(e) /\ Active(d) /\ Moves(e) /\ Moves(d) /\ ~call[e].cancelled /\ ~call[d].cancelled
        BY <1>3, <1>11, <4>1
      <4> QED
        BY <1>1, <4>2 DEF Turns
    <3>4. ~concurrent' => \A e, d \in Running' : e = d
      BY <1>1, <1>2, <1>12 DEF Turns
    <3> QED
      BY <3>1, <3>2, <3>3, <3>4 DEF Turns
  <2>8. Place'
    <3>1. \A d \in Calls : (Active(d) /\ Resumes(d))' => cursor' # None
      BY <1>1, <1>2, <1>10, <1>11 DEF Place
    <3>2. \A d \in Calls : Active(d)' /\ call'[d].kind = "page" => call'[d].at = cursor'
      BY <1>1, <1>2, <1>3, <1>10, <1>11 DEF Place
    <3>3. cursor # None => ~Opens(c)
      BY <1>1, <1>3 DEF Place
    <3>4. cursor = Finished => ~Moves(c)
      BY <1>1, <1>3 DEF Place
    <3>5. Resumes(c) => cursor # None
      BY <1>1, <1>3 DEF Place
    <3>6. ASSUME NEW i \in DOMAIN wire'
          PROVE  /\ wire'[i].next # 0
                 /\ wire'[i].kind = "plain" => wire'[i].next = None
                 /\ wire'[i].kind \in {"page", "again"} => cursor' # None /\ wire'[i].next # None
                 /\ cursor' # None => wire'[i].kind # "open"
                 /\ cursor' = Finished => wire'[i].kind \notin Steps
      <4>1. CASE i \in DOMAIN wire
        BY <1>1, <1>2, <2>3, <4>1 DEF Place
      <4>2. CASE i = n + 1
        BY <1>2, <1>5, <2>1, <2>3, <2>6, <3>3, <3>4, <3>5, <4>2 DEF Opens, Resumes
      <4> QED
        BY <2>3, <4>1, <4>2
    <3>7. cursor' # None => \A d \in Calls : Active(d)' => ~Opens(d)'
      BY <1>1, <1>2, <1>10, <1>11 DEF Place
    <3>8. cursor' = Finished => \A d \in Calls : Active(d)' => ~Moves(d)'
      BY <1>1, <1>2, <1>10, <1>11 DEF Place
    <3>9. cursor' # 0 /\ (given' # {} => cursor' # None)
      BY <1>1, <1>2 DEF Place
    <3> QED
      BY <3>1, <3>2, <3>6, <3>7, <3>8, <3>9 DEF Place
  <2> QED
    BY <1>4, <1>7, <1>9, <1>10, <2>7, <2>8 DEF PageInv
<1> QED
  BY <1>13, <1>14

LEMMA TailOf ==
  ASSUME wire \in Seq(AnswerRec), wire # <<>>, wire' = Tail(wire)
  PROVE  /\ Head(wire) = wire[1] /\ 1 \in DOMAIN wire /\ wire[1] \in AnswerRec
         /\ wire' \in Seq(AnswerRec)
         /\ \A i \in DOMAIN wire' :
              i \in Nat /\ i + 1 \in DOMAIN wire /\ wire'[i] = wire[i + 1] /\ i + 1 # 1
<1>1. /\ Head(wire) = wire[1] /\ wire' \in Seq(AnswerRec) /\ Len(wire') = Len(wire) - 1
      /\ \A i \in 1..Len(wire') : wire'[i] = wire[i + 1]
  BY HeadTailProperties
<1>2. Len(wire) \in Nat /\ Len(wire) # 0 /\ DOMAIN wire = 1..Len(wire)
  BY EmptySeq, LenProperties
<1>3. DOMAIN wire' = 1..Len(wire')
  BY <1>1, LenProperties
<1> QED
  BY <1>1, <1>2, <1>3

LEMMA TailHas ==
  ASSUME wire \in Seq(AnswerRec), wire # <<>>, wire' = Tail(wire)
  PROVE  \A j \in DOMAIN wire : j = 1 \/ (j - 1 \in DOMAIN wire' /\ wire'[j - 1] = wire[j])
<1>1. /\ wire' \in Seq(AnswerRec) /\ Len(wire') = Len(wire) - 1
      /\ \A i \in 1..Len(wire') : wire'[i] = wire[i + 1]
  BY HeadTailProperties
<1>2. DOMAIN wire' = 1..Len(wire') /\ DOMAIN wire = 1..Len(wire) /\ Len(wire) \in Nat
  BY <1>1, LenProperties
<1> SUFFICES ASSUME NEW j \in DOMAIN wire, j # 1
             PROVE  j - 1 \in DOMAIN wire' /\ wire'[j - 1] = wire[j]
  OBVIOUS
<1>3. j - 1 \in 1..Len(wire')
  BY <1>1, <1>2
<1> QED
  BY <1>1, <1>2, <1>3

LEMMA ReceiveKeeps ==
  ASSUME PageInv, Receive
  PROVE  PageInv'
<1>1. Types /\ Turns /\ Place /\ Stored /\ \A d \in Calls : CallOf(d) /\ Copied(d)
  BY DEF PageInv
<1>2. PICK a : a = wire[1]
  OBVIOUS
<1>3. /\ wire # <<>> /\ wire' = Tail(wire) /\ wire \in Seq(AnswerRec)
  BY <1>1 DEF Receive, Types
<1>4. /\ Head(wire) = a /\ 1 \in DOMAIN wire /\ a \in AnswerRec
      /\ wire' \in Seq(AnswerRec)
      /\ \A i \in DOMAIN wire' :
           i \in Nat /\ i + 1 \in DOMAIN wire /\ wire'[i] = wire[i + 1] /\ i + 1 # 1
  BY <1>2, <1>3, TailOf
<1>5. /\ held' = held \cup a.lines /\ got' = got \cup a.lines /\ told' = a.told
      /\ cursor' = (IF a.kind \in Steps THEN a.next ELSE cursor)
      /\ given' = given \cup ({a.next} \ {None, Finished, Withheld})
      /\ concurrent' = concurrent /\ settled' = settled /\ pending' = pending /\ seen' = seen
      /\ marker' = marker /\ request' = request /\ call' = call /\ lost' = lost
  BY <1>4 DEF Receive, server
<1>6. /\ a.kind \in Kinds /\ a.lines \subseteq Lines /\ a.told \subseteq Lines /\ a.next \in Places
  BY <1>4 DEF AnswerRec
<1>7. /\ a.next # 0 /\ (a.kind = "plain" => a.next = None)
      /\ (a.kind \in {"page", "again"} => cursor # None /\ a.next # None)
      /\ (cursor # None => a.kind # "open")
      /\ (a.kind \in Steps => \A c \in Calls : Active(c) => ~Moves(c))
      /\ (a.kind \in Steps => \A i \in DOMAIN wire' : wire'[i].kind \notin Steps)
  BY <1>1, <1>2, <1>4 DEF Place, Turns
<1>8. a.next \in {None, Finished, Withheld} \/ a.next \in Nat \ {0}
  BY <1>6, <1>7 DEF Places
<1>9. Types'
  <2>1. given' \subseteq Nat \ {0}
    BY <1>1, <1>5, <1>8 DEF Types
  <2>2. cursor' \in Places
    BY <1>1, <1>5, <1>6 DEF Types
  <2> QED
    BY <1>1, <1>4, <1>5, <1>6, <2>1, <2>2 DEF Types
<1>10. Stored'
  BY <1>1, <1>5, StoredStays
<1>11. \A d \in Calls : CallOf(d)' /\ Copied(d)'
  <2> SUFFICES ASSUME NEW d \in Calls PROVE CallOf(d)' /\ Copied(d)'
    OBVIOUS
  <2>1. call'[d] = call[d] /\ call[d] \in CallRec /\ request \in RequestRec
    BY <1>1, <1>5 DEF Types
  <2> QED
    BY <1>1, <1>5, <2>1, CallStays, CopiedStays DEF Grows
<1>12. Turns'
  <2>1. \A i \in DOMAIN wire', j \in DOMAIN wire' :
          wire'[i].kind \in Steps /\ wire'[j].kind \in Steps => i = j
    <3> SUFFICES ASSUME NEW i \in DOMAIN wire', NEW j \in DOMAIN wire',
                        wire'[i].kind \in Steps, wire'[j].kind \in Steps
                 PROVE  i = j
      OBVIOUS
    <3>1. i + 1 = j + 1
      BY <1>1, <1>4 DEF Turns
    <3> QED
      BY <1>4, <3>1
  <2> QED
    BY <1>1, <1>4, <1>5, <2>1 DEF Turns, Running, Active, Moves
<1>13. \A d \in Calls : (Active(d)' <=> Active(d)) /\ (Moves(d)' <=> Moves(d))
                        /\ (Opens(d)' <=> Opens(d)) /\ (Resumes(d)' <=> Resumes(d))
  BY <1>5 DEF Active, Moves, Opens, Resumes
<1>14. Place'
  <2>1. \A i \in DOMAIN wire' :
          /\ wire'[i].next # 0
          /\ wire'[i].kind = "plain" => wire'[i].next = None
          /\ wire'[i].kind \in {"page", "again"} => cursor # None /\ wire'[i].next # None
          /\ cursor # None => wire'[i].kind # "open"
          /\ cursor = Finished => wire'[i].kind \notin Steps
    BY <1>1, <1>4 DEF Place
  <2>2. CASE a.kind \notin Steps
    <3>1. cursor' = cursor /\ (a.kind = "plain" \/ a.kind = "again")
      BY <1>5, <1>6, <2>2 DEF Kinds, Steps
    <3>2. given' # {} => cursor' # None
      BY <1>1, <1>5, <1>7, <3>1 DEF Place
    <3> QED
      BY <1>1, <1>5, <1>13, <2>1, <3>1, <3>2 DEF Place
  <2>3. CASE a.kind \in Steps
    <3>1. cursor' = a.next /\ (a.kind = "open" \/ a.kind = "page")
      BY <1>5, <2>3 DEF Steps
    <3>2. cursor' = None => cursor = None
      BY <1>7, <3>1
    <3>3. given' # {} => cursor' # None
      BY <1>1, <1>5, <3>1, <3>2 DEF Place
    <3>4. \A d \in Calls : Active(d)' => ~Moves(d)' /\ ~Opens(d)' /\ call'[d].kind # "page"
      BY <1>5, <1>7, <1>13, <2>3 DEF Moves, Opens, Steps
    <3>5. \A i \in DOMAIN wire' : wire'[i].kind \notin Steps /\ wire'[i].kind # "open"
      BY <1>7, <2>3 DEF Steps
    <3>6. \A d \in Calls : Active(d)' /\ Resumes(d)' => cursor' # None
      BY <1>1, <1>13, <3>2 DEF Place
    <3>7. \A i \in DOMAIN wire' :
            wire'[i].kind \in {"page", "again"} => cursor' # None /\ wire'[i].next # None
      BY <2>1, <3>2
    <3>8. cursor' # 0
      BY <1>7, <3>1
    <3> QED
      BY <2>1, <3>3, <3>4, <3>5, <3>6, <3>7, <3>8 DEF Place
  <2> QED
    BY <2>2, <2>3
<1> QED
  BY <1>9, <1>10, <1>11, <1>12, <1>14 DEF PageInv

\* Nothing changes that the invariant of the pages is about.
LEMMA QuietKeeps ==
  ASSUME PageInv, Types', concurrent' = concurrent, request' = request, call' = call,
         wire' = wire, cursor' = cursor, given' = given
  PROVE  PageInv'
<1>1. Types /\ Turns /\ Place /\ Stored /\ \A d \in Calls : CallOf(d) /\ Copied(d)
  BY DEF PageInv
<1>2. Stored'
  BY <1>1, StoredStays
<1>3. \A d \in Calls : CallOf(d)' /\ Copied(d)'
  <2> SUFFICES ASSUME NEW d \in Calls PROVE CallOf(d)' /\ Copied(d)'
    OBVIOUS
  <2>1. call'[d] = call[d] /\ call[d] \in CallRec /\ request \in RequestRec
    BY <1>1 DEF Types
  <2> QED
    BY <1>1, <2>1, CallStays, CopiedStays DEF Grows
<1>4. Turns'
  BY <1>1 DEF Turns, Running, Active, Moves
<1>5. Place'
  BY <1>1 DEF Place, Active, Moves, Opens, Resumes
<1> QED
  BY <1>2, <1>3, <1>4, <1>5 DEF PageInv

LEMMA CompactKeeps ==
  ASSUME PageInv, Compact
  PROVE  PageInv'
<1>1. Types
  BY DEF PageInv
<1>2. /\ concurrent' = concurrent /\ settled' = settled /\ pending' = pending /\ seen' = seen
      /\ marker' = marker + 1 /\ request' = request /\ wire' = wire /\ cursor' = cursor
      /\ given' = given /\ held' = {} /\ told' = {} /\ lost' = lost /\ got' = got /\ call' = call
  BY DEF Compact, server
<1>3. Types'
  <2>1. marker \in Nat /\ seen \in {None} \cup 0..marker
    BY <1>1 DEF Types
  <2>2. marker' \in Nat /\ seen' \in {None} \cup 0..marker'
    BY <1>2, <2>1
  <2> QED
    BY <1>1, <1>2, <2>2 DEF Types
<1> QED
  BY <1>2, <1>3, QuietKeeps

\* No call is in flight and nothing is on the wire.
LEMMA QuietServer ==
  ASSUME Types', Stored', \A c \in Calls : call'[c] = NoCall, wire' = <<>>,
         cursor' # 0, given' # {} => cursor' # None
  PROVE  PageInv'
<1>1. \A c \in Calls : CallOf(c)' /\ Copied(c)' /\ ~Active(c)' /\ c \notin Running'
  BY IdleNow
<1>2. Turns' /\ Place'
  BY <1>1 DEF Turns, Place, Running
<1> QED
  BY <1>1, <1>2 DEF PageInv

LEMMA KillKeeps ==
  ASSUME PageInv, Kill
  PROVE  PageInv'
<1>1. Types /\ Stored /\ Place
  BY DEF PageInv
<1>2. /\ concurrent' = concurrent /\ settled' = {} /\ pending' = {} /\ seen' = None
      /\ marker' = marker /\ request' = request /\ wire' = <<>> /\ cursor' = cursor
      /\ given' = given /\ held' = held /\ told' = told /\ got' = got
      /\ call' = [c \in Calls |-> NoCall]
      /\ lost' = lost \cup UNION {Undelivered(a) : a \in Range(wire)}
  BY DEF Kill, client
<1>3. \A a \in Range(wire) : Undelivered(a) \subseteq Lines
  <2> SUFFICES ASSUME NEW a \in Range(wire) PROVE Undelivered(a) \subseteq Lines
    OBVIOUS
  <2>1. a \in AnswerRec
    BY <1>1 DEF Types, Range
  <2> QED
    BY <2>1 DEF Undelivered, AnswerRec
<1>4. Types'
  <2>1. lost' \subseteq Lines
    BY <1>1, <1>2, <1>3 DEF Types
  <2>2. call' \in [Calls -> CallRec]
    BY <1>2, NoCallIs
  <2>3. wire' \in Seq(AnswerRec)
    BY <1>2
  <2> QED
    BY <1>1, <1>2, <2>1, <2>2, <2>3 DEF Types
<1>5. Stored'
  BY <1>1, <1>2, StoredStays
<1> QED
  BY <1>1, <1>2, <1>4, <1>5, QuietServer DEF Place

LEMMA InitPageInv == Init => PageInv
<1> SUFFICES ASSUME Init PROVE PageInv
  OBVIOUS
<1>1. request = NewRequest(FALSE, {}) /\ FALSE \in BOOLEAN
  BY DEF Init
<1>2. request \in RequestRec /\ request.version = 0 /\ request.pages = <<>> /\ request.left = Lines
  BY <1>1, NewRequestIs
<1>3. 1 \in Lines
  BY PagesAssumption DEF Lines
<1>4. Stored
  BY <1>2, <1>3 DEF Stored, Distinct, Within
<1>5. call \in [Calls -> CallRec] /\ \A c \in Calls : call[c] = NoCall
  BY NoCallIs DEF Init
<1>6. Types
  <2>1. concurrent \in BOOLEAN
    BY PagesAssumption DEF Init
  <2>2. wire \in Seq(AnswerRec)
    BY DEF Init
  <2> QED
    BY <1>2, <1>5, <2>1, <2>2 DEF Init, Types, Places
<1>7. \A c \in Calls : CallOf(c) /\ Copied(c) /\ ~Active(c) /\ c \notin Running
  BY <1>5, IdleIs
<1>8. cursor = None /\ given = {} /\ wire = <<>>
  BY DEF Init
<1>9. Turns /\ Place
  BY <1>7, <1>8 DEF Turns, Place, Running, None
<1> QED
  BY <1>4, <1>6, <1>7, <1>9 DEF PageInv

LEMMA PageInvStep == PageInv /\ [Next]_vars => PageInv'
<1> SUFFICES ASSUME PageInv, [Next]_vars PROVE PageInv'
  OBVIOUS
<1>1. Types /\ \A c \in Calls : call[c].body \subseteq Lines
  BY DEF PageInv, Types, CallRec
<1>2. CASE \E c \in Calls : Follows(c) \/ ResendCursor(c) \/ ReadWindow(c)
  BY <1>2, ClientSends DEF Follows
<1>3. CASE \E c \in Calls : Cancel(c) \/ Throw(c)
  BY <1>3, CancelKeeps, ThrowKeeps
<1>4. CASE \E c \in Calls : Start(c) \/ FixPage(c) \/ Serve(c)
  BY <1>4, StartKeeps, FixPageKeeps, ServeKeeps
<1>5. CASE \E c \in Calls : Answer(c)
  <2>1. PICK c \in Calls, n \in {NLines} \cup 1..NLines, withheld \in BOOLEAN :
          withheld \in WithholdLowValuePageNext(c) /\ Emit(c, FirstOf(n, call[c].body), withheld)
    BY <1>5, PagesAssumption DEF Answer, WithholdLowValuePageNext
  <2>2. FirstOf(n, call[c].body) \in SUBSET Lines
    BY <1>1 DEF FirstOf
  <2> QED
    BY <2>1, <2>2, EmitKeeps
<1>6. CASE \E c \in Calls : Refuse(c)
  <2>1. PICK c \in Calls : Emit(c, {}, FALSE) /\ FALSE \in WithholdLowValuePageNext(c)
    BY <1>6 DEF Refuse, WithholdLowValuePageNext
  <2>2. {} \in SUBSET Lines
    OBVIOUS
  <2> QED
    BY <2>1, <2>2, EmitKeeps
<1>7. CASE Receive \/ Compact \/ Kill
  BY <1>7, ReceiveKeeps, CompactKeeps, KillKeeps
<1>8. CASE UNCHANGED vars
  <2>1. /\ concurrent' = concurrent /\ request' = request /\ call' = call
        /\ wire' = wire /\ cursor' = cursor /\ given' = given
    BY <1>8 DEF vars
  <2>2. Types'
    BY <1>1, <1>8 DEF Types, vars
  <2> QED
    BY <2>1, <2>2, QuietKeeps
<1> QED
  BY <1>2, <1>3, <1>4, <1>5, <1>6, <1>7, <1>8 DEF Next, Serves

-----------------------------------------------------------------------------
(* Theorems *)

LEMMA RequestIs ==
  ASSUME NEW r \in RequestRec, Within(r)
  PROVE  IsRequest(r)
<1>1. ASSUME NEW p \in Pages(r)
      PROVE  p.version \in Nat /\ p.shipped \subseteq p.plan /\ p.plan \subseteq Lines
  <2>1. PICK i \in DOMAIN r.pages : p = r.pages[i]
    BY DEF Pages, Range
  <2> QED
    BY <2>1, PagesOf DEF Within, PageRec
<1>2. /\ r.version \in Nat /\ r.left \subseteq Lines /\ r.base \subseteq Lines
      /\ r.force \in BOOLEAN
  BY DEF RequestRec
<1> QED
  BY <1>1, <1>2 DEF IsRequest

LEMMA PageInvTypeOK == PageInv => TypeOK
<1> SUFFICES ASSUME PageInv PROVE TypeOK
  OBVIOUS
<1>1. Types /\ Turns /\ Stored /\ \A d \in Calls : CallOf(d) /\ Copied(d)
  BY DEF PageInv
<1>2. IsRequest(request)
  BY <1>1, RequestIs DEF Types, Stored
<1>3. ASSUME NEW c \in Calls PROVE IsRequest(call[c].request)
  <2>1. call[c] \in CallRec /\ call[c].request \in RequestRec
    BY <1>1 DEF Types, CallRec
  <2>2. CASE Resumes(c) /\ c \in Running
    BY <1>1, <2>1, <2>2, RequestIs DEF Copied, CopyOf
  <2>3. CASE ~Active(c)
    <3>1. call[c].request.pages = <<>>
      BY <1>1, <2>3, NoCallIs, NewRequestIs DEF CallOf
    <3> QED
      BY <2>1, <3>1, RequestIs DEF Within
  <2>4. CASE ~Resumes(c) \/ call[c].pc = "sent"
    <3>1. call[c].request.pages = <<>>
      BY <1>1, <2>4 DEF CallOf
    <3> QED
      BY <2>1, <3>1, RequestIs DEF Within
  <2> QED
    BY <2>2, <2>3, <2>4 DEF Running, Active
<1>4. ASSUME ~concurrent PROVE Cardinality(Running) <= 1
  <2>1. CASE Running = {}
    BY <2>1, FS_EmptySet
  <2>2. ASSUME NEW c \in Running PROVE Cardinality(Running) <= 1
    <3>1. Running = {c}
      BY <1>1, <1>4 DEF Turns
    <3>2. Cardinality(Running) = 1
      BY <3>1, FS_Singleton, Zenon
    <3> QED
      BY <3>2
  <2> QED
    BY <2>1, <2>2
<1>5. \A i, j \in DOMAIN request.pages :
        request.pages[i].version = request.pages[j].version => i = j
  BY <1>1 DEF Stored, Distinct
<1>6. cursor \in Nat \cup {None, Finished, Withheld} /\ \A v \in given : v \in Nat
  BY <1>1 DEF Types, Places
<1> QED
  BY <1>1, <1>2, <1>3, <1>4, <1>5, <1>6 DEF TypeOK, Types

LEMMA PageInvAgree == PageInv => PagesAgree
<1> SUFFICES ASSUME PageInv, NEW c \in Calls, Resumes(c), call[c].pc \in {"planned", "booked"}
             PROVE  Fixed(request, call[c].page) /\ PageAt(request, call[c].page).plan = call[c].plan
  BY DEF PagesAgree
<1>1. request \in RequestRec /\ Stored /\ Copied(c)
  BY DEF PageInv, Types
<1>2. PICK j \in DOMAIN call[c].request.pages :
        call[c].request.pages[j].version = call[c].page /\ call[c].request.pages[j].plan = call[c].plan
  BY <1>1 DEF Copied, Running, Has
<1>3. Has(request, call[c].page, call[c].plan)
  BY <1>1, <1>2 DEF Copied, Running, CopyOf
<1>4. Fixed(request, call[c].page)
  BY <1>1, <1>3, FixedIs DEF Has
<1>5. PICK i \in DOMAIN request.pages :
        PageAt(request, call[c].page) = request.pages[i] /\ request.pages[i].version = call[c].page
  BY <1>1, <1>4, PageAtIs
<1> QED
  BY <1>1, <1>3, <1>4, <1>5 DEF Has, Stored, Distinct

\* No put moves or forgets a page.
LEMMA PutKeepsPages ==
  ASSUME PageInv, Next, request'.version > request.version
  PROVE  \A p \in Pages(request) : \E q \in Pages(request') :
           q.version = p.version /\ q.plan = p.plan
<1>1. Types /\ Stored /\ request \in RequestRec /\ request.version \in Nat
      /\ \A c \in Calls : call[c].body \subseteq Lines
  BY DEF PageInv, Types, RequestRec, CallRec
<1>2. request' # request
  BY <1>1
<1>3. ASSUME \A v, plan : Has(request, v, plan) => Has(request', v, plan)
      PROVE  \A p \in Pages(request) : \E q \in Pages(request') :
               q.version = p.version /\ q.plan = p.plan
  <2> SUFFICES ASSUME NEW p \in Pages(request)
               PROVE  \E q \in Pages(request') : q.version = p.version /\ q.plan = p.plan
    OBVIOUS
  <2>1. Has(request, p.version, p.plan)
    BY DEF Pages, Range, Has
  <2>2. PICK j \in DOMAIN request'.pages :
          request'.pages[j].version = p.version /\ request'.pages[j].plan = p.plan
    BY <1>3, <2>1 DEF Has
  <2>3. request'.pages[j] \in Pages(request')
    BY DEF Pages, Range
  <2> QED
    BY <2>2, <2>3
<1>4. CASE \E c \in Calls : FixPage(c)
  <2>1. PICK c \in Calls : FixPage(c)
    BY <1>4
  <2>2. Grows
    BY <2>1, FixPageIs
  <2> QED
    BY <1>2, <1>3, <2>2 DEF Grows
<1>5. ASSUME NEW c \in Calls, NEW sent \in SUBSET Lines,
         NEW withheld \in WithholdLowValuePageNext(c), Emit(c, sent, withheld)
      PROVE  \A p \in Pages(request) : \E q \in Pages(request') :
               q.version = p.version /\ q.plan = p.plan
  <2>1. /\ request' \in RequestRec
        /\ call[c].kind = "plain" => request' = request
        /\ Opens(c) => \/ request' = request
                       \/ request'.version = 1
        /\ Resumes(c) => request'.version = request.version + 1 /\ Paged(request', request)
    BY <1>5, EmitPuts
  <2>2. CASE Resumes(c)
    <3>1. DOMAIN request'.pages = DOMAIN request.pages
      BY <1>1, <2>1, <2>2, PagesOf DEF Paged
    <3> QED
      BY <1>3, <2>1, <2>2, <3>1 DEF Has, Paged
  <2>3. CASE Opens(c)
    <3>1. request.version = 0
      BY <1>1, <1>2, <2>1, <2>3
    <3> QED
      BY <1>1, <3>1 DEF Stored, Pages, Range
  <2>4. call[c].kind \in Kinds
    BY <1>1 DEF Types, CallRec
  <2> QED
    BY <1>2, <2>1, <2>2, <2>3, <2>4 DEF Kinds, Opens, Resumes
<1>6. CASE \E c \in Calls : Answer(c)
  <2>1. PICK c \in Calls, n \in {NLines} \cup 1..NLines, withheld \in BOOLEAN :
          withheld \in WithholdLowValuePageNext(c) /\ Emit(c, FirstOf(n, call[c].body), withheld)
    BY <1>6, PagesAssumption DEF Answer, WithholdLowValuePageNext
  <2>2. FirstOf(n, call[c].body) \in SUBSET Lines
    BY <1>1 DEF FirstOf
  <2> QED
    BY <1>5, <2>1, <2>2
<1>7. CASE \E c \in Calls : Refuse(c)
  <2>1. PICK c \in Calls : Emit(c, {}, FALSE) /\ FALSE \in WithholdLowValuePageNext(c)
    BY <1>7 DEF Refuse, WithholdLowValuePageNext
  <2>2. {} \in SUBSET Lines
    OBVIOUS
  <2> QED
    BY <1>5, <2>1, <2>2
<1>8. CASE \/ \E c \in Calls : OpenRequest(c) \/ FollowCursor(c) \/ ResendCursor(c) \/ ReadWindow(c)
                               \/ Cancel(c) \/ Start(c) \/ Serve(c) \/ Throw(c)
           \/ Receive \/ Compact \/ Kill
  BY <1>2, <1>8
     DEF OpenRequest, FollowCursor, ResendCursor, ReadWindow, Send, Cancel, Start, 
     Serve, Throw, Receive, Compact, Kill
<1> QED
  BY <1>4, <1>6, <1>7, <1>8 DEF Next, Serves, Follows

\* PageInv, the invariant of the paged request: each call's copy of the
\* record and each page that it serves come from the stored record.
THEOREM PagesInvariant == Spec => []PageInv
<1> QED
  BY InitPageInv, PageInvStep, PTL DEF Spec

\* The type invariant: what a page ships is within its boundary, there is
\* one page for each version, and one call at a time where the transport is
\* serial (unionShipped, fixPage).
THEOREM RequestTypeCorrect == Spec => []TypeOK
<1> QED
  BY PagesInvariant, PageInvTypeOK, PTL

\* Calls that serve one cursor serve one page: who loses the race to fix it
\* adopts the boundary of who won (fixPage).
THEOREM OnePagePerCursor == Spec => []PagesAgree
<1> QED
  BY PagesInvariant, PageInvAgree, PTL

\* A page once fixed is neither moved nor forgotten while its request goes on,
\* whichever call puts the record (fixPage, rebaseOnLive).
THEOREM PagesAreKept == Spec => PagesStay
<1>1. PageInv /\ [Next]_vars =>
        [request'.version > request.version =>
           \A p \in Pages(request) : \E q \in Pages(request') :
             q.version = p.version /\ q.plan = p.plan]_vars
  BY PutKeepsPages
<1> QED
  BY <1>1, PagesInvariant, PTL DEF Spec, PagesStay

-----------------------------------------------------------------------------
(* Receipts on the serial transport *)

\* Lines on the wire up to the answer n, and of any answer.
WireTo(n) == {l \in Lines : \E j \in DOMAIN wire : j <= n /\ l \in wire[j].lines}
WireLines == {l \in Lines : \E j \in DOMAIN wire : l \in wire[j].lines}

\* Lines that have left the server.
Known == held \cup lost \cup WireLines

\* Lines that a response in the making carries.
Booked == {l \in Lines : \E c \in Calls : call[c].pc = "booked" /\ l \in call[c].body}

\* With the client's marker seen, what the ledger claims has left the server
\* or is about to; and no answer names a line as held that does not come
\* before it.
Receipts ==
  /\ seen = None => settled = {} /\ pending = {}
  /\ seen = marker => settled \subseteq Known /\ pending \subseteq lost \cup Booked
  /\ Running # {} => seen = marker
  /\ \A c \in Calls : call[c].told \subseteq Known
  /\ \A i \in DOMAIN wire : wire[i].told \subseteq held \cup lost \cup WireTo(i)
  /\ told \subseteq held \cup lost

\* One answer more on the wire.
LEMMA WireGrows ==
  ASSUME wire \in Seq(AnswerRec), NEW a \in AnswerRec, wire' = Append(wire, a)
  PROVE  /\ WireLines' = WireLines \cup a.lines
         /\ \A i \in DOMAIN wire : wire'[i] = wire[i] /\ WireTo(i)' = WireTo(i)
         /\ \A i \in DOMAIN wire' \ DOMAIN wire :
              wire'[i] = a /\ WireTo(i)' = WireLines \cup a.lines
<1> DEFINE n == Len(wire)
<1>1. /\ n \in Nat /\ DOMAIN wire = 1..n /\ DOMAIN wire' = 1..(n+1)
      /\ \A i \in DOMAIN wire : wire'[i] = wire[i]
      /\ wire'[n+1] = a
  BY AppendProperties, LenProperties
<1>2. a.lines \subseteq Lines
  BY DEF AnswerRec
<1>3. /\ \A i \in DOMAIN wire' : i \in DOMAIN wire \/ i = n + 1
      /\ \A i, j \in DOMAIN wire' : i \notin DOMAIN wire => j <= i
  BY <1>1
<1> HIDE DEF n
<1>4. WireLines' = WireLines \cup a.lines
  BY <1>1, <1>2, <1>3 DEF WireLines, Lines
<1>5. \A i \in DOMAIN wire : WireTo(i)' = WireTo(i)
  BY <1>1, <1>3 DEF WireTo, Lines
<1>6. \A i \in DOMAIN wire' \ DOMAIN wire : WireTo(i)' = WireLines'
  BY <1>3 DEF WireTo, WireLines, Lines
<1> QED
  BY <1>1, <1>3, <1>4, <1>5, <1>6

\* The client reads the first answer.
LEMMA WireShrinks ==
  ASSUME wire \in Seq(AnswerRec), wire # <<>>, wire' = Tail(wire)
  PROVE  /\ WireLines = wire[1].lines \cup WireLines'
         /\ WireTo(1) = wire[1].lines
         /\ \A i \in DOMAIN wire' : WireTo(i + 1) = wire[1].lines \cup WireTo(i)'
<1>1. /\ 1 \in DOMAIN wire /\ wire[1] \in AnswerRec
      /\ \A i \in DOMAIN wire' :
           i \in Nat /\ i + 1 \in DOMAIN wire /\ wire'[i] = wire[i + 1] /\ i + 1 # 1
  BY TailOf
<1>2. \A j \in DOMAIN wire : j = 1 \/ (j - 1 \in DOMAIN wire' /\ wire'[j - 1] = wire[j])
  BY TailHas
<1>3. wire[1].lines \subseteq Lines
  BY <1>1 DEF AnswerRec
<1>4. WireLines = wire[1].lines \cup WireLines'
  BY <1>1, <1>2, <1>3 DEF WireLines, Lines
<1>5. DOMAIN wire \subseteq Nat \ {0}
  BY LenProperties
<1>6. WireTo(1) = wire[1].lines
  BY <1>1, <1>3, <1>5 DEF WireTo
<1>7. ASSUME NEW i \in DOMAIN wire' PROVE WireTo(i + 1) = wire[1].lines \cup WireTo(i)'
  <2>1. \A l \in Lines : (\E j \in DOMAIN wire : j <= i + 1 /\ l \in wire[j].lines)
                         <=> l \in wire[1].lines
                             \/ \E j \in DOMAIN wire' : j <= i /\ l \in wire'[j].lines
    <3> SUFFICES ASSUME NEW l \in Lines
                 PROVE  (\E j \in DOMAIN wire : j <= i + 1 /\ l \in wire[j].lines)
                         <=> l \in wire[1].lines
                             \/ \E j \in DOMAIN wire' : j <= i /\ l \in wire'[j].lines
      OBVIOUS
    <3>1. i \in Nat
      BY <1>1
    <3>2. ASSUME NEW j \in DOMAIN wire, j <= i + 1, l \in wire[j].lines, j # 1
          PROVE  \E m \in DOMAIN wire' : m <= i /\ l \in wire'[m].lines
      <4>1. j - 1 \in DOMAIN wire' /\ wire'[j - 1] = wire[j]
        BY <1>2, <3>2
      <4>2. j - 1 <= i
        BY <1>5, <3>1, <3>2
      <4> QED
        BY <3>2, <4>1, <4>2
    <3>3. ASSUME NEW j \in DOMAIN wire', j <= i, l \in wire'[j].lines
          PROVE  \E m \in DOMAIN wire : m <= i + 1 /\ l \in wire[m].lines
      BY <1>1, <3>1, <3>3
    <3>4. 1 <= i + 1
      BY <3>1
    <3> QED
      BY <1>1, <3>2, <3>3, <3>4
  <2> QED
    BY <1>3, <2>1 DEF WireTo, Lines
<1> QED
  BY <1>4, <1>6, <1>7

\* The same on a step that leaves the wire alone.
LEMMA WireStays ==
  ASSUME wire' = wire
  PROVE  WireLines' = WireLines /\ \A i : WireTo(i)' = WireTo(i)
BY DEF WireLines, WireTo, Lines

\* A step of one call that books nothing and writes nothing.
LEMMA ReceiptsStay ==
  ASSUME PageInv, Receipts, NEW c \in Calls,
         \A d \in Calls \ {c} : call'[d] = call[d],
         call[c].pc = "booked" => call'[c].pc = "booked" /\ call'[c].body = call[c].body,
         call'[c].told \subseteq call[c].told,
         settled' \subseteq settled, pending' \subseteq pending,
         seen' = seen \/ seen' = marker,
         seen' # seen /\ seen # None => settled' = {} /\ pending' = {},
         Running' # {} => Running # {} \/ seen' = marker,
         marker' = marker, wire' = wire, held' = held, lost' = lost, told' = told
  PROVE  Receipts'
<1>1. WireLines' = WireLines /\ \A i : WireTo(i)' = WireTo(i)
  BY WireStays
<1>2. Known' = Known
  BY <1>1 DEF Known
<1>3. Booked \subseteq Booked'
  BY DEF Booked, Lines
<1>4. marker # None
  BY DEF PageInv, Types, None
<1>5. seen' = None => settled' = {} /\ pending' = {}
  BY <1>4 DEF Receipts
<1>6. seen' = marker' => settled' \subseteq Known' /\ pending' \subseteq lost' \cup Booked'
  BY <1>2, <1>3, <1>4 DEF Receipts
<1>7. Running' # {} => seen' = marker'
  BY DEF Receipts
<1>8. \A d \in Calls : call'[d].told \subseteq Known'
  BY <1>2 DEF Receipts
<1> QED
  BY <1>1, <1>5, <1>6, <1>7, <1>8 DEF Receipts

LEMMA SendReceipts ==
  ASSUME PageInv, Receipts, NEW c \in Calls,
         OpenRequest(c) \/ FollowCursor(c) \/ ResendCursor(c) \/ ReadWindow(c)
  PROVE  Receipts'
<1>1. Types
  BY DEF PageInv
<1>2. PICK kind, v, force, plan : Send(c, kind, v, force, plan)
  BY DEF OpenRequest, FollowCursor, ResendCursor, ReadWindow
<1>3. /\ call' = [call EXCEPT ![c] = [NoCall EXCEPT !.pc = "sent", !.kind = kind, !.at = v,
                                      !.request.force = force, !.plan = plan]]
      /\ call[c].pc = "idle"
      /\ settled' = settled /\ pending' = pending /\ seen' = seen
      /\ marker' = marker /\ wire' = wire /\ held' = held /\ told' = told /\ lost' = lost
  BY <1>2 DEF Send, server
<1>4. call'[c].pc = "sent" /\ call'[c].told = {} /\ \A d \in Calls \ {c} : call'[d] = call[d]
  BY <1>1, <1>3 DEF Types, NoCall
<1>5. Running' = Running
  BY <1>3, <1>4 DEF Running
<1> QED
  BY <1>3, <1>4, <1>5, ReceiptsStay

LEMMA CancelReceipts ==
  ASSUME PageInv, Receipts, NEW c \in Calls, Cancel(c)
  PROVE  Receipts'
<1>1. Types
  BY DEF PageInv
<1>2. /\ call' = [call EXCEPT ![c] = IF call[c].pc = "sent" THEN NoCall
                                     ELSE [call[c] EXCEPT !.cancelled = TRUE]]
      /\ settled' = settled /\ pending' = pending /\ seen' = seen
      /\ marker' = marker /\ wire' = wire /\ held' = held /\ told' = told /\ lost' = lost
  BY <1>1 DEF Cancel, server, client, Types
<1>3. /\ \A d \in Calls \ {c} : call'[d] = call[d]
      /\ \/ call[c].pc = "sent" /\ call'[c] = NoCall
         \/ /\ call[c].pc # "sent" /\ call'[c].pc = call[c].pc
            /\ call'[c].body = call[c].body /\ call'[c].told = call[c].told
  BY <1>1, <1>2 DEF Types, CallRec
<1>4. call'[c].told \subseteq call[c].told /\ (Running' # {} => Running # {})
  BY <1>3, NoCallIs DEF Running
<1> QED
  BY <1>2, <1>3, <1>4, ReceiptsStay

LEMMA StartReceipts ==
  ASSUME PageInv, Receipts, NEW c \in Calls, Start(c)
  PROVE  Receipts'
<1>1. Types
  BY DEF PageInv
<1>2. /\ \A d \in Calls \ {c} : call'[d] = call[d]
      /\ call[c].pc = "sent" /\ call'[c].told = call[c].told
      /\ seen' = marker /\ settled' \subseteq settled /\ pending' \subseteq pending
  BY <1>1, StartIs
<1>3. seen' # seen /\ seen # None => settled' = {} /\ pending' = {}
  BY DEF Start, NoteCompactionMarker, Forgotten
<1>4. marker' = marker /\ wire' = wire /\ held' = held /\ told' = told /\ lost' = lost
  BY DEF Start, client
<1> QED
  BY <1>2, <1>3, <1>4, ReceiptsStay

LEMMA FixPageReceipts ==
  ASSUME PageInv, Receipts, NEW c \in Calls, FixPage(c)
  PROVE  Receipts'
<1>1. Types
  BY DEF PageInv
<1>2. PICK r \in RequestRec, v \in Nat, plan \in SUBSET Lines :
        /\ call' = [call EXCEPT ![c].pc = "planned", ![c].request = r,
                                ![c].page = v, ![c].plan = plan]
        /\ request' \in RequestRec /\ Stored' /\ Grows /\ CopyOf(r)' /\ Has(r, v, plan)
  BY FixPageIs
<1>3. call[c].pc = "resolved" /\ call[c] \in CallRec /\ call \in [Calls -> CallRec]
  BY <1>1 DEF FixPage, Types
<1>4. call'[c].told = call[c].told /\ \A d \in Calls \ {c} : call'[d] = call[d]
  BY <1>2, <1>3 DEF CallRec
<1>5. /\ settled' = settled /\ pending' = pending /\ seen' = seen
      /\ marker' = marker /\ wire' = wire /\ held' = held /\ told' = told /\ lost' = lost
  BY DEF FixPage, ServesPage, server, client
<1>6. Running # {}
  BY <1>3 DEF Running
<1> QED
  BY <1>3, <1>4, <1>5, <1>6, ReceiptsStay

\* What the ledger claims when a line is receipted has left the server: no
\* other call is about to send it.
LEMMA ServeReceipts ==
  ASSUME PageInv, Receipts, ~concurrent, NEW c \in Calls, Serve(c)
  PROVE  Receipts'
<1>1. Types /\ Turns
  BY DEF PageInv
<1>2. PICK body \in SUBSET Lines :
        /\ \A d \in Calls \ {c} : call'[d] = call[d]
        /\ call[c].pc = "planned" /\ call'[c].pc = "booked"
        /\ call'[c].body = body /\ call'[c].told = call[c].plan \ body
        /\ pending' = pending \cup body /\ call[c].plan \ body \subseteq Claims
  BY <1>1, ServeIs
<1>3. /\ settled' = settled /\ seen' = seen
      /\ marker' = marker /\ wire' = wire /\ held' = held /\ told' = told /\ lost' = lost
  BY DEF Serve, client
<1>4. c \in Running /\ seen = marker
  BY <1>2 DEF Running, Receipts
<1>5. \A d \in Calls : call[d].pc # "booked"
  BY <1>1, <1>2, <1>4 DEF Turns, Running
<1>6. settled \subseteq Known /\ pending \subseteq lost
  BY <1>4, <1>5 DEF Receipts, Booked
<1>7. WireLines' = WireLines /\ \A i : WireTo(i)' = WireTo(i)
  BY <1>3, WireStays
<1>8. Known' = Known
  BY <1>3, <1>7 DEF Known
<1>9. call[c].plan \ body \subseteq Known
  BY <1>2, <1>6 DEF Claims, Known
<1>10. \A d \in Calls : call'[d].told \subseteq Known'
  BY <1>2, <1>8, <1>9 DEF Receipts
<1>11. body \subseteq Booked'
  BY <1>2 DEF Booked, Lines
<1>12. marker # None
  BY <1>1 DEF Types, None
<1> QED
  BY <1>2, <1>3, <1>4, <1>6, <1>7, <1>8, <1>10, <1>11, <1>12 DEF Receipts

LEMMA ThrowReceipts ==
  ASSUME PageInv, Receipts, NEW c \in Calls, Throw(c)
  PROVE  Receipts'
<1>1. Types
  BY DEF PageInv
<1>2. /\ call' = [call EXCEPT ![c] = NoCall] /\ call[c].pc = "booked"
      /\ settled' = settled /\ pending' = pending /\ seen' = seen
      /\ marker' = marker /\ wire' = wire /\ held' = held /\ told' = told
      /\ lost' = lost \cup call[c].body
  BY DEF Throw, server, client
<1>3. call'[c] = NoCall /\ \A d \in Calls \ {c} : call'[d] = call[d]
  BY <1>1, <1>2 DEF Types
<1>4. WireLines' = WireLines /\ \A i : WireTo(i)' = WireTo(i)
  BY <1>2, WireStays
<1>5. Known \subseteq Known'
  BY <1>2, <1>4 DEF Known
<1>6. lost \cup Booked \subseteq lost' \cup Booked'
  BY <1>2, <1>3 DEF Booked, Lines
<1>7. Running' # {} => Running # {}
  BY <1>3, NoCallIs DEF Running
<1>8. \A d \in Calls : call'[d].told \subseteq Known'
  BY <1>3, <1>5, NoCallIs DEF Receipts
<1>9. seen' = marker' => settled' \subseteq Known' /\ pending' \subseteq lost' \cup Booked'
  BY <1>2, <1>5, <1>6 DEF Receipts
<1>10. \A i \in DOMAIN wire' : wire'[i].told \subseteq held' \cup lost' \cup WireTo(i)'
  BY <1>2, <1>4 DEF Receipts
<1> QED
  BY <1>2, <1>7, <1>8, <1>9, <1>10 DEF Receipts

\* A response settles what it carries, and what it names as held came before.
LEMMA EmitReceipts ==
  ASSUME PageInv, Receipts, NEW c \in Calls, NEW sent \in SUBSET Lines,
         NEW withheld \in WithholdLowValuePageNext(c), Emit(c, sent, withheld)
  PROVE  Receipts'
<1>1. Types
  BY DEF PageInv
<1>2. /\ settled' = settled \cup (pending \cap sent) /\ pending' = {}
      /\ seen' = seen /\ marker' = marker /\ held' = held /\ told' = told
      /\ call[c].cancelled => lost' = lost \cup sent \cup call[c].told
      /\ ~call[c].cancelled => lost' = lost
  BY DEF Emit, SettleBookings, client
<1>3. /\ call'[c] = NoCall /\ \A d \in Calls \ {c} : call'[d] = call[d]
      /\ AnswerOf(c, sent, withheld) \in AnswerRec
      /\ call[c].cancelled => wire' = wire
      /\ ~call[c].cancelled => wire' = Append(wire, AnswerOf(c, sent, withheld))
      /\ c \in Running
  BY EmitIs
<1>4. seen = marker /\ marker # None
  BY <1>1, <1>3 DEF Receipts, Types, None
<1>5. /\ Known \cup sent \subseteq Known'
      /\ \A i \in DOMAIN wire' : wire'[i].told \subseteq held' \cup lost' \cup WireTo(i)'
  <2>1. CASE call[c].cancelled
    <3>1. wire' = wire
      BY <1>3, <2>1
    <3>2. WireLines' = WireLines /\ \A i : WireTo(i)' = WireTo(i)
      BY <3>1, WireStays
    <3> QED
      BY <1>2, <2>1, <3>1, <3>2 DEF Known, Receipts
  <2>2. CASE ~call[c].cancelled
    <3> DEFINE a == AnswerOf(c, sent, withheld)
    <3>1. a.lines = sent /\ a.told \subseteq call[c].told /\ a \in AnswerRec
      BY <1>3 DEF AnswerOf
    <3>2. wire' = Append(wire, a) /\ wire \in Seq(AnswerRec)
      BY <1>1, <1>3, <2>2 DEF Types
    <3> HIDE DEF a
    <3>3. /\ WireLines' = WireLines \cup a.lines
          /\ \A i \in DOMAIN wire : wire'[i] = wire[i] /\ WireTo(i)' = WireTo(i)
          /\ \A i \in DOMAIN wire' \ DOMAIN wire :
               wire'[i] = a /\ WireTo(i)' = WireLines \cup a.lines
      BY <3>1, <3>2, WireGrows
    <3>4. a.told \subseteq Known
      BY <3>1 DEF Receipts
    <3>5. Known \cup sent \subseteq Known'
      BY <1>2, <2>2, <3>1, <3>3 DEF Known
    <3>6. ASSUME NEW i \in DOMAIN wire'
          PROVE  wire'[i].told \subseteq held' \cup lost' \cup WireTo(i)'
      <4>1. CASE i \in DOMAIN wire
        BY <1>2, <2>2, <3>3, <4>1 DEF Receipts
      <4>2. CASE i \notin DOMAIN wire
        BY <1>2, <2>2, <3>3, <3>4, <4>2 DEF Known
      <4> QED
        BY <4>1, <4>2
    <3> QED
      BY <3>5, <3>6
  <2> QED
    BY <2>1, <2>2
<1>6. \A d \in Calls : call'[d].told \subseteq Known'
  BY <1>3, <1>5, NoCallIs DEF Receipts
<1>7. settled' \subseteq Known'
  BY <1>2, <1>4, <1>5 DEF Receipts
<1>8. told' \subseteq held' \cup lost'
  BY <1>2 DEF Receipts
<1> QED
  BY <1>2, <1>4, <1>5, <1>6, <1>7, <1>8 DEF Receipts

LEMMA ReceiveReceipts ==
  ASSUME PageInv, Receipts, Receive
  PROVE  Receipts'
<1>1. Types
  BY DEF PageInv
<1>2. wire # <<>> /\ wire' = Tail(wire) /\ wire \in Seq(AnswerRec)
  BY <1>1 DEF Receive, Types
<1>3. /\ Head(wire) = wire[1] /\ 1 \in DOMAIN wire
      /\ \A i \in DOMAIN wire' :
           i \in Nat /\ i + 1 \in DOMAIN wire /\ wire'[i] = wire[i + 1] /\ i + 1 # 1
  BY <1>2, TailOf
<1>4. /\ WireLines = wire[1].lines \cup WireLines'
      /\ WireTo(1) = wire[1].lines
      /\ \A i \in DOMAIN wire' : WireTo(i + 1) = wire[1].lines \cup WireTo(i)'
  BY <1>2, WireShrinks
<1>5. /\ held' = held \cup wire[1].lines /\ told' = wire[1].told
      /\ settled' = settled /\ pending' = pending /\ seen' = seen
      /\ marker' = marker /\ call' = call /\ lost' = lost
  BY <1>3 DEF Receive, server
<1>6. Known' = Known
  BY <1>4, <1>5 DEF Known
<1>7. Booked' = Booked /\ Running' = Running
  BY <1>5 DEF Booked, Running, Lines
<1>8. told' \subseteq held' \cup lost'
  BY <1>3, <1>4, <1>5 DEF Receipts
<1>9. \A i \in DOMAIN wire' : wire'[i].told \subseteq held' \cup lost' \cup WireTo(i)'
  BY <1>3, <1>4, <1>5 DEF Receipts
<1> QED
  BY <1>5, <1>6, <1>7, <1>8, <1>9 DEF Receipts

LEMMA CompactReceipts ==
  ASSUME PageInv, Receipts, Compact
  PROVE  Receipts'
<1>1. Types /\ \A c \in Calls : CallOf(c)
  BY DEF PageInv
<1>2. /\ settled' = settled /\ pending' = pending /\ seen' = seen
      /\ marker' = marker + 1 /\ wire' = <<>> /\ told' = {} /\ call' = call
      /\ \A c \in Calls : ~Active(c)
  BY DEF Compact, server, Active
<1>3. seen' # marker'
  BY <1>1, <1>2 DEF Types, None
<1>4. \A c \in Calls : call'[c].told = {}
  BY <1>1, <1>2, NoCallIs DEF CallOf
<1>5. Running' = {}
  BY <1>2 DEF Running, Active
<1> QED
  BY <1>2, <1>3, <1>4, <1>5 DEF Receipts

LEMMA KillReceipts ==
  ASSUME PageInv, Receipts, Kill
  PROVE  Receipts'
<1>1. /\ settled' = {} /\ pending' = {} /\ seen' = None
      /\ wire' = <<>> /\ held' = held /\ told' = told /\ lost \subseteq lost'
      /\ \A c \in Calls : call'[c] = NoCall
  BY DEF Kill, client
<1>2. Running' = {} /\ \A c \in Calls : call'[c].told = {}
  BY <1>1, NoCallIs DEF Running
<1> QED
  BY <1>1, <1>2 DEF Receipts

\* Receipts stands on the serial transport.
SerialReceipts == ~concurrent => Receipts

LEMMA EraStays == [Next]_vars => concurrent' = concurrent
<1>1. ASSUME NEW c \in Calls, Follows(c) \/ ResendCursor(c) \/ ReadWindow(c)
      PROVE  concurrent' = concurrent
  BY <1>1 DEF Follows, OpenRequest, FollowCursor, ResendCursor, ReadWindow, Send
<1>2. ASSUME NEW c \in Calls, FixPage(c) PROVE concurrent' = concurrent
  BY <1>2 DEF FixPage, ServesPage
<1>3. ASSUME NEW c \in Calls, Answer(c) \/ Refuse(c) PROVE concurrent' = concurrent
  BY <1>3 DEF Answer, Refuse, Emit
<1>4. ASSUME NEW c \in Calls, Cancel(c) \/ Start(c) \/ Serve(c) \/ Throw(c)
      PROVE  concurrent' = concurrent
  BY <1>4 DEF Cancel, Start, Serve, Throw
<1>5. CASE Receive \/ Compact \/ Kill \/ UNCHANGED vars
  BY <1>5 DEF Receive, Compact, Kill, vars
<1> QED
  BY <1>1, <1>2, <1>3, <1>4, <1>5 DEF Next, Serves

LEMMA ReceiptsStep == PageInv /\ SerialReceipts /\ [Next]_vars => SerialReceipts'
<1> SUFFICES ASSUME PageInv, Receipts, ~concurrent, [Next]_vars PROVE Receipts'
  BY EraStays DEF SerialReceipts
<1>1. Types /\ \A c \in Calls : call[c].body \subseteq Lines
  BY DEF PageInv, Types, CallRec
<1>2. CASE \E c \in Calls : Follows(c) \/ ResendCursor(c) \/ ReadWindow(c)
  BY <1>2, SendReceipts DEF Follows
<1>3. CASE \E c \in Calls : Cancel(c) \/ Throw(c)
  BY <1>3, CancelReceipts, ThrowReceipts
<1>4. CASE \E c \in Calls : Start(c) \/ FixPage(c) \/ Serve(c)
  BY <1>4, StartReceipts, FixPageReceipts, ServeReceipts
<1>5. CASE \E c \in Calls : Answer(c)
  <2>1. PICK c \in Calls, n \in {NLines} \cup 1..NLines, withheld \in BOOLEAN :
          withheld \in WithholdLowValuePageNext(c) /\ Emit(c, FirstOf(n, call[c].body), withheld)
    BY <1>5, PagesAssumption DEF Answer, WithholdLowValuePageNext
  <2>2. FirstOf(n, call[c].body) \in SUBSET Lines
    BY <1>1 DEF FirstOf
  <2> QED
    BY <2>1, <2>2, EmitReceipts
<1>6. CASE \E c \in Calls : Refuse(c)
  <2>1. PICK c \in Calls : Emit(c, {}, FALSE) /\ FALSE \in WithholdLowValuePageNext(c)
    BY <1>6 DEF Refuse, WithholdLowValuePageNext
  <2>2. {} \in SUBSET Lines
    OBVIOUS
  <2> QED
    BY <2>1, <2>2, EmitReceipts
<1>7. CASE Receive \/ Compact \/ Kill
  BY <1>7, ReceiveReceipts, CompactReceipts, KillReceipts
<1>8. CASE UNCHANGED vars
  <2>1. /\ settled' = settled /\ pending' = pending /\ seen' = seen /\ marker' = marker
        /\ wire' = wire /\ held' = held /\ told' = told /\ lost' = lost /\ call' = call
    BY <1>8 DEF vars
  <2>2. WireLines' = WireLines /\ \A i : WireTo(i)' = WireTo(i)
    BY <2>1, WireStays
  <2>3. Known' = Known /\ Booked' = Booked /\ Running' = Running
    BY <2>1, <2>2 DEF Known, Booked, Running, Lines
  <2> QED
    BY <2>1, <2>2, <2>3 DEF Receipts
<1> QED
  BY <1>2, <1>3, <1>4, <1>5, <1>6, <1>7, <1>8 DEF Next, Serves

LEMMA InitReceipts == Init => SerialReceipts
<1> SUFFICES ASSUME Init PROVE Receipts
  BY DEF SerialReceipts
<1>1. settled = {} /\ pending = {} /\ wire = <<>> /\ told = {} /\ \A c \in Calls : call[c] = NoCall
  BY DEF Init
<1>2. Running = {} /\ \A c \in Calls : call[c].told = {}
  BY <1>1, NoCallIs DEF Running
<1> QED
  BY <1>1, <1>2 DEF Receipts

\* Receipts is invariant: spans that are booked and cut are taken back, and
\* those of another context are forgotten (servedRangeReceipt,
\* settleServedCallBookings, compactionEpoch.ts).
THEOREM ReceiptsInvariant == Spec => []SerialReceipts
<1> QED
  BY InitReceipts, ReceiptsStep, PagesInvariant, PTL DEF Spec

\* A line that an answer names as held is in the client's context, or was in a
\* response that was dropped or never sent (servedRangeReceipt).
THEOREM ReceiptsTrue == Spec => []ReceiptTrue
<1>1. SerialReceipts => ReceiptTrue
  BY DEF SerialReceipts, Receipts, ReceiptTrue
<1> QED
  BY <1>1, ReceiptsInvariant, PTL

-----------------------------------------------------------------------------
(* The end of the chain on the serial transport *)

\* What a death of the server would leave undelivered of what is on the wire.
Und == {l \in Lines : \E i \in DOMAIN wire : l \in Undelivered(wire[i])}

\* The client has these or will not get them otherwise: plain and resent
\* answers are not asked for again.  With Counted the answers to the
\* client's own steps count too.
Done == got \cup lost \cup Und
Counted == got \cup lost \cup WireLines

\* This answer, when it is read, is followed by its cursor.
Leads(i) == wire[i].kind \in Steps /\ wire[i].next > 0
Going == cursor > 0 \/ \E i \in DOMAIN wire : Leads(i)

\* What the ledger may subtract from the request counts for the client: it
\* began with what it held, or, if forced, the ledger is judged from then on.
Fits(r) == IF r.force THEN settled \ r.base \subseteq Counted ELSE held \subseteq got

IsOn(r, v) == \E i \in DOMAIN r.pages : r.pages[i].version = v

\* The calls: a copy is the stored request, an opening call fits, a forced one
\* names nothing as held, and the page of the client's cursor is served, or
\* there is nothing left.
CallSide ==
  /\ \A c \in Calls : Resumes(c) /\ c \in Running => call[c].request = request
  /\ \A c \in Calls : Opens(c) /\ call[c].pc = "sent" /\ ~call[c].request.force => held \subseteq got
  /\ \A c \in Calls : Opens(c) /\ c \in Running /\ ~call[c].cancelled => Fits(call[c].request)
  /\ \A c \in Calls : c \in Running /\ call[c].request.force => call[c].told = {}
  /\ \A c \in Calls : call[c].kind = "page" /\ call[c].pc \in {"planned", "booked"} =>
       call[c].page = cursor \/ (~IsOn(request, cursor) /\ request.left = {})

\* All pages but the one that the client asks for have been delivered.
PagesOut ==
  cursor > 0 =>
    /\ \A j \in DOMAIN request.pages :
         request.pages[j].version # cursor => request.pages[j].shipped \subseteq Done
    /\ /\ ~IsOn(request, cursor)
       /\ request.left = {} \/ (\E i \in DOMAIN wire : wire[i].kind \in Steps)
       => Lines \subseteq Done

\* An answer that leads on delivers what the others have not.
OnTheWay ==
  \A i \in DOMAIN wire : Leads(i) =>
    /\ \A j \in DOMAIN request.pages :
         request.pages[j].shipped \subseteq Done \cup wire[i].lines \cup wire[i].told
    /\ request.left = {} => Lines \subseteq Done \cup wire[i].lines \cup wire[i].told

\* An answer without a next comes last.
Ends ==
  /\ \A i \in DOMAIN wire : wire[i].kind \in Steps /\ wire[i].next = Finished =>
       Lines \subseteq got \cup lost \cup WireTo(i)
  /\ cursor = Finished => Lines \subseteq got \cup lost

ClientSide ==
  /\ Going => Fits(request)
  /\ request.force => \A i \in DOMAIN wire : wire[i].kind = "again" \/ Leads(i) => wire[i].told = {}
  /\ PagesOut
  /\ OnTheWay
  /\ Ends

LEMMA UndGrows ==
  ASSUME wire \in Seq(AnswerRec), NEW a \in AnswerRec, wire' = Append(wire, a)
  PROVE  Und' = Und \cup Undelivered(a)
<1> DEFINE n == Len(wire)
<1>1. /\ n \in Nat /\ DOMAIN wire = 1..n /\ DOMAIN wire' = 1..(n+1)
      /\ \A i \in DOMAIN wire : wire'[i] = wire[i]
      /\ wire'[n+1] = a
  BY AppendProperties, LenProperties
<1>2. Undelivered(a) \subseteq Lines
  BY DEF AnswerRec, Undelivered
<1>3. \A i \in DOMAIN wire' : i \in DOMAIN wire \/ i = n + 1
  BY <1>1
<1>4. n + 1 \in DOMAIN wire' /\ DOMAIN wire \subseteq DOMAIN wire'
  BY <1>1
<1> HIDE DEF n
<1>5. Und \subseteq Und'
  BY <1>1, <1>4 DEF Und, Lines
<1>6. Undelivered(a) \subseteq Und'
  BY <1>1, <1>2, <1>4 DEF Und, Lines
<1>7. Und' \subseteq Und \cup Undelivered(a)
  BY <1>1, <1>3 DEF Und, Lines
<1> QED
  BY <1>5, <1>6, <1>7

LEMMA UndShrinks ==
  ASSUME wire \in Seq(AnswerRec), wire # <<>>, wire' = Tail(wire)
  PROVE  /\ Und' \subseteq Und
         /\ Und \subseteq Undelivered(wire[1]) \cup Und'
<1>1. \A i \in DOMAIN wire' :
        i \in Nat /\ i + 1 \in DOMAIN wire /\ wire'[i] = wire[i + 1] /\ i + 1 # 1
  BY TailOf
<1>2. \A j \in DOMAIN wire : j = 1 \/ (j - 1 \in DOMAIN wire' /\ wire'[j - 1] = wire[j])
  BY TailHas
<1>3. Und' \subseteq Und
  BY <1>1 DEF Und, Lines
<1>4. Und \subseteq Undelivered(wire[1]) \cup Und'
  BY <1>2 DEF Und, Lines
<1> QED
  BY <1>3, <1>4

LEMMA UndStays ==
  ASSUME wire' = wire
  PROVE  Und' = Und
BY DEF Und, Lines

\* What a resent answer or one that leads on names as held counts.
LEMMA ToldCounts ==
  ASSUME Receipts, ClientSide, Going, NEW i \in DOMAIN wire,
         wire[i].kind = "again" \/ Leads(i)
  PROVE  wire[i].told \subseteq got \cup lost \cup WireTo(i)
BY DEF Receipts, ClientSide, Fits

LEMMA UndCounts ==
  ASSUME Types, Receipts, ClientSide, Going
  PROVE  Und \subseteq Counted
<1>1. ASSUME NEW i \in DOMAIN wire PROVE Undelivered(wire[i]) \subseteq Counted
  <2>1. wire[i].lines \subseteq WireLines
    <3>1. wire[i] \in AnswerRec
      BY DEF Types
    <3> QED
      BY <3>1 DEF AnswerRec, WireLines, Lines
  <2>2. WireTo(i) \subseteq WireLines
    BY DEF WireTo, WireLines
  <2>3. CASE wire[i].kind = "again"
    <3>1. wire[i].told \subseteq got \cup lost \cup WireTo(i)
      BY <2>3, ToldCounts
    <3> QED
      BY <2>1, <2>2, <2>3, <3>1 DEF Undelivered, Counted
  <2>4. CASE wire[i].kind # "again"
    BY <2>1, <2>4 DEF Undelivered, Counted
  <2> QED
    BY <2>3, <2>4
<1> QED
  BY <1>1 DEF Und

\* Nothing is left: whatever counts what the ledger subtracts and what the
\* pages shipped counts every line.
LEMMA NothingLeft ==
  ASSUME NEW r \in RequestRec, NEW s, LeftOf(r, s) = {}, NEW T,
         (IF r.force THEN s \ r.base ELSE s) \subseteq T,
         \A j \in DOMAIN r.pages : r.pages[j].shipped \subseteq T
  PROVE  Lines \subseteq T
<1>1. Shipped(r) \subseteq T
  BY DEF Shipped, Pages, Range
<1> QED
  BY <1>1 DEF LeftOf

\* An answer says what its account counts.
LEMMA AccountSaid ==
  ASSUME NEW c \in Calls, CallOf(c), call[c].pc = "booked", NEW sent, NEW withheld
  PROVE  /\ AnswerOf(c, sent, withheld).lines = sent
         /\ AnswerOf(c, sent, withheld).told \subseteq call[c].told
         /\ Account(c, sent) \subseteq sent \cup AnswerOf(c, sent, withheld).told
         /\ call[c].body # {} /\ sent = {} =>
              Account(c, sent) = {} /\ AnswerOf(c, sent, withheld).told = {}
BY DEF CallOf, Account, AnswerOf

\* The record has the same pages, or pages besides that shipped nothing yet.
Extends(new, old) ==
  /\ new.force = old.force /\ new.base = old.base /\ new.left = old.left
  /\ \A v : IsOn(old, v) => IsOn(new, v)
  /\ \A j \in DOMAIN new.pages :
       \/ new.pages[j].shipped = {}
       \/ \E k \in DOMAIN old.pages : /\ old.pages[k].version = new.pages[j].version
                                      /\ old.pages[k].shipped = new.pages[j].shipped

\* A step that neither writes nor reads an answer.
LEMMA ClientSideStays ==
  ASSUME ClientSide, wire' = wire, cursor' = cursor, held' = held, got' = got,
         lost \subseteq lost', settled' \subseteq settled, Extends(request', request)
  PROVE  ClientSide'
<1>1. WireLines' = WireLines /\ Und' = Und /\ \A i : WireTo(i)' = WireTo(i)
  BY WireStays, UndStays
<1>2. Done \subseteq Done' /\ Counted \subseteq Counted'
  BY <1>1 DEF Done, Counted
<1>3. (Going' <=> Going) /\ \A i : Leads(i)' <=> Leads(i)
  BY DEF Going, Leads
<1>4. Going' => Fits(request)'
  BY <1>2, <1>3 DEF ClientSide, Fits, Extends
<1>5. request'.force =>
        \A i \in DOMAIN wire' : wire'[i].kind = "again" \/ Leads(i)' => wire'[i].told = {}
  BY <1>3 DEF ClientSide, Extends
<1>6. PagesOut'
  <2>1. PagesOut
    BY DEF ClientSide
  <2>2. ASSUME cursor > 0, NEW j \in DOMAIN request'.pages, request'.pages[j].version # cursor
        PROVE  request'.pages[j].shipped \subseteq Done'
    BY <1>2, <2>1, <2>2 DEF PagesOut, Extends
  <2>3. ~IsOn(request', cursor) => ~IsOn(request, cursor)
    BY DEF Extends
  <2>4. request'.left = request.left
    BY DEF Extends
  <2> QED
    BY <1>2, <2>1, <2>2, <2>3, <2>4 DEF PagesOut, IsOn
<1>7. OnTheWay'
  <2>1. OnTheWay
    BY DEF ClientSide
  <2>2. ASSUME NEW i \in DOMAIN wire, Leads(i), NEW j \in DOMAIN request'.pages
        PROVE  request'.pages[j].shipped \subseteq Done' \cup wire[i].lines \cup wire[i].told
    BY <1>2, <2>1, <2>2 DEF OnTheWay, Extends
  <2>3. request'.left = request.left
    BY DEF Extends
  <2> QED
    BY <1>2, <1>3, <2>1, <2>2, <2>3 DEF OnTheWay
<1>8. Ends'
  BY <1>1 DEF ClientSide, Ends
<1> QED
  BY <1>4, <1>5, <1>6, <1>7, <1>8 DEF ClientSide

LEMMA SameExtends ==
  ASSUME request' = request
  PROVE  Extends(request', request)
BY DEF Extends

\* A step of one call, which stays what it was and keeps its copy.
LEMMA CallSideStays ==
  ASSUME CallSide, NEW c \in Calls, \A d \in Calls \ {c} : call'[d] = call[d],
         wire' = wire, cursor' = cursor, held' = held, got' = got, request' = request,
         lost \subseteq lost', settled' \subseteq settled,
         call'[c].kind = call[c].kind, call'[c].pc = call[c].pc,
         call'[c].request = call[c].request, call'[c].page = call[c].page,
         call'[c].told = call[c].told, call[c].cancelled => call'[c].cancelled
  PROVE  CallSide'
<1>1. WireLines' = WireLines
  BY WireStays
<1>2. \A r : Fits(r) => Fits(r)'
  BY <1>1 DEF Fits, Counted
<1>3. /\ Running' = Running
      /\ \A d \in Calls : /\ (Opens(d)' <=> Opens(d)) /\ (Resumes(d)' <=> Resumes(d))
                          /\ call'[d].pc = call[d].pc /\ call'[d].kind = call[d].kind
                          /\ call'[d].request = call[d].request /\ call'[d].page = call[d].page
                          /\ call'[d].told = call[d].told
                          /\ (call[d].cancelled => call'[d].cancelled)
  BY DEF Running, Opens, Resumes
<1>4. \A d \in Calls : Opens(d)' /\ d \in Running' /\ ~call'[d].cancelled => Fits(call[d].request)'
  <2> SUFFICES ASSUME NEW d \in Calls, Opens(d)', d \in Running', ~call'[d].cancelled
               PROVE  Fits(call[d].request)'
    OBVIOUS
  <2>1. PICK r : r = call[d].request
    OBVIOUS
  <2>2. Fits(r)'
    BY <1>2, <1>3, <2>1 DEF CallSide
  <2> QED
    BY <1>3, <2>1, <2>2 DEF Fits
<1>5. \A v : IsOn(request, v)' <=> IsOn(request, v)
  BY DEF IsOn
<1> QED
  BY <1>3, <1>4, <1>5 DEF CallSide

\* A step after which no call is running.
LEMMA CallSideRests ==
  ASSUME CallSide, NEW c \in Calls, \A d \in Calls \ {c} : call'[d] = call[d],
         Running' = {}, held' = held, got' = got, call'[c].pc # "sent"
  PROVE  CallSide'
<1>1. \A d \in Calls : call'[d].pc \notin {"planned", "booked"} /\ d \notin Running'
  BY DEF Running
<1>2. \A d \in Calls : Opens(d)' /\ call'[d].pc = "sent" /\ ~call'[d].request.force => held' \subseteq got'
  BY DEF CallSide, Opens
<1> QED
  BY <1>1, <1>2 DEF CallSide

Chain == CallSide /\ ClientSide

\* The client opens when nothing of an earlier step is under way.
LEMMA OpenChain ==
  ASSUME PageInv, Chain, NEW c \in Calls, OpenRequest(c)
  PROVE  Chain'
<1>1. Types /\ \A d \in Calls : CallOf(d)
  BY DEF PageInv
<1>2. PICK f \in Forces : Send(c, "open", 0, f, Lines) /\ got' = (IF f THEN {} ELSE held)
  BY DEF OpenRequest
<1>3. f \in BOOLEAN /\ cursor = None /\ ~Awaiting
  BY PagesAssumption DEF OpenRequest
<1>4. /\ call' \in [Calls -> CallRec]
      /\ \A d \in Calls \ {c} : call'[d] = call[d]
      /\ call[c].pc = "idle" /\ call'[c].pc = "sent" /\ call'[c].kind = "open"
      /\ call'[c].request = NewRequest(f, {}) /\ call'[c].told = {}
  BY <1>1, <1>2, <1>3, SendIs DEF Kinds
<1>5. /\ settled' = settled /\ request' = request /\ wire' = wire /\ cursor' = cursor
      /\ held' = held /\ lost' = lost
  BY <1>2 DEF Send, server
<1>6. /\ \A d \in Calls : Active(d) /\ Moves(d) => call[d].cancelled
      /\ \A i \in DOMAIN wire : wire[i].kind \notin Steps
  BY <1>3 DEF Awaiting, Active, Moves
<1>7. ~Going /\ ~Going' /\ ~(cursor > 0) /\ cursor # Finished
      /\ \A i \in DOMAIN wire : ~Leads(i) /\ ~Leads(i)'
  BY <1>3, <1>5, <1>6 DEF Going, Leads, None, Finished, Withheld
<1>8. ClientSide'
  <2>1. request'.force =>
          \A i \in DOMAIN wire' : wire'[i].kind = "again" \/ Leads(i)' => wire'[i].told = {}
    BY <1>5, <1>7 DEF Chain, ClientSide
  <2> QED
    BY <1>5, <1>6, <1>7, <2>1 DEF ClientSide, PagesOut, OnTheWay, Ends
<1>9. CallSide'
  <2>1. Running' = Running
    BY <1>4 DEF Running
  <2>2. \A d \in Calls : d \in Running => d # c /\ (Opens(d) => call[d].cancelled)
    BY <1>4, <1>6 DEF Running, Active, Moves, Opens, Steps
  <2>3. \A d \in Calls : Resumes(d)' /\ d \in Running' => call'[d].request = request'
    BY <1>4, <1>5, <2>1, <2>2 DEF Chain, CallSide, Resumes
  <2>4. ASSUME NEW d \in Calls, Opens(d)', call'[d].pc = "sent", ~call'[d].request.force
        PROVE  held' \subseteq got'
    <3>1. CASE d = c
      <4>1. ~f
        BY <1>3, <1>4, <2>4, <3>1, NewRequestIs
      <4> QED
        BY <1>2, <1>5, <4>1
    <3>2. CASE d # c
      <4>1. call[d].pc = "sent" /\ Opens(d)
        BY <1>4, <2>4, <3>2 DEF Opens
      <4>2. call[d].cancelled
        BY <1>6, <4>1 DEF Active, Moves, Opens, Steps
      <4> QED
        BY <1>1, <4>1, <4>2 DEF CallOf, Running
    <3> QED
      BY <3>1, <3>2
  <2>5. \A d \in Calls : ~(Opens(d)' /\ d \in Running' /\ ~call'[d].cancelled)
    BY <1>4, <2>1, <2>2 DEF Opens
  <2>6. \A d \in Calls : d \in Running' /\ call'[d].request.force => call'[d].told = {}
    BY <1>4, <2>1, <2>2 DEF Chain, CallSide
  <2>7. \A d \in Calls : call'[d].kind = "page" /\ call'[d].pc \in {"planned", "booked"} =>
          call'[d].page = cursor' \/ (~IsOn(request', cursor') /\ request'.left = {})
    BY <1>4, <1>5 DEF Chain, CallSide
  <2> QED
    BY <2>3, <2>4, <2>5, <2>6, <2>7 DEF CallSide, IsOn
<1> QED
  BY <1>8, <1>9 DEF Chain

LEMMA OtherSendChain ==
  ASSUME PageInv, Chain, NEW c \in Calls, FollowCursor(c) \/ ResendCursor(c) \/ ReadWindow(c)
  PROVE  Chain'
<1>1. Types
  BY DEF PageInv
<1>2. PICK kind, v, plan : kind # "open" /\ Send(c, kind, v, FALSE, plan) /\ got' = got
  BY DEF FollowCursor, ResendCursor, ReadWindow
<1>3. /\ call' = [call EXCEPT ![c] = [NoCall EXCEPT !.pc = "sent", !.kind = kind, !.at = v,
                                      !.request.force = FALSE, !.plan = plan]]
      /\ call[c].pc = "idle"
      /\ settled' = settled /\ request' = request /\ wire' = wire /\ cursor' = cursor
      /\ held' = held /\ lost' = lost
  BY <1>2 DEF Send, server
<1>4. /\ call'[c].pc = "sent" /\ call'[c].kind = kind
      /\ \A d \in Calls \ {c} : call'[d] = call[d]
  BY <1>1, <1>3 DEF Types, NoCall
<1>5. ClientSide'
  BY <1>2, <1>3, SameExtends, ClientSideStays DEF Chain
<1>6. CallSide'
  <2>1. c \notin Running' /\ Running' = Running
    BY <1>3, <1>4 DEF Running
  <2>2. ~Opens(c)'
    BY <1>2, <1>4 DEF Opens
  <2>3. WireLines' = WireLines
    BY <1>3, WireStays
  <2>4. \A r : Fits(r)' <=> Fits(r)
    BY <1>2, <1>3, <2>3 DEF Fits, Counted
  <2>5. ASSUME NEW d \in Calls, Opens(d)', d \in Running', ~call'[d].cancelled
        PROVE  Fits(call[d].request)'
    <3>1. d # c /\ Opens(d) /\ d \in Running /\ ~call[d].cancelled /\ call'[d] = call[d]
      BY <1>4, <2>1, <2>5 DEF Opens
    <3>2. PICK r : r = call[d].request
      OBVIOUS
    <3>3. Fits(r)'
      BY <2>4, <3>1, <3>2 DEF Chain, CallSide
    <3> QED
      BY <3>1, <3>2, <3>3 DEF Fits
  <2>6. \A d \in Calls : Resumes(d)' /\ d \in Running' => call'[d].request = request'
    BY <1>3, <1>4, <2>1 DEF Chain, CallSide, Resumes
  <2>7. \A d \in Calls : Opens(d)' /\ call'[d].pc = "sent" /\ ~call'[d].request.force => held' \subseteq got'
    BY <1>2, <1>3, <1>4, <2>2 DEF Chain, CallSide, Opens
  <2>8. \A d \in Calls : d \in Running' /\ call'[d].request.force => call'[d].told = {}
    BY <1>4, <2>1 DEF Chain, CallSide
  <2>9. \A d \in Calls : call'[d].kind = "page" /\ call'[d].pc \in {"planned", "booked"} =>
          call'[d].page = cursor' \/ (~IsOn(request', cursor') /\ request'.left = {})
    BY <1>3, <1>4 DEF Chain, CallSide
  <2> QED
    BY <2>5, <2>6, <2>7, <2>8, <2>9 DEF CallSide, IsOn
<1> QED
  BY <1>5, <1>6 DEF Chain

LEMMA CancelChain ==
  ASSUME PageInv, Chain, NEW c \in Calls, Cancel(c)
  PROVE  Chain'
<1>1. Types /\ Turns
  BY DEF PageInv
<1>2. /\ call' = [call EXCEPT ![c] = IF call[c].pc = "sent" THEN NoCall
                                     ELSE [call[c] EXCEPT !.cancelled = TRUE]]
      /\ settled' = settled /\ request' = request /\ wire' = wire /\ cursor' = cursor
      /\ held' = held /\ got' = got /\ lost' = lost /\ call[c].pc # "idle"
  BY <1>1 DEF Cancel, server, client, Types
<1>3. ClientSide'
  BY <1>2, SameExtends, ClientSideStays DEF Chain
<1>4. \A d \in Calls \ {c} : call'[d] = call[d]
  BY <1>1, <1>2 DEF Types
<1>5. CASE call[c].pc # "sent"
  <2>1. /\ call'[c].kind = call[c].kind /\ call'[c].pc = call[c].pc
        /\ call'[c].request = call[c].request /\ call'[c].page = call[c].page
        /\ call'[c].told = call[c].told /\ call'[c].cancelled
    BY <1>1, <1>2, <1>5 DEF Types, CallRec
  <2>2. CallSide'
    BY <1>2, <1>4, <2>1, CallSideStays DEF Chain
  <2> QED
    BY <1>3, <2>2 DEF Chain
<1>6. CASE call[c].pc = "sent"
  <2>1. call'[c] = NoCall
    BY <1>1, <1>2, <1>6 DEF Types
  <2>2. call'[c].pc = "idle" /\ c \notin Running' /\ Running' = Running
    BY <1>4, <1>6, <2>1, NoCallIs DEF Running
  <2>3. WireLines' = WireLines
    BY <1>2, WireStays
  <2>4. \A r : Fits(r)' <=> Fits(r)
    BY <1>2, <2>3 DEF Fits, Counted
  <2>5. ASSUME NEW d \in Calls, Opens(d)', d \in Running', ~call'[d].cancelled
        PROVE  Fits(call[d].request)'
    <3>1. d # c /\ Opens(d) /\ d \in Running /\ ~call[d].cancelled /\ call'[d] = call[d]
      BY <1>4, <2>2, <2>5 DEF Opens
    <3>2. PICK r : r = call[d].request
      OBVIOUS
    <3>3. Fits(r)'
      BY <2>4, <3>1, <3>2 DEF Chain, CallSide
    <3> QED
      BY <3>1, <3>2, <3>3 DEF Fits
  <2>6. \A d \in Calls : Resumes(d)' /\ d \in Running' => call'[d].request = request'
    BY <1>2, <1>4, <2>2 DEF Chain, CallSide, Resumes
  <2>7. \A d \in Calls : Opens(d)' /\ call'[d].pc = "sent" /\ ~call'[d].request.force => held' \subseteq got'
    BY <1>2, <1>4, <2>2 DEF Chain, CallSide, Opens
  <2>8. \A d \in Calls : d \in Running' /\ call'[d].request.force => call'[d].told = {}
    BY <1>4, <2>2 DEF Chain, CallSide
  <2>9. \A d \in Calls : call'[d].kind = "page" /\ call'[d].pc \in {"planned", "booked"} =>
          call'[d].page = cursor' \/ (~IsOn(request', cursor') /\ request'.left = {})
    BY <1>2, <1>4, <2>2 DEF Chain, CallSide
  <2>10. CallSide'
    BY <2>5, <2>6, <2>7, <2>8, <2>9 DEF CallSide, IsOn
  <2> QED
    BY <1>3, <2>10 DEF Chain
<1> QED
  BY <1>5, <1>6

\* On the serial transport no other call is running.
LEMMA OneRunning ==
  ASSUME PageInv, ~concurrent, NEW c \in Running
  PROVE  Running = {c}
BY DEF PageInv, Turns

LEMMA ThrowChain ==
  ASSUME PageInv, Chain, ~concurrent, NEW c \in Calls, Throw(c)
  PROVE  Chain'
<1>1. Types
  BY DEF PageInv
<1>2. /\ call' = [call EXCEPT ![c] = NoCall] /\ call[c].pc = "booked"
      /\ settled' = settled /\ request' = request /\ wire' = wire /\ cursor' = cursor
      /\ held' = held /\ got' = got /\ lost' = lost \cup call[c].body
  BY DEF Throw, server, client
<1>3. ClientSide'
  BY <1>2, SameExtends, ClientSideStays DEF Chain
<1>4. call'[c] = NoCall /\ \A d \in Calls \ {c} : call'[d] = call[d]
  BY <1>1, <1>2 DEF Types
<1>5. c \in Running
  BY <1>2 DEF Running
<1>6. Running' = {} /\ call'[c].pc # "sent"
  BY <1>4, <1>5, NoCallIs, OneRunning DEF Running
<1> QED
  BY <1>2, <1>3, <1>4, <1>6, CallSideRests DEF Chain

LEMMA StartChain ==
  ASSUME PageInv, Chain, ~concurrent, NEW c \in Calls, Start(c)
  PROVE  Chain'
<1>1. Types /\ CallOf(c)
  BY DEF PageInv
<1>2. /\ request' = request /\ wire' = wire /\ cursor' = cursor /\ held' = held
      /\ lost' = lost /\ got' = got
  BY DEF Start, client
<1>3. /\ \A d \in Calls \ {c} : call'[d] = call[d]
      /\ call[c].pc = "sent" /\ call'[c].pc = (IF Resumes(c) THEN "resolved" ELSE "planned")
      /\ call'[c].kind = call[c].kind /\ call'[c].told = call[c].told
      /\ Resumes(c) => call'[c].request = request
      /\ ~Resumes(c) =>
           /\ call'[c].request.force = call[c].request.force
           /\ call'[c].request.base =
                IF call[c].request.force THEN settled' \cup pending' ELSE {}
      /\ Running = {} /\ settled' \subseteq settled
  BY <1>1, StartIs
<1>4. ClientSide'
  BY <1>2, <1>3, SameExtends, ClientSideStays DEF Chain
<1>5. Running' = {c} /\ (Resumes(c)' <=> Resumes(c)) /\ (Opens(c)' <=> Opens(c))
      /\ \A d \in Calls \ {c} : d \notin Running' /\ call'[d].pc \notin {"planned", "booked"}
  BY <1>3 DEF Running, Resumes, Opens
<1>6. \A d \in Calls : Resumes(d)' /\ d \in Running' => call'[d].request = request'
  BY <1>2, <1>3, <1>5
<1>7. \A d \in Calls : Opens(d)' /\ call'[d].pc = "sent" /\ ~call'[d].request.force => held' \subseteq got'
  BY <1>2, <1>3 DEF Chain, CallSide, Opens
<1>8. ASSUME Opens(c) PROVE Fits(call[c].request)'
  <2>1. ~Resumes(c)
    BY <1>8 DEF Opens, Resumes
  <2>2. CASE call[c].request.force
    <3>1. call'[c].request.force /\ settled' \ call'[c].request.base = {}
      BY <1>3, <2>1, <2>2
    <3> QED
      BY <3>1 DEF Fits
  <2>3. CASE ~call[c].request.force
    <3>1. ~call'[c].request.force /\ held \subseteq got
      BY <1>3, <1>8, <2>1, <2>3 DEF Chain, CallSide
    <3> QED
      BY <1>2, <3>1 DEF Fits
  <2> QED
    BY <2>2, <2>3
<1>9. \A d \in Calls : d \in Running' /\ call'[d].request.force => call'[d].told = {}
  BY <1>1, <1>3, <1>5 DEF CallOf
<1>10. \A d \in Calls : ~(call'[d].kind = "page" /\ call'[d].pc \in {"planned", "booked"})
  BY <1>3, <1>5 DEF Resumes
<1>11. \A d \in Calls : Opens(d)' /\ d \in Running' /\ ~call'[d].cancelled => Fits(call[d].request)'
  BY <1>5, <1>8
<1>12. CallSide'
  BY <1>6, <1>7, <1>9, <1>10, <1>11 DEF CallSide
<1> QED
  BY <1>4, <1>12 DEF Chain

LEMMA ServeChain ==
  ASSUME PageInv, Chain, ~concurrent, NEW c \in Calls, Serve(c)
  PROVE  Chain'
<1>1. Types
  BY DEF PageInv
<1>2. /\ request' = request /\ wire' = wire /\ cursor' = cursor /\ held' = held
      /\ lost' = lost /\ got' = got /\ settled' = settled
  BY DEF Serve, client
<1>3. PICK body \in SUBSET Lines :
        /\ \A d \in Calls \ {c} : call'[d] = call[d]
        /\ call[c].pc = "planned" /\ call'[c].pc = "booked"
        /\ call'[c].kind = call[c].kind /\ call'[c].page = call[c].page
        /\ call'[c].request = call[c].request /\ call'[c].told = call[c].plan \ body
        /\ (call'[c].cancelled <=> call[c].cancelled)
        /\ call[c].request.force => body = call[c].plan
  BY <1>1, ServeIs
<1>4. ClientSide'
  BY <1>2, SameExtends, ClientSideStays DEF Chain
<1>5. c \in Running
  BY <1>3 DEF Running
<1>6. Running = {c}
  BY <1>5, OneRunning
<1>7. Running' = {c} /\ (Resumes(c)' <=> Resumes(c)) /\ (Opens(c)' <=> Opens(c))
      /\ \A d \in Calls \ {c} : d \notin Running' /\ call'[d].pc \notin {"planned", "booked"}
  BY <1>3, <1>6 DEF Running, Resumes, Opens
<1>8. \A d \in Calls : Resumes(d)' /\ d \in Running' => call'[d].request = request'
  BY <1>2, <1>3, <1>5, <1>7 DEF Chain, CallSide
<1>9. \A d \in Calls : Opens(d)' /\ call'[d].pc = "sent" /\ ~call'[d].request.force => held' \subseteq got'
  BY <1>2, <1>3 DEF Chain, CallSide, Opens
<1>10. ASSUME Opens(c), ~call[c].cancelled PROVE Fits(call[c].request)'
  <2>1. PICK r : r = call[c].request
    OBVIOUS
  <2>2. Fits(r)
    BY <1>5, <1>10, <2>1 DEF Chain, CallSide
  <2>3. WireLines' = WireLines
    BY <1>2, WireStays
  <2>4. Fits(r)'
    BY <1>2, <2>2, <2>3 DEF Fits, Counted
  <2> QED
    BY <1>3, <2>1, <2>4 DEF Fits
<1>11. call'[c].request.force => call'[c].told = {}
  BY <1>3
<1>12. \A d \in Calls : call'[d].kind = "page" /\ call'[d].pc \in {"planned", "booked"} =>
         call'[d].page = cursor' \/ (~IsOn(request', cursor') /\ request'.left = {})
  BY <1>2, <1>3, <1>7 DEF Chain, CallSide
<1>13. \A d \in Calls : Opens(d)' /\ d \in Running' /\ ~call'[d].cancelled => Fits(call[d].request)'
  BY <1>3, <1>7, <1>10
<1>14. CallSide'
  BY <1>7, <1>8, <1>9, <1>11, <1>12, <1>13 DEF CallSide, IsOn
<1> QED
  BY <1>4, <1>14 DEF Chain

\* A page is fixed on the record as it is, and put with it.
LEMMA FixNewExtends ==
  ASSUME request \in RequestRec, NEW v \in Nat, NEW p \in SUBSET Lines, ~Fixed(request, v),
         NEW r, r = FixNew(request, v, p)
  PROVE  r \in RequestRec /\ r.version > request.version /\ Extends(r, request) /\ IsOn(r, v)
<1> DEFINE e == Page(v, p, {})
           pages == Append(request.pages, e)
           with == WithPage(request, v, p)
<1>1. e \in PageRec /\ e.version = v /\ e.shipped = {}
  BY DEF Page, PageRec
<1>2. with = [request EXCEPT !.pages = pages]
  BY DEF WithPage
<1>3. OnLive(request) = request
  BY DEF OnLive
<1>4. r = [with EXCEPT !.version = request.version + 1]
  BY <1>3 DEF FixNew, Put
<1> HIDE DEF e
<1>5. request.pages \in Seq(PageRec) /\ request.version \in Nat
  BY PagesOf DEF RequestRec
<1>6. /\ pages \in Seq(PageRec) /\ DOMAIN request.pages \subseteq DOMAIN pages
      /\ \A j \in DOMAIN request.pages : pages[j] = request.pages[j]
      /\ \A j \in DOMAIN pages : j \in DOMAIN request.pages \/ pages[j] = e
      /\ \E j \in DOMAIN pages : pages[j] = e
  <2>1. /\ pages \in Seq(PageRec) /\ Len(request.pages) \in Nat
        /\ DOMAIN request.pages = 1..Len(request.pages)
        /\ DOMAIN pages = 1..(Len(request.pages) + 1)
        /\ \A j \in 1..Len(request.pages) : pages[j] = request.pages[j]
        /\ pages[Len(request.pages) + 1] = e
    BY <1>1, <1>5, AppendProperties, LenProperties
  <2> HIDE DEF pages
  <2> QED
    BY <2>1
<1> HIDE DEF pages, with
<1>7. /\ with \in RequestRec /\ with.pages = pages /\ with.left = request.left
      /\ with.force = request.force /\ with.base = request.base
  BY <1>2, <1>6, NewPages
<1>8. /\ r \in RequestRec /\ r.version = request.version + 1 /\ r.pages = pages
      /\ r.left = request.left /\ r.force = request.force /\ r.base = request.base
  <2>1. request.version + 1 \in Nat
    BY <1>5
  <2> QED
    BY <1>4, <1>7, <2>1, NewVersion
<1>9. IsOn(r, v) /\ \A w : IsOn(request, w) => IsOn(r, w)
  BY <1>1, <1>6, <1>8 DEF IsOn
<1>10. Extends(r, request)
  BY <1>1, <1>6, <1>8, <1>9 DEF Extends
<1> QED
  BY <1>5, <1>8, <1>9, <1>10

LEMMA FixPageChain ==
  ASSUME PageInv, Chain, ~concurrent, NEW c \in Calls, FixPage(c)
  PROVE  Chain'
<1>1. Types /\ CallOf(c) /\ call[c].pc = "resolved" /\ request \in RequestRec
  BY DEF PageInv, FixPage, Types
<1>2. /\ wire' = wire /\ cursor' = cursor /\ held' = held
      /\ lost' = lost /\ got' = got /\ settled' = settled
  BY DEF FixPage, ServesPage, server, client
<1>3. PICK r \in RequestRec, v \in Nat, plan \in SUBSET Lines :
        /\ call' = [call EXCEPT ![c].pc = "planned", ![c].request = r,
                                ![c].page = v, ![c].plan = plan]
        /\ request' \in RequestRec /\ Stored' /\ Grows /\ CopyOf(r)' /\ Has(r, v, plan)
        /\ \/ /\ request' = request /\ r = call[c].request
              /\ IF Fixed(r, call[c].at) THEN v = call[c].at ELSE r.left = {}
           \/ /\ ~Fixed(call[c].request, call[c].at) /\ v = call[c].at
              /\ \E p \in SUBSET Lines : r = FixNew(call[c].request, v, p)
              /\ request' = IF r.version > request.version THEN r ELSE request
  BY FixPageIs
<1>4. /\ \A d \in Calls \ {c} : call'[d] = call[d]
      /\ call'[c].pc = "planned" /\ call'[c].request = r /\ call'[c].page = v
      /\ call'[c].kind = call[c].kind /\ call'[c].told = {}
  BY <1>1, <1>3 DEF Types, CallRec, CallOf
<1>5. c \in Running /\ Resumes(c)
  BY <1>1 DEF Running, CallOf
<1>6. call[c].request = request
  BY <1>5 DEF Chain, CallSide
<1>7. /\ request' = r /\ Extends(request', request)
      /\ v = call[c].at \/ (~IsOn(request', call[c].at) /\ request'.left = {})
  <2>1. CASE /\ request' = request /\ r = call[c].request
             /\ IF Fixed(r, call[c].at) THEN v = call[c].at ELSE r.left = {}
    <3>1. Fixed(r, call[c].at) <=> IsOn(r, call[c].at)
      BY FixedIs DEF IsOn
    <3> QED
      BY <1>6, <2>1, <3>1, SameExtends
  <2>2. CASE /\ ~Fixed(call[c].request, call[c].at) /\ v = call[c].at
             /\ \E p \in SUBSET Lines : r = FixNew(call[c].request, v, p)
             /\ request' = IF r.version > request.version THEN r ELSE request
    <3>1. PICK p \in SUBSET Lines : r = FixNew(request, v, p)
      BY <1>6, <2>2
    <3>2. ~Fixed(request, v)
      BY <1>6, <2>2
    <3>3. r.version > request.version /\ Extends(r, request)
      BY <1>1, <3>1, <3>2, FixNewExtends
    <3> QED
      BY <2>2, <3>3
  <2> QED
    BY <1>3, <2>1, <2>2
<1>8. ClientSide'
  BY <1>2, <1>7, ClientSideStays DEF Chain
<1>9. Running = {c}
  BY <1>5, OneRunning
<1>10. Running' = {c} /\ (Resumes(c)' <=> Resumes(c)) /\ ~Opens(c)'
      /\ \A d \in Calls \ {c} : d \notin Running' /\ call'[d].pc \notin {"planned", "booked"}
  BY <1>4, <1>5, <1>9 DEF Running, Resumes, Opens
<1>11. \A d \in Calls : Resumes(d)' /\ d \in Running' => call'[d].request = request'
  BY <1>4, <1>7, <1>10
<1>12. \A d \in Calls : Opens(d)' /\ call'[d].pc = "sent" /\ ~call'[d].request.force => held' \subseteq got'
  BY <1>2, <1>4, <1>10 DEF Chain, CallSide, Opens
<1>13. \A d \in Calls : ~(Opens(d)' /\ d \in Running')
  BY <1>10
<1>14. \A d \in Calls : call'[d].kind = "page" /\ call'[d].pc \in {"planned", "booked"} =>
         call'[d].page = cursor' \/ (~IsOn(request', cursor') /\ request'.left = {})
  <2> SUFFICES ASSUME call[c].kind = "page"
               PROVE  v = cursor \/ (~IsOn(request', cursor) /\ request'.left = {})
    BY <1>2, <1>4, <1>10
  <2>1. call[c].at = cursor
    BY <1>1 DEF PageInv, Place, Active
  <2> QED
    BY <1>7, <2>1
<1>15. CallSide'
  BY <1>4, <1>10, <1>11, <1>12, <1>13, <1>14 DEF CallSide, IsOn
<1> QED
  BY <1>8, <1>15 DEF Chain

LEMMA KillChain ==
  ASSUME PageInv, Chain, Kill
  PROVE  Chain'
<1>1. Types
  BY DEF PageInv
<1>2. /\ settled' = {} /\ request' = request /\ wire' = <<>> /\ cursor' = cursor
      /\ held' = held /\ got' = got /\ \A c \in Calls : call'[c] = NoCall
      /\ lost' = lost \cup UNION {Undelivered(a) : a \in Range(wire)}
  BY DEF Kill, client
<1>3. Running' = {} /\ \A c \in Calls : call'[c].pc = "idle" /\ call'[c].kind = "plain"
  BY <1>2, NoCallIs DEF Running
<1>4. CallSide'
  BY <1>3 DEF CallSide, Opens, Running
<1>5. Und \subseteq UNION {Undelivered(a) : a \in Range(wire)}
  BY DEF Und, Range
<1>6. Done \subseteq Done'
  BY <1>2, <1>5 DEF Done
<1>7. Going' => Fits(request)'
  <2>1. Going' => Going
    BY <1>2 DEF Going
  <2> QED
    BY <1>2, <2>1 DEF Chain, ClientSide, Fits
<1>8. PagesOut'
  BY <1>2, <1>6 DEF Chain, ClientSide, PagesOut, IsOn
<1>9. Ends'
  BY <1>2 DEF Chain, ClientSide, Ends
<1>10. OnTheWay'
  BY <1>2 DEF OnTheWay
<1>11. ClientSide'
  BY <1>2, <1>7, <1>8, <1>9, <1>10 DEF ClientSide
<1> QED
  BY <1>4, <1>11 DEF Chain

LEMMA CompactChain ==
  ASSUME PageInv, Chain, Compact
  PROVE  Chain'
<1>1. /\ settled' = settled /\ request' = request /\ wire = <<>> /\ wire' = <<>> /\ cursor' = cursor
      /\ held' = {} /\ got' = got /\ lost' = lost /\ call' = call
      /\ \A c \in Calls : call[c].pc = "idle"
  BY DEF Compact, server
<1>2. CallSide'
  BY <1>1 DEF CallSide, Running
<1>3. WireLines' = WireLines /\ Und' = Und
  BY <1>1, WireStays, UndStays
<1>4. Done' = Done /\ Counted' = Counted /\ (Going' <=> Going)
  BY <1>1, <1>3 DEF Done, Counted, Going, Leads
<1>5. Going' => Fits(request)'
  BY <1>1, <1>4 DEF Chain, ClientSide, Fits
<1>6. PagesOut'
  BY <1>1, <1>4 DEF Chain, ClientSide, PagesOut, IsOn
<1>7. Ends' /\ OnTheWay'
  BY <1>1 DEF Chain, ClientSide, Ends, OnTheWay
<1>8. ClientSide'
  BY <1>1, <1>5, <1>6, <1>7 DEF ClientSide
<1> QED
  BY <1>2, <1>8 DEF Chain

LEMMA ReceiveChain ==
  ASSUME PageInv, Receipts, Chain, Receive
  PROVE  Chain'
<1>1. Types /\ Turns /\ Place
  BY DEF PageInv
<1>2. PICK a : a = wire[1]
  OBVIOUS
<1>3. wire # <<>> /\ wire' = Tail(wire) /\ wire \in Seq(AnswerRec)
  BY <1>1 DEF Receive, Types
<1>4. /\ Head(wire) = a /\ 1 \in DOMAIN wire /\ a \in AnswerRec
      /\ \A i \in DOMAIN wire' :
           i \in Nat /\ i + 1 \in DOMAIN wire /\ wire'[i] = wire[i + 1] /\ i + 1 # 1
  BY <1>2, <1>3, TailOf
<1>5. /\ WireLines = a.lines \cup WireLines' /\ WireTo(1) = a.lines
      /\ \A i \in DOMAIN wire' : WireTo(i + 1) = a.lines \cup WireTo(i)'
      /\ Und' \subseteq Und /\ Und \subseteq Undelivered(a) \cup Und'
  BY <1>2, <1>3, WireShrinks, UndShrinks
<1>6. /\ held' = held \cup a.lines /\ got' = got \cup a.lines
      /\ cursor' = (IF a.kind \in Steps THEN a.next ELSE cursor)
      /\ settled' = settled /\ request' = request /\ call' = call /\ lost' = lost
  BY <1>4 DEF Receive, server
<1>7. Counted' = Counted
  BY <1>5, <1>6 DEF Counted
<1>8. \A r : Fits(r) => Fits(r)'
  BY <1>6, <1>7 DEF Fits
<1>9. \A i \in DOMAIN wire' : (Leads(i)' <=> Leads(i + 1)) /\ (Leads(i)' => Going)
  BY <1>4 DEF Leads, Going
<1>10. (cursor' > 0 => Going) /\ (Going' => Going)
  <2>1. a.kind \in Steps /\ a.next > 0 => Leads(1)
    BY <1>2 DEF Leads
  <2>2. cursor' > 0 => Going
    BY <1>4, <1>6, <2>1 DEF Going
  <2> QED
    BY <1>9, <2>2 DEF Going
<1>11. Going' => Fits(request)'
  <2>1. PICK r : r = request
    OBVIOUS
  <2>2. Going' => Fits(r)'
    BY <1>8, <1>10, <2>1 DEF Chain, ClientSide
  <2> QED
    BY <1>6, <2>1, <2>2 DEF Fits
<1>12. Going /\ (a.kind = "again" \/ Leads(1)) => a.told \subseteq got' \cup lost'
  BY <1>2, <1>4, <1>5, <1>6, ToldCounts DEF Chain
<1>13. Going => Done \subseteq Done'
  <2>1. CASE a.kind = "again"
    BY <1>5, <1>6, <1>12, <2>1 DEF Done, Undelivered
  <2>2. CASE a.kind # "again"
    BY <1>5, <1>6, <2>2 DEF Done, Undelivered
  <2> QED
    BY <2>1, <2>2
<1>14. request'.force =>
         \A i \in DOMAIN wire' : wire'[i].kind = "again" \/ Leads(i)' => wire'[i].told = {}
  BY <1>4, <1>6, <1>9 DEF Chain, ClientSide
<1>15. a.kind \in Steps => \A i \in DOMAIN wire' : wire'[i].kind \notin Steps
  BY <1>1, <1>2, <1>4 DEF Turns
<1>16. PagesOut'
  <2>1. CASE a.kind \notin Steps
    <3>1. cursor' = cursor
      BY <1>6, <2>1
    <3>2. \A i \in DOMAIN wire' : wire'[i].kind \in Steps => \E k \in DOMAIN wire : wire[k].kind \in Steps
      BY <1>4
    <3>3. cursor > 0 => Going
      BY DEF Going
    <3> QED
      BY <1>6, <1>13, <3>1, <3>2, <3>3 DEF Chain, ClientSide, PagesOut, IsOn
  <2>2. CASE a.kind \in Steps
    <3> SUFFICES ASSUME cursor' > 0
                 PROVE  /\ \A j \in DOMAIN request.pages : request.pages[j].shipped \subseteq Done'
                        /\ request.left = {} => Lines \subseteq Done'
      BY <1>6, <1>15, <2>2 DEF PagesOut
    <3>1. Leads(1) /\ Going
      BY <1>2, <1>6, <1>10, <2>2 DEF Leads
    <3>2. Done \cup a.lines \cup a.told \subseteq Done'
      BY <1>6, <1>12, <1>13, <3>1 DEF Done
    <3> QED
      BY <1>2, <1>4, <3>1, <3>2 DEF Chain, ClientSide, OnTheWay
  <2> QED
    BY <2>1, <2>2
<1>17. OnTheWay'
  <2>1. ASSUME NEW i \in DOMAIN wire', Leads(i)'
        PROVE  /\ \A j \in DOMAIN request'.pages :
                    request'.pages[j].shipped \subseteq Done' \cup wire'[i].lines \cup wire'[i].told
               /\ request'.left = {} => Lines \subseteq Done' \cup wire'[i].lines \cup wire'[i].told
    <3>1. PICK k \in DOMAIN wire : k = i + 1 /\ wire'[i] = wire[k] /\ Leads(k) /\ Going
      BY <1>4, <1>9, <2>1
    <3> QED
      BY <1>6, <1>13, <3>1 DEF Chain, ClientSide, OnTheWay
  <2> QED
    BY <2>1 DEF OnTheWay
<1>18. Ends'
  <2>1. ASSUME NEW i \in DOMAIN wire', wire'[i].kind \in Steps, wire'[i].next = Finished
        PROVE  Lines \subseteq got' \cup lost' \cup WireTo(i)'
    <3>1. PICK k \in DOMAIN wire : k = i + 1 /\ wire'[i] = wire[k]
                                   /\ WireTo(k) = a.lines \cup WireTo(i)'
      BY <1>4, <1>5
    <3> QED
      BY <1>6, <2>1, <3>1 DEF Chain, ClientSide, Ends
  <2>2. ASSUME cursor' = Finished PROVE Lines \subseteq got' \cup lost'
    BY <1>2, <1>4, <1>5, <1>6, <2>2 DEF Chain, ClientSide, Ends
  <2> QED
    BY <2>1, <2>2 DEF Ends
<1>19. ClientSide'
  BY <1>11, <1>14, <1>16, <1>17, <1>18 DEF ClientSide
<1>20. CallSide'
  <2>1. /\ Running' = Running
        /\ \A d \in Calls : (Opens(d)' <=> Opens(d)) /\ (Resumes(d)' <=> Resumes(d))
    BY <1>6 DEF Running, Opens, Resumes
  <2>2. ASSUME NEW d \in Calls, Opens(d)', d \in Running', ~call'[d].cancelled
        PROVE  Fits(call[d].request)'
    <3>1. PICK r : r = call[d].request
      OBVIOUS
    <3>2. Fits(r)'
      BY <1>6, <1>8, <2>1, <2>2, <3>1 DEF Chain, CallSide
    <3> QED
      BY <1>6, <3>1, <3>2 DEF Fits
  <2>3. ASSUME NEW d \in Calls, call'[d].kind = "page", call'[d].pc \in {"planned", "booked"}
        PROVE  call'[d].page = cursor' \/ (~IsOn(request', cursor') /\ request'.left = {})
    <3>1. Active(d) /\ Moves(d)
      BY <1>6, <2>3 DEF Active, Moves, Steps
    <3>2. a.kind \notin Steps
      BY <1>1, <1>2, <1>4, <3>1 DEF Turns
    <3> QED
      BY <1>6, <2>3, <3>2 DEF Chain, CallSide
  <2>4. held \subseteq got => held' \subseteq got'
    BY <1>6
  <2>5. \A d \in Calls : Opens(d)' /\ call'[d].pc = "sent" /\ ~call'[d].request.force => held' \subseteq got'
    BY <1>6, <2>1, <2>4 DEF Chain, CallSide
  <2> QED
    BY <1>6, <2>1, <2>2, <2>3, <2>5 DEF Chain, CallSide, IsOn
<1> QED
  BY <1>19, <1>20 DEF Chain

\* The record that an answer to a cursor leaves, from the copy that is it.
LEMMA EmitResumed ==
  ASSUME PageInv, NEW c \in Calls, Resumes(c), call[c].request = request,
         NEW sent \in SUBSET Lines,
         NEW withheld \in WithholdLowValuePageNext(c), Emit(c, sent, withheld)
  PROVE  /\ request' \in RequestRec
         /\ request'.force = request.force /\ request'.base = request.base
         /\ DOMAIN request'.pages = DOMAIN request.pages
         /\ \A j \in DOMAIN request.pages :
              /\ request'.pages[j].version = request.pages[j].version
              /\ request'.pages[j].shipped =
                   IF request.pages[j].version = call[c].page THEN Account(c, sent)
                   ELSE request.pages[j].shipped
         /\ request'.left = LeftOf(request', settled')
         /\ request'.left = SettledRequest(c, sent).left
         /\ IsOn(request, call[c].page)
<1> DEFINE mine == WithAccount(c, sent)
           new == SettledRequest(c, sent)
<1>1. call[c] \in CallRec /\ request \in RequestRec /\ Stored /\ call[c].pc = "booked"
      /\ request' = Settles(c, sent) /\ request.version \in Nat
  BY DEF PageInv, Types, Emit, RequestRec
<1>2. CopyOf(call[c].request) /\ Has(call[c].request, call[c].page, call[c].plan)
  BY <1>1 DEF PageInv, Copied, Running
<1>3. call[c].plan \subseteq Lines
  BY <1>1 DEF CallRec
<1>4. /\ mine \in RequestRec /\ mine.version = request.version /\ Alike(mine, request)
      /\ \A j \in DOMAIN request.pages :
           mine.pages[j].shipped = IF request.pages[j].version = call[c].page THEN Account(c, sent)
                                   ELSE request.pages[j].shipped
  BY <1>1, <1>2, <1>3, WithAccountIs DEF CopyOf
<1>5. OnLive(mine) = mine
  BY <1>4 DEF OnLive
<1>6. new = [mine EXCEPT !.left = LeftOf(mine, settled')]
  BY <1>5 DEF SettledRequest
<1>7. request' = [new EXCEPT !.version = request.version + 1]
  BY <1>1 DEF Settles, Put, Resumes
<1> HIDE DEF mine, new
<1>8. LeftOf(mine, settled') \subseteq Lines
  BY DEF LeftOf
<1>9. /\ new \in RequestRec /\ new.pages = mine.pages
      /\ new.force = mine.force /\ new.base = mine.base /\ new.left = LeftOf(mine, settled')
  BY <1>4, <1>6, <1>8 DEF RequestRec
<1>10. /\ request' \in RequestRec /\ request'.pages = mine.pages /\ request'.left = LeftOf(mine, settled')
       /\ request'.force = mine.force /\ request'.base = mine.base
  <2>1. request.version + 1 \in Nat
    BY <1>1
  <2> QED
    BY <1>7, <1>9, <2>1, NewVersion
<1>11. LeftOf(request', settled') = LeftOf(mine, settled')
  BY <1>10 DEF LeftOf, Shipped, Pages
<1>12. DOMAIN mine.pages = DOMAIN request.pages
  BY <1>1, <1>4, PagesOf DEF Alike, Paged
<1>13. IsOn(request, call[c].page)
  BY <1>2 DEF Has, IsOn
<1> QED
  BY <1>4, <1>9, <1>10, <1>11, <1>12, <1>13 DEF Alike, Paged, new

\* What the opening answer makes of the request.
LEMMA EmitOpened ==
  ASSUME PageInv, NEW c \in Calls, Opens(c), NEW sent \in SUBSET Lines,
         NEW withheld \in WithholdLowValuePageNext(c), Emit(c, sent, withheld)
  PROVE  \/ request' = request /\ NextOf(c, sent, withheld) = None
         \/ /\ ~(call[c].body # {} /\ sent = {})
            /\ request' = request /\ NextOf(c, sent, withheld) = Finished
            /\ \A T : /\ Account(c, sent) \subseteq T
                      /\ (IF call[c].request.force THEN settled' \ call[c].request.base
                          ELSE settled') \subseteq T
                      => Lines \subseteq T
         \/ /\ ~(call[c].body # {} /\ sent = {})
            /\ request' \in RequestRec /\ NextOf(c, sent, withheld) = 1
            /\ request'.force = call[c].request.force /\ request'.base = call[c].request.base
            /\ request'.left # {}
            /\ \A j \in DOMAIN request'.pages : request'.pages[j].shipped = Account(c, sent)
<1> DEFINE k == call[c].request
           a == Account(c, sent)
           mine == WithAccount(c, sent)
           new == SettledRequest(c, sent)
           refused == call[c].body # {} /\ sent = {}
<1>1. call[c] \in CallRec /\ request' = Settles(c, sent) /\ CallOf(c)
  BY DEF PageInv, Types, Emit
<1>2. ~Resumes(c) /\ k \in RequestRec /\ k.pages = <<>>
  BY <1>1 DEF Opens, Resumes, CallOf, CallRec
<1>3. a \subseteq Lines
  BY <1>1, AccountWithin DEF CallRec
<1>4. mine = (IF call[c].body = {} THEN k ELSE [k EXCEPT !.pages = <<Page(0, a, a)>>])
  BY <1>2 DEF WithAccount
<1>5. new = [mine EXCEPT !.left = LeftOf(mine, settled')]
  BY <1>2 DEF SettledRequest
<1>6. /\ request' = (IF refused \/ new.left = {} THEN request ELSE [new EXCEPT !.version = 1])
      /\ NextOf(c, sent, withheld) = (IF refused THEN None ELSE IF new.left = {} THEN Finished
                            ELSE request'.version)
  <2>1. call[c].kind = "open" /\ withheld = FALSE
    BY <1>2 DEF Opens, WithholdLowValuePageNext
  <2>2. request' = (IF refused \/ new.left = {} THEN request ELSE [new EXCEPT !.version = 1])
    BY <1>1, <1>2, <2>1 DEF Settles
  <2>3. NextOf(c, sent, withheld) = (IF refused THEN None ELSE IF new.left = {} THEN Finished
                                     ELSE request'.version)
    BY <1>2, <2>1 DEF NextOf
  <2> QED
    BY <2>2, <2>3
<1>7. Page(0, a, a) \in PageRec /\ Page(0, a, a).shipped = a
  BY <1>3 DEF Page, PageRec
<1>8. LeftOf(mine, settled') \subseteq Lines
  BY DEF LeftOf
<1> HIDE DEF a, k
<1>9. /\ mine \in RequestRec /\ mine.force = k.force /\ mine.base = k.base
      /\ \A j \in DOMAIN mine.pages : mine.pages[j].shipped = a
  <2>1. <<Page(0, a, a)>> \in Seq(PageRec)
    BY <1>7
  <2>2. mine \in RequestRec /\ mine.force = k.force /\ mine.base = k.base
        /\ (mine.pages = <<>> \/ mine.pages = <<Page(0, a, a)>>)
    <3>1. CASE call[c].body = {}
      BY <1>2, <1>4, <3>1
    <3>2. CASE call[c].body # {}
      <4>1. PICK s \in Seq(PageRec) : s = <<Page(0, a, a)>>
        BY <2>1
      <4>2. mine = [k EXCEPT !.pages = s]
        BY <1>4, <3>2, <4>1
      <4> HIDE DEF mine
      <4>3. mine \in RequestRec /\ mine.force = k.force /\ mine.base = k.base /\ mine.pages = s
        BY <1>2, <4>2, NewPages
      <4> QED
        BY <4>1, <4>3
    <3> QED
      BY <3>1, <3>2
  <2>3. ASSUME NEW j \in DOMAIN mine.pages PROVE mine.pages[j].shipped = a
    <3>1. mine.pages = <<Page(0, a, a)>> /\ j = 1
      BY <2>2
    <3> QED
      BY <1>7, <3>1
  <2> QED
    BY <2>2, <2>3
<1> HIDE DEF mine
<1>10. /\ new \in RequestRec /\ new.pages = mine.pages
       /\ new.force = mine.force /\ new.base = mine.base /\ new.left = LeftOf(mine, settled')
  BY <1>5, <1>8, <1>9 DEF RequestRec
<1> HIDE DEF new, refused
<1>11. CASE refused
  BY <1>6, <1>11
<1>12. CASE ~refused /\ new.left = {}
  <2>1. request' = request /\ NextOf(c, sent, withheld) = Finished
    BY <1>6, <1>12
  <2>2. ASSUME NEW T, a \subseteq T, (IF k.force THEN settled' \ k.base ELSE settled') \subseteq T
        PROVE  Lines \subseteq T
    <3>1. LeftOf(mine, settled') = {} /\ \A j \in DOMAIN mine.pages : mine.pages[j].shipped \subseteq T
      BY <1>9, <1>10, <1>12, <2>2
    <3>2. (IF mine.force THEN settled' \ mine.base ELSE settled') \subseteq T
      BY <1>9, <2>2
    <3>3. PICK s : s = settled'
      OBVIOUS
    <3> QED
      BY <1>9, <3>1, <3>2, <3>3, NothingLeft
  <2> QED
    BY <1>12, <2>1, <2>2 DEF refused, a, k
<1>13. CASE ~refused /\ new.left # {}
  <2>1. request' = [new EXCEPT !.version = 1] /\ NextOf(c, sent, withheld) = request'.version
    BY <1>6, <1>13
  <2>2. /\ request' \in RequestRec /\ request'.version = 1 /\ request'.pages = new.pages
        /\ request'.left = new.left /\ request'.force = new.force /\ request'.base = new.base
    BY <1>10, <2>1, NewVersion
  <2> QED
    BY <1>9, <1>10, <1>13, <2>1, <2>2 DEF refused, a, k
<1> QED
  BY <1>11, <1>12, <1>13

\* What an answer to a running call does to the rest.
LEMMA EmitFrame ==
  ASSUME PageInv, Receipts, Receipts', NEW c \in Calls, NEW sent \in SUBSET Lines,
         NEW withheld \in WithholdLowValuePageNext(c), Emit(c, sent, withheld)
  PROVE  /\ cursor' = cursor /\ held' = held /\ got' = got /\ lost \subseteq lost'
         /\ settled \subseteq Known /\ settled' \subseteq settled \cup sent
         /\ settled' \subseteq held' \cup Counted'
         /\ Counted \cup sent \subseteq Counted' /\ Done \subseteq Done'
         /\ call[c].told \subseteq held \cup Counted
         /\ \A i \in DOMAIN wire : i \in DOMAIN wire' /\ wire'[i] = wire[i] /\ WireTo(i)' = WireTo(i)
         /\ call[c].cancelled =>
              wire' = wire /\ sent \cup call[c].told \subseteq lost'
         /\ ~call[c].cancelled =>
              /\ lost' = lost /\ Und' = Und \cup Undelivered(AnswerOf(c, sent, withheld))
              /\ WireLines' = WireLines \cup sent
              /\ \A i \in DOMAIN wire' \ DOMAIN wire :
                   wire'[i] = AnswerOf(c, sent, withheld) /\ WireTo(i)' = WireLines'
<1>1. Types
  BY DEF PageInv
<1>2. /\ settled' = settled \cup (pending \cap sent)
      /\ seen' = seen /\ marker' = marker /\ held' = held /\ got' = got /\ cursor' = cursor
      /\ call[c].cancelled => lost' = lost \cup sent \cup call[c].told
      /\ ~call[c].cancelled => lost' = lost
  BY DEF Emit, SettleBookings, client
<1>3. /\ AnswerOf(c, sent, withheld) \in AnswerRec /\ c \in Running
      /\ call[c].cancelled => wire' = wire
      /\ ~call[c].cancelled => wire' = Append(wire, AnswerOf(c, sent, withheld))
  BY EmitIs
<1>4. settled \subseteq Known /\ settled' \subseteq Known' /\ call[c].told \subseteq Known
  BY <1>2, <1>3 DEF Receipts
<1>5. settled' \subseteq held' \cup Counted' /\ call[c].told \subseteq held \cup Counted
  BY <1>4 DEF Known, Counted
<1>6. CASE call[c].cancelled
  <2>1. wire' = wire
    BY <1>3, <1>6
  <2>2. WireLines' = WireLines /\ Und' = Und /\ \A i : WireTo(i)' = WireTo(i)
    BY <2>1, WireStays, UndStays
  <2> QED
    BY <1>2, <1>4, <1>5, <1>6, <2>1, <2>2 DEF Counted, Done
<1>7. CASE ~call[c].cancelled
  <2> DEFINE a == AnswerOf(c, sent, withheld)
  <2>1. a.lines = sent /\ a \in AnswerRec
    BY <1>3 DEF AnswerOf
  <2>2. wire' = Append(wire, a) /\ wire \in Seq(AnswerRec)
    BY <1>1, <1>3, <1>7 DEF Types
  <2> HIDE DEF a
  <2>3. /\ WireLines' = WireLines \cup a.lines
        /\ \A i \in DOMAIN wire : wire'[i] = wire[i] /\ WireTo(i)' = WireTo(i)
        /\ \A i \in DOMAIN wire' \ DOMAIN wire :
             wire'[i] = a /\ WireTo(i)' = WireLines \cup a.lines
        /\ Und' = Und \cup Undelivered(a)
    BY <2>1, <2>2, WireGrows, UndGrows
  <2>4. \A i \in DOMAIN wire : i \in DOMAIN wire'
    BY <2>1, <2>2, AppendProperties, LenProperties
  <2> QED
    BY <1>2, <1>4, <1>5, <1>7, <2>1, <2>3, <2>4 DEF Counted, Done, a
<1> QED
  BY <1>6, <1>7

\* On the wire that a step leaves, all but the answers to the client's own
\* steps are done with.
LEMMA WireCountsNow ==
  ASSUME Types'
  PROVE  /\ (\A i \in DOMAIN wire' : wire'[i].kind \notin Steps) => Counted' \subseteq Done'
         /\ \A i \in DOMAIN wire' :
              (\A j \in DOMAIN wire' : wire'[j].kind \in Steps => j = i)
                => Counted' \subseteq Done' \cup wire'[i].lines
<1>1. ASSUME NEW i \in DOMAIN wire', wire'[i].kind \notin Steps
      PROVE  wire'[i].lines \subseteq Und'
  <2>1. wire'[i] \in AnswerRec
    BY DEF Types
  <2>2. wire'[i].kind \in {"plain", "again"} /\ wire'[i].lines \subseteq Lines
    BY <1>1, <2>1 DEF AnswerRec, Kinds, Steps
  <2>3. wire'[i].lines \subseteq Undelivered(wire'[i])
    BY <2>2 DEF Undelivered
  <2> QED
    BY <2>2, <2>3 DEF Und
<1>2. ASSUME \A i \in DOMAIN wire' : wire'[i].kind \notin Steps
      PROVE  Counted' \subseteq Done'
  BY <1>1, <1>2 DEF Counted, Done, WireLines
<1>3. ASSUME NEW i \in DOMAIN wire', \A j \in DOMAIN wire' : wire'[j].kind \in Steps => j = i
      PROVE  Counted' \subseteq Done' \cup wire'[i].lines
  BY <1>1, <1>3 DEF Counted, Done, WireLines
<1> QED
  BY <1>2, <1>3

\* What is written for a call is its answer.
LEMMA EmitWrites ==
  ASSUME PageInv, NEW c \in Calls, NEW sent \in SUBSET Lines,
         NEW withheld \in WithholdLowValuePageNext(c), Emit(c, sent, withheld)
  PROVE  ~call[c].cancelled =>
           \A i \in DOMAIN wire' \ DOMAIN wire : wire'[i] = AnswerOf(c, sent, withheld)
<1> DEFINE a == AnswerOf(c, sent, withheld)
<1>1. a \in AnswerRec /\ (~call[c].cancelled => wire' = Append(wire, a))
  BY EmitIs
<1>2. wire \in Seq(AnswerRec)
  BY DEF PageInv, Types
<1> HIDE DEF a
<1>3. ~call[c].cancelled => \A i \in DOMAIN wire' \ DOMAIN wire : wire'[i] = a
  BY <1>1, <1>2
<1> QED
  BY <1>3 DEF a

LEMMA EmitCallSide ==
  ASSUME PageInv, Chain, ~concurrent, NEW c \in Calls, NEW sent \in SUBSET Lines,
         NEW withheld \in WithholdLowValuePageNext(c), Emit(c, sent, withheld)
  PROVE  CallSide'
<1>1. /\ call'[c] = NoCall /\ c \in Running /\ \A d \in Calls \ {c} : call'[d] = call[d]
  BY EmitIs
<1>2. held' = held /\ got' = got
  BY DEF Emit, client
<1>3. Running' = {} /\ call'[c].pc # "sent"
  BY <1>1, NoCallIs, OneRunning DEF Running
<1> QED
  BY <1>1, <1>2, <1>3, CallSideRests DEF Chain

LEMMA EmitPlainSide ==
  ASSUME PageInv, Receipts, Receipts', Chain, NEW c \in Calls, NEW sent \in SUBSET Lines,
         NEW withheld \in WithholdLowValuePageNext(c),
         Emit(c, sent, withheld), call[c].kind = "plain"
  PROVE  ClientSide'
<1>1. /\ cursor' = cursor /\ held' = held /\ got' = got /\ lost \subseteq lost'
      /\ settled' \subseteq settled \cup sent
      /\ Counted \cup sent \subseteq Counted' /\ Done \subseteq Done'
      /\ \A i \in DOMAIN wire : i \in DOMAIN wire' /\ wire'[i] = wire[i] /\ WireTo(i)' = WireTo(i)
      /\ call[c].cancelled => wire' = wire
      /\ ~call[c].cancelled =>
           \A i \in DOMAIN wire' \ DOMAIN wire : wire'[i] = AnswerOf(c, sent, withheld)
  <2>1. call[c].cancelled => wire' = wire
    BY EmitIs
  <2>2. ~call[c].cancelled =>
          \A i \in DOMAIN wire' \ DOMAIN wire : wire'[i] = AnswerOf(c, sent, withheld)
    BY EmitWrites
  <2>3. /\ cursor' = cursor /\ held' = held /\ got' = got /\ lost \subseteq lost'
        /\ settled' \subseteq settled \cup sent
        /\ Counted \cup sent \subseteq Counted' /\ Done \subseteq Done'
    BY EmitFrame
  <2>4. \A i \in DOMAIN wire : i \in DOMAIN wire' /\ wire'[i] = wire[i] /\ WireTo(i)' = WireTo(i)
    BY EmitFrame
  <2> QED
    BY <2>1, <2>2, <2>3, <2>4
<1>2. request' = request
  BY EmitPuts
<1>3. AnswerOf(c, sent, withheld).kind = "plain"
  BY DEF AnswerOf
<1>4. \A i \in DOMAIN wire' :
        \/ i \in DOMAIN wire /\ wire'[i] = wire[i] /\ WireTo(i)' = WireTo(i) /\ (Leads(i)' <=> Leads(i))
        \/ wire'[i].kind = "plain" /\ ~Leads(i)'
  BY <1>1, <1>3 DEF Leads, Steps
<1>5. Going' => Going
  BY <1>1, <1>4 DEF Going
<1>6. Going' => Fits(request)'
  BY <1>1, <1>2, <1>5 DEF Chain, ClientSide, Fits
<1>7. request'.force =>
        \A i \in DOMAIN wire' : wire'[i].kind = "again" \/ Leads(i)' => wire'[i].told = {}
  BY <1>2, <1>4 DEF Chain, ClientSide
<1>8. PagesOut'
  <2>1. (\E i \in DOMAIN wire' : wire'[i].kind \in Steps) => \E i \in DOMAIN wire : wire[i].kind \in Steps
    BY <1>4 DEF Steps
  <2> QED
    BY <1>1, <1>2, <2>1 DEF Chain, ClientSide, PagesOut, IsOn
<1>9. OnTheWay'
  BY <1>1, <1>2, <1>4 DEF Chain, ClientSide, OnTheWay
<1>10. Ends'
  BY <1>1, <1>4 DEF Chain, ClientSide, Ends, Steps
<1> QED
  BY <1>6, <1>7, <1>8, <1>9, <1>10 DEF ClientSide

\* An answer to a cursor while the request goes on: what the ledger may
\* subtract counts, and so does what the answer names as held.
LEMMA EmitFits ==
  ASSUME PageInv, Receipts, Receipts', Chain, Going, NEW c \in Calls, Resumes(c),
         NEW sent \in SUBSET Lines,
         NEW withheld \in WithholdLowValuePageNext(c), Emit(c, sent, withheld)
  PROVE  /\ Fits(request)'
         /\ (IF request'.force THEN settled' \ request'.base ELSE settled') \subseteq Counted'
         /\ call[c].told \subseteq Counted
<1>1. /\ held' = held /\ got' = got
      /\ settled' \subseteq settled \cup sent
      /\ settled' \subseteq held' \cup Counted'
      /\ Counted \cup sent \subseteq Counted'
      /\ call[c].told \subseteq held \cup Counted
  BY EmitFrame
<1>2. c \in Running
  BY EmitIs
<1>3. request'.force = request.force /\ request'.base = request.base
  BY EmitPuts DEF Paged
<1>4. Fits(request)
  BY DEF Chain, ClientSide
<1>5. Fits(request)'
  BY <1>1, <1>3, <1>4 DEF Fits
<1>6. CASE request.force
  <2>1. call[c].told = {}
    BY <1>2, <1>6 DEF Chain, CallSide
  <2> QED
    BY <1>3, <1>5, <1>6, <2>1 DEF Fits
<1>7. CASE ~request.force
  <2>1. held \subseteq got /\ got \subseteq Counted /\ got' \subseteq Counted'
    BY <1>4, <1>7 DEF Fits, Counted
  <2> QED
    BY <1>1, <1>3, <1>5, <1>7, <2>1
<1> QED
  BY <1>6, <1>7

LEMMA EmitAgainSide ==
  ASSUME PageInv, Receipts, Receipts', Chain, NEW c \in Calls, NEW sent \in SUBSET Lines,
         NEW withheld \in WithholdLowValuePageNext(c),
         Emit(c, sent, withheld), call[c].kind = "again"
  PROVE  ClientSide'
<1>1. Types /\ Types' /\ Turns /\ CallOf(c)
  <2>1. PageInv'
    BY EmitKeeps
  <2> QED
    BY <2>1 DEF PageInv
<1> DEFINE a == AnswerOf(c, sent, withheld)
<1>2. /\ cursor' = cursor /\ held' = held /\ got' = got /\ lost \subseteq lost'
      /\ Counted \cup sent \subseteq Counted' /\ Done \subseteq Done'
      /\ \A i \in DOMAIN wire : i \in DOMAIN wire' /\ wire'[i] = wire[i] /\ WireTo(i)' = WireTo(i)
      /\ call[c].cancelled => wire' = wire /\ sent \cup call[c].told \subseteq lost'
      /\ ~call[c].cancelled =>
           /\ Und' = Und \cup Undelivered(a)
           /\ \A i \in DOMAIN wire' \ DOMAIN wire : wire'[i] = a
  <2>1. call[c].cancelled => wire' = wire /\ sent \cup call[c].told \subseteq lost'
    BY EmitFrame
  <2>2. ~call[c].cancelled =>
          /\ Und' = Und \cup Undelivered(a)
          /\ \A i \in DOMAIN wire' \ DOMAIN wire : wire'[i] = a
    <3>1. ~call[c].cancelled => Und' = Und \cup Undelivered(a)
      BY EmitFrame
    <3>2. ~call[c].cancelled => \A i \in DOMAIN wire' \ DOMAIN wire : wire'[i] = a
      BY EmitWrites
    <3> QED
      BY <3>1, <3>2
  <2>3. /\ cursor' = cursor /\ held' = held /\ got' = got /\ lost \subseteq lost'
        /\ Counted \cup sent \subseteq Counted' /\ Done \subseteq Done'
    BY EmitFrame
  <2>4. \A i \in DOMAIN wire : i \in DOMAIN wire' /\ wire'[i] = wire[i] /\ WireTo(i)' = WireTo(i)
    BY EmitFrame
  <2> HIDE DEF a
  <2> QED
    BY <2>1, <2>2, <2>3, <2>4
<1>3. Resumes(c) /\ c \in Running /\ call[c].pc = "booked"
  BY EmitIs DEF Resumes
<1>4. call[c].request = request
  BY <1>3 DEF Chain, CallSide
<1>5. /\ request' \in RequestRec
      /\ request'.force = request.force /\ request'.base = request.base
      /\ DOMAIN request'.pages = DOMAIN request.pages
      /\ \A j \in DOMAIN request.pages :
           /\ request'.pages[j].version = request.pages[j].version
           /\ request'.pages[j].shipped =
                IF request.pages[j].version = call[c].page THEN Account(c, sent)
                ELSE request.pages[j].shipped
      /\ request'.left = LeftOf(request', settled')
  BY <1>3, <1>4, EmitResumed
<1>6. /\ a.kind = "again" /\ a.lines = sent /\ a.told \subseteq call[c].told
      /\ Account(c, sent) \subseteq sent \cup a.told
  BY <1>1, <1>3, AccountSaid DEF AnswerOf
<1> HIDE DEF a
<1>7. Account(c, sent) \subseteq Done'
  BY <1>2, <1>6 DEF Done, Undelivered
<1>8. \A j \in DOMAIN request'.pages :
        /\ request'.pages[j].version = request.pages[j].version
        /\ request'.pages[j].shipped \subseteq request.pages[j].shipped \cup Done'
  BY <1>5, <1>7
<1>9. \A i \in DOMAIN wire' :
        \/ i \in DOMAIN wire /\ wire'[i] = wire[i] /\ WireTo(i)' = WireTo(i) /\ (Leads(i)' <=> Leads(i))
        \/ wire'[i] = a /\ ~Leads(i)' /\ wire'[i].kind \notin Steps
  BY <1>2, <1>6 DEF Leads, Steps
<1>10. Going' => Going
  BY <1>2, <1>9 DEF Going
<1>11. Going' => Fits(request)'
  BY <1>3, <1>10, EmitFits
<1>12. request'.force =>
         \A i \in DOMAIN wire' : wire'[i].kind = "again" \/ Leads(i)' => wire'[i].told = {}
  <2>1. request.force => a.told = {}
    BY <1>3, <1>4, <1>6 DEF Chain, CallSide
  <2> QED
    BY <1>5, <1>9, <2>1 DEF Chain, ClientSide
<1>13. Going => (IF request'.force THEN settled' \ request'.base ELSE settled') \subseteq Counted'
  BY <1>3, EmitFits
<1>14. (\A i \in DOMAIN wire : wire[i].kind \notin Steps) => Counted' \subseteq Done'
  <2>1. (\A i \in DOMAIN wire' : wire'[i].kind \notin Steps) => Counted' \subseteq Done'
    BY <1>1, WireCountsNow
  <2> QED
    BY <1>9, <2>1
<1>15. \A i \in DOMAIN wire : wire[i].kind \in Steps => Counted' \subseteq Done' \cup wire[i].lines
  <2> SUFFICES ASSUME NEW i \in DOMAIN wire, wire[i].kind \in Steps
               PROVE  Counted' \subseteq Done' \cup wire[i].lines
    OBVIOUS
  <2>1. i \in DOMAIN wire' /\ \A j \in DOMAIN wire' : wire'[j].kind \in Steps => j = i
    BY <1>1, <1>2, <1>9 DEF Turns
  <2> QED
    BY <1>1, <1>2, <2>1, WireCountsNow
<1>16. PagesOut'
  <2> SUFFICES ASSUME cursor > 0
               PROVE  /\ \A j \in DOMAIN request'.pages :
                           request'.pages[j].version # cursor => request'.pages[j].shipped \subseteq Done'
                      /\ /\ ~IsOn(request', cursor)
                         /\ request'.left = {} \/ (\E i \in DOMAIN wire' : wire'[i].kind \in Steps)
                         => Lines \subseteq Done'
    BY <1>2 DEF PagesOut, IsOn
  <2>1. Going /\ PagesOut
    BY DEF Going, Chain, ClientSide
  <2>2. \A j \in DOMAIN request'.pages :
          request'.pages[j].version # cursor => request'.pages[j].shipped \subseteq Done'
    BY <1>2, <1>5, <1>8, <2>1 DEF PagesOut
  <2>3. ~IsOn(request', cursor) => ~IsOn(request, cursor)
    BY <1>5 DEF IsOn
  <2>4. CASE \E i \in DOMAIN wire' : wire'[i].kind \in Steps
    <3>1. \E i \in DOMAIN wire : wire[i].kind \in Steps
      BY <1>9, <2>4
    <3> QED
      BY <1>2, <2>1, <2>2, <2>3, <3>1 DEF PagesOut
  <2>5. CASE ~\E i \in DOMAIN wire' : wire'[i].kind \in Steps
    <3> SUFFICES ASSUME ~IsOn(request', cursor), request'.left = {}
                 PROVE  Lines \subseteq Done'
      BY <2>2, <2>5
    <3>1. Counted' \subseteq Done'
      BY <1>2, <1>14, <2>5
    <3>2. \A j \in DOMAIN request'.pages : request'.pages[j].shipped \subseteq Done'
      BY <2>2 DEF IsOn
    <3>3. (IF request'.force THEN settled' \ request'.base ELSE settled') \subseteq Done'
      BY <1>13, <2>1, <3>1
    <3>4. PICK r, s, T : r \in RequestRec /\ r = request' /\ s = settled' /\ T = Done'
      BY <1>5
    <3>5. LeftOf(r, s) = {}
      BY <1>5, <3>4
    <3>6. Lines \subseteq T
      BY <3>2, <3>3, <3>4, <3>5, NothingLeft
    <3> QED
      BY <3>4, <3>6
  <2> QED
    BY <2>4, <2>5
<1>17. OnTheWay'
  <2> SUFFICES ASSUME NEW i \in DOMAIN wire, Leads(i)
               PROVE  /\ \A j \in DOMAIN request'.pages :
                           request'.pages[j].shipped \subseteq Done' \cup wire[i].lines \cup wire[i].told
                      /\ request'.left = {} => Lines \subseteq Done' \cup wire[i].lines \cup wire[i].told
    BY <1>9 DEF OnTheWay
  <2>1. Going /\ OnTheWay /\ wire[i].kind \in Steps
    BY DEF Going, Chain, ClientSide, Leads
  <2>2. \A j \in DOMAIN request'.pages :
          request'.pages[j].shipped \subseteq Done' \cup wire[i].lines \cup wire[i].told
    BY <1>2, <1>5, <1>8, <2>1 DEF OnTheWay
  <2>3. ASSUME request'.left = {} PROVE Lines \subseteq Done' \cup wire[i].lines \cup wire[i].told
    <3>1. (IF request'.force THEN settled' \ request'.base ELSE settled')
             \subseteq Done' \cup wire[i].lines \cup wire[i].told
      BY <1>13, <1>15, <2>1
    <3>2. PICK r, s, T :
            r \in RequestRec /\ r = request' /\ s = settled' /\ T = Done' \cup wire[i].lines \cup wire[i].told
      BY <1>5
    <3>3. LeftOf(r, s) = {}
      BY <1>5, <2>3, <3>2
    <3>4. Lines \subseteq T
      BY <2>2, <3>1, <3>2, <3>3, NothingLeft
    <3> QED
      BY <3>2, <3>4
  <2> QED
    BY <2>2, <2>3
<1>18. Ends'
  BY <1>2, <1>9 DEF Chain, ClientSide, Ends
<1> QED
  BY <1>11, <1>12, <1>16, <1>17, <1>18 DEF ClientSide

LEMMA EmitPageSide ==
  ASSUME PageInv, Receipts, Receipts', Chain, NEW c \in Calls, NEW sent \in SUBSET Lines,
         NEW withheld \in WithholdLowValuePageNext(c),
         Emit(c, sent, withheld), call[c].kind = "page"
  PROVE  ClientSide'
<1>1. Types /\ Types' /\ Turns /\ Turns' /\ Place /\ CallOf(c)
  <2>1. PageInv'
    BY EmitKeeps
  <2> QED
    BY <2>1 DEF PageInv
<1> DEFINE a == AnswerOf(c, sent, withheld)
<1>2. /\ cursor' = cursor /\ held' = held /\ got' = got /\ lost \subseteq lost'
      /\ Counted \cup sent \subseteq Counted' /\ Done \subseteq Done'
      /\ \A i \in DOMAIN wire : i \in DOMAIN wire' /\ wire'[i] = wire[i] /\ WireTo(i)' = WireTo(i)
      /\ call[c].cancelled => wire' = wire /\ sent \cup call[c].told \subseteq lost'
      /\ ~call[c].cancelled =>
           \A i \in DOMAIN wire' \ DOMAIN wire : wire'[i] = a /\ WireTo(i)' = WireLines'
  BY EmitFrame
<1>3. Resumes(c) /\ Moves(c) /\ Active(c) /\ c \in Running /\ call[c].pc = "booked"
  BY EmitIs DEF Resumes, Moves, Steps
<1>4. call[c].request = request
  BY <1>3 DEF Chain, CallSide
<1>5. /\ request' \in RequestRec
      /\ request'.force = request.force /\ request'.base = request.base
      /\ DOMAIN request'.pages = DOMAIN request.pages
      /\ \A j \in DOMAIN request.pages :
           /\ request'.pages[j].version = request.pages[j].version
           /\ request'.pages[j].shipped =
                IF request.pages[j].version = call[c].page THEN Account(c, sent)
                ELSE request.pages[j].shipped
      /\ request'.left = LeftOf(request', settled')
      /\ request'.left = SettledRequest(c, sent).left
      /\ IsOn(request, call[c].page)
  BY <1>3, <1>4, EmitResumed
<1>6. /\ a.kind = "page" /\ a.lines = sent /\ a.told \subseteq call[c].told /\ a.next = NextOf(c, sent, withheld)
      /\ Account(c, sent) \subseteq sent \cup a.told
  BY <1>1, <1>3, AccountSaid DEF AnswerOf
<1>7. a.next = Finished => request'.left = {}
  <2>1. NextOf(c, sent, withheld) \in {call[c].at, Withheld, request'.version} \/ request'.left = {}
    BY <1>3, <1>5 DEF NextOf, Resumes
  <2>2. call[c].at \in Nat /\ request'.version \in Nat
    BY <1>1, <1>5 DEF Types, CallRec, RequestRec
  <2> QED
    BY <1>6, <2>1, <2>2 DEF Finished, Withheld
<1> HIDE DEF a
<1>8. cursor > 0 /\ cursor # Finished /\ Going
  <2>1. call[c].at = cursor /\ call[c].at > 0 /\ call[c].at \in Nat
    BY <1>1, <1>3 DEF Place, CallOf, Types, CallRec
  <2> QED
    BY <2>1 DEF Going, Finished, Withheld
<1>9. \A i \in DOMAIN wire : wire[i].kind \notin Steps
  BY <1>1, <1>3 DEF Turns
<1>10. \A i \in DOMAIN wire' :
         \/ i \in DOMAIN wire /\ wire'[i] = wire[i] /\ ~Leads(i)' /\ wire'[i].kind \notin Steps
         \/ wire'[i] = a /\ WireTo(i)' = WireLines' /\ ~call[c].cancelled
  BY <1>2, <1>9 DEF Leads
<1>11. /\ Fits(request)'
       /\ (IF request'.force THEN settled' \ request'.base ELSE settled') \subseteq Counted'
       /\ call[c].told \subseteq Counted
  BY <1>3, <1>8, EmitFits
<1>12. request'.force =>
         \A i \in DOMAIN wire' : wire'[i].kind = "again" \/ Leads(i)' => wire'[i].told = {}
  <2>1. request.force => a.told = {}
    BY <1>3, <1>4, <1>6 DEF Chain, CallSide
  <2> QED
    BY <1>5, <1>10, <2>1 DEF Chain, ClientSide
<1>13. Done \subseteq Counted
  BY <1>1, <1>8, UndCounts DEF Chain, Done, Counted
<1>14. call[c].page = cursor \/ (~IsOn(request, cursor) /\ request.left = {})
  BY <1>3 DEF Chain, CallSide
<1>15. CASE ~IsOn(request, cursor) /\ request.left = {}
  <2>1. Lines \subseteq Done
    BY <1>8, <1>15 DEF Chain, ClientSide, PagesOut
  <2>2. Lines \subseteq Done' /\ Lines \subseteq Counted'
    BY <1>2, <1>13, <2>1
  <2>3. \A j \in DOMAIN request'.pages : request'.pages[j].shipped \subseteq Lines
    BY <1>5, PagesOf DEF PageRec
  <2>4. PagesOut'
    BY <2>2, <2>3 DEF PagesOut
  <2>5. OnTheWay'
    BY <2>2, <2>3 DEF OnTheWay
  <2>6. Ends'
    BY <1>2, <1>8, <1>10, <2>2 DEF Ends, Counted
  <2> QED
    BY <1>11, <1>12, <2>4, <2>5, <2>6 DEF ClientSide
<1>16. CASE call[c].page = cursor
  <2>1. \A j \in DOMAIN request'.pages :
          request'.pages[j].version # cursor => request'.pages[j].shipped \subseteq Done
    BY <1>5, <1>8, <1>16 DEF Chain, ClientSide, PagesOut
  <2>2. \A j \in DOMAIN request'.pages :
          request'.pages[j].shipped \subseteq Done \cup sent \cup a.told
    BY <1>5, <1>6, <1>16, <2>1
  <2>3. IsOn(request', cursor)
    BY <1>5, <1>16 DEF IsOn
  <2>4. PagesOut'
    BY <1>2, <2>1, <2>3 DEF PagesOut, IsOn
  <2>5. ASSUME NEW i \in DOMAIN wire', wire'[i].kind \in Steps
        PROVE  /\ wire'[i] = a /\ WireTo(i)' = WireLines'
               /\ \A j \in DOMAIN request'.pages :
                    request'.pages[j].shipped \subseteq Done' \cup a.lines \cup a.told
               /\ request'.left = {} =>
                    Lines \subseteq Done' \cup a.lines \cup a.told /\ Lines \subseteq Counted'
    <3>1. wire'[i] = a /\ WireTo(i)' = WireLines'
      BY <1>10, <2>5
    <3>2. \A j \in DOMAIN request'.pages :
            request'.pages[j].shipped \subseteq Done' \cup a.lines \cup a.told
      BY <1>2, <1>6, <2>2
    <3>3. \A j \in DOMAIN wire' : wire'[j].kind \in Steps => j = i
      BY <1>1, <2>5 DEF Turns
    <3>4. Counted' \subseteq Done' \cup a.lines
      BY <1>1, <3>1, <3>3, WireCountsNow
    <3>5. \A j \in DOMAIN request'.pages : request'.pages[j].shipped \subseteq Counted'
      BY <1>2, <1>6, <1>11, <1>13, <2>2
    <3>6. ASSUME request'.left = {}
          PROVE  Lines \subseteq Done' \cup a.lines \cup a.told /\ Lines \subseteq Counted'
      <4>1. PICK r, s, T, S :
              /\ r \in RequestRec /\ r = request' /\ s = settled'
              /\ T = Done' \cup a.lines \cup a.told /\ S = Counted'
        BY <1>5
      <4>2. LeftOf(r, s) = {}
        BY <1>5, <3>6, <4>1
      <4>3. (IF r.force THEN s \ r.base ELSE s) \subseteq S /\ S \subseteq T
        BY <1>11, <3>4, <4>1
      <4>4. Lines \subseteq S
        BY <3>5, <4>1, <4>2, <4>3, NothingLeft
      <4> QED
        BY <4>1, <4>3, <4>4
    <3> QED
      BY <3>1, <3>2, <3>6
  <2>6. OnTheWay'
    BY <2>5 DEF OnTheWay, Leads
  <2>7. Ends'
    BY <1>2, <1>7, <1>8, <2>5 DEF Ends, Counted
  <2> QED
    BY <1>11, <1>12, <2>4, <2>6, <2>7 DEF ClientSide
<1> QED
  BY <1>14, <1>15, <1>16

LEMMA EmitOpenSide ==
  ASSUME PageInv, Receipts, Receipts', Chain, NEW c \in Calls, NEW sent \in SUBSET Lines,
         NEW withheld \in WithholdLowValuePageNext(c),
         Emit(c, sent, withheld), Opens(c)
  PROVE  ClientSide'
<1>1. Types /\ Turns /\ Place /\ CallOf(c)
  BY DEF PageInv
<1> DEFINE a == AnswerOf(c, sent, withheld)
<1>2. /\ cursor' = cursor /\ held' = held /\ got' = got /\ lost \subseteq lost'
      /\ settled' \subseteq settled \cup sent /\ settled' \subseteq held' \cup Counted'
      /\ Counted \cup sent \subseteq Counted' /\ Done \subseteq Done'
      /\ call[c].told \subseteq held \cup Counted
      /\ \A i \in DOMAIN wire : i \in DOMAIN wire' /\ wire'[i] = wire[i]
      /\ call[c].cancelled => wire' = wire
      /\ ~call[c].cancelled =>
           \A i \in DOMAIN wire' \ DOMAIN wire : wire'[i] = a /\ WireTo(i)' = WireLines'
  BY EmitFrame
<1>3. Moves(c) /\ Active(c) /\ c \in Running /\ call[c].pc = "booked"
  BY EmitIs DEF Opens, Moves, Steps
<1>4. cursor = None
  BY <1>1, <1>3 DEF Place
<1>5. \A i \in DOMAIN wire : wire[i].kind \notin Steps /\ wire[i].kind # "again"
  BY <1>1, <1>3, <1>4 DEF Turns, Place
<1>6. /\ a.kind = "open" /\ a.lines = sent /\ a.told \subseteq call[c].told /\ a.next = NextOf(c, sent, withheld)
      /\ Account(c, sent) \subseteq sent \cup a.told
  BY <1>1, <1>3, AccountSaid DEF AnswerOf, Opens
<1> HIDE DEF a
<1>7. \A i \in DOMAIN wire' :
        \/ ~Leads(i)' /\ wire'[i].kind \notin Steps /\ wire'[i].kind # "again"
        \/ wire'[i] = a /\ WireTo(i)' = WireLines' /\ ~call[c].cancelled
  BY <1>2, <1>5 DEF Leads
<1>8. ~(cursor' > 0) /\ cursor' # Finished
  BY <1>2, <1>4 DEF None, Finished, Withheld
<1>9. CASE call[c].cancelled
  <2>1. ~Going'
    BY <1>7, <1>8, <1>9 DEF Going
  <2> QED
    BY <1>7, <1>8, <1>9, <2>1 DEF ClientSide, PagesOut, OnTheWay, Ends
<1>10. CASE ~call[c].cancelled
  <2>1. Fits(call[c].request) /\ (call[c].request.force => call[c].told = {})
    BY <1>3, <1>10 DEF Chain, CallSide
  <2>2. (IF call[c].request.force THEN settled' \ call[c].request.base ELSE settled') \subseteq Counted'
    <3>1. got' \subseteq Counted'
      BY DEF Counted
    <3> QED
      BY <1>2, <2>1, <3>1 DEF Fits
  <2>3. sent \cup call[c].told \subseteq Counted'
    <3>1. got \subseteq Counted
      BY DEF Counted
    <3> QED
      BY <1>2, <2>1, <3>1 DEF Fits
  <2>4. Account(c, sent) \subseteq Counted'
    BY <1>6, <2>3
  <2>5. CASE request' = request /\ NextOf(c, sent, withheld) = None
    <3>1. \A i \in DOMAIN wire' : ~Leads(i)' /\ wire'[i].kind # "again"
                                  /\ (wire'[i].kind \in Steps => wire'[i].next # Finished)
      BY <1>6, <1>7, <2>5 DEF Leads, None, Finished, Withheld
    <3> QED
      BY <1>8, <3>1 DEF ClientSide, Going, PagesOut, OnTheWay, Ends
  <2>6. CASE /\ request' = request /\ NextOf(c, sent, withheld) = Finished
             /\ \A T : /\ Account(c, sent) \subseteq T
                       /\ (IF call[c].request.force THEN settled' \ call[c].request.base
                           ELSE settled') \subseteq T
                       => Lines \subseteq T
    <3>1. Lines \subseteq Counted'
      BY <2>2, <2>4, <2>6
    <3>2. \A i \in DOMAIN wire' : ~Leads(i)' /\ wire'[i].kind # "again"
                                  /\ (wire'[i].kind \in Steps => WireTo(i)' = WireLines')
      BY <1>6, <1>7, <2>6 DEF Leads, None, Finished, Withheld
    <3>3. Ends'
      BY <1>8, <3>1, <3>2 DEF Ends, Counted
    <3> QED
      BY <1>8, <3>2, <3>3 DEF ClientSide, Going, PagesOut, OnTheWay
  <2>7. CASE /\ request' \in RequestRec /\ NextOf(c, sent, withheld) = 1
             /\ request'.force = call[c].request.force /\ request'.base = call[c].request.base
             /\ request'.left # {}
             /\ \A j \in DOMAIN request'.pages : request'.pages[j].shipped = Account(c, sent)
    <3>1. Fits(request)'
      BY <1>2, <2>1, <2>2, <2>7 DEF Fits
    <3>2. \A i \in DOMAIN wire' : wire'[i].kind = "again" \/ Leads(i)' => wire'[i] = a
      BY <1>7
    <3>3. request'.force => a.told = {}
      BY <1>6, <2>1, <2>7
    <3>4. OnTheWay'
      BY <1>6, <2>7, <3>2 DEF OnTheWay
    <3>5. \A i \in DOMAIN wire' : wire'[i].kind \in Steps => wire'[i].next # Finished
      BY <1>6, <1>7, <2>7 DEF Finished, Withheld
    <3> QED
      BY <1>8, <3>1, <3>2, <3>3, <3>4, <3>5 DEF ClientSide, PagesOut, Ends
  <2> QED
    BY <2>5, <2>6, <2>7, EmitOpened
<1> QED
  BY <1>9, <1>10

LEMMA EmitChain ==
  ASSUME PageInv, Receipts, Chain, ~concurrent, NEW c \in Calls, NEW sent \in SUBSET Lines,
         NEW withheld \in WithholdLowValuePageNext(c),
         Emit(c, sent, withheld)
  PROVE  Chain'
<1>1. call[c].kind \in Kinds
  BY DEF PageInv, Types, CallRec
<1>2. Receipts'
  BY EmitReceipts
<1>3. CallSide'
  BY EmitCallSide
<1>4. ClientSide'
  BY <1>1, <1>2, EmitPlainSide, EmitAgainSide, EmitPageSide, EmitOpenSide DEF Kinds, Opens
<1> QED
  BY <1>3, <1>4 DEF Chain

\* Chain stands on the serial transport.
SerialChain == ~concurrent => Chain

LEMMA ChainStep == PageInv /\ SerialReceipts /\ SerialChain /\ [Next]_vars => SerialChain'
<1> SUFFICES ASSUME PageInv, Receipts, Chain, ~concurrent, [Next]_vars PROVE Chain'
  BY EraStays DEF SerialChain, SerialReceipts
<1>1. Types /\ \A c \in Calls : call[c].body \subseteq Lines
  BY DEF PageInv, Types, CallRec
<1>2. CASE \E c \in Calls : Follows(c) \/ ResendCursor(c) \/ ReadWindow(c)
  BY <1>2, OpenChain, OtherSendChain DEF Follows
<1>3. CASE \E c \in Calls : Cancel(c) \/ Throw(c)
  BY <1>3, CancelChain, ThrowChain
<1>4. CASE \E c \in Calls : Start(c) \/ FixPage(c) \/ Serve(c)
  BY <1>4, StartChain, FixPageChain, ServeChain
<1>5. CASE \E c \in Calls : Answer(c)
  <2>1. PICK c \in Calls, n \in {NLines} \cup 1..NLines, withheld \in BOOLEAN :
          withheld \in WithholdLowValuePageNext(c) /\ Emit(c, FirstOf(n, call[c].body), withheld)
    BY <1>5, PagesAssumption DEF Answer, WithholdLowValuePageNext
  <2>2. FirstOf(n, call[c].body) \in SUBSET Lines
    BY <1>1 DEF FirstOf
  <2> QED
    BY <2>1, <2>2, EmitChain
<1>6. CASE \E c \in Calls : Refuse(c)
  <2>1. PICK c \in Calls : Emit(c, {}, FALSE) /\ FALSE \in WithholdLowValuePageNext(c)
    BY <1>6 DEF Refuse, WithholdLowValuePageNext
  <2>2. {} \in SUBSET Lines
    OBVIOUS
  <2> QED
    BY <2>1, <2>2, EmitChain
<1>7. CASE Receive \/ Compact \/ Kill
  BY <1>7, ReceiveChain, CompactChain, KillChain
<1>8. CASE UNCHANGED vars
  <2>1. /\ settled' = settled /\ request' = request /\ wire' = wire /\ cursor' = cursor
        /\ held' = held /\ got' = got /\ lost' = lost /\ call' = call
    BY <1>8 DEF vars
  <2>2. ClientSide'
    BY <2>1, SameExtends, ClientSideStays DEF Chain
  <2>3. CallSide'
    <3>1. WireLines' = WireLines
      BY <2>1, WireStays
    <3>2. \A r : Fits(r)' <=> Fits(r)
      BY <2>1, <3>1 DEF Fits, Counted
    <3>3. ASSUME NEW d \in Calls, Opens(d)', d \in Running', ~call'[d].cancelled
          PROVE  Fits(call[d].request)'
      <4>1. PICK r : r = call[d].request
        OBVIOUS
      <4>2. Fits(r)'
        BY <2>1, <3>2, <3>3, <4>1 DEF Chain, CallSide, Opens, Running
      <4> QED
        BY <2>1, <4>1, <4>2 DEF Fits
    <3> QED
      BY <2>1, <3>3 DEF Chain, CallSide, Opens, Resumes, Running, IsOn
  <2> QED
    BY <2>2, <2>3 DEF Chain
<1> QED
  BY <1>2, <1>3, <1>4, <1>5, <1>6, <1>7, <1>8 DEF Next, Serves

LEMMA InitChain == Init => SerialChain
<1> SUFFICES ASSUME Init PROVE Chain
  BY DEF SerialChain
<1>1. wire = <<>> /\ cursor = None /\ \A c \in Calls : call[c] = NoCall
  BY DEF Init
<1>2. Running = {} /\ \A c \in Calls : call[c].kind = "plain" /\ call[c].pc = "idle"
  BY <1>1, NoCallIs DEF Running
<1>3. ~(cursor > 0) /\ cursor # Finished /\ ~Going
  BY <1>1 DEF Going, None, Finished, Withheld
<1>4. CallSide
  BY <1>2 DEF CallSide, Opens
<1>5. ClientSide
  BY <1>1, <1>3 DEF ClientSide, PagesOut, OnTheWay, Ends
<1> QED
  BY <1>4, <1>5 DEF Chain

\* Chain is invariant: what the pages of a request ship and what its answers
\* deliver go together (recordShippedPage, settledTargets).
THEOREM ChainInvariant == Spec => []SerialChain
<1> QED
  BY InitChain, ChainStep, PagesInvariant, ReceiptsInvariant, PTL DEF Spec

\* A request whose last answer carries no next has delivered every line, unless
\* the funnel withheld that next and the answer says that it was capped
\* (withholdLowValuePageNext): what is left is computed from what shipped, never
\* from what was planned (settledTargets, recordShippedPage).
THEOREM ChainsComplete == Spec => []ChainComplete
<1>1. SerialChain => ChainComplete
  BY DEF SerialChain, Chain, ClientSide, Ends, ChainComplete
<1> QED
  BY <1>1, ChainInvariant, PTL

=============================================================================
