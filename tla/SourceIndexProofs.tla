-------------------------- MODULE SourceIndexProofs --------------------------
(***************************************************************************)
(* What the source index promises whoever asks it, for any number of       *)
(* servers on a workspace, any contents and any number of edits and faults.*)
(*                                                                         *)
(* The argument: a stat fingerprint that still fits vouches for the        *)
(* content it was taken with, since an edit either moves the stats or goes *)
(* through the one server there is, whose memo it poisons and whose build  *)
(* it overtakes by an epoch.  The graph and the manifest on disk are       *)
(* followed from a publication to the memo it becomes, and from there to   *)
(* the next build; a build that skips its manifest has been told by that   *)
(* memo that the disk has it.                                              *)
(***************************************************************************)
EXTENDS SourceIndex, FiniteSetTheorems, TLAPS

-----------------------------------------------------------------------------
(* The inductive invariant *)

\* Before a build has read the files, and after.
Early == {None, "enumerate", "seed"}
Built == {"manifest", "journal", "probe", "graph", "clear", "memo"}

\* Records, their fields and types.
Published == {Absent} \cup [content : Contents, gen : Nat \ {0}]
Memo == [fp : Nat, on : Published, whole : BOOLEAN, persisted : Contents \cup {None}]
Build == [pc : Early \cup {"read"} \cup Built, epoch : Nat, fp : Nat, seed : Published,
          whole : BOOLEAN, persisted : Contents \cup {None}, on : Published,
          pending : BOOLEAN, since : Nat]

Types ==
  /\ texts \in Seq(Contents) /\ texts # << >> /\ stat \in 1 .. Len(texts)
  /\ up \in Deployments /\ journal \in BOOLEAN
  /\ manifest \in Published /\ graph \in Published
  /\ memo \in [Servers -> Memo] /\ build \in [Servers -> Build]
  /\ epoch \in [Servers -> Nat] /\ lookup \in [Servers -> BOOLEAN]
  /\ access \in [Servers -> {"idle", "building", "ready", "failed"}]
  /\ faults \in Nat

\* How far fingerprints, epochs and builds can be, and where a build runs.
CourseIn(p) ==
  /\ memo[p].fp <= stat /\ build[p].fp <= stat
  /\ At(p, "seed") => build[p].fp > 0
  /\ build[p].since \in 1 .. Len(texts) /\ build[p].epoch <= epoch[p]
  /\ p \notin up => memo[p] = NoMemo /\ build[p] = NoBuild
  /\ access[p] = "building" => ~At(p, None)
  /\ ~At(p, None) => access[p] \in {"building", "ready"}
  /\ ~At(p, None) /\ access[p] = "ready" => lookup[p]
  /\ lookup[p] => ~At(p, None)

Course == \A p \in Servers : CourseIn(p)

\* Edits and faults are bounded.
Bounds == Len(texts) - 1 + faults <= MaxTrouble

\* The workspace has had the content c since version n.
Had(n, c) == \E v \in n .. Len(texts) : texts[v] = c

\* A fingerprint that still fits vouches for the content it was taken with.
FreshIn(p) ==
  /\ memo[p].on # Absent /\ memo[p].fp = stat => memo[p].on.content = Text
  /\ At(p, "seed") /\ memo[p].on # Absent /\ memo[p].fp = build[p].fp =>
       Had(build[p].since, memo[p].on.content)
  /\ build[p].pc \in Built =>
       /\ Had(build[p].since, build[p].on.content)
       /\ build[p].epoch = epoch[p] /\ build[p].fp = stat => build[p].on.content = Text

LeftBehind(p) == p \in missed \cup foreign

\* The graph is that of the memo, or of the build that has published it.
GraphIn(p) ==
  /\ build[p].pc \in Early /\ memo[p].fp # Poisoned =>
       LeftBehind(p) \/ graph.content = memo[p].on.content
  /\ build[p].pc \in {"clear", "memo"} =>
       LeftBehind(p) \/ graph.content = build[p].on.content
  /\ ~At(p, None) /\ build[p].epoch # epoch[p] => memo[p].fp = Poisoned /\ ~memo[p].whole

Unsaved(p) == lapsed /\ p \in unsaved

\* The manifest is that of the memo or the build of a server on its own.
ManifestIn(p) ==
  /\ build[p].pc \in Early /\ memo[p].whole =>
       memo[p].persisted = manifest.content \/ Unsaved(p)
  /\ build[p].pc \in Early /\ memo[p].fp # Poisoned =>
       memo[p].on.content = manifest.content \/ p \in unsaved
  /\ At(p, "read") /\ build[p].whole =>
       build[p].persisted = manifest.content \/ Unsaved(p)
  /\ build[p].pc \in {"journal", "probe", "graph", "clear", "memo"} =>
       \/ build[p].persisted = manifest.content /\ build[p].on.content = manifest.content
       \/ Unsaved(p) /\ ~At(p, "journal")
  /\ At(p, "clear") => graph.content = build[p].on.content \/ lapsed
  /\ manifest.content # graph.content => journal \/ lapsed \/ At(p, "journal")

Inv ==
  /\ Types
  /\ Course
  /\ \A p \in Servers : FreshIn(p) /\ GraphIn(p) /\ (up = {p} => ManifestIn(p))

-----------------------------------------------------------------------------
\* Elements of the types.
LEMMA Constants ==
  /\ NoBuild \in Build /\ NoMemo \in Memo /\ Absent \in Published
  /\ \A c \in Contents, n \in Nat \ {0} : Of(c, n) \in Published /\ Of(c, n) # Absent
BY DEF NoBuild, NoMemo, Absent, Of, Published, Build, Memo, Early, Poisoned

\* The build of p is now there, with these fields; those of other servers are
\* as they were.
Fields(r, b, pc, fp, seed, whole, persisted, on, pending) ==
  /\ r.pc = pc /\ r.epoch = b.epoch /\ r.fp = fp /\ r.seed = seed /\ r.whole = whole
  /\ r.persisted = persisted /\ r.on = on /\ r.pending = pending /\ r.since = b.since

Now(p, pc, fp, seed, whole, persisted, on, pending) ==
  /\ build' \in [Servers -> Build]
  /\ \A q \in Servers \ {p} : build'[q] = build[q]
  /\ Fields(build'[p], build[p], pc, fp, seed, whole, persisted, on, pending)

\* The build of p has looked at the stats, has its seed, has read the files,
\* and is at a step of the publication.
Looked(p) ==
  LET b == build[p] IN Now(p, "seed", stat, b.seed, b.whole, b.persisted, b.on, b.pending)

Seeded(p) ==
  LET b == build[p]
      m == memo[p]
  IN  IF m.on # Absent
      THEN Now(p, "read", b.fp, m.on, m.whole, m.persisted, b.on, b.pending)
      ELSE Now(p, "read", b.fp, manifest, TRUE, manifest.content, b.on, b.pending)

Gathered(p) ==
  LET b == build[p] IN
  \E pc \in {"probe", "manifest"}, n \in Nat \ {0} :
    /\ pc = "probe" <=> DiskCacheCurrent(p)
    /\ Now(p, pc, b.fp, Absent, FALSE, b.persisted, Of(Text, n), b.pending)

Publishes(p, pc, persisted, pending) ==
  LET b == build[p] IN Now(p, pc, b.fp, b.seed, b.whole, persisted, b.on, pending)

\* The records a build goes through.
LEMMA Changes ==
  ASSUME NEW b \in Build
  PROVE  /\ \A n \in Nat : LET r == [b EXCEPT !.pc = "seed", !.fp = n] IN
              r \in Build /\ Fields(r, b, "seed", n, b.seed, b.whole, b.persisted, b.on, b.pending)
         /\ \A s \in Published, w \in BOOLEAN, c \in Contents \cup {None} :
              LET r == [b EXCEPT !.pc = "read", !.seed = s, !.whole = w, !.persisted = c] IN
              r \in Build /\ Fields(r, b, "read", b.fp, s, w, c, b.on, b.pending)
         /\ \A pc \in {"probe", "manifest"}, o \in Published :
              LET r == [b EXCEPT !.pc = pc, !.on = o, !.seed = Absent, !.whole = FALSE] IN
              r \in Build /\ Fields(r, b, pc, b.fp, Absent, FALSE, b.persisted, o, b.pending)
         /\ \A c \in Contents \cup {None} :
              LET r == [b EXCEPT !.pc = "journal", !.persisted = c] IN
              r \in Build /\ Fields(r, b, "journal", b.fp, b.seed, b.whole, c, b.on, b.pending)
         /\ \A pc \in Built :
              LET r == [b EXCEPT !.pc = pc] IN
              r \in Build /\ Fields(r, b, pc, b.fp, b.seed, b.whole, b.persisted, b.on, b.pending)
         /\ \A pc \in Built, j \in BOOLEAN :
              LET r == [b EXCEPT !.pc = pc, !.pending = j] IN
              r \in Build /\ Fields(r, b, pc, b.fp, b.seed, b.whole, b.persisted, b.on, j)
<1>1. ASSUME NEW n \in Nat, NEW r, r = [b EXCEPT !.pc = "seed", !.fp = n]
      PROVE  r \in Build /\ Fields(r, b, "seed", n, b.seed, b.whole, b.persisted, b.on, b.pending)
  BY <1>1 DEF Build, Early, Fields
<1>2. ASSUME NEW s \in Published, NEW w \in BOOLEAN, NEW c \in Contents \cup {None}, NEW r,
             r = [b EXCEPT !.pc = "read", !.seed = s, !.whole = w, !.persisted = c]
      PROVE  r \in Build /\ Fields(r, b, "read", b.fp, s, w, c, b.on, b.pending)
  BY <1>2 DEF Build, Fields
<1>3. ASSUME NEW pc \in {"probe", "manifest"}, NEW o \in Published, NEW r,
             r = [b EXCEPT !.pc = pc, !.on = o, !.seed = Absent, !.whole = FALSE]
      PROVE  r \in Build /\ Fields(r, b, pc, b.fp, Absent, FALSE, b.persisted, o, b.pending)
  BY <1>3, Constants DEF Build, Built, Fields
<1>4. ASSUME NEW c \in Contents \cup {None}, NEW r,
             r = [b EXCEPT !.pc = "journal", !.persisted = c]
      PROVE  r \in Build /\ Fields(r, b, "journal", b.fp, b.seed, b.whole, c, b.on, b.pending)
  BY <1>4 DEF Build, Built, Fields
<1>5. ASSUME NEW pc \in Built, NEW r, r = [b EXCEPT !.pc = pc]
      PROVE  r \in Build /\ Fields(r, b, pc, b.fp, b.seed, b.whole, b.persisted, b.on, b.pending)
  BY <1>5 DEF Build, Fields
<1>6. ASSUME NEW pc \in Built, NEW j \in BOOLEAN, NEW r, r = [b EXCEPT !.pc = pc, !.pending = j]
      PROVE  r \in Build /\ Fields(r, b, pc, b.fp, b.seed, b.whole, b.persisted, b.on, j)
  BY <1>6 DEF Build, Fields
<1> QED
  BY <1>1, <1>2, <1>3, <1>4, <1>5, <1>6

\* The build of p after each of its steps.
LEMMA Moves ==
  ASSUME Types, NEW p \in Servers
  PROVE  LET b == build[p] IN
         /\ Enumerate(p) => Looked(p)
         /\ Seed(p) => Seeded(p)
         /\ Read(p) => Gathered(p)
         /\ Manifest(p) => Publishes(p, "journal", build[p].on.content, build[p].pending)
         /\ ManifestFails(p) \/ Journal(p) \/ JournalFails(p) =>
              Publishes(p, "probe", build[p].persisted, build[p].pending)
         /\ ProbeJournal(p) =>
              Publishes(p, "graph", build[p].persisted, journal)
         /\ Graph(p) => Publishes(p, "clear", build[p].persisted, FALSE)
         /\ GraphFails(p) => Publishes(p, "memo", build[p].persisted, FALSE)
         /\ ClearJournal(p) => Publishes(p, "memo", build[p].persisted, build[p].pending)
<1> DEFINE b == build[p]
<1>1. /\ build \in [Servers -> Build] /\ b \in Build /\ stat \in Nat /\ journal \in BOOLEAN
      /\ memo[p].on \in Published /\ memo[p].whole \in BOOLEAN
      /\ memo[p].persisted \in Contents \cup {None} /\ manifest \in Published
  BY DEF Types, Memo
<1>2. /\ \A r \in Published : r.content \in Contents \cup {None}
      /\ b.on \in Published
  BY <1>1 DEF Published, Absent, Of, Build
<1>3. ASSUME NEW r \in Build, Go(p, r), NEW pc, NEW fp, NEW seed, NEW whole, NEW persisted, NEW on, NEW pending,
             Fields(r, b, pc, fp, seed, whole, persisted, on, pending)
      PROVE  Now(p, pc, fp, seed, whole, persisted, on, pending)
  BY <1>1, <1>3 DEF Go, Now
<1>4. Enumerate(p) => Looked(p)
  BY <1>1, <1>3, Changes DEF Enumerate, Looked
<1>5. Seed(p) => Seeded(p)
  BY <1>1, <1>2, <1>3, Changes DEF Seed, Seeded
<1>6. Manifest(p) => Publishes(p, "journal", build[p].on.content, build[p].pending)
  BY <1>1, <1>2, <1>3, Changes DEF Manifest, Publishes
<1>7. ManifestFails(p) \/ Journal(p) \/ JournalFails(p) =>
        Publishes(p, "probe", build[p].persisted, build[p].pending)
  BY <1>1, <1>3, Changes DEF ManifestFails, Journal, JournalFails, Publishes, Built
<1>8. ProbeJournal(p) => Publishes(p, "graph", build[p].persisted, journal)
  BY <1>1, <1>3, Changes DEF ProbeJournal, Publishes, Built
<1>9. Graph(p) => Publishes(p, "clear", build[p].persisted, FALSE)
  BY <1>1, <1>3, Changes DEF Graph, Publishes, Built
<1>10. GraphFails(p) => Publishes(p, "memo", build[p].persisted, FALSE)
  BY <1>1, <1>3, Changes DEF GraphFails, Publishes, Built
<1>11. ClearJournal(p) => Publishes(p, "memo", build[p].persisted, build[p].pending)
  BY <1>1, <1>3, Changes DEF ClearJournal, Publishes, Built
<1>12. ASSUME Read(p)
       PROVE  Gathered(p)
  <2>1. Text \in Contents /\ Text # None
    BY IndexAssumption DEF Types, Text
  <2>2. b.seed \in Published /\ (b.seed.gen = 0 => b.seed = Absent) /\ b.seed.gen \in Nat
    BY <1>1 DEF Build, Published, Absent, Of
  <2>3. b.seed = Absent => b.seed.content # Text
    BY <2>1 DEF Absent, Of
  <2> DEFINE n == IF Text # b.seed.content THEN b.seed.gen + 1 ELSE b.seed.gen
             pc == IF DiskCacheCurrent(p) THEN "probe" ELSE "manifest"
  <2>4. n \in Nat \ {0} /\ pc \in {"probe", "manifest"} /\ (pc = "probe" <=> DiskCacheCurrent(p))
    BY <2>2, <2>3
  <2>5. Of(Text, n) \in Published
    BY <2>1, <2>4, Constants
  <2>6. Go(p, [b EXCEPT !.pc = pc, !.on = Of(Text, n), !.seed = Absent, !.whole = FALSE])
    BY <1>12 DEF Read
  <2> HIDE DEF n, pc, b
  <2>7. Now(p, pc, b.fp, Absent, FALSE, b.persisted, Of(Text, n), b.pending)
    BY <1>1, <1>3, <2>4, <2>5, <2>6, Changes
  <2> QED
    BY <2>4, <2>7 DEF Gathered, b
<1> QED
  BY <1>4, <1>5, <1>6, <1>7, <1>8, <1>9, <1>10, <1>11, <1>12

\* A build that starts, and one that is over.
Begun(p) ==
  /\ build' \in [Servers -> Build]
  /\ \A q \in Servers \ {p} : build'[q] = build[q]
  /\ build'[p].pc = "enumerate" /\ build'[p].epoch = epoch[p] /\ build'[p].since = Len(texts)
  /\ build'[p].fp = 0

Over(p) ==
  /\ build' \in [Servers -> Build]
  /\ \A q \in Servers \ {p} : build'[q] = build[q]
  /\ build'[p] = NoBuild

\* Where a build starts and where it ends.
LEMMA Ends ==
  ASSUME Types, NEW p \in Servers
  PROVE  /\ Go(p, Started(p)) => Begun(p)
         /\ Go(p, NoBuild) => Over(p)
<1>1. build \in [Servers -> Build] /\ epoch[p] \in Nat /\ Len(texts) \in Nat
  BY DEF Types
<1>2. Started(p) \in Build /\ Started(p).pc = "enumerate" /\ Started(p).epoch = epoch[p]
      /\ Started(p).since = Len(texts) /\ Started(p).fp = 0
  BY <1>1, Constants DEF Started, Build, NoBuild, Early
<1> HIDE DEF Started
<1> QED
  BY <1>1, <1>2, Constants DEF Go, Begun, Over

\* The memo of p is now this; those of other servers are as they were.
Remembers(p, fp, on, whole, persisted) ==
  /\ memo' \in [Servers -> Memo]
  /\ \A q \in Servers \ {p} : memo'[q] = memo[q]
  /\ memo'[p].fp = fp /\ memo'[p].on = on /\ memo'[p].whole = whole
  /\ memo'[p].persisted = persisted

\* The memo after invalidateCachedWorkspaceFiles and after a build.
LEMMA MemoMoves ==
  ASSUME Types, NEW p \in Servers
  PROVE  /\ Invalidate(p) => Remembers(p, Poisoned, memo[p].on, FALSE, memo[p].persisted)
         /\ ReturnBuild(p) =>
              IF epoch[p] # build[p].epoch THEN memo' = memo
              ELSE Remembers(p, build[p].fp, build[p].on, TRUE, build[p].persisted)
<1>1. memo \in [Servers -> Memo]
  BY DEF Types
<1>2. ASSUME NEW m \in Memo, NEW r, r = [[m EXCEPT !.fp = Poisoned] EXCEPT !.whole = FALSE]
      PROVE  /\ r \in Memo /\ r.fp = Poisoned /\ r.whole = FALSE
             /\ r.on = m.on /\ r.persisted = m.persisted
  BY <1>2 DEF Memo, Poisoned
<1>3. ASSUME Invalidate(p)
      PROVE  Remembers(p, Poisoned, memo[p].on, FALSE, memo[p].persisted)
  <2> DEFINE r == [[memo[p] EXCEPT !.fp = Poisoned] EXCEPT !.whole = FALSE]
  <2>1. memo' = [memo EXCEPT ![p] = r]
    BY <1>1, <1>3 DEF Invalidate
  <2>2. /\ r \in Memo /\ r.fp = Poisoned /\ r.whole = FALSE
        /\ r.on = memo[p].on /\ r.persisted = memo[p].persisted
    BY <1>1, <1>2
  <2> HIDE DEF r
  <2> QED
    BY <1>1, <2>1, <2>2 DEF Remembers
<1>4. ReturnBuild(p) =>
        IF epoch[p] # build[p].epoch THEN memo' = memo
        ELSE Remembers(p, build[p].fp, build[p].on, TRUE, build[p].persisted)
  <2> DEFINE r == [fp |-> build[p].fp, on |-> build[p].on, whole |-> TRUE,
                   persisted |-> build[p].persisted]
  <2>1. build[p].fp \in Nat /\ build[p].on \in Published
        /\ build[p].persisted \in Contents \cup {None}
    BY DEF Types, Build
  <2>2. r \in Memo
    BY <2>1 DEF Memo
  <2>3. r.fp = build[p].fp /\ r.on = build[p].on /\ r.whole = TRUE
        /\ r.persisted = build[p].persisted
    OBVIOUS
  <2>4. ASSUME ReturnBuild(p), epoch[p] = build[p].epoch
        PROVE  memo' = [memo EXCEPT ![p] = r]
    BY <1>1, <2>4 DEF ReturnBuild
  <2> HIDE DEF r
  <2>5. ASSUME ReturnBuild(p), epoch[p] # build[p].epoch
        PROVE  memo' = memo
    BY <2>5 DEF ReturnBuild
  <2> QED
    BY <1>1, <2>2, <2>3, <2>4, <2>5 DEF Remembers
<1> QED
  BY <1>3, <1>4

\* The text after an edit.
LEMMA TextGrows ==
  ASSUME Types, NEW c \in Contents, Becomes(c)
  PROVE  /\ texts' \in Seq(Contents) /\ Len(texts') = Len(texts) + 1 /\ texts' # << >>
         /\ Len(texts) \in Nat \ {0} /\ Text' = c
         /\ \A v \in 1 .. Len(texts) : texts'[v] = texts[v]
BY DEF Types, Becomes, Text

\* Every step keeps the types.
LEMMA StepTypes ==
  ASSUME Types, Course, [Next]_vars
  PROVE  Types'
<1>0. up \subseteq Servers /\ faults + 1 \in Nat
  BY IndexAssumption DEF Types
<1>1. ASSUME NEW c \in Contents, EditElsewhere(c)
      PROVE  Types'
  BY <1>1, <1>0, TextGrows DEF EditElsewhere, Becomes, Types, source, disk, ghosts
<1>2. ASSUME NEW p \in up, NEW c \in Contents, EditHere(p, c)
      PROVE  Types'
  <2>1. Invalidate(p)
    BY <1>2 DEF EditHere
  <2>2. memo' \in [Servers -> Memo]
    BY <1>0, <2>1, MemoMoves DEF Remembers
  <2>3. texts' \in Seq(Contents) /\ texts' # << >> /\ stat' \in 1 .. Len(texts')
    BY <1>2, TextGrows DEF EditHere, Types
  <2>4. epoch' \in [Servers -> Nat]
    BY <1>0, <2>1 DEF Invalidate, Types
  <2> QED
    BY <1>2, <2>2, <2>3, <2>4 DEF EditHere, Types, disk
<1>3. ASSUME NEW p \in up, Lookup(p)
      PROVE  Types'
  <2>1. Begun(p) \/ build' = build
    BY <1>3, <1>0, Ends DEF Lookup, StartBuild
  <2> QED
    BY <1>3, <1>0, <2>1 DEF Lookup, StartBuild, Begun, Types, source, disk, ghosts
<1>4. ASSUME NEW p \in up, Prewarm(p)
      PROVE  Types'
  <2>1. Begun(p)
    BY <1>4, <1>0, Ends DEF Prewarm, StartBuild
  <2> QED
    BY <1>4, <1>0, <2>1 DEF Prewarm, StartBuild, Begun, Types, source, disk, ghosts
<1>5. ASSUME NEW p \in up, GiveUp(p)
      PROVE  Types'
  BY <1>5, <1>0 DEF GiveUp, Types, source, disk, ghosts
<1>6. ASSUME NEW p \in up, Kill(p)
      PROVE  Types'
  <2>1. Over(p)
    BY <1>6, <1>0, Ends DEF Kill
  <2> QED
    BY <1>6, <1>0, <2>1, Constants DEF Kill, Over, Types, source, disk, ghosts
<1>7. ASSUME NEW p \in up, Enumerate(p)
      PROVE  Types'
  <2>1. Looked(p)
    BY <1>7, <1>0, Moves
  <2> QED
    BY <1>7, <1>0, <2>1 DEF Enumerate, Now, Looked, Types, source, disk, ghosts
<1>8. ASSUME NEW p \in up, BuildFails(p)
      PROVE  Types'
  <2>1. Over(p)
    BY <1>8, <1>0, Ends DEF BuildFails, Settled
  <2> QED
    BY <1>8, <1>0, <2>1 DEF BuildFails, Settled, Over, Types, source, disk, ghosts
<1>9. ASSUME NEW p \in up, ReturnMemo(p)
      PROVE  Types'
  <2>1. Over(p)
    BY <1>9, <1>0, Ends DEF ReturnMemo, Settled
  <2> QED
    BY <1>9, <1>0, <2>1 DEF ReturnMemo, Settled, Over, Types, source, disk, ghosts
<1>10. ASSUME NEW p \in up, Seed(p)
      PROVE  Types'
  <2>1. Seeded(p)
    BY <1>10, <1>0, Moves
  <2> QED
    BY <1>10, <1>0, <2>1 DEF Seed, Now, Seeded, Types, source, disk, ghosts
<1>11. ASSUME NEW p \in up, Read(p)
      PROVE  Types'
  <2>1. Gathered(p)
    BY <1>11, <1>0, Moves
  <2> QED
    BY <1>11, <1>0, <2>1 DEF Read, Now, Gathered, Types, source, disk, ghosts
<1>12. ASSUME NEW p \in up, Manifest(p)
      PROVE  Types'
  <2>1. Publishes(p, "journal", build[p].on.content, build[p].pending)
    BY <1>12, <1>0, Moves
  <2> QED
    BY <1>12, <1>0, <2>1 DEF Manifest, Build, Now, Publishes, Types, source, disk, ghosts
<1>13. ASSUME NEW p \in up, ManifestFails(p)
      PROVE  Types'
  <2>1. Publishes(p, "probe", build[p].persisted, build[p].pending)
    BY <1>13, <1>0, Moves
  <2> QED
    BY <1>13, <1>0, <2>1 DEF ManifestFails, Now, Publishes, Types, source, disk, ghosts
<1>14. ASSUME NEW p \in up, Journal(p)
      PROVE  Types'
  <2>1. Publishes(p, "probe", build[p].persisted, build[p].pending)
    BY <1>14, <1>0, Moves
  <2> QED
    BY <1>14, <1>0, <2>1 DEF Journal, Now, Publishes, Types, source, disk, ghosts
<1>15. ASSUME NEW p \in up, JournalFails(p)
      PROVE  Types'
  <2>1. Publishes(p, "probe", build[p].persisted, build[p].pending)
    BY <1>15, <1>0, Moves
  <2> QED
    BY <1>15, <1>0, <2>1 DEF JournalFails, Now, Publishes, Types, source, disk, ghosts
<1>16. ASSUME NEW p \in up, ProbeJournal(p)
      PROVE  Types'
  <2>1. Publishes(p, "graph", build[p].persisted, journal)
    BY <1>16, <1>0, Moves
  <2> QED
    BY <1>16, <1>0, <2>1 DEF ProbeJournal, Now, Publishes, Types, source, disk, ghosts
<1>17. ASSUME NEW p \in up, Graph(p)
      PROVE  Types'
  <2>1. Publishes(p, "clear", build[p].persisted, FALSE)
    BY <1>17, <1>0, Moves
  <2> QED
    BY <1>17, <1>0, <2>1
       DEF Graph, Fresh, Build, Now, Publishes, Types, source, disk, ghosts
<1>18. ASSUME NEW p \in up, GraphFails(p)
      PROVE  Types'
  <2>1. Publishes(p, "memo", build[p].persisted, FALSE)
    BY <1>18, <1>0, Moves
  <2> QED
    BY <1>18, <1>0, <2>1 DEF GraphFails, Now, Publishes, Types, source, disk, ghosts
<1>19. ASSUME NEW p \in up, ClearJournal(p)
      PROVE  Types'
  <2>1. Publishes(p, "memo", build[p].persisted, build[p].pending)
    BY <1>19, <1>0, Moves
  <2> QED
    BY <1>19, <1>0, <2>1 DEF ClearJournal, Now, Publishes, Types, source, disk, ghosts
<1>20. ASSUME NEW p \in up, ReturnBuild(p)
      PROVE  Types'
  <2>1. Over(p)
    BY <1>20, <1>0, Ends DEF ReturnBuild, Settled
  <2> QED
    BY <1>20, <1>0, <2>1, MemoMoves
       DEF ReturnBuild, Settled, Over, Remembers, Types, source, disk, ghosts
<1>21. CASE UNCHANGED vars
  BY <1>21, <1>0 DEF vars, Types, source, disk, ghosts
<1> QED
  BY <1>1, <1>2, <1>3, <1>4, <1>5, <1>6, <1>7, <1>8, <1>9, <1>10, <1>11, <1>12, <1>13,
     <1>14, <1>15, <1>16, <1>17, <1>18, <1>19, <1>20, <1>21
     DEF Next, Builds

\* Every step keeps builds, lookups and the state of the index in step.
LEMMA StepCourse ==
  ASSUME Types, Course, [Next]_vars
  PROVE  Course'
<1>0. /\ up \subseteq Servers /\ stat \in Nat \ {0} /\ Len(texts) \in Nat \ {0}
      /\ \A q \in Servers : memo[q].fp \in Nat /\ build[q].fp \in Nat /\ epoch[q] \in Nat
                              /\ build[q].epoch \in Nat /\ build[q].since \in Nat
      /\ epoch \in [Servers -> Nat] /\ access \in [Servers -> {"idle", "building", "ready", "failed"}]
      /\ lookup \in [Servers -> BOOLEAN]
  BY IndexAssumption DEF Types, Build, Memo
<1>z. /\ NoBuild.pc = None /\ NoBuild.fp = 0 /\ NoBuild.since = 1 /\ NoBuild.epoch = 0
      /\ NoMemo.fp = 0
  BY DEF NoBuild, NoMemo, Poisoned
<1> SUFFICES ASSUME NEW q \in Servers PROVE CourseIn(q)'
  BY DEF Course
<1> USE DEF None, Poisoned
<1>1. ASSUME NEW c \in Contents, EditElsewhere(c)
      PROVE  CourseIn(q)'
  BY <1>1, <1>0, <1>z, TextGrows
     DEF EditElsewhere, Becomes, Course, CourseIn, At, source, disk, ghosts
<1>2. ASSUME NEW p \in up, NEW c \in Contents, EditHere(p, c)
      PROVE  CourseIn(q)'
  <2>1. Remembers(p, Poisoned, memo[p].on, FALSE, memo[p].persisted)
    BY <1>2, <1>0, MemoMoves DEF EditHere
  <2>2. epoch'[q] >= epoch[q] /\ epoch'[q] \in Nat
    BY <1>2, <1>0 DEF EditHere, Invalidate
  <2>3. stat' >= stat /\ stat' \in Nat /\ Len(texts') = Len(texts) + 1
    BY <1>2, <1>0, TextGrows DEF EditHere
  <2>4. build' = build /\ access' = access /\ lookup' = lookup /\ up' = up
    BY <1>2 DEF EditHere
  <2>5. memo'[q].fp <= stat'
    BY <1>0, <2>1, <2>3 DEF Remembers, Course, CourseIn
  <2>6. q \notin up => memo'[q] = memo[q]
    BY <2>1 DEF Remembers
  <2>7. CourseIn(q)
    BY DEF Course
  <2> QED
    BY <1>0, <2>2, <2>3, <2>4, <2>5, <2>6, <2>7 DEF CourseIn, At
<1>3. ASSUME NEW p \in up, Lookup(p)
      PROVE  CourseIn(q)'
  <2>1. CASE StartBuild(p)
    <3>1. Begun(p)
      BY <1>3, <1>0, <2>1, Ends DEF StartBuild
    <3> QED
      BY <1>3, <1>0, <2>1, <3>1 DEF Lookup, StartBuild, Begun, Course, CourseIn, At, source
  <2>2. CASE access[p] = "building" /\ UNCHANGED <<access, build>>
    BY <1>3, <1>0, <2>2 DEF Lookup, Course, CourseIn, At, source
  <2>3. CASE access[p] = "ready" /\ Go(p, Started(p)) /\ UNCHANGED access
    <3>1. Begun(p)
      BY <1>3, <1>0, <2>3, Ends
    <3> QED
      BY <1>3, <1>0, <2>3, <3>1 DEF Lookup, Begun, Course, CourseIn, At, source
  <2> QED
    BY <1>3, <2>1, <2>2, <2>3 DEF Lookup
<1>4. ASSUME NEW p \in up, Prewarm(p)
      PROVE  CourseIn(q)'
  <2>1. Begun(p)
    BY <1>4, <1>0, Ends DEF Prewarm, StartBuild
  <2> QED
    BY <1>4, <1>0, <1>z, <2>1
       DEF Prewarm, StartBuild, Begun, Course, CourseIn, At, source, disk, ghosts
<1>5. ASSUME NEW p \in up, GiveUp(p)
      PROVE  CourseIn(q)'
  BY <1>5, <1>0, <1>z DEF GiveUp, Course, CourseIn, At, source, disk, ghosts
<1>6. ASSUME NEW p \in up, Kill(p)
      PROVE  CourseIn(q)'
  <2>1. Over(p)
    BY <1>6, <1>0, Ends DEF Kill
  <2> QED
    BY <1>6, <1>0, <1>z, <2>1, Constants
       DEF Kill, Over, Course, CourseIn, At, source, disk, ghosts
<1>7. ASSUME NEW p \in up, Enumerate(p)
      PROVE  CourseIn(q)'
  <2>1. Looked(p)
    BY <1>7, <1>0, Moves
  <2> QED
    BY <1>7, <1>0, <1>z, <2>1
       DEF Enumerate, Now, Looked, Fields, Course, CourseIn, At, source, disk, ghosts
<1>8. ASSUME NEW p \in up, BuildFails(p)
      PROVE  CourseIn(q)'
  <2>1. Over(p)
    BY <1>8, <1>0, Ends DEF BuildFails, Settled
  <2> QED
    BY <1>8, <1>0, <1>z, <2>1
       DEF BuildFails, Settled, Over, Course, CourseIn, At, source, disk, ghosts
<1>9. ASSUME NEW p \in up, ReturnMemo(p)
      PROVE  CourseIn(q)'
  <2>1. Over(p)
    BY <1>9, <1>0, Ends DEF ReturnMemo, Settled
  <2> QED
    BY <1>9, <1>0, <1>z, <2>1
       DEF ReturnMemo, Settled, Over, Course, CourseIn, At, source, disk, ghosts
<1>10. ASSUME NEW p \in up, Seed(p)
      PROVE  CourseIn(q)'
  <2>1. \E s, w, c : Now(p, "read", build[p].fp, s, w, c, build[p].on, build[p].pending)
    BY <1>10, <1>0, Moves DEF Seeded
  <2>2. At(p, "seed") /\ UNCHANGED <<source, up, memo, epoch, access, lookup>>
    BY <1>10 DEF Seed
  <2> QED
    BY <1>0, <2>1, <2>2 DEF Now, Fields, Course, CourseIn, At, source
<1>11. ASSUME NEW p \in up, Read(p)
      PROVE  CourseIn(q)'
  <2>1. Gathered(p)
    BY <1>11, <1>0, Moves
  <2> QED
    BY <1>11, <1>0, <1>z, <2>1
       DEF Read, Now, Gathered, Fields, Course, CourseIn, At, source, disk, ghosts
<1>12. ASSUME NEW p \in up, Manifest(p)
      PROVE  CourseIn(q)'
  <2>1. Publishes(p, "journal", build[p].on.content, build[p].pending)
    BY <1>12, <1>0, Moves
  <2> QED
    BY <1>12, <1>0, <1>z, <2>1
       DEF Manifest, Now, Publishes, Fields, Course, CourseIn, At, source, disk, ghosts
<1>13. ASSUME NEW p \in up, ManifestFails(p)
      PROVE  CourseIn(q)'
  <2>1. Publishes(p, "probe", build[p].persisted, build[p].pending)
    BY <1>13, <1>0, Moves
  <2> QED
    BY <1>13, <1>0, <1>z, <2>1
       DEF ManifestFails, Now, Publishes, Fields, Course, CourseIn, At, source, disk,
           ghosts
<1>14. ASSUME NEW p \in up, Journal(p)
      PROVE  CourseIn(q)'
  <2>1. Publishes(p, "probe", build[p].persisted, build[p].pending)
    BY <1>14, <1>0, Moves
  <2> QED
    BY <1>14, <1>0, <1>z, <2>1
       DEF Journal, Now, Publishes, Fields, Course, CourseIn, At, source, disk, ghosts
<1>15. ASSUME NEW p \in up, JournalFails(p)
      PROVE  CourseIn(q)'
  <2>1. Publishes(p, "probe", build[p].persisted, build[p].pending)
    BY <1>15, <1>0, Moves
  <2> QED
    BY <1>15, <1>0, <1>z, <2>1
       DEF JournalFails, Now, Publishes, Fields, Course, CourseIn, At, source, disk,
           ghosts
<1>16. ASSUME NEW p \in up, ProbeJournal(p)
      PROVE  CourseIn(q)'
  <2>1. Publishes(p, "graph", build[p].persisted, journal)
    BY <1>16, <1>0, Moves
  <2> QED
    BY <1>16, <1>0, <1>z, <2>1
       DEF ProbeJournal, Now, Publishes, Fields, Course, CourseIn, At, source, disk,
           ghosts
<1>17. ASSUME NEW p \in up, Graph(p)
      PROVE  CourseIn(q)'
  <2>1. Publishes(p, "clear", build[p].persisted, FALSE)
    BY <1>17, <1>0, Moves
  <2> QED
    BY <1>17, <1>0, <1>z, <2>1
       DEF Graph, Fresh, Now, Publishes, Fields, Course, CourseIn, At, source, disk,
           ghosts
<1>18. ASSUME NEW p \in up, GraphFails(p)
      PROVE  CourseIn(q)'
  <2>1. Publishes(p, "memo", build[p].persisted, FALSE)
    BY <1>18, <1>0, Moves
  <2> QED
    BY <1>18, <1>0, <1>z, <2>1
       DEF GraphFails, Now, Publishes, Fields, Course, CourseIn, At, source, disk,
           ghosts
<1>19. ASSUME NEW p \in up, ClearJournal(p)
      PROVE  CourseIn(q)'
  <2>1. Publishes(p, "memo", build[p].persisted, build[p].pending)
    BY <1>19, <1>0, Moves
  <2> QED
    BY <1>19, <1>0, <1>z, <2>1
       DEF ClearJournal, Now, Publishes, Fields, Course, CourseIn, At, source, disk,
           ghosts
<1>20. ASSUME NEW p \in up, ReturnBuild(p)
      PROVE  CourseIn(q)'
  <2>1. Over(p)
    BY <1>20, <1>0, Ends DEF ReturnBuild, Settled
  <2> QED
    BY <1>20, <1>0, <1>z, <2>1, MemoMoves
       DEF ReturnBuild, Settled, Over, Remembers, Course, CourseIn, At, source, disk,
           ghosts
<1>21. CASE UNCHANGED vars
  BY <1>21, <1>0, <1>z DEF vars, Course, CourseIn, At, source, disk, ghosts
<1> QED
  BY <1>1, <1>2, <1>3, <1>4, <1>5, <1>6, <1>7, <1>8, <1>9, <1>10, <1>11, <1>12, <1>13,
     <1>14, <1>15, <1>16, <1>17, <1>18, <1>19, <1>20, <1>21
     DEF Next, Builds

\* An edit that leaves no fingerprint fitting and no build of this epoch leaves
\* memo and build as fresh as they were.
LEMMA EditsLeaveFresh ==
  ASSUME Types, NEW q \in Servers, FreshIn(q), build' = build, memo'[q].on = memo[q].on,
         memo'[q].fp # stat', build[q].epoch # epoch'[q] \/ build[q].fp # stat',
         At(q, "seed") /\ memo'[q].fp = build[q].fp => memo[q].fp = build[q].fp,
         build[q].since \in 1 .. Len(texts), NEW c \in Contents, Becomes(c)
  PROVE  FreshIn(q)'
<1>1. \A n \in 1 .. Len(texts) : \A d : Had(n, d) => \E v \in n .. Len(texts') : texts'[v] = d
  BY TextGrows DEF Had
<1>2. (At(q, "seed") /\ memo[q].on # Absent /\ memo[q].fp = build[q].fp)' =>
         \E v \in build[q].since .. Len(texts') : texts'[v] = memo[q].on.content
  BY <1>1 DEF FreshIn, At
<1>3. (build[q].pc \in Built)' =>
         \E v \in build[q].since .. Len(texts') : texts'[v] = build[q].on.content
  BY <1>1 DEF FreshIn
<1> QED
  BY <1>2, <1>3 DEF FreshIn, Had

\* Every step keeps what fingerprints vouch for: an edit of the server poisons
\* its memo and overtakes its build, any other moves the stats.
LEMMA StepFresh ==
  ASSUME Types, Course, NEW q \in Servers, FreshIn(q), [Next]_vars
  PROVE  FreshIn(q)'
<1>0. /\ up \subseteq Servers /\ stat \in Nat \ {0} /\ Len(texts) \in Nat \ {0}
      /\ memo[q].fp \in Nat /\ memo[q].fp <= stat /\ build[q].fp \in Nat /\ build[q].fp <= stat
      /\ epoch[q] \in Nat /\ build[q].epoch \in Nat /\ build[q].epoch <= epoch[q]
      /\ build[q].since \in 1 .. Len(texts)
      /\ At(q, "seed") => build[q].fp > 0
  BY IndexAssumption DEF Types, Build, Memo, Course, CourseIn
<1>z. NoBuild.pc = None /\ NoMemo.on = Absent
  BY DEF NoBuild, NoMemo
<1> USE DEF Built, None, Poisoned
<1>1. ASSUME NEW c \in Contents, EditElsewhere(c)
      PROVE  FreshIn(q)'
  <2>1. build' = build /\ memo' = memo /\ stat' = stat + 1
    BY <1>1 DEF EditElsewhere
  <2> QED
    BY <1>1, <1>0, <2>1, EditsLeaveFresh DEF EditElsewhere, At
<1>2. ASSUME NEW p \in up, NEW c \in Contents, EditHere(p, c)
      PROVE  FreshIn(q)'
  <2>1. Remembers(p, Poisoned, memo[p].on, FALSE, memo[p].persisted)
    BY <1>2, <1>0, MemoMoves DEF EditHere
  <2>2. build' = build
    BY <1>2 DEF EditHere
  <2>4. CASE q = p
    <3>1. memo'[q].fp = Poisoned /\ epoch'[q] = epoch[q] + 1 /\ stat' > 0
      BY <1>2, <1>0, <2>1, <2>4 DEF EditHere, Invalidate, Remembers, Types
    <3> QED
      BY <1>2, <1>0, <2>1, <2>2, <3>1, EditsLeaveFresh DEF EditHere, Remembers, At
  <2>5. CASE q # p
    <3>1. memo'[q] = memo[q]
      BY <2>1, <2>5 DEF Remembers
    <3>2. CASE stat' = stat + 1
      BY <1>2, <1>0, <2>2, <3>1, <3>2, EditsLeaveFresh DEF EditHere, At
    <3>3. CASE q \notin up
      <4>1. memo[q] = NoMemo /\ build[q] = NoBuild
        BY <3>3 DEF Course, CourseIn
      <4> QED
        BY <1>z, <2>2, <3>1, <4>1 DEF FreshIn, At
    <3> QED
      BY <1>2, <2>5, <3>2, <3>3 DEF EditHere
  <2> QED
    BY <2>4, <2>5
<1>3. ASSUME NEW p \in up, Lookup(p)
      PROVE  FreshIn(q)'
  <2>1. Begun(p) \/ build' = build
    BY <1>3, <1>0, Ends DEF Lookup, StartBuild
  <2> QED
    BY <1>3, <1>0, <1>z, <2>1
       DEF Lookup, StartBuild, Begun, FreshIn, Had, At, Text, source, disk, ghosts
<1>4. ASSUME NEW p \in up, Prewarm(p)
      PROVE  FreshIn(q)'
  <2>1. Begun(p)
    BY <1>4, <1>0, Ends DEF Prewarm, StartBuild
  <2> QED
    BY <1>4, <1>0, <1>z, <2>1
       DEF Prewarm, StartBuild, Begun, FreshIn, Had, At, Text, source, disk, ghosts
<1>5. ASSUME NEW p \in up, GiveUp(p)
      PROVE  FreshIn(q)'
  BY <1>5, <1>0, <1>z DEF GiveUp, FreshIn, Had, At, Text, source, disk, ghosts
<1>6. ASSUME NEW p \in up, Kill(p)
      PROVE  FreshIn(q)'
  <2>1. Over(p)
    BY <1>6, <1>0, Ends DEF Kill
  <2> QED
    BY <1>6, <1>0, <1>z, <2>1, Constants
       DEF Kill, Over, FreshIn, Had, At, Text, source, disk, ghosts
<1>7. ASSUME NEW p \in up, Enumerate(p)
      PROVE  FreshIn(q)'
  <2>1. Looked(p)
    BY <1>7, <1>0, Moves
  <2> QED
    BY <1>7, <1>0, <1>z, <2>1
       DEF Enumerate, Now, Looked, Fields, FreshIn, Had, At, Text, source, disk, ghosts
<1>8. ASSUME NEW p \in up, BuildFails(p)
      PROVE  FreshIn(q)'
  <2>1. Over(p)
    BY <1>8, <1>0, Ends DEF BuildFails, Settled
  <2> QED
    BY <1>8, <1>0, <1>z, <2>1
       DEF BuildFails, Settled, Over, FreshIn, Had, At, Text, source, disk, ghosts
<1>9. ASSUME NEW p \in up, ReturnMemo(p)
      PROVE  FreshIn(q)'
  <2>1. Over(p)
    BY <1>9, <1>0, Ends DEF ReturnMemo, Settled
  <2> QED
    BY <1>9, <1>0, <1>z, <2>1
       DEF ReturnMemo, Settled, Over, FreshIn, Had, At, Text, source, disk, ghosts
<1>10. ASSUME NEW p \in up, Seed(p)
      PROVE  FreshIn(q)'
  <2>1. Seeded(p)
    BY <1>10, <1>0, Moves
  <2> QED
    BY <1>10, <1>0, <1>z, <2>1
       DEF Seed, Now, Seeded, Fields, FreshIn, Had, At, Text, source, disk, ghosts
<1>11. ASSUME NEW p \in up, Read(p)
      PROVE  FreshIn(q)'
  <2>1. PICK pc \in {"probe", "manifest"}, n \in Nat \ {0} :
          Now(p, pc, build[p].fp, Absent, FALSE, build[p].persisted, Of(Text, n), build[p].pending)
    BY <1>11, <1>0, Moves DEF Gathered
  <2>2. CASE q = p
    <3>1. build'[q].on.content = Text /\ build'[q].since = build[q].since /\ build'[q].pc # "seed"
      BY <2>1, <2>2 DEF Now, Fields, Of
    <3>2. texts' = texts /\ memo' = memo /\ stat' = stat
      BY <1>11 DEF Read, source
    <3> QED
      BY <1>0, <3>1, <3>2 DEF FreshIn, Had, At, Text
  <2>3. CASE q # p
    BY <1>11, <2>1, <2>3 DEF Read, Now, FreshIn, Had, At, Text, source
  <2> QED
    BY <2>2, <2>3
<1>12. ASSUME NEW p \in up, Manifest(p)
      PROVE  FreshIn(q)'
  <2>1. Publishes(p, "journal", build[p].on.content, build[p].pending)
    BY <1>12, <1>0, Moves
  <2> QED
    BY <1>12, <1>0, <1>z, <2>1
       DEF Manifest, Now, Publishes, Fields, FreshIn, Had, At, Text, source, disk,
           ghosts
<1>13. ASSUME NEW p \in up, ManifestFails(p)
      PROVE  FreshIn(q)'
  <2>1. Publishes(p, "probe", build[p].persisted, build[p].pending)
    BY <1>13, <1>0, Moves
  <2> QED
    BY <1>13, <1>0, <1>z, <2>1
       DEF ManifestFails, Now, Publishes, Fields, FreshIn, Had, At, Text, source, disk,
           ghosts
<1>14. ASSUME NEW p \in up, Journal(p)
      PROVE  FreshIn(q)'
  <2>1. Publishes(p, "probe", build[p].persisted, build[p].pending)
    BY <1>14, <1>0, Moves
  <2> QED
    BY <1>14, <1>0, <1>z, <2>1
       DEF Journal, Now, Publishes, Fields, FreshIn, Had, At, Text, source, disk, ghosts
<1>15. ASSUME NEW p \in up, JournalFails(p)
      PROVE  FreshIn(q)'
  <2>1. Publishes(p, "probe", build[p].persisted, build[p].pending)
    BY <1>15, <1>0, Moves
  <2> QED
    BY <1>15, <1>0, <1>z, <2>1
       DEF JournalFails, Now, Publishes, Fields, FreshIn, Had, At, Text, source, disk,
           ghosts
<1>16. ASSUME NEW p \in up, ProbeJournal(p)
      PROVE  FreshIn(q)'
  <2>1. Publishes(p, "graph", build[p].persisted, journal)
    BY <1>16, <1>0, Moves
  <2> QED
    BY <1>16, <1>0, <1>z, <2>1
       DEF ProbeJournal, Now, Publishes, Fields, FreshIn, Had, At, Text, source, disk,
           ghosts
<1>17. ASSUME NEW p \in up, Graph(p)
      PROVE  FreshIn(q)'
  <2>1. Publishes(p, "clear", build[p].persisted, FALSE)
    BY <1>17, <1>0, Moves
  <2> QED
    BY <1>17, <1>0, <1>z, <2>1
       DEF Graph, Fresh, Now, Publishes, Fields, FreshIn, Had, At, Text, source, disk,
           ghosts
<1>18. ASSUME NEW p \in up, GraphFails(p)
      PROVE  FreshIn(q)'
  <2>1. Publishes(p, "memo", build[p].persisted, FALSE)
    BY <1>18, <1>0, Moves
  <2> QED
    BY <1>18, <1>0, <1>z, <2>1
       DEF GraphFails, Now, Publishes, Fields, FreshIn, Had, At, Text, source, disk,
           ghosts
<1>19. ASSUME NEW p \in up, ClearJournal(p)
      PROVE  FreshIn(q)'
  <2>1. Publishes(p, "memo", build[p].persisted, build[p].pending)
    BY <1>19, <1>0, Moves
  <2> QED
    BY <1>19, <1>0, <1>z, <2>1
       DEF ClearJournal, Now, Publishes, Fields, FreshIn, Had, At, Text, source, disk,
           ghosts
<1>20. ASSUME NEW p \in up, ReturnBuild(p)
      PROVE  FreshIn(q)'
  <2>1. Over(p)
    BY <1>20, <1>0, Ends DEF ReturnBuild, Settled
  <2> QED
    BY <1>20, <1>0, <1>z, <2>1, MemoMoves
       DEF ReturnBuild, Settled, Over, Remembers, FreshIn, Had, At, Text, source, disk,
           ghosts
<1>21. CASE UNCHANGED vars
  BY <1>21, <1>0, <1>z DEF vars, FreshIn, Had, At, Text, source, disk, ghosts
<1> QED
  BY <1>1, <1>2, <1>3, <1>4, <1>5, <1>6, <1>7, <1>8, <1>9, <1>10, <1>11, <1>12, <1>13,
     <1>14, <1>15, <1>16, <1>17, <1>18, <1>19, <1>20, <1>21
     DEF Next, Builds

\* Every step keeps the graph on disk that of the memo or of the build that
\* published it, or the server knows that it left it behind.
LEMMA StepGraph ==
  ASSUME Types, Course, NEW q \in Servers, GraphIn(q), [Next]_vars
  PROVE  GraphIn(q)'
<1>0. /\ up \subseteq Servers
      /\ epoch[q] \in Nat /\ build[q].epoch \in Nat /\ build[q].epoch <= epoch[q]
      /\ q \notin up => memo[q] = NoMemo /\ build[q] = NoBuild
      /\ epoch \in [Servers -> Nat] /\ memo \in [Servers -> Memo]
      /\ access[q] \in {"idle", "failed"} \/ (access[q] = "ready" /\ ~lookup[q]) => At(q, None)
  BY IndexAssumption DEF Types, Build, Memo, Course, CourseIn
<1>z. NoBuild.pc = None /\ NoMemo.fp = Poisoned /\ NoMemo.whole = FALSE
  BY DEF NoBuild, NoMemo
<1> USE DEF Built, Early, None, Poisoned, LeftBehind
<1>1. ASSUME NEW c \in Contents, EditElsewhere(c)
      PROVE  GraphIn(q)'
  BY <1>1, <1>0, <1>z, TextGrows
     DEF EditElsewhere, Becomes, GraphIn, At, source, disk, ghosts
<1>2. ASSUME NEW p \in up, NEW c \in Contents, EditHere(p, c)
      PROVE  GraphIn(q)'
  BY <1>2, <1>0, <1>z, TextGrows, MemoMoves
     DEF EditHere, Becomes, Invalidate, Remembers, GraphIn, At, source, disk, ghosts
<1>3. ASSUME NEW p \in up, Lookup(p)
      PROVE  GraphIn(q)'
  <2>1. Begun(p) \/ build' = build
    BY <1>3, <1>0, Ends DEF Lookup, StartBuild
  <2> QED
    BY <1>3, <1>0, <1>z, <2>1
       DEF Lookup, StartBuild, Begun, GraphIn, At, source, disk, ghosts
<1>4. ASSUME NEW p \in up, Prewarm(p)
      PROVE  GraphIn(q)'
  <2>1. Begun(p)
    BY <1>4, <1>0, Ends DEF Prewarm, StartBuild
  <2> QED
    BY <1>4, <1>0, <1>z, <2>1
       DEF Prewarm, StartBuild, Begun, GraphIn, At, source, disk, ghosts
<1>5. ASSUME NEW p \in up, GiveUp(p)
      PROVE  GraphIn(q)'
  BY <1>5, <1>0, <1>z DEF GiveUp, GraphIn, At, source, disk, ghosts
<1>6. ASSUME NEW p \in up, Kill(p)
      PROVE  GraphIn(q)'
  <2>1. Over(p)
    BY <1>6, <1>0, Ends DEF Kill
  <2> QED
    BY <1>6, <1>0, <1>z, <2>1, Constants DEF Kill, Over, GraphIn, At, source, disk, ghosts
<1>7. ASSUME NEW p \in up, Enumerate(p)
      PROVE  GraphIn(q)'
  <2>1. Looked(p)
    BY <1>7, <1>0, Moves
  <2> QED
    BY <1>7, <1>0, <1>z, <2>1
       DEF Enumerate, Now, Looked, Fields, GraphIn, At, source, disk, ghosts
<1>8. ASSUME NEW p \in up, BuildFails(p)
      PROVE  GraphIn(q)'
  <2>1. Over(p)
    BY <1>8, <1>0, Ends DEF BuildFails, Settled
  <2> QED
    BY <1>8, <1>0, <1>z, <2>1
       DEF BuildFails, Settled, Over, GraphIn, At, source, disk, ghosts
<1>9. ASSUME NEW p \in up, ReturnMemo(p)
      PROVE  GraphIn(q)'
  <2>1. Over(p)
    BY <1>9, <1>0, Ends DEF ReturnMemo, Settled
  <2> QED
    BY <1>9, <1>0, <1>z, <2>1
       DEF ReturnMemo, Settled, Over, GraphIn, At, source, disk, ghosts
<1>10. ASSUME NEW p \in up, Seed(p)
      PROVE  GraphIn(q)'
  <2>1. Seeded(p)
    BY <1>10, <1>0, Moves
  <2> QED
    BY <1>10, <1>0, <1>z, <2>1
       DEF Seed, Now, Seeded, Fields, GraphIn, At, source, disk, ghosts
<1>11. ASSUME NEW p \in up, Read(p)
      PROVE  GraphIn(q)'
  <2>1. Gathered(p)
    BY <1>11, <1>0, Moves
  <2> QED
    BY <1>11, <1>0, <1>z, <2>1
       DEF Read, Now, Gathered, Fields, GraphIn, At, source, disk, ghosts
<1>12. ASSUME NEW p \in up, Manifest(p)
      PROVE  GraphIn(q)'
  <2>1. Publishes(p, "journal", build[p].on.content, build[p].pending)
    BY <1>12, <1>0, Moves
  <2> QED
    BY <1>12, <1>0, <1>z, <2>1
       DEF Manifest, Now, Publishes, Fields, GraphIn, At, source, disk, ghosts
<1>13. ASSUME NEW p \in up, ManifestFails(p)
      PROVE  GraphIn(q)'
  <2>1. Publishes(p, "probe", build[p].persisted, build[p].pending)
    BY <1>13, <1>0, Moves
  <2> QED
    BY <1>13, <1>0, <1>z, <2>1
       DEF ManifestFails, Now, Publishes, Fields, GraphIn, At, source, disk, ghosts
<1>14. ASSUME NEW p \in up, Journal(p)
      PROVE  GraphIn(q)'
  <2>1. Publishes(p, "probe", build[p].persisted, build[p].pending)
    BY <1>14, <1>0, Moves
  <2> QED
    BY <1>14, <1>0, <1>z, <2>1
       DEF Journal, Now, Publishes, Fields, GraphIn, At, source, disk, ghosts
<1>15. ASSUME NEW p \in up, JournalFails(p)
      PROVE  GraphIn(q)'
  <2>1. Publishes(p, "probe", build[p].persisted, build[p].pending)
    BY <1>15, <1>0, Moves
  <2> QED
    BY <1>15, <1>0, <1>z, <2>1
       DEF JournalFails, Now, Publishes, Fields, GraphIn, At, source, disk, ghosts
<1>16. ASSUME NEW p \in up, ProbeJournal(p)
      PROVE  GraphIn(q)'
  <2>1. Publishes(p, "graph", build[p].persisted, journal)
    BY <1>16, <1>0, Moves
  <2> QED
    BY <1>16, <1>0, <1>z, <2>1
       DEF ProbeJournal, Now, Publishes, Fields, GraphIn, At, source, disk, ghosts
<1>17. ASSUME NEW p \in up, Graph(p)
      PROVE  GraphIn(q)'
  <2>1. Publishes(p, "clear", build[p].persisted, FALSE)
    BY <1>17, <1>0, Moves
  <2> QED
    BY <1>17, <1>0, <1>z, <2>1
       DEF Graph, Fresh, Now, Publishes, Fields, GraphIn, At, source, disk, ghosts
<1>18. ASSUME NEW p \in up, GraphFails(p)
      PROVE  GraphIn(q)'
  <2>1. Publishes(p, "memo", build[p].persisted, FALSE)
    BY <1>18, <1>0, Moves
  <2> QED
    BY <1>18, <1>0, <1>z, <2>1
       DEF GraphFails, Now, Publishes, Fields, GraphIn, At, source, disk, ghosts
<1>19. ASSUME NEW p \in up, ClearJournal(p)
      PROVE  GraphIn(q)'
  <2>1. Publishes(p, "memo", build[p].persisted, build[p].pending)
    BY <1>19, <1>0, Moves
  <2> QED
    BY <1>19, <1>0, <1>z, <2>1
       DEF ClearJournal, Now, Publishes, Fields, GraphIn, At, source, disk, ghosts
<1>20. ASSUME NEW p \in up, ReturnBuild(p)
      PROVE  GraphIn(q)'
  <2>1. Over(p)
    BY <1>20, <1>0, Ends DEF ReturnBuild, Settled
  <2> QED
    BY <1>20, <1>0, <1>z, <2>1, MemoMoves
       DEF ReturnBuild, Settled, Over, Remembers, GraphIn, At, source, disk, ghosts
<1>21. CASE UNCHANGED vars
  BY <1>21, <1>0, <1>z DEF vars, GraphIn, At, source, disk, ghosts
<1> QED
  BY <1>1, <1>2, <1>3, <1>4, <1>5, <1>6, <1>7, <1>8, <1>9, <1>10, <1>11, <1>12, <1>13,
     <1>14, <1>15, <1>16, <1>17, <1>18, <1>19, <1>20, <1>21
     DEF Next, Builds

\* The same of the manifest and of the journal, for a server on its own.
LEMMA StepManifest ==
  ASSUME Types, Course, NEW q \in Servers, up = {q}, GraphIn(q), ManifestIn(q), [Next]_vars
  PROVE  ManifestIn(q)'
<1>0. /\ up \subseteq Servers /\ memo \in [Servers -> Memo]
      /\ access[q] \in {"idle", "failed"} \/ (access[q] = "ready" /\ ~lookup[q]) => At(q, None)
      /\ build[q].whole \in BOOLEAN /\ memo[q].whole \in BOOLEAN
  BY IndexAssumption DEF Types, Build, Memo, Course, CourseIn
<1>z. NoBuild.pc = None /\ NoMemo.fp = Poisoned /\ NoMemo.whole = FALSE
  BY DEF NoBuild, NoMemo
<1> USE DEF Built, Early, None, Poisoned, Unsaved
<1>1. ASSUME NEW c \in Contents, EditElsewhere(c)
      PROVE  ManifestIn(q)'
  BY <1>1, <1>0, <1>z, TextGrows
     DEF EditElsewhere, Becomes, ManifestIn, At, source, disk, ghosts
<1>2. ASSUME NEW p \in up, NEW c \in Contents, EditHere(p, c)
      PROVE  ManifestIn(q)'
  BY <1>2, <1>0, <1>z, TextGrows, MemoMoves
     DEF EditHere, Becomes, Invalidate, Remembers, ManifestIn, At, source, disk, ghosts
<1>3. ASSUME NEW p \in up, Lookup(p)
      PROVE  ManifestIn(q)'
  <2>1. Begun(p) \/ build' = build
    BY <1>3, <1>0, Ends DEF Lookup, StartBuild
  <2> QED
    BY <1>3, <1>0, <1>z, <2>1
       DEF Lookup, StartBuild, Begun, ManifestIn, At, source, disk, ghosts
<1>4. ASSUME NEW p \in up, Prewarm(p)
      PROVE  ManifestIn(q)'
  <2>1. Begun(p)
    BY <1>4, <1>0, Ends DEF Prewarm, StartBuild
  <2> QED
    BY <1>4, <1>0, <1>z, <2>1
       DEF Prewarm, StartBuild, Begun, ManifestIn, At, source, disk, ghosts
<1>5. ASSUME NEW p \in up, GiveUp(p)
      PROVE  ManifestIn(q)'
  BY <1>5, <1>0, <1>z DEF GiveUp, ManifestIn, At, source, disk, ghosts
<1>6. ASSUME NEW p \in up, Kill(p)
      PROVE  ManifestIn(q)'
  <2>1. Over(p)
    BY <1>6, <1>0, Ends DEF Kill
  <2> QED
    BY <1>6, <1>0, <1>z, <2>1, Constants
       DEF Kill, Over, ManifestIn, At, source, disk, ghosts
<1>7. ASSUME NEW p \in up, Enumerate(p)
      PROVE  ManifestIn(q)'
  <2>1. Looked(p)
    BY <1>7, <1>0, Moves
  <2> QED
    BY <1>7, <1>0, <1>z, <2>1
       DEF Enumerate, Now, Looked, Fields, ManifestIn, At, source, disk, ghosts
<1>8. ASSUME NEW p \in up, BuildFails(p)
      PROVE  ManifestIn(q)'
  <2>1. Over(p)
    BY <1>8, <1>0, Ends DEF BuildFails, Settled
  <2> QED
    BY <1>8, <1>0, <1>z, <2>1
       DEF BuildFails, Settled, Over, ManifestIn, At, source, disk, ghosts
<1>9. ASSUME NEW p \in up, ReturnMemo(p)
      PROVE  ManifestIn(q)'
  <2>1. Over(p)
    BY <1>9, <1>0, Ends DEF ReturnMemo, Settled
  <2> QED
    BY <1>9, <1>0, <1>z, <2>1
       DEF ReturnMemo, Settled, Over, ManifestIn, At, source, disk, ghosts
<1>10. ASSUME NEW p \in up, Seed(p)
      PROVE  ManifestIn(q)'
  <2>1. Seeded(p)
    BY <1>10, <1>0, Moves
  <2> QED
    BY <1>10, <1>0, <1>z, <2>1
       DEF Seed, Now, Seeded, Fields, ManifestIn, At, source, disk, ghosts
<1>11. ASSUME NEW p \in up, Read(p)
      PROVE  ManifestIn(q)'
  <2>1. Gathered(p)
    BY <1>11, <1>0, Moves
  <2> QED
    BY <1>11, <1>0, <1>z, <2>1
       DEF Read, DiskCacheCurrent, Of, Now, Gathered, Fields, ManifestIn, At, source,
           disk, ghosts
<1>12. ASSUME NEW p \in up, Manifest(p)
      PROVE  ManifestIn(q)'
  <2>1. Publishes(p, "journal", build[p].on.content, build[p].pending)
    BY <1>12, <1>0, Moves
  <2> QED
    BY <1>12, <1>0, <1>z, <2>1
       DEF Manifest, Now, Publishes, Fields, ManifestIn, At, source, disk, ghosts
<1>13. ASSUME NEW p \in up, ManifestFails(p)
      PROVE  ManifestIn(q)'
  <2>1. Publishes(p, "probe", build[p].persisted, build[p].pending)
    BY <1>13, <1>0, Moves
  <2> QED
    BY <1>13, <1>0, <1>z, <2>1
       DEF ManifestFails, Now, Publishes, Fields, ManifestIn, At, source, disk, ghosts
<1>14. ASSUME NEW p \in up, Journal(p)
      PROVE  ManifestIn(q)'
  <2>1. Publishes(p, "probe", build[p].persisted, build[p].pending)
    BY <1>14, <1>0, Moves
  <2> QED
    BY <1>14, <1>0, <1>z, <2>1
       DEF Journal, Now, Publishes, Fields, ManifestIn, At, source, disk, ghosts
<1>15. ASSUME NEW p \in up, JournalFails(p)
      PROVE  ManifestIn(q)'
  <2>1. Publishes(p, "probe", build[p].persisted, build[p].pending)
    BY <1>15, <1>0, Moves
  <2> QED
    BY <1>15, <1>0, <1>z, <2>1
       DEF JournalFails, Now, Publishes, Fields, ManifestIn, At, source, disk, ghosts
<1>16. ASSUME NEW p \in up, ProbeJournal(p)
      PROVE  ManifestIn(q)'
  <2>1. Publishes(p, "graph", build[p].persisted, journal)
    BY <1>16, <1>0, Moves
  <2> QED
    BY <1>16, <1>0, <1>z, <2>1
       DEF ProbeJournal, Now, Publishes, Fields, ManifestIn, At, source, disk, ghosts
<1>17. ASSUME NEW p \in up, Graph(p)
      PROVE  ManifestIn(q)'
  <2>1. Publishes(p, "clear", build[p].persisted, FALSE)
    BY <1>17, <1>0, Moves
  <2> QED
    BY <1>17, <1>0, <1>z, <2>1
       DEF Graph, Fresh, Now, Publishes, Fields, ManifestIn, At, source, disk, ghosts
<1>18. ASSUME NEW p \in up, GraphFails(p)
      PROVE  ManifestIn(q)'
  <2>1. Publishes(p, "memo", build[p].persisted, FALSE)
    BY <1>18, <1>0, Moves
  <2> QED
    BY <1>18, <1>0, <1>z, <2>1
       DEF GraphFails, Now, Publishes, Fields, ManifestIn, At, source, disk, ghosts
<1>19. ASSUME NEW p \in up, ClearJournal(p)
      PROVE  ManifestIn(q)'
  <2>1. Publishes(p, "memo", build[p].persisted, build[p].pending)
    BY <1>19, <1>0, Moves
  <2> QED
    BY <1>19, <1>0, <1>z, <2>1
       DEF ClearJournal, Now, Publishes, Fields, ManifestIn, At, source, disk, ghosts
<1>20. ASSUME NEW p \in up, ReturnBuild(p)
      PROVE  ManifestIn(q)'
  <2>1. Over(p)
    BY <1>20, <1>0, Ends DEF ReturnBuild, Settled
  <2> QED
    BY <1>20, <1>0, <1>z, <2>1, MemoMoves
       DEF ReturnBuild, Settled, GraphIn, Over, Remembers, ManifestIn, At, source, disk,
           ghosts
<1>21. CASE UNCHANGED vars
  BY <1>21, <1>0, <1>z DEF vars, ManifestIn, At, source, disk, ghosts
<1> QED
  BY <1>1, <1>2, <1>3, <1>4, <1>5, <1>6, <1>7, <1>8, <1>9, <1>10, <1>11, <1>12, <1>13,
     <1>14, <1>15, <1>16, <1>17, <1>18, <1>19, <1>20, <1>21
     DEF Next, Builds

\* The servers on the workspace stay the same.
LEMMA StepUp == Next \/ UNCHANGED vars => up' = up
<1>1. ASSUME NEW c \in Contents, EditElsewhere(c)
      PROVE  up' = up
  BY <1>1 DEF EditElsewhere
<1>2. ASSUME NEW p \in up, Builds(p) \/ Lookup(p) \/ Prewarm(p) \/ GiveUp(p) \/ Kill(p)
      PROVE  up' = up
  BY <1>2
     DEF Builds, Lookup, Prewarm, GiveUp, Kill, Enumerate, BuildFails, ReturnMemo, Seed,
         Read, Manifest, ManifestFails, Journal, JournalFails, ProbeJournal, Graph,
         GraphFails, ClearJournal, ReturnBuild
<1>3. ASSUME NEW p \in up, NEW c \in Contents, EditHere(p, c)
      PROVE  up' = up
  BY <1>3 DEF EditHere
<1> QED
  BY <1>1, <1>2, <1>3 DEF Next, vars

\* The invariant is inductive.
LEMMA StepInv ==
  ASSUME Inv, [Next]_vars
  PROVE  Inv'
<1>1. Types' /\ Course' /\ up' = up
  BY StepTypes, StepCourse, StepUp DEF Inv
<1>2. ASSUME NEW q \in Servers
      PROVE  FreshIn(q)' /\ GraphIn(q)'
  BY StepFresh, StepGraph DEF Inv
<1>3. ASSUME NEW q \in Servers, up = {q}
      PROVE  ManifestIn(q)'
  BY <1>3, StepManifest DEF Inv
<1> QED
  BY <1>1, <1>2, <1>3 DEF Inv

\* The invariant holds at the start.
LEMMA InitInv == Init => Inv
<1> SUFFICES ASSUME Init PROVE Inv
  OBVIOUS
<1>0. /\ NoBuild.pc = None /\ NoBuild.fp = 0 /\ NoBuild.since = 1 /\ NoBuild.epoch = 0
      /\ NoMemo.fp = Poisoned /\ NoMemo.whole = FALSE /\ NoMemo.on = Absent
  BY DEF NoBuild, NoMemo
<1>1. texts \in Seq(Contents) /\ Len(texts) = 1 /\ texts # << >>
  BY IndexAssumption DEF Init
<1>2. Types
  <2>1. build \in [Servers -> Build] /\ memo \in [Servers -> Memo]
    BY Constants DEF Init
  <2>2. stat \in 1 .. Len(texts) /\ faults \in Nat
    BY <1>1 DEF Init
  <2>3. manifest \in Published /\ graph \in Published /\ journal \in BOOLEAN /\ up \in Deployments
    BY Constants DEF Init
  <2>4. /\ epoch \in [Servers -> Nat] /\ lookup \in [Servers -> BOOLEAN]
        /\ access \in [Servers -> {"idle", "building", "ready", "failed"}]
    BY DEF Init
  <2> QED
    BY <1>1, <2>1, <2>2, <2>3, <2>4 DEF Types
<1>3. ASSUME NEW q \in Servers
      PROVE  CourseIn(q) /\ FreshIn(q) /\ GraphIn(q) /\ ManifestIn(q)
  BY <1>0, <1>1
     DEF Init, CourseIn, FreshIn, GraphIn, ManifestIn, At, Built, Early, None, Poisoned
<1> QED
  BY <1>2, <1>3 DEF Inv, Course

\* A step that counts as trouble is taken only while there is room for it.
LEMMA StepBounds ==
  ASSUME Types, Bounds, [Next]_vars
  PROVE  Bounds'
<1>0. Len(texts) \in Nat /\ faults \in Nat /\ MaxTrouble \in Nat
  BY IndexAssumption DEF Types
<1>1. Cardinality(up) \in Nat \ {0}
  BY IndexAssumption, FS_CardinalityType, FS_EmptySet DEF Types
<1>2. Calm => Len(texts) - 1 + faults < MaxTrouble
  BY <1>0, <1>1 DEF Calm
<1>3. ASSUME NEW c \in Contents, Becomes(c), faults' = faults
      PROVE  Bounds'
  BY <1>0, <1>2, <1>3, TextGrows DEF Bounds, Becomes
<1>4. ASSUME texts' = texts, faults' = faults \/ (Calm /\ faults' = faults + 1)
      PROVE  Bounds'
  BY <1>0, <1>2, <1>4 DEF Bounds
<1>5. ASSUME NEW p \in up, Builds(p)
      PROVE  texts' = texts /\ (faults' = faults \/ (Calm /\ faults' = faults + 1))
  <2>1. ASSUME Enumerate(p) \/ ReturnMemo(p) \/ Seed(p) \/ Read(p) \/ Manifest(p) \/ Journal(p)
        PROVE  texts' = texts /\ faults' = faults
    BY <2>1 DEF Enumerate, ReturnMemo, Seed, Read, Manifest, Journal, source
  <2>2. ASSUME ProbeJournal(p) \/ Graph(p) \/ ReturnBuild(p)
        PROVE  texts' = texts /\ faults' = faults
    BY <2>2 DEF ProbeJournal, Graph, ReturnBuild, source
  <2>3. CASE BuildFails(p) \/ ManifestFails(p) \/ JournalFails(p) \/ GraphFails(p)
    BY <2>3 DEF BuildFails, ManifestFails, JournalFails, GraphFails, source
  <2>4. ASSUME ClearJournal(p)
        PROVE  texts' = texts /\ (faults' = faults \/ (Calm /\ faults' = faults + 1))
    <3>1. texts' = texts
      BY <2>4 DEF ClearJournal, source
    <3>2. faults' = faults \/ (Calm /\ faults' = faults + 1)
      BY <2>4 DEF ClearJournal
    <3> QED
      BY <3>1, <3>2
  <2> QED
    BY <1>5, <2>1, <2>2, <2>3, <2>4 DEF Builds
<1>6. ASSUME NEW p \in up, Lookup(p) \/ Prewarm(p) \/ GiveUp(p)
      PROVE  texts' = texts /\ faults' = faults
  BY <1>6 DEF Lookup, Prewarm, GiveUp, source
<1>9. ASSUME NEW p \in up, Kill(p)
      PROVE  texts' = texts /\ Calm /\ faults' = faults + 1
  BY <1>9 DEF Kill, source
<1>7. ASSUME NEW c \in Contents, EditElsewhere(c) \/ \E p \in up : EditHere(p, c)
      PROVE  Bounds'
  BY <1>3, <1>7 DEF EditHere, EditElsewhere
<1>8. CASE UNCHANGED vars
  BY <1>8 DEF Bounds, vars, source
<1> QED
  BY <1>4, <1>5, <1>6, <1>9, <1>7, <1>8 DEF Next

\* The type invariant: where builds run and what lookups wait for.
THEOREM TypeCorrect == Spec => []TypeOK
<1>1. Init => Inv /\ Bounds
  BY InitInv, IndexAssumption DEF Init, Bounds
<1>2. Inv /\ Bounds /\ [Next]_vars => (Inv /\ Bounds)'
  BY StepInv, StepBounds DEF Inv
<1>3. Inv /\ Bounds => TypeOK
  <2> SUFFICES ASSUME Inv, Bounds PROVE TypeOK
    OBVIOUS
  <2>1. Published \subseteq Record /\ \A r \in Published : r.gen = 0 <=> r = Absent
    BY DEF Published, Record, Absent, Of
  <2>2. /\ Len(texts) \in Nat \ {0} /\ faults \in Nat /\ MaxTrouble \in Nat
        /\ stat \in 1 .. Len(texts) /\ up \subseteq Servers /\ journal \in BOOLEAN
        /\ manifest \in Published /\ graph \in Published
    BY IndexAssumption DEF Inv, Types
  <2>3. Len(texts) \in 1 .. (MaxTrouble + 1) /\ faults \in 0 .. MaxTrouble
    BY <2>2 DEF Bounds
  <2>4. ASSUME NEW p \in Servers
        PROVE  memo[p].on \in Record /\ memo[p].fp \in 0 .. stat /\ build[p].epoch \in 0 .. epoch[p]
    BY <2>1, <2>2 DEF Inv, Types, Memo, Build, Course, CourseIn
  <2> QED
    BY <2>1, <2>2, <2>3, <2>4 DEF TypeOK, Inv, Course, CourseIn
<1> QED
  BY <1>1, <1>2, <1>3, PTL DEF Spec

\* The inductive invariant holds for every number of servers and edits.
THEOREM Invariant == Spec => []Inv
BY InitInv, StepInv, PTL DEF Spec

\* A lookup is answered with a manifest by the memo or by a build of its own
\* that has gone through; a build that fails or a server that ends gives none.
LEMMA WhoAnswers ==
  ASSUME Inv, [Next]_vars, NEW p \in Servers, Answers(p)
  PROVE  ReturnMemo(p) \/ ReturnBuild(p)
<1>0. /\ Types /\ up \subseteq Servers
      /\ NoBuild.pc = None /\ build'[p] = NoBuild /\ build[p].pc \in {"seed", "memo"} /\ access'[p] = "ready"
      /\ access \in [Servers -> {"idle", "building", "ready", "failed"}]
      /\ access[p] \in {"building", "ready"}
      /\ build \in [Servers -> Build]
  BY IndexAssumption DEF Answers, At, NoBuild, None, Inv, Types, Course, CourseIn
<1>1. ASSUME build' = build
      PROVE  FALSE
  BY <1>0, <1>1 DEF None
<1>2. ASSUME NEW q \in up, Lookup(q) \/ Prewarm(q)
      PROVE  FALSE
  <2>1. Begun(q) \/ build' = build
    BY <1>0, <1>2, Ends DEF Lookup, Prewarm, StartBuild
  <2> QED
    BY <1>0, <1>1, <2>1 DEF Begun, None
<1>3. ASSUME NEW q \in up, Kill(q)
      PROVE  FALSE
  BY <1>0, <1>3 DEF Kill, Go, None
<1>4. ASSUME NEW q \in up, BuildFails(q)
      PROVE  FALSE
  BY <1>0, <1>4 DEF BuildFails, Settled, Go, At, None
<1>5. ASSUME NEW q \in up, NEW pc, NEW fp, NEW seed, NEW whole, NEW persisted, NEW on, NEW pending,
             pc # None, Now(q, pc, fp, seed, whole, persisted, on, pending)
      PROVE  FALSE
  BY <1>0, <1>5 DEF Now, Fields, None
<1>6. ASSUME NEW q \in up, ReturnMemo(q) \/ ReturnBuild(q)
      PROVE  q = p
  BY <1>0, <1>6 DEF ReturnMemo, ReturnBuild, Settled, Go, None
<1>7. ASSUME NEW q \in up, Builds(q)
      PROVE  ReturnMemo(p) \/ ReturnBuild(p)
  <2>1. CASE ReturnMemo(q) \/ ReturnBuild(q) \/ BuildFails(q)
    BY <1>4, <1>6, <2>1
  <2>2. CASE Enumerate(q) \/ Seed(q)
    BY <1>0, <1>5, <2>2, Moves DEF None, Looked, Seeded
  <2>3. CASE Read(q)
    BY <1>0, <1>5, <2>3, Moves DEF None, Gathered
  <2>4. CASE Manifest(q) \/ ManifestFails(q) \/ Journal(q) \/ JournalFails(q)
    BY <1>0, <1>5, <2>4, Moves DEF None, Publishes
  <2>5. CASE ProbeJournal(q) \/ Graph(q) \/ GraphFails(q) \/ ClearJournal(q)
    BY <1>0, <1>5, <2>5, Moves DEF None, Publishes
  <2> QED
    BY <1>7, <2>1, <2>2, <2>3, <2>4, <2>5 DEF Builds
<1>8. ASSUME NEW q \in up, GiveUp(q)
      PROVE  FALSE
  BY <1>1, <1>8 DEF GiveUp
<1>9. ASSUME NEW c \in Contents, EditElsewhere(c) \/ \E q \in up : EditHere(q, c)
      PROVE  FALSE
  BY <1>1, <1>9 DEF EditElsewhere, EditHere
<1> QED
  BY <1>1, <1>2, <1>3, <1>7, <1>8, <1>9 DEF Next, vars

\* A lookup is answered with a content the workspace has had since the build
\* behind it started: no edit before that is missed
\* (loadOrBuildSourceIndex, invalidateCachedWorkspaceFiles).
THEOREM FreshAnswers == Spec => AnswersFresh
<1>1. ASSUME Inv, [Next]_vars, NEW p \in Servers, Answers(p)
      PROVE  \E v \in build[p].since..Len(texts) : texts[v] = Answer(p)
  <2>1. FreshIn(p)
    BY <1>1 DEF Inv
  <2>2. CASE ReturnMemo(p)
    BY <2>1, <2>2 DEF ReturnMemo, FreshIn, Had, Answer, At
  <2>3. CASE ReturnBuild(p)
    BY <2>1, <2>3 DEF ReturnBuild, FreshIn, Had, Answer, At, Built
  <2> QED
    BY <1>1, <2>2, <2>3, WhoAnswers
<1>2. Inv /\ [Next]_vars =>
        [\A p \in Servers : Answers(p) =>
           \E v \in build[p].since..Len(texts) : texts[v] = Answer(p)]_vars
  BY <1>1
<1> QED
  BY <1>2, Invariant, PTL DEF Spec, AnswersFresh

\* What a lookup is answered is on disk: the graph, unless this server left it
\* behind or another has published since, and the manifest, for a server on
\* its own whose last write of it went through (writeGraphIfStale,
\* diskCacheCurrent).
THEOREM DiskHoldsAnswers == Spec => DiskFollows
<1>1. ASSUME Inv, [Next]_vars, NEW p \in Servers, Answers(p)
      PROVE  /\ p \in missed' \cup foreign' \/ graph'.content = Answer(p)
             /\ up # {p} \/ p \in unsaved' \/ manifest'.content = Answer(p)
  <2>1. GraphIn(p) /\ (up = {p} => ManifestIn(p)) /\ (At(p, "seed") => build[p].fp > 0)
    BY <1>1 DEF Inv, Course, CourseIn
  <2>2. CASE ReturnMemo(p)
    <3>1. At(p, "seed") /\ memo[p].fp = build[p].fp /\ UNCHANGED <<disk, ghosts>>
      BY <2>2 DEF ReturnMemo
    <3>2. memo[p].fp # Poisoned /\ build[p].pc \in Early /\ Answer(p) = memo[p].on.content
      BY <2>1, <3>1 DEF Poisoned, Early, Answer, At
    <3> QED
      BY <2>1, <3>1, <3>2 DEF GraphIn, ManifestIn, LeftBehind, disk, ghosts
  <2>3. CASE ReturnBuild(p)
    BY <2>1, <2>3
       DEF ReturnBuild, GraphIn, ManifestIn, LeftBehind, Unsaved, Answer, At, disk,
           ghosts
  <2> QED
    BY <1>1, <2>2, <2>3, WhoAnswers
<1>2. Inv /\ [Next]_vars =>
        [\A p \in Servers : Answers(p) =>
           /\ p \in missed' \cup foreign' \/ graph'.content = Answer(p)
           /\ up # {p} \/ p \in unsaved' \/ manifest'.content = Answer(p)]_vars
  BY <1>1
<1> QED
  BY <1>2, Invariant, PTL DEF Spec, DiskFollows

\* On a workspace of one server the journal marks a graph that is behind its
\* manifest, unless the journal itself was lost (publishJournal.ts).
THEOREM SkewMarked == Spec => []SkewIsMarked
<1>1. Inv => SkewIsMarked
  <2> SUFFICES ASSUME Inv, Cardinality(up) = 1, manifest.content # graph.content
               PROVE  journal \/ lapsed \/ \E p \in up : At(p, "journal")
    BY DEF SkewIsMarked
  <2>1. IsFiniteSet(up) /\ up \subseteq Servers
    BY IndexAssumption DEF Inv, Types
  <2>2. PICK p : up = {p}
    BY <2>1, FS_Singleton
  <2>3. ManifestIn(p)
    BY <2>1, <2>2 DEF Inv
  <2> QED
    BY <2>2, <2>3 DEF ManifestIn
<1> QED
  BY <1>1, Invariant, PTL

=============================================================================
