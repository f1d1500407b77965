----------------------------- MODULE SourceIndex -----------------------------
(***************************************************************************)
(* The source index of a workspace: loadOrBuildSourceIndex of the skeleton *)
(* engine (indexStore.ts, publishJournal.ts, graphBuilder.ts), asked       *)
(* through the server's sourceIndexAccess.ts.                              *)
(*                                                                         *)
(* A build looks at the file stats and returns the memo of its process if  *)
(* they are those of the memo.  Otherwise it reads the files and publishes *)
(* two files, the manifest and the graph, with a journal on disk in        *)
(* between; then it becomes the memo, unless an edit of its own process    *)
(* arrived meanwhile.  Several servers share the files.  A step ends at an *)
(* await of the code; a check and the rename that follows it, or the reads *)
(* of all files, are one step.                                             *)
(*                                                                         *)
(* The workspace is a text, one of a few contents, whose digest (rootHash) *)
(* is the content itself.  texts is its history: stat stands for path,     *)
(* size and mtime of its files, which an edit through the server may leave *)
(* as they were, and an edit by somebody else does not.                    *)
(***************************************************************************)
EXTENDS Integers, Sequences, FiniteSets

CONSTANTS
  Servers,     \* server processes
  Deployments, \* the sets of them that share a workspace
  Contents,    \* contents of the workspace
  First,       \* the one it starts with
  Big,         \* contents whose graph exceeds the size cap
  MaxTrouble   \* bound: edits and faults in a run; a further server counts as two

None == "none"

ASSUME IndexAssumption ==
  /\ Big \subseteq Contents /\ First \in Contents /\ None \notin Contents
  /\ Deployments \subseteq SUBSET Servers
  /\ \A D \in Deployments : D # {} /\ IsFiniteSet(D)
  /\ MaxTrouble \in Nat

Poisoned == 0    \* the stat fingerprint of an invalidated memo

VARIABLES
  texts,       \* contents of the workspace so far, the last one is current
  stat,        \* what a look at the files' stats finds
  up,          \* servers that are used in this run
  manifest,    \* manifest on disk: content and generation
  graph,       \* graph on disk: content and generation
  journal,     \* the publish journal is on disk
  memo,        \* manifest memo of a server
  epoch,       \* invalidations in a server
  access,      \* state of the server's index: idle, building, ready, failed
  build,       \* the build under way in a server
  lookup,      \* the lookup that waits for it
  faults,
  foreign,     \* servers whose last graph another server has written over
  missed,      \* servers whose last pass left the graph behind
  unsaved,     \* servers whose last write of the manifest failed
  lapsed       \* a manifest may be without the journal that should mark it

disk == <<manifest, graph, journal>>
source == <<texts, stat>>
ghosts == <<foreign, missed, unsaved, lapsed>>
vars == <<source, up, disk, memo, epoch, access, build, lookup, faults, ghosts>>

Text == texts[Len(texts)]
Calm == (Len(texts) - 1) + faults + 2 * (Cardinality(up) - 1) < MaxTrouble
Of(content, gen) == [content |-> content, gen |-> gen]
Absent == Of(None, 0)
NoMemo == [fp |-> Poisoned, on |-> Absent, whole |-> FALSE, persisted |-> None]
NoBuild == [pc |-> None, epoch |-> 0, fp |-> 0, seed |-> Absent, whole |-> FALSE,
            persisted |-> None, on |-> Absent, pending |-> FALSE, since |-> 1]

At(p, pc) == build[p].pc = pc
Go(p, changes) == build' = [build EXCEPT ![p] = changes]

-----------------------------------------------------------------------------
(* Edits.  One through the server invalidates the memo in the same turn:   *)
(* the edited file leaves the memo's manifest, which no longer matches any *)
(* stat, and a build under way will not become the memo.                   *)

Becomes(content) ==
  /\ Calm
  /\ content # Text
  /\ texts' = Append(texts, content)

InvalidateKeepsMatch(p) ==   \* leaves the fingerprint of the memo
  /\ epoch' = [epoch EXCEPT ![p] = @ + 1]
  /\ memo' = [memo EXCEPT ![p].whole = FALSE]

Invalidate(p) ==
  /\ epoch' = [epoch EXCEPT ![p] = @ + 1]
  /\ memo' = [memo EXCEPT ![p].fp = Poisoned, ![p].whole = FALSE]

EditHere(p, content) ==
  /\ Becomes(content)
  /\ stat' \in IF up = {p} THEN {stat, stat + 1} ELSE {stat + 1}
  /\ Invalidate(p)
  /\ UNCHANGED <<up, disk, access, build, lookup, faults, ghosts>>

EditElsewhere(content) ==
  /\ Becomes(content)
  /\ stat' = stat + 1
  /\ UNCHANGED <<up, disk, memo, epoch, access, build, lookup, faults, ghosts>>

-----------------------------------------------------------------------------
(* Lookups.  One build at a time: a lookup during the first build, or one  *)
(* after a failed build, shares it; when the index is ready every lookup   *)
(* has its own.  Some lookups do not wait for long.                        *)

Started(p) == [NoBuild EXCEPT !.pc = "enumerate", !.epoch = epoch[p], !.since = Len(texts)]

StartBuild(p) ==
  /\ access[p] \in {"idle", "failed"}
  /\ access' = [access EXCEPT ![p] = "building"]
  /\ Go(p, Started(p))

Prewarm(p) ==
  /\ access[p] = "idle"
  /\ StartBuild(p)
  /\ UNCHANGED <<source, up, disk, memo, epoch, lookup, faults, ghosts>>

Lookup(p) ==
  /\ ~lookup[p]
  /\ lookup' = [lookup EXCEPT ![p] = TRUE]
  /\ \/ StartBuild(p)
     \/ access[p] = "building" /\ UNCHANGED <<access, build>>
     \/ access[p] = "ready" /\ Go(p, Started(p)) /\ UNCHANGED access
  /\ UNCHANGED <<source, up, disk, memo, epoch, faults, ghosts>>

(* settledWithin: a lookup in the background is answered that the index is *)
(* warming.                                                                *)
GiveUp(p) ==
  /\ lookup[p] /\ access[p] = "building"
  /\ lookup' = [lookup EXCEPT ![p] = FALSE]
  /\ UNCHANGED <<source, up, disk, memo, epoch, access, build, faults, ghosts>>

(* A build has settled, with a manifest or with an error.                  *)
Settled(p, state) ==
  /\ Go(p, NoBuild)
  /\ access' = [access EXCEPT ![p] = IF @ = "building" THEN state ELSE @]
  /\ lookup' = [lookup EXCEPT ![p] = FALSE]

BuildFailsKeepsEntry(p) ==   \* the entry stays in the state of a build under way
  /\ At(p, "enumerate") /\ Calm
  /\ faults' = faults + 1
  /\ Go(p, NoBuild)
  /\ UNCHANGED <<access, lookup>>
  /\ UNCHANGED <<source, up, disk, memo, epoch, ghosts>>

BuildFails(p) ==
  /\ At(p, "enumerate") /\ Calm
  /\ faults' = faults + 1
  /\ Settled(p, "failed")
  /\ UNCHANGED <<source, up, disk, memo, epoch, ghosts>>

-----------------------------------------------------------------------------
(* loadOrBuildSourceIndex: the stats, then the memo or a seed, then the    *)
(* files, whose digests decide what of the seed is used.                   *)

Enumerate(p) ==
  /\ At(p, "enumerate")
  /\ Go(p, [build[p] EXCEPT !.pc = "seed", !.fp = stat])
  /\ UNCHANGED <<source, up, disk, memo, epoch, access, lookup, faults, ghosts>>

ReturnMemo(p) ==
  /\ At(p, "seed") /\ memo[p].on # Absent /\ memo[p].fp = build[p].fp
  /\ Settled(p, "ready")
  /\ UNCHANGED <<source, up, disk, memo, epoch, faults, ghosts>>

Seed(p) ==
  /\ At(p, "seed") /\ ~(memo[p].on # Absent /\ memo[p].fp = build[p].fp)
  /\ Go(p, IF memo[p].on # Absent
           THEN [build[p] EXCEPT !.pc = "read", !.seed = memo[p].on, !.whole = memo[p].whole,
                                 !.persisted = memo[p].persisted]
           ELSE [build[p] EXCEPT !.pc = "read", !.seed = manifest, !.whole = TRUE,
                                 !.persisted = manifest.content])
  /\ UNCHANGED <<source, up, disk, memo, epoch, access, lookup, faults, ghosts>>

(* The manifest is not written when nothing had to be parsed and the disk  *)
(* cache is known to hold its digest.                                      *)
DiskCacheCurrentByDigest(p) == build[p].persisted = Text   \* whatever was parsed

DiskCacheCurrent(p) ==
  build[p].persisted = Text /\ build[p].whole /\ build[p].seed.content = Text

Read(p) ==
  LET seed == build[p].seed
      next == IF Text # seed.content THEN seed.gen + 1 ELSE seed.gen
  IN
  /\ At(p, "read")
  /\ Go(p, [build[p] EXCEPT !.pc = IF DiskCacheCurrent(p) THEN "probe" ELSE "manifest",
                            !.on = Of(Text, next), !.seed = Absent, !.whole = FALSE])
  /\ missed' = missed \ {p}
  /\ UNCHANGED <<source, up, disk, memo, epoch, access, lookup, faults, foreign, unsaved, lapsed>>

-----------------------------------------------------------------------------
(* The publication: manifest, journal, graph, and the journal is cleared.  *)

Manifest(p) ==
  /\ At(p, "manifest")
  /\ manifest' = build[p].on
  /\ Go(p, [build[p] EXCEPT !.pc = "journal", !.persisted = build[p].on.content])
  /\ unsaved' = unsaved \ {p}
  /\ UNCHANGED <<source, up, graph, journal, memo, epoch, access, lookup, faults,
                 foreign, missed, lapsed>>

(* The journal is skipped together with the manifest.                      *)
ManifestFails(p) ==
  /\ At(p, "manifest") /\ Calm
  /\ faults' = faults + 1
  /\ unsaved' = unsaved \cup {p} /\ lapsed' = TRUE
  /\ Go(p, [build[p] EXCEPT !.pc = "probe"])
  /\ UNCHANGED <<source, up, disk, memo, epoch, access, lookup, foreign, missed>>

Journal(p) ==
  /\ At(p, "journal")
  /\ journal' = TRUE
  /\ lapsed' = FALSE
  /\ Go(p, [build[p] EXCEPT !.pc = "probe"])
  /\ UNCHANGED <<source, up, manifest, graph, memo, epoch, access, lookup, faults, foreign, missed, unsaved>>

JournalFails(p) ==
  /\ At(p, "journal") /\ Calm
  /\ faults' = faults + 1
  /\ lapsed' = TRUE
  /\ Go(p, [build[p] EXCEPT !.pc = "probe"])
  /\ UNCHANGED <<source, up, disk, memo, epoch, access, lookup, foreign, missed, unsaved>>

ProbeJournal(p) ==
  /\ At(p, "probe")
  /\ Go(p, [build[p] EXCEPT !.pc = "graph", !.pending = journal])
  /\ UNCHANGED <<source, up, disk, memo, epoch, access, lookup, faults, ghosts>>

(* writeGraphIfStale: kept if it has the digest of the manifest and no     *)
(* publication is pending; not written if it is too large for a reader.    *)
FreshByGeneration(p) == ~build[p].pending /\ graph.gen = build[p].on.gen   \* compares generations

Fresh(p) == ~build[p].pending /\ graph.content = build[p].on.content

Graph(p) ==
  /\ At(p, "graph")
  /\ IF Fresh(p) THEN UNCHANGED <<graph, missed, lapsed>> /\ foreign' = foreign \ {p}
     ELSE IF build[p].on.content \in Big
     THEN missed' = missed \cup {p} /\ lapsed' = TRUE /\ UNCHANGED <<graph, foreign>>
     ELSE /\ graph' = build[p].on
          /\ foreign' = up \ {p}
          /\ UNCHANGED <<missed, lapsed>>
  /\ Go(p, [build[p] EXCEPT !.pc = "clear", !.pending = FALSE])
  /\ UNCHANGED <<source, up, manifest, journal, memo, epoch, access, lookup, faults, unsaved>>

GraphFailsClears(p) ==   \* clears the journal all the same
  /\ At(p, "graph") /\ Calm
  /\ faults' = faults + 1
  /\ missed' = missed \cup {p}
  /\ Go(p, [build[p] EXCEPT !.pc = "clear", !.pending = FALSE])
  /\ UNCHANGED <<source, up, disk, memo, epoch, access, lookup, foreign, unsaved, lapsed>>

GraphFails(p) ==
  /\ At(p, "graph") /\ Calm
  /\ faults' = faults + 1
  /\ missed' = missed \cup {p}
  /\ Go(p, [build[p] EXCEPT !.pc = "memo", !.pending = FALSE])
  /\ UNCHANGED <<source, up, disk, memo, epoch, access, lookup, foreign, unsaved, lapsed>>

ClearJournal(p) ==
  /\ At(p, "clear")
  /\ \/ journal' = FALSE /\ UNCHANGED faults
     \/ journal /\ Calm /\ faults' = faults + 1 /\ UNCHANGED journal
  /\ Go(p, [build[p] EXCEPT !.pc = "memo"])
  /\ UNCHANGED <<source, up, manifest, graph, memo, epoch, access, lookup, ghosts>>

(* The build becomes the memo unless an edit arrived while it ran.         *)
ReturnBuildAnyEpoch(p) ==   \* does not look at the epoch
  /\ At(p, "memo")
  /\ memo' = [memo EXCEPT ![p] = [fp |-> build[p].fp, on |-> build[p].on, whole |-> TRUE,
                                  persisted |-> build[p].persisted]]
  /\ Settled(p, "ready")
  /\ UNCHANGED <<source, up, disk, epoch, faults, ghosts>>

ReturnBuild(p) ==
  /\ At(p, "memo")
  /\ memo' = IF epoch[p] # build[p].epoch THEN memo
             ELSE [memo EXCEPT ![p] = [fp |-> build[p].fp, on |-> build[p].on, whole |-> TRUE,
                                       persisted |-> build[p].persisted]]
  /\ Settled(p, "ready")
  /\ UNCHANGED <<source, up, disk, epoch, faults, ghosts>>

-----------------------------------------------------------------------------
(* The end of a server and the start of a new one.                         *)
Kill(p) ==
  /\ Calm /\ access[p] # "idle"
  /\ faults' = faults + 1
  /\ memo' = [memo EXCEPT ![p] = NoMemo]
  /\ epoch' = [epoch EXCEPT ![p] = 0]
  /\ access' = [access EXCEPT ![p] = "idle"]
  /\ Go(p, NoBuild)
  /\ lookup' = [lookup EXCEPT ![p] = FALSE]
  /\ lapsed' = (lapsed \/ At(p, "journal"))
  /\ foreign' = foreign \ {p} /\ missed' = missed \ {p} /\ unsaved' = unsaved \ {p}
  /\ UNCHANGED <<source, up, disk>>

Init ==
  /\ texts = <<First>>
  /\ stat = 1
  /\ up \in Deployments
  /\ manifest = Absent /\ graph = Absent /\ journal = FALSE
  /\ memo = [p \in Servers |-> NoMemo]
  /\ epoch = [p \in Servers |-> 0]
  /\ access = [p \in Servers |-> "idle"]
  /\ build = [p \in Servers |-> NoBuild]
  /\ lookup = [p \in Servers |-> FALSE]
  /\ faults = 0
  /\ foreign = {} /\ missed = {} /\ unsaved = {} /\ lapsed = FALSE

Builds(p) ==
  \/ Enumerate(p) \/ BuildFails(p) \/ ReturnMemo(p) \/ Seed(p) \/ Read(p)
  \/ Manifest(p) \/ ManifestFails(p) \/ Journal(p) \/ JournalFails(p)
  \/ ProbeJournal(p) \/ Graph(p) \/ GraphFails(p) \/ ClearJournal(p) \/ ReturnBuild(p)

Next ==
  \/ \E c \in Contents : EditElsewhere(c)
  \/ \E p \in up :
       \/ Builds(p) \/ Lookup(p) \/ Prewarm(p) \/ GiveUp(p) \/ Kill(p)
       \/ \E c \in Contents : EditHere(p, c)

(* A build that was started goes on: its awaits are reads and writes.      *)
Fairness == \A p \in Servers : WF_vars(p \in up /\ Builds(p))

Spec == Init /\ [][Next]_vars /\ Fairness

-----------------------------------------------------------------------------
Record == [content : Contents \cup {None}, gen : Nat]

(* Types; a build runs exactly where the index says so, a lookup waits for *)
(* one, and a manifest has a generation iff it has a content.              *)
TypeOK ==
  /\ Len(texts) \in 1..(MaxTrouble + 1) /\ stat \in 1..Len(texts)
  /\ up \subseteq Servers /\ journal \in BOOLEAN
  /\ manifest \in Record /\ graph \in Record
  /\ \A r \in {manifest, graph} : r.gen = 0 <=> r = Absent
  /\ \A p \in Servers :
       /\ memo[p].on \in Record /\ memo[p].fp \in 0..stat
       /\ build[p].since \in 1..Len(texts) /\ build[p].epoch \in 0..epoch[p]
       /\ access[p] = "building" => ~At(p, None)
       /\ ~At(p, None) => access[p] \in {"building", "ready"}
       /\ lookup[p] => ~At(p, None)
  /\ faults \in 0..MaxTrouble

(* The step that settles a build with a manifest, the memo's or its own.   *)
Answers(p) == (At(p, "seed") \/ At(p, "memo")) /\ build'[p] = NoBuild /\ access'[p] = "ready"
Answer(p) == IF At(p, "memo") THEN build[p].on.content ELSE memo[p].on.content

(* A lookup is answered with a content the workspace has had since the     *)
(* build behind the answer was started: an edit before it, through this    *)
(* server or with another stat, is never missed (the memo's fingerprint,   *)
(* invalidateCachedWorkspaceFiles, the epoch).                             *)
AnswersFresh ==
  [][\A p \in Servers : Answers(p) =>
       \E v \in build[p].since..Len(texts) : texts[v] = Answer(p)]_vars

(* Whenever a lookup is answered, from the memo or from a build that could *)
(* or could not become it, the disk holds what is answered: the graph,     *)
(* unless this server's last publication left it behind or another server  *)
(* has published since; and the manifest, for a server alone on the        *)
(* workspace whose last write of it did not fail (writeGraphIfStale, the   *)
(* publish journal, diskCacheCurrent).                                     *)
DiskFollows ==
  [][\A p \in Servers : Answers(p) =>
       /\ p \in missed' \cup foreign' \/ graph'.content = Answer(p)
       /\ up # {p} \/ p \in unsaved' \/ manifest'.content = Answer(p)]_vars

(* The journal marks a graph that is behind its manifest, if one server is *)
(* on the workspace and it was not killed, or its write did not fail,      *)
(* between the two renames of manifest and journal.                        *)
SkewIsMarked ==
  Cardinality(up) = 1 /\ manifest.content # graph.content =>
    journal \/ lapsed \/ \E p \in up : At(p, "journal")

(* A lookup comes to an end, whatever becomes of the build it shares.      *)
LookupEnds == \A p \in Servers : lookup[p] ~> ~lookup[p]

=============================================================================
