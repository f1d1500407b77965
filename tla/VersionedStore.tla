--------------------------- MODULE VersionedStore ---------------------------
(***************************************************************************)
(* What the per-workspace state store promises to the processes that share *)
(* it: a table of versioned records under a generation.  A record is       *)
(* replaced only by the next version, it leaves by deletion or expiry, and *)
(* what is lost otherwise is lost together with the generation, so that a  *)
(* handle minted against it is recognisably stale.                         *)
(***************************************************************************)
EXTENDS Naturals

CONSTANTS Keys, NoRec, NoEpoch

VARIABLES
  table,   \* the live record of each key, or NoRec
  gen,     \* the generation handles are minted against, or NoEpoch
  past     \* the generations that no handle may resolve against any more

vs == <<table, gen, past>>

Empty == [k \in Keys |-> NoRec]

VersionIn(t, k) == IF t[k] = NoRec THEN 0 ELSE t[k].ver

Init == table = Empty /\ gen = NoEpoch /\ past = {}

Put(k) ==
  /\ gen # NoEpoch
  /\ table'[k] # NoRec
  /\ table'[k].ver = VersionIn(table, k) + 1
  /\ table' = [table EXCEPT ![k] = table'[k]]
  /\ UNCHANGED <<gen, past>>

\* Records are deleted by a caller, or expire.
Remove(K) ==
  /\ table' = [k \in Keys |-> IF k \in K THEN NoRec ELSE table[k]]
  /\ UNCHANGED <<gen, past>>

\* Damage is answered by giving up the whole generation ...
Lose ==
  /\ gen # NoEpoch
  /\ past' = past \cup {gen}
  /\ table' = Empty
  /\ gen' = NoEpoch

\* ... and starting one there has never been.
Renew ==
  /\ gen = NoEpoch
  /\ gen' \notin past \cup {NoEpoch}
  /\ UNCHANGED <<table, past>>

\* A generation is abandoned before it was ever served.
Abandon ==
  /\ gen \notin past'
  /\ past \subseteq past'
  /\ UNCHANGED <<table, gen>>

Next ==
  \/ \E k \in Keys : Put(k)
  \/ \E K \in SUBSET Keys : Remove(K)
  \/ Lose
  \/ Renew
  \/ Abandon

Spec == Init /\ [][Next]_vs
=============================================================================
