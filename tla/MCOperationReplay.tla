------------------------- MODULE MCOperationReplay -------------------------
(* Model-checking instances of OperationReplay. *)
EXTENDS OperationReplay, TLC

CONSTANTS s1, s2, c1, c2, c3, c4, c5

\* Three calls on one id, one of them with another payload, and two other
\* operations whose outcomes are too large to replay.
MixedIds == [c \in Calls |-> IF c \in {c4, c5} THEN c ELSE "a"]
MixedDigests == [c \in Calls |-> IF c = c3 THEN "y" ELSE "x"]

\* Only the twins c1 and c2 may reach the second server.
Mostly1 == [c \in Calls |-> IF c \in {c1, c2} THEN Servers ELSE {s1}]

\* c1 and c2 are the same request; c4 and c5 are their own ids.
Symmetry == Permutations({c1, c2}) \cup Permutations({c4, c5})
=============================================================================
