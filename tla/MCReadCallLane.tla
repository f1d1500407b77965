--------------------------- MODULE MCReadCallLane ---------------------------
(***************************************************************************)
(* Model-checking instance of ReadCallLane with its batch groups.          *)
(***************************************************************************)
EXTENDS ReadCallBatchGroup, TLC

CONSTANTS c1, c2, c3, c4, c5, c6, c7, k1, k2, k3

TwoLanes == [c \in Calls |-> IF c = c1 THEN "l2" ELSE "l1"]

\* The members of the group are k1, brought twice, and k2; k3 is brought twice.
Cursors ==
  [c \in Calls |-> CASE c \in {c3, c5} -> k1 [] c = c4 -> k2 [] c \in {c6, c7} -> k3 [] OTHER -> NoPlan]

\* Three calls of the group after the one that makes it, the one brought twice
\* by c3 first; a call of another lane that takes the place of this one, in any
\* order; a plan that carries a qref, brought by c6 first.
Companies ==
  {{c2}, {c2, c3}, {c2, c4}, {c2, c3, c4}, {c2, c3, c5}, {c2, c3, c4, c5}}
    \cup SUBSET {c1, c2, c3}
    \cup {{c6}, {c2, c6}, {c6, c7}, {c2, c6, c7}}
=============================================================================
