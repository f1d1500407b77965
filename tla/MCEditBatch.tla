---------------------------- MODULE MCEditBatch ----------------------------
(* Model-checking instances of EditBatch. *)
EXTENDS EditBatch, TLC

CONSTANTS p1, p2

\* Two batches that want to create the same file, one of them with another
\* create in a directory without hard links.
Mixed == p1 :> <<"a", "new", "raw">> @@ p2 :> <<"b", "new", "c">>

\* Two spellings of one path.
Spelled == p1 :> <<"a", "./a">>

Resolve == [r \in {"a", "./a", "b", "c", "new", "raw"} |-> IF r = "./a" THEN "a" ELSE r]
=============================================================================
