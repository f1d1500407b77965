---------------------------- MODULE MCWriterLock ----------------------------
(* Model-checking instance of WriterLock. *)
EXTENDS WriterLock, Naturals

CONSTANTS p1, p2, p3

OneHost == [p \in Procs |-> "host"]
TwoHosts == [p \in Procs |-> IF p = p1 THEN "host" ELSE "container"]
SomeMarks == 1 .. Cardinality(Procs) + 2
=============================================================================
