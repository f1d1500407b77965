---------------------------- MODULE MCReadPages ----------------------------
(* Instances of ReadPages for TLC.                                         *)
EXTENDS ReadPages

CONSTANTS c1, c2

TwoCalls == {c1, c2}
TailWindow == {{2, 3}}

=============================================================================
