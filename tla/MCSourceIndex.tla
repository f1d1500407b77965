---------------------------- MODULE MCSourceIndex ----------------------------
(* Instances of SourceIndex for TLC.                                       *)
EXTENDS SourceIndex

CONSTANTS p, q, a, b, large

TwoServers == {p, q}
OneOrBoth == {{p}, {p, q}}
ThreeContents == {a, b, large}
OnlyLarge == {large}

=============================================================================
