-------------------------- MODULE MCStdioTransport --------------------------
(* Instances of StdioTransport for TLC.                                    *)
EXTENDS StdioTransport

CONSTANTS a, b

TwoIds == {a, b}

=============================================================================
