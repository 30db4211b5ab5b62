--------------------------- MODULE MCPendingCalls ---------------------------
(***************************************************************************)
(* TLC instances of PendingCalls: a stream and a single-response call that *)
(* compete for one connection.                                             *)
(***************************************************************************)
EXTENDS PendingCalls

CONSTANTS s1, c1

TwoCalls == {s1, c1}
OneStream == {s1}
CapOne == {1}
CapOneTwo == {1, 2}
=============================================================================
