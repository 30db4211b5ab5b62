------------------------- MODULE MCCapabilityCache --------------------------
(***************************************************************************)
(* TLC instances of CapabilityCache: two workers, a channel that fills     *)
(* after two events and a subscriber dropped after two failed probes.  A   *)
(* fetch from w1 is bounded, one from w2 is not.                           *)
(***************************************************************************)
EXTENDS CapabilityCache

CONSTANTS w1, w2

TwoWorkers == {w1, w2}
OneTimely == {w1}
=============================================================================
