---------------------------- MODULE MCRelayLink -----------------------------
(* Instances of RelayLink for TLC. *)
EXTENDS RelayLink, TLC
=============================================================================
