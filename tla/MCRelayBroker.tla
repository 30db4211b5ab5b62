--------------------------- MODULE MCRelayBroker ----------------------------
(* Instances of RelayBroker for TLC. *)
EXTENDS RelayBroker

CONSTANTS c1, c2, w1

MCWorkerOf == [c \in WConn |-> w1]
=============================================================================
