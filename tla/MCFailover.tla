----------------------------- MODULE MCFailover -----------------------------
(***************************************************************************)
(* A TLC instance of Failover: one request, a WebSocket worker with a      *)
(* single place that other requests' calls may take, a worker reached over *)
(* HTTP, and a third that has opted out of the model.                      *)
(***************************************************************************)
EXTENDS Failover

CONSTANTS r1, ws, http, optout

OneReq == {r1}
AllWorkers == {ws, http, optout}
TwoWorkers == {ws, http}
WS == {ws}
=============================================================================
