------------------------------ MODULE MCWSHub -------------------------------
(***************************************************************************)
(* TLC instances of WSHub: sockets s1, s2 of worker w1 (a reconnect from   *)
(* the same peer) and s3 of worker w2, which competes for the slots; the   *)
(* workers report their own LAN address, the peers are seen behind a NAT.  *)
(***************************************************************************)
EXTENDS WSHub

CONSTANTS s1, s2, s3, w1, w2, natIP, lanIP

ThreeSocks == {s1, s2, s3}
TwoWorkers == {w1, w2}
IPs == {natIP, lanIP}
OwnerOf3 == [s \in ThreeSocks |-> IF s = s3 THEN w2 ELSE w1]
SamePeer3 == [s \in ThreeSocks |-> natIP]
LanAddress == [w \in Worker |-> lanIP]
=============================================================================
