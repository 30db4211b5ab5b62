---------------------------- MODULE WSHubProofs -----------------------------
(***************************************************************************)
(* Proofs about WSHub, for any number of sockets, workers and connection   *)
(* slots.                                                                  *)
(***************************************************************************)
EXTENDS WSHub, FiniteSetTheorems, TLAPS

(* A connection that has not got past acquireConn owns no slot, and nobody *)
(* shuts down a connection that was never put in the map.                  *)
Fresh ==
  \A s \in Sock :
    /\ pc[s] \in {"upgraded", "checked", "acquiring", "refused", "collision"}
         => slot[s] = "none"
    /\ pc[s] \in {"upgraded", "checked", "acquiring", "slotted"} => shut[s] = "open"

(* A registered connection that was not told to close owns its slot. *)
RegisteredHold ==
  \A s \in Sock :
    pc[s] \in {"slotted", "mapped", "serving"} /\ ~asked[s] => slot[s] = "held"

(* The inductive invariant.  The type of sem needs SlotAccounting: a       *)
(* release only decrements because it finds the slot held.                 *)
HubInv ==
  /\ TypeOK
  /\ SlotAccounting
  /\ Fresh
  /\ RegisteredHold
  /\ MapHoldsLiveConnections

-----------------------------------------------------------------------------
(* Counting slots.                                                         *)

LEMMA HeldFinite == IsFiniteSet(Held) /\ Cardinality(Held) \in Nat
  BY WSHubAssumption, FS_Subset, FS_CardinalityType DEF Held

(* releaseSlot gives back the token of the connection, if it has one. *)
LEMMA Release ==
  ASSUME HubInv, NEW s \in Sock, sem' = SemAfterRelease(s), slot' = SlotAfterRelease(s)
  PROVE  /\ sem' \in 0..MaxConnections
         /\ slot' \in [Sock -> {"none", "held", "released"}]
         /\ SlotAccounting'
<1>1. Held' = Held \ {s}
  BY DEF Held, SlotAfterRelease, HubInv, TypeOK
<1>2. slot' \in [Sock -> {"none", "held", "released"}]
  BY DEF SlotAfterRelease, HubInv, TypeOK
<1>3. CASE slot[s] = "held"
  <2>1. s \in Held
    BY <1>3 DEF Held
  <2>2. Cardinality(Held') = Cardinality(Held) - 1 /\ Cardinality(Held') \in Nat
    BY <1>1, <2>1, HeldFinite, FS_RemoveElement, FS_CardinalityType
  <2>3. sem' = sem - 1 /\ sem = Cardinality(Held) /\ sem \in 0..MaxConnections
    BY <1>3 DEF SemAfterRelease, HubInv, SlotAccounting, TypeOK
  <2> QED
    BY <1>2, <2>2, <2>3, WSHubAssumption DEF SlotAccounting
<1>4. CASE slot[s] # "held"
  <2>1. Held' = Held
    BY <1>1, <1>4 DEF Held
  <2> QED
    BY <1>2, <1>4, <2>1 DEF SemAfterRelease, HubInv, SlotAccounting, TypeOK
<1> QED
  BY <1>3, <1>4

(* acquireConn takes a token only while one is free. *)
LEMMA Take ==
  ASSUME HubInv, NEW s \in Sock, Acquire(s)
  PROVE  /\ sem' \in 0..MaxConnections
         /\ slot' \in [Sock -> {"none", "held", "released"}]
         /\ SlotAccounting'
<1>1. s \notin Held
  BY DEF Held, Acquire, HubInv, Fresh
<1>2. Held' = Held \cup {s}
  BY DEF Held, Acquire, HubInv, TypeOK
<1>3. Cardinality(Held') = Cardinality(Held) + 1
  BY <1>1, <1>2, HeldFinite, FS_AddElement
<1> QED
  BY <1>3, WSHubAssumption DEF Acquire, HubInv, SlotAccounting, TypeOK

(* The slots are as before when no slot changes hands. *)
LEMMA SlotsKept ==
  ASSUME HubInv, sem' = sem, slot' = slot
  PROVE  /\ sem' \in 0..MaxConnections
         /\ slot' \in [Sock -> {"none", "held", "released"}]
         /\ SlotAccounting'
  BY DEF HubInv, TypeOK, SlotAccounting, Held

-----------------------------------------------------------------------------

LEMMA HubInit == Init => HubInv
<1> SUFFICES ASSUME Init PROVE HubInv
  OBVIOUS
<1>1. Held = {} /\ Cardinality({}) = 0
  BY FS_EmptySet DEF Init, Held
<1>2. SlotAccounting
  BY <1>1 DEF SlotAccounting, Init
<1> QED
  BY <1>2, WSHubAssumption
     DEF Init, HubInv, TypeOK, Finished, Fresh, RegisteredHold, MapHoldsLiveConnections

LEMMA HubNext == HubInv /\ [Next]_vars => HubInv'
<1> SUFFICES ASSUME HubInv, [Next]_vars PROVE HubInv'
  OBVIOUS
<1> USE WSHubAssumption DEF HubInv, TypeOK, Finished, Fresh, RegisteredHold,
                            MapHoldsLiveConnections
<1>1. ASSUME NEW s \in Sock, RejectInvalid(s) PROVE HubInv'
  BY <1>1, SlotsKept DEF RejectInvalid
<1>2. ASSUME NEW s \in Sock, CollisionCheck(s) PROVE HubInv'
  BY <1>2, SlotsKept DEF CollisionCheck
<1>3. ASSUME NEW s \in Sock, Supersede(s) PROVE HubInv'
  <2>1. CASE conns[WorkerOf[s]] = None
    BY <1>3, <2>1, SlotsKept DEF Supersede
  <2>2. CASE conns[WorkerOf[s]] # None
    <3> DEFINE old == conns[WorkerOf[s]]
    <3>1. old \in Sock /\ pc[old] \in {"mapped", "serving"} /\ old # s
      BY <1>3, <2>2 DEF Supersede
    <3>2. /\ sem' = SemAfterRelease(old) /\ slot' = SlotAfterRelease(old)
          /\ asked' = [asked EXCEPT ![old] = TRUE]
      BY <1>3, <2>2 DEF Supersede
    <3>3. /\ sem' \in 0..MaxConnections
          /\ slot' \in [Sock -> {"none", "held", "released"}]
          /\ SlotAccounting'
      BY <3>1, <3>2, Release
    <3> QED
      BY <1>3, <3>1, <3>2, <3>3 DEF Supersede, SlotAfterRelease
  <2> QED
    BY <2>1, <2>2
<1>4. ASSUME NEW s \in Sock, Acquire(s) PROVE HubInv'
  <2>1. /\ sem' \in 0..MaxConnections
        /\ slot' \in [Sock -> {"none", "held", "released"}]
        /\ SlotAccounting'
    BY <1>4, Take
  <2> QED
    BY <1>4, <2>1 DEF Acquire
<1>5. ASSUME NEW s \in Sock, AcquireFails(s) PROVE HubInv'
  BY <1>5, SlotsKept DEF AcquireFails
<1>6. ASSUME NEW s \in Sock, Insert(s) PROVE HubInv'
  BY <1>6, SlotsKept DEF Insert
<1>7. ASSUME NEW s \in Sock, Announce(s) PROVE HubInv'
  BY <1>7, SlotsKept DEF Announce
<1>8. ASSUME NEW s \in Sock, ReaderReturns(s) PROVE HubInv'
  <2>1. /\ sem' \in 0..MaxConnections
        /\ slot' \in [Sock -> {"none", "held", "released"}]
        /\ SlotAccounting'
    BY <1>8, Release DEF ReaderReturns
  <2> QED
    BY <1>8, <2>1 DEF ReaderReturns, SlotAfterRelease
<1>9. ASSUME NEW s \in Sock, NEW m \in {"heartbeat", "capabilities"}, Read(s, m) PROVE HubInv'
  BY <1>9, SlotsKept DEF Read
<1>10. ASSUME NEW s \in Sock, BridgeUpdate(s) PROVE HubInv'
  BY <1>10, SlotsKept DEF BridgeUpdate
<1>11. ASSUME NEW s \in Sock, SetCap(s) PROVE HubInv'
  BY <1>11, SlotsKept DEF SetCap
<1>12. ASSUME NEW s \in Sock, ShutdownBegin(s) PROVE HubInv'
  BY <1>12, SlotsKept DEF ShutdownBegin
<1>13. ASSUME NEW s \in Sock, ShutdownUnmap(s) PROVE HubInv'
  BY <1>13, SlotsKept DEF ShutdownUnmap
<1>14. ASSUME NEW s \in Sock, ShutdownRemove(s) PROVE HubInv'
  BY <1>14, SlotsKept DEF ShutdownRemove
<1>15. ASSUME NEW s \in Sock, ShutdownForget(s) PROVE HubInv'
  BY <1>15, SlotsKept DEF ShutdownForget
<1>16. ASSUME NEW w \in Worker, Sweep(w) PROVE HubInv'
  BY <1>16, SlotsKept DEF Sweep
<1>17. CASE UNCHANGED vars
  BY <1>17, SlotsKept DEF vars
<1> QED
  BY <1>1, <1>2, <1>3, <1>4, <1>5, <1>6, <1>7, <1>8, <1>9, <1>10, <1>11, <1>12, <1>13,
     <1>14, <1>15, <1>16, <1>17
     DEF Next, HandleConn, Dispatch, Shutdown

LEMMA HubInvariant == Spec => []HubInv
  BY HubInit, HubNext, PTL DEF Spec

(* Every variable of the hub keeps its type; the semaphore's count stays   *)
(* between zero and its capacity.                                          *)
THEOREM TypeCorrect == Spec => []TypeOK
<1>1. HubInv => TypeOK
  BY DEF HubInv
<1> QED
  BY <1>1, HubInvariant, PTL

(* The superseder's eager release and the connection's deferred release    *)
(* never return the same token twice, and no token is lost.                *)
THEOREM SlotsAddUp == Spec => []SlotAccounting
<1>1. HubInv => SlotAccounting
  BY DEF HubInv
<1> QED
  BY <1>1, HubInvariant, PTL

(* No race of registrations, supersedes and shutdowns admits more than     *)
(* MaxConnections connections.                                             *)
THEOREM ConnectionCapHolds == Spec => []ConnectionCap
<1>1. HubInv => ConnectionCap
  <2> SUFFICES ASSUME HubInv PROVE ConnectionCap
    OBVIOUS
  <2>1. Registered \subseteq Held
    BY DEF HubInv, RegisteredHold, Registered, Held
  <2>2. Cardinality(Registered) \in Nat /\ Cardinality(Registered) <= Cardinality(Held)
    BY <2>1, HeldFinite, FS_Subset, FS_CardinalityType
  <2>3. Cardinality(Held) <= MaxConnections /\ Cardinality(Held) \in Nat
    BY HeldFinite, WSHubAssumption DEF HubInv, SlotAccounting, TypeOK
  <2> QED
    BY <2>1, <2>2, <2>3, WSHubAssumption DEF ConnectionCap
<1> QED
  BY <1>1, HubInvariant, PTL

(* Client(id) only finds connections of that worker which have not gone    *)
(* through the unmapping step of their shutdown.                           *)
THEOREM MapIsLive == Spec => []MapHoldsLiveConnections
<1>1. HubInv => MapHoldsLiveConnections
  BY DEF HubInv
<1> QED
  BY <1>1, HubInvariant, PTL

(* The late shutdown of a superseded connection does not take its          *)
(* successor out of the map.                                               *)
THEOREM SuccessorKept == Spec => SuccessorKeepsItsEntry
<1> DEFINE A == \A w \in Worker : conns[w] # None /\ conns'[w] = None
                  => shut[conns[w]] = "closing"
<1>1. ASSUME TypeOK, [Next]_vars PROVE [A]_vars
  <2> USE WSHubAssumption DEF TypeOK
  <2>1. CASE conns' = conns
    BY <2>1
  <2>2. ASSUME NEW s \in Sock, Insert(s) PROVE A
    BY <2>2 DEF Insert
  <2>3. ASSUME NEW s \in Sock, ShutdownUnmap(s) PROVE A
    BY <2>3 DEF ShutdownUnmap
  <2>4. \/ conns' = conns
        \/ \E s \in Sock : Insert(s) \/ ShutdownUnmap(s)
    BY <1>1 DEF Next, HandleConn, Dispatch, Shutdown, RejectInvalid, CollisionCheck, Supersede,
       Acquire, AcquireFails, Announce, ReaderReturns, Read, BridgeUpdate, SetCap,
       ShutdownBegin, ShutdownRemove, ShutdownForget, Sweep, vars
  <2> QED
    BY <2>1, <2>2, <2>3, <2>4
<1> QED
  BY <1>1, TypeCorrect, PTL DEF Spec, SuccessorKeepsItsEntry
=============================================================================
