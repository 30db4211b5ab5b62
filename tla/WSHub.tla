------------------------------- MODULE WSHub --------------------------------
(***************************************************************************)
(* Direct worker connections of the router's WebSocket hub                 *)
(* (pkg/router/ws_hub.go, ws_conn.go): registration, supersede, the        *)
(* connection semaphore, shutdown, and what they do to the registry.       *)
(*                                                                         *)
(* One handleConn goroutine per upgraded socket, plus the writer loop and  *)
(* the grace timer of enqueueClose, either of which may run the socket's   *)
(* shutdown while the reader is still inside dispatch.  A step is one      *)
(* critical section of h.mu, of the registry or of the semaphore.          *)
(*                                                                         *)
(* The registry is reduced to the IP an entry carries (the field the       *)
(* collision check reads); its own state machine is in Registry.  The      *)
(* calls a shutdown fails are in PendingCalls.                             *)
(***************************************************************************)
EXTENDS Naturals, FiniteSets

CONSTANTS
  Sock,           \* upgraded sockets; each carries one register message
  Worker,         \* worker IDs
  IP,             \* addresses
  WorkerOf,       \* the worker ID a socket registers
  PeerOf,         \* the peer address of a socket
  SelfIP,         \* the address a worker puts in its own WorkerInfo
  MaxConnections, \* h.maxConnections: capacity of connSem
  None

ASSUME WSHubAssumption ==
  /\ IsFiniteSet(Sock)
  /\ WorkerOf \in [Sock -> Worker]
  /\ PeerOf \in [Sock -> IP]
  /\ SelfIP \in [Worker -> IP]
  /\ MaxConnections \in Nat \ {0}
  /\ None \notin Sock /\ None \notin IP

VARIABLES
  pc,     \* progress of handleConn
  conns,  \* h.conns
  sem,    \* len(h.connSem)
  slot,   \* conn.slot and slotReleased
  asked,  \* enqueueClose was called: the peer is asked to close and the
          \* grace timer runs
  shut,   \* progress of conn.shutdown
  rd,     \* what the reader loop is dispatching
  info,   \* the IP in conn.worker, the connection's WorkerInfo snapshot
  reg,    \* the registry: the IP of each entry
  over    \* workers with an entry in h.workerMaxInFlight

vars == <<pc, conns, sem, slot, asked, shut, rd, info, reg, over>>

Held == {s \in Sock : slot[s] = "held"}

Init ==
  /\ pc = [s \in Sock |-> "upgraded"]
  /\ conns = [w \in Worker |-> None]
  /\ sem = 0
  /\ slot = [s \in Sock |-> "none"]
  /\ asked = [s \in Sock |-> FALSE]
  /\ shut = [s \in Sock |-> "open"]
  /\ rd = [s \in Sock |-> "idle"]
  /\ info = PeerOf
  /\ reg = [w \in Worker |-> None]
  /\ over = {}

-----------------------------------------------------------------------------
(* handleConn.                                                             *)

(* A bad first frame, payload, API key or peer address: the socket is      *)
(* closed before anything is allocated.                                    *)
RejectInvalid(s) ==
  /\ pc[s] = "upgraded"
  /\ pc' = [pc EXCEPT ![s] = "refused"]
  /\ UNCHANGED <<conns, sem, slot, asked, shut, rd, info, reg, over>>

(* The collision check against the registry. *)
CollisionCheck(s) ==
  LET existing == reg[WorkerOf[s]]
  IN /\ pc[s] = "upgraded"
     /\ pc' = [pc EXCEPT ![s] =
                 IF existing \in {None, PeerOf[s]} THEN "checked" ELSE "collision"]
     /\ UNCHANGED <<conns, sem, slot, asked, shut, rd, info, reg, over>>

(* Mutant: releaseSlot without slotReleased. *)
SemAfterReleaseTwice(s) == sem - 1

(* releaseSlot, once: what it leaves of the semaphore and the slots. *)
SemAfterRelease(s) == IF slot[s] = "held" THEN sem - 1 ELSE sem
SlotAfterRelease(s) == [slot EXCEPT ![s] = "released"]

(* The incumbent found under h.mu gives up its slot and is asked to close. *)
Supersede(s) ==
  LET old == conns[WorkerOf[s]]
  IN /\ pc[s] = "checked"
     /\ pc' = [pc EXCEPT ![s] = "acquiring"]
     /\ IF old = None
          THEN UNCHANGED <<sem, slot, asked>>
          ELSE /\ sem' = SemAfterRelease(old)
               /\ slot' = SlotAfterRelease(old)
               /\ asked' = [asked EXCEPT ![old] = TRUE]
     /\ UNCHANGED <<conns, shut, rd, info, reg, over>>

(* Mutant: one connection too many. *)
AcquireOffByOne(s) ==
  /\ pc[s] = "acquiring"
  /\ sem <= MaxConnections
  /\ sem' = sem + 1
  /\ slot' = [slot EXCEPT ![s] = "held"]
  /\ pc' = [pc EXCEPT ![s] = "slotted"]
  /\ UNCHANGED <<conns, asked, shut, rd, info, reg, over>>

(* acquireConn never waits: the select has a default. *)
Acquire(s) ==
  /\ pc[s] = "acquiring"
  /\ sem < MaxConnections
  /\ sem' = sem + 1
  /\ slot' = [slot EXCEPT ![s] = "held"]
  /\ pc' = [pc EXCEPT ![s] = "slotted"]
  /\ UNCHANGED <<conns, asked, shut, rd, info, reg, over>>

AcquireFails(s) ==
  /\ pc[s] = "acquiring"
  /\ sem >= MaxConnections
  /\ pc' = [pc EXCEPT ![s] = "refused"]
  /\ UNCHANGED <<conns, sem, slot, asked, shut, rd, info, reg, over>>

Insert(s) ==
  /\ pc[s] = "slotted"
  /\ conns' = [conns EXCEPT ![WorkerOf[s]] = s]
  /\ pc' = [pc EXCEPT ![s] = "mapped"]
  /\ UNCHANGED <<sem, slot, asked, shut, rd, info, reg, over>>

(* bridge(EventAdded) with the peer's address, then the loops start. *)
Announce(s) ==
  /\ pc[s] = "mapped"
  /\ reg' = [reg EXCEPT ![WorkerOf[s]] = PeerOf[s]]
  /\ pc' = [pc EXCEPT ![s] = "serving"]
  /\ UNCHANGED <<conns, sem, slot, asked, shut, rd, info, over>>

(* readerLoop has returned, its deferred shutdown included; the deferred   *)
(* releaseSlot of handleConn.                                              *)
ReaderReturns(s) ==
  /\ pc[s] = "serving"
  /\ shut[s] = "done" /\ rd[s] = "idle"
  /\ pc' = [pc EXCEPT ![s] = "ended"]
  /\ sem' = SemAfterRelease(s)
  /\ slot' = SlotAfterRelease(s)
  /\ UNCHANGED <<conns, asked, shut, rd, info, reg, over>>

-----------------------------------------------------------------------------
(* dispatch, in the reader goroutine.  A message read before the socket    *)
(* was closed is still processed to the end.                               *)

(* A heartbeat replaces the snapshot by the worker's own WorkerInfo; a     *)
(* capabilities message keeps the snapshot's address.                      *)
Read(s, m) ==
  /\ pc[s] = "serving"
  /\ shut[s] = "open" /\ rd[s] = "idle"
  /\ rd' = [rd EXCEPT ![s] = m]
  /\ info' = IF m = "heartbeat" THEN [info EXCEPT ![s] = SelfIP[WorkerOf[s]]] ELSE info
  /\ UNCHANGED <<pc, conns, sem, slot, asked, shut, reg, over>>

(* bridge(EventUpdated) with the snapshot. *)
BridgeUpdate(s) ==
  /\ rd[s] \in {"heartbeat", "capabilities"}
  /\ reg' = [reg EXCEPT ![WorkerOf[s]] = info[s]]
  /\ rd' = [rd EXCEPT ![s] = IF @ = "heartbeat" THEN "idle" ELSE "setcap"]
  /\ UNCHANGED <<pc, conns, sem, slot, asked, shut, info, over>>

(* SetWorkerMaxInFlight at the end of a capabilities message, if the       *)
(* message carries a cap.                                                  *)
SetCap(s) ==
  /\ rd[s] = "setcap"
  /\ over' \in {over, over \cup {WorkerOf[s]}}
  /\ rd' = [rd EXCEPT ![s] = "idle"]
  /\ UNCHANGED <<pc, conns, sem, slot, asked, shut, info, reg>>

-----------------------------------------------------------------------------
(* shutdown, run once by the reader, the writer or the grace timer.        *)

(* Mutant: enqueueClose arms no timer. *)
ShutdownBeginNoGrace(s) ==
  /\ shut[s] = "open"
  /\ pc[s] = "serving" /\ ~asked[s]
  /\ shut' = [shut EXCEPT ![s] = "closing"]
  /\ UNCHANGED <<pc, conns, sem, slot, asked, rd, info, reg, over>>

(* close(doneCh), ws.Close().  The loops only run once serving; the grace  *)
(* timer of a superseder that found the socket in the map may come first.  *)
ShutdownBegin(s) ==
  /\ shut[s] = "open"
  /\ pc[s] = "serving" \/ (pc[s] = "mapped" /\ asked[s])
  /\ shut' = [shut EXCEPT ![s] = "closing"]
  /\ UNCHANGED <<pc, conns, sem, slot, asked, rd, info, reg, over>>

(* Mutant: the map entry is left behind. *)
ShutdownUnmapNever(s) ==
  /\ shut[s] = "closing"
  /\ shut' = [shut EXCEPT ![s] = "unmapped"]
  /\ conns' = conns
  /\ UNCHANGED <<pc, sem, slot, asked, rd, info, reg, over>>

(* Mutant: whatever is in the map is deleted. *)
ShutdownUnmapAlways(s) ==
  /\ shut[s] = "closing"
  /\ shut' = [shut EXCEPT ![s] = "unmapped"]
  /\ conns' = [conns EXCEPT ![WorkerOf[s]] = None]
  /\ UNCHANGED <<pc, sem, slot, asked, rd, info, reg, over>>

ShutdownUnmap(s) ==
  /\ shut[s] = "closing"
  /\ shut' = [shut EXCEPT ![s] = "unmapped"]
  /\ conns' = IF conns[WorkerOf[s]] = s
                THEN [conns EXCEPT ![WorkerOf[s]] = None] ELSE conns
  /\ UNCHANGED <<pc, sem, slot, asked, rd, info, reg, over>>

(* bridge(EventRemoved): HandleEvent, then HandleRegistryEvent. *)
ShutdownRemove(s) ==
  /\ shut[s] = "unmapped"
  /\ shut' = [shut EXCEPT ![s] = "removed"]
  /\ reg' = [reg EXCEPT ![WorkerOf[s]] = None]
  /\ UNCHANGED <<pc, conns, sem, slot, asked, rd, info, over>>

ShutdownForget(s) ==
  /\ shut[s] = "removed"
  /\ shut' = [shut EXCEPT ![s] = "done"]
  /\ over' = over \ {WorkerOf[s]}
  /\ UNCHANGED <<pc, conns, sem, slot, asked, rd, info, reg>>

-----------------------------------------------------------------------------

(* Mutant: a connection that ended still counts. *)
RefreshedByAny(w) ==
  \E s \in Sock : WorkerOf[s] = w /\ pc[s] \in {"mapped", "serving", "ended"}

(* The registry's sweep drops an entry nobody refreshes: no reader is left *)
(* that could bridge a heartbeat for it (a connected worker heartbeats     *)
(* every 30 s, RemoveTTL is 120 s).                                        *)
Refreshed(w) ==
  \E s \in Sock : WorkerOf[s] = w /\ pc[s] \in {"mapped", "serving"}

Sweep(w) ==
  /\ reg[w] # None
  /\ ~Refreshed(w)
  /\ reg' = [reg EXCEPT ![w] = None]
  /\ UNCHANGED <<pc, conns, sem, slot, asked, shut, rd, info, over>>

HandleConn(s) ==
  \/ RejectInvalid(s) \/ CollisionCheck(s) \/ Supersede(s) \/ Acquire(s)
  \/ AcquireFails(s) \/ Insert(s) \/ Announce(s) \/ ReaderReturns(s)

Dispatch(s) ==
  \/ \E m \in {"heartbeat", "capabilities"} : Read(s, m)
  \/ BridgeUpdate(s) \/ SetCap(s)

Shutdown(s) ==
  ShutdownBegin(s) \/ ShutdownUnmap(s) \/ ShutdownRemove(s) \/ ShutdownForget(s)

Next ==
  \/ \E s \in Sock : HandleConn(s) \/ Dispatch(s) \/ Shutdown(s)
  \/ \E w \in Worker : Sweep(w)

Spec == Init /\ [][Next]_vars

(* What the goroutine of a socket does by itself once a message is there. *)
Proceed(s) ==
  \/ CollisionCheck(s) \/ Supersede(s) \/ Acquire(s) \/ AcquireFails(s)
  \/ Insert(s) \/ Announce(s) \/ ReaderReturns(s) \/ BridgeUpdate(s) \/ SetCap(s)

(* Goroutines that can run do run; the grace timer of enqueueClose fires;  *)
(* the registry sweeps.  Peers need neither send nor close anything.       *)
Fairness ==
  /\ \A s \in Sock :
       /\ WF_vars(Proceed(s))
       /\ WF_vars(asked[s] /\ ShutdownBegin(s))
       /\ WF_vars(ShutdownUnmap(s) \/ ShutdownRemove(s) \/ ShutdownForget(s))
  /\ \A w \in Worker : WF_vars(Sweep(w))

FairSpec == Spec /\ Fairness

-----------------------------------------------------------------------------
(* Properties.                                                             *)

Finished == {"refused", "collision", "ended"}

(* The type invariant. *)
TypeOK ==
  /\ pc \in [Sock -> {"upgraded", "checked", "acquiring", "slotted", "mapped",
                      "serving"} \cup Finished]
  /\ conns \in [Worker -> Sock \cup {None}]
  /\ sem \in 0..MaxConnections
  /\ slot \in [Sock -> {"none", "held", "released"}]
  /\ asked \in [Sock -> BOOLEAN]
  /\ shut \in [Sock -> {"open", "closing", "unmapped", "removed", "done"}]
  /\ rd \in [Sock -> {"idle", "heartbeat", "capabilities", "setcap"}]
  /\ info \in [Sock -> IP]
  /\ reg \in [Worker -> IP \cup {None}]
  /\ over \subseteq Worker

(* The semaphore holds exactly one token per connection that owns a slot:  *)
(* the eager release by a superseder and the deferred release by the       *)
(* connection itself never return the same token twice, and none is lost.  *)
SlotAccounting == sem = Cardinality(Held)

(* Every registered connection that was not told to close owns a slot, so  *)
(* no race of registrations, supersedes and shutdowns admits more than     *)
(* MaxConnections of them.                                                 *)
Registered == {s \in Sock : pc[s] \in {"slotted", "mapped", "serving"} /\ ~asked[s]}
ConnectionCap == Registered \subseteq Held /\ Cardinality(Registered) <= MaxConnections

(* Client(id) never hands out a connection whose shutdown has left the map *)
(* behind it, or one that belongs to another worker.                       *)
MapHoldsLiveConnections ==
  \A w \in Worker : conns[w] # None =>
    /\ WorkerOf[conns[w]] = w
    /\ pc[conns[w]] \in {"mapped", "serving"}
    /\ shut[conns[w]] \in {"open", "closing"}

(* A connection leaves the map by its own shutdown or because a newer one  *)
(* takes its place; the late shutdown of the old one does not evict it.    *)
SuccessorKeepsItsEntry ==
  [][\A w \in Worker : conns[w] # None /\ conns'[w] = None
       => shut[conns[w]] = "closing"]_vars

(* A superseded connection always ends, and its slot is back by then even  *)
(* if its peer never reacts to the close frame.  (Being asked to close and *)
(* having ended are both for good, so one <>[] says it for all sockets.)   *)
SupersededConnectionEnds ==
  <>[](\A s \in Sock : asked[s] => pc[s] = "ended" /\ slot[s] = "released")

(* Once the last connection of a worker is gone, the registry forgets the  *)
(* worker, even if a late heartbeat re-added it after its shutdown.        *)
DepartedWorkerForgotten ==
  <>[](\A w \in Worker :
         (\A s \in Sock : WorkerOf[s] = w => pc[s] \in Finished) => reg[w] = None)

-----------------------------------------------------------------------------
(* What comments and tests of the code say and the code does not do.       *)

(* ws_hub_caps_test.go: supersede is a 1:1 replacement.  The worker whose  *)
(* connection was replaced is still a registered worker.                   *)
ReplacementStaysRegistered ==
  \A w \in Worker :
    conns[w] # None /\ pc[conns[w]] = "serving" /\ shut[conns[w]] = "open" => reg[w] # None

(* ws_hub.go: one active connection per worker ID. *)
OneActiveConnection ==
  \A s, t \in Sock :
    /\ WorkerOf[s] = WorkerOf[t]
    /\ \A c \in {s, t} : pc[c] = "serving" /\ shut[c] = "open" /\ ~asked[c]
    => s = t

(* ws_hub.go: a re-registration from the same peer is allowed; only an ID  *)
(* claimed by a different peer is refused.                                 *)
SamePeerMayReregister ==
  \A s \in Sock : pc[s] = "collision" =>
    \E t \in Sock : WorkerOf[t] = WorkerOf[s] /\ PeerOf[t] # PeerOf[s]

=============================================================================
