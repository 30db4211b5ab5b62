------------------------------ MODULE Registry ------------------------------
(***************************************************************************)
(* The in-memory worker registry (internal/registry/memory.go) and the     *)
(* channel of its subscriber.  The router's request path has one           *)
(* subscriber, the capability cache (module CapabilityCache, which adds    *)
(* the consumer and the specification); the log printer of cmd/router is   *)
(* another, independent channel.                                           *)
(*                                                                         *)
(* Time is counted in CheckIntervals since a worker was last seen, up to   *)
(* RemoveTTL.  A reported status is "available"; the registry itself sets  *)
(* "unavailable" together with the available flag, so one value stands for *)
(* both.                                                                   *)
(***************************************************************************)
EXTENDS Naturals, Sequences

CONSTANTS
  Worker,
  UnavailableTTL, RemoveTTL, \* registry.Config, in CheckIntervals
  ChanCap,                   \* capacity of a subscriber channel (32)
  MaxSubFailures,            \* consecutive failed probes tolerated (12)
  MaxEvents                  \* bound: discovery events fed to the registry

NoWorker == "no worker"

ASSUME RegistryAssumption ==
  /\ UnavailableTTL \in Nat \ {0} /\ RemoveTTL \in Nat
  /\ UnavailableTTL <= RemoveTTL
  /\ ChanCap \in Nat \ {0}
  /\ MaxSubFailures \in Nat
  /\ MaxEvents \in Nat

(* A probe is about no worker. *)
ASSUME ProbeAssumption == NoWorker \notin Worker

VARIABLES
  entry,      \* r.workers: absent, available or unavailable
  age,        \* CheckIntervals since lastSeen
  left,       \* workers checkStale has yet to look at (it holds r.mu)
  sweep,      \* progress of one sweepLoop iteration
  ch,         \* the subscriber's channel
  subscribed, \* the channel is still in r.subs
  failures,   \* r.subFailures of the channel
  stale,      \* workers whose latest event never reached the channel
  events      \* discovery events handled so far

regVars == <<entry, age, left, sweep, ch, subscribed, failures, stale, events>>
subVars == <<sweep, subscribed, failures>>

Probe == [type |-> "probe", worker |-> NoWorker]

RegistryInit ==
  /\ entry = [w \in Worker |-> "absent"]
  /\ age = [w \in Worker |-> 0]
  /\ left = {}
  /\ sweep = "idle"
  /\ ch = <<>>
  /\ subscribed = TRUE
  /\ failures = 0
  /\ stale = {}
  /\ events = 0

(* broadcast: a non-blocking send, dropped when the channel is full. *)
Broadcast(type, w) ==
  IF subscribed /\ Len(ch) < ChanCap
    THEN ch' = Append(ch, [type |-> type, worker |-> w]) /\ stale' = stale \ {w}
    ELSE ch' = ch /\ stale' = stale \cup {w}

-----------------------------------------------------------------------------
(* HandleEvent.  r.mu excludes checkStale, which holds it to the end.      *)

Handling ==
  /\ left = {}
  /\ events < MaxEvents
  /\ events' = events + 1
  /\ UNCHANGED <<left, subVars>>

(* EventAdded and EventUpdated do the same. *)
HandleSeen(w) ==
  /\ Handling
  /\ entry' = [entry EXCEPT ![w] = "available"]
  /\ age' = [age EXCEPT ![w] = 0]
  /\ Broadcast(IF entry[w] = "available" THEN "updated" ELSE "added", w)

HandleRemoved(w) ==
  /\ Handling
  /\ entry[w] # "absent"
  /\ entry' = [entry EXCEPT ![w] = "absent"]
  /\ Broadcast("removed", w)
  /\ UNCHANGED age

HandleExpired(w) ==
  /\ Handling
  /\ entry[w] = "available"
  /\ entry' = [entry EXCEPT ![w] = "unavailable"]
  /\ Broadcast("unavailable", w)
  /\ UNCHANGED age

-----------------------------------------------------------------------------
(* sweepLoop: checkStale, then pruneSubs.                                  *)

(* The ticker fires: one CheckInterval has passed.  checkStale takes r.mu  *)
(* and reads the clock.                                                    *)
SweepBegin ==
  /\ sweep = "idle"
  /\ sweep' = "checking"
  /\ age' = [w \in Worker |->
               IF entry[w] # "absent" /\ age[w] < RemoveTTL THEN age[w] + 1 ELSE age[w]]
  /\ left' = {w \in Worker : entry[w] # "absent"}
  /\ UNCHANGED <<entry, ch, subscribed, failures, stale, events>>

(* Mutant: an entry turns unavailable without an event. *)
CheckStaleSilent(w) ==
  /\ w \in left
  /\ left' = left \ {w}
  /\ CASE age[w] >= RemoveTTL ->
            entry' = [entry EXCEPT ![w] = "absent"] /\ Broadcast("removed", w)
       [] age[w] < RemoveTTL /\ age[w] >= UnavailableTTL /\ entry[w] = "available" ->
            entry' = [entry EXCEPT ![w] = "unavailable"] /\ UNCHANGED <<ch, stale>>
       [] OTHER -> UNCHANGED <<entry, ch, stale>>
  /\ UNCHANGED <<age, subVars, events>>

(* Mutant: an unavailable entry is never removed. *)
CheckStaleKeeps(w) ==
  /\ w \in left
  /\ left' = left \ {w}
  /\ CASE age[w] >= RemoveTTL /\ entry[w] = "available" ->
            entry' = [entry EXCEPT ![w] = "absent"] /\ Broadcast("removed", w)
       [] age[w] < RemoveTTL /\ age[w] >= UnavailableTTL /\ entry[w] = "available" ->
            entry' = [entry EXCEPT ![w] = "unavailable"] /\ Broadcast("unavailable", w)
       [] OTHER -> UNCHANGED <<entry, ch, stale>>
  /\ UNCHANGED <<age, subVars, events>>

(* One turn of checkStale's loop; the map is visited in any order. *)
CheckStale(w) ==
  /\ w \in left
  /\ left' = left \ {w}
  /\ CASE age[w] >= RemoveTTL ->
            entry' = [entry EXCEPT ![w] = "absent"] /\ Broadcast("removed", w)
       [] age[w] < RemoveTTL /\ age[w] >= UnavailableTTL /\ entry[w] = "available" ->
            entry' = [entry EXCEPT ![w] = "unavailable"] /\ Broadcast("unavailable", w)
       [] OTHER -> UNCHANGED <<entry, ch, stale>>
  /\ UNCHANGED <<age, subVars, events>>

PruneSubs ==
  /\ sweep = "checking" /\ left = {}
  /\ sweep' = "idle"
  /\ CASE ~subscribed -> UNCHANGED <<ch, subscribed, failures>>
       [] subscribed /\ Len(ch) < ChanCap ->
            ch' = Append(ch, Probe) /\ failures' = 0 /\ UNCHANGED subscribed
       [] subscribed /\ Len(ch) >= ChanCap /\ failures < MaxSubFailures ->
            failures' = failures + 1 /\ UNCHANGED <<ch, subscribed>>
       [] OTHER -> subscribed' = FALSE /\ failures' = 0 /\ UNCHANGED ch
  /\ UNCHANGED <<entry, age, left, stale, events>>

HandleEvent(w) == HandleSeen(w) \/ HandleRemoved(w) \/ HandleExpired(w)

SweepStep == SweepBegin \/ PruneSubs \/ \E w \in Worker : CheckStale(w)

RegistryStep == SweepStep \/ \E w \in Worker : HandleEvent(w)
=============================================================================
