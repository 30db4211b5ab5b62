-------------------------- MODULE CapabilityCache ---------------------------
(***************************************************************************)
(* The router's capability cache (pkg/router/capability_cache.go) fed by   *)
(* the registry's events: what /v1/workers, /v1/models and worker          *)
(* selection read.  One goroutine consumes the subscription; Update seeds  *)
(* the cache, fetches the worker's capabilities (over HTTP unless the      *)
(* worker is a WebSocket one) and writes them.                             *)
(*                                                                         *)
(* An entry is reduced to its presence: the cache's keys and the keys of   *)
(* the inference-stats map.                                                *)
(***************************************************************************)
EXTENDS Registry

(* Workers whose fetch comes to an end: a WebSocket worker needs none, the *)
(* plain HTTP client gives up after 5 seconds.  The mTLS client has no     *)
(* timeout and the request no context: a silent mTLS worker is not timely. *)
CONSTANT Timely

ASSUME TimelyAssumption == Timely \subseteq Worker

VARIABLES
  cache, \* keys of c.cache
  stats, \* keys of c.inferenceStats
  loop   \* what the event goroutine is doing, and for which worker

vars == <<regVars, cache, stats, loop>>

Waiting == [at |-> "waiting", worker |-> NoWorker]

Init ==
  /\ RegistryInit
  /\ cache = {}
  /\ stats = {}
  /\ loop = Waiting

Receive ==
  /\ loop.at = "waiting"
  /\ ch # <<>>
  /\ ch' = Tail(ch)
  /\ UNCHANGED <<entry, age, left, subVars, stale, events, stats>>

(* Update: the entry is visible before its capabilities are known. *)
TakeSeen ==
  /\ Receive
  /\ Head(ch).type \in {"added", "updated"}
  /\ cache' = cache \cup {Head(ch).worker}
  /\ loop' = [at |-> "fetching", worker |-> Head(ch).worker]

(* Mutant: the stats are not deleted. *)
TakeGoneKeepsStats ==
  /\ Receive
  /\ Head(ch).type \in {"removed", "unavailable"}
  /\ cache' = cache \ {Head(ch).worker}
  /\ UNCHANGED loop

(* The cache entry goes first, the stats under their own lock after it. *)
TakeGone ==
  /\ Receive
  /\ Head(ch).type \in {"removed", "unavailable"}
  /\ cache' = cache \ {Head(ch).worker}
  /\ loop' = [at |-> "forgetting", worker |-> Head(ch).worker]

TakeProbe ==
  /\ Receive
  /\ Head(ch).type = "probe"
  /\ UNCHANGED <<cache, loop>>

FetchSucceeds ==
  /\ loop.at = "fetching"
  /\ cache' = cache \cup {loop.worker}
  /\ loop' = [loop EXCEPT !.at = "fetched"]
  /\ UNCHANGED <<regVars, stats>>

FetchFails ==
  /\ loop.at = "fetching"
  /\ loop' = Waiting
  /\ UNCHANGED <<regVars, cache, stats>>

(* setInferenceStats: an empty advertised list clears the worker's stats. *)
SetInferenceStats ==
  /\ loop.at = "fetched"
  /\ stats' \in {stats \cup {loop.worker}, stats \ {loop.worker}}
  /\ loop' = Waiting
  /\ UNCHANGED <<regVars, cache>>

DeleteInferenceStats ==
  /\ loop.at = "forgetting"
  /\ stats' = stats \ {loop.worker}
  /\ loop' = Waiting
  /\ UNCHANGED <<regVars, cache>>

CacheStep ==
  \/ TakeSeen \/ TakeGone \/ TakeProbe \/ FetchSucceeds \/ FetchFails
  \/ SetInferenceStats \/ DeleteInferenceStats

Next ==
  \/ RegistryStep /\ UNCHANGED <<cache, stats, loop>>
  \/ CacheStep

Spec == Init /\ [][Next]_vars

(* The goroutine is in a fetch that nothing bounds. *)
FetchHangs == loop.at = "fetching" /\ loop.worker \notin Timely

(* The sweep ticker fires and the cache goroutine runs, except that a      *)
(* fetch without a timeout need not end.  Discovery is not fair.           *)
Fairness ==
  /\ WF_vars(SweepStep /\ UNCHANGED <<cache, stats, loop>>)
  /\ WF_vars(~FetchHangs /\ CacheStep)

FairSpec == Spec /\ Fairness

-----------------------------------------------------------------------------
(* Properties.                                                             *)

Event == [type : {"added", "updated", "unavailable", "removed"}, worker : Worker]

(* The type invariant; the channel never holds more than its capacity. *)
TypeOK ==
  /\ entry \in [Worker -> {"absent", "available", "unavailable"}]
  /\ age \in [Worker -> 0..RemoveTTL]
  /\ left \subseteq Worker
  /\ sweep \in {"idle", "checking"}
  /\ ch \in Seq(Event \cup {Probe}) /\ Len(ch) <= ChanCap
  /\ subscribed \in BOOLEAN
  /\ failures \in 0..MaxSubFailures
  /\ stale \subseteq Worker
  /\ events \in 0..MaxEvents
  /\ cache \subseteq Worker
  /\ stats \subseteq Worker
  /\ loop \in [at : {"waiting", "fetching", "fetched", "forgetting"},
               worker : Worker \cup {NoWorker}]

(* What the cache will say of w once it has consumed what is queued.       *)
Queued(w) == {i \in 1..Len(ch) : ch[i].worker = w}
Replayed(w) ==
  IF Queued(w) = {}
    THEN w \in cache
    ELSE \E i \in Queued(w) : /\ \A j \in Queued(w) : j <= i
                              /\ ch[i].type \in {"added", "updated"}

(* The cache is the registry, behind by exactly the events still queued:   *)
(* for every worker whose latest event was not dropped, consuming the      *)
(* queue leaves it in the cache if and only if it is available.  One       *)
(* delivered event repairs every earlier drop for that worker.             *)
ReplayMatchesRegistry ==
  \A w \in Worker \ stale : Replayed(w) <=> entry[w] = "available"

(* Throughput data is kept only for a worker the cache still lists, but    *)
(* for the moment between the two deletions of a departing worker.         *)
StatsOnlyForCached ==
  stats \subseteq cache \cup (IF loop.at = "forgetting" THEN {loop.worker} ELSE {})

(* When discovery falls silent, every worker leaves the registry, and the  *)
(* cache and stats forget all those whose last event was not dropped; but  *)
(* one worker that takes a fetch over mTLS and does not answer it stops    *)
(* the cache's only goroutine for good.                                    *)
SilentWorkersForgotten ==
  /\ <>[](\A w \in Worker : entry[w] = "absent")
  /\ \/ <>[](\A w \in Worker : w \in stale \/ w \notin cache \cup stats)
     \/ <>[]FetchHangs
=============================================================================
