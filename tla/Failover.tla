------------------------------ MODULE Failover ------------------------------
(***************************************************************************)
(* Non-streaming dispatch with failover (pkg/router/dispatch.go and its    *)
(* caller in handlers_chat.go): worker selection over the capability       *)
(* cache, the attempt loop, its retry budget, the request trace, the       *)
(* popularity counter and the HTTP status the client gets.                 *)
(*                                                                         *)
(* Requests run concurrently and all ask for the same model.  The cache    *)
(* changes under them, between the candidate snapshot and the fallback     *)
(* scan as well: each takes the cache's read lock on its own.  Complete is *)
(* reduced to its admission (module PendingCalls), to the requests it puts *)
(* on the network (one frame over WebSocket, up to four POSTs over HTTP)   *)
(* and to its error.  Scores and worker IDs only break ties, so the winner *)
(* is any candidate.                                                       *)
(***************************************************************************)
EXTENDS Naturals, FiniteSets

CONSTANTS
  Req,
  Worker,
  WSWorker,        \* workers reached through the hub; the others are dialled
                   \* over HTTP and have no in-flight cap
  Willing,         \* workers whose AllowedModels / ExcludedModels admit the model
  MaxAttempts,     \* s.maxAttempts
  MaxPosts,        \* POSTs of one postWithRetry (4 in the code)
  Cap,             \* h.maxInFlightFor
  IncludeUnloaded, \* s.scorerWeightsEnabled()
  MaxChanges       \* bound: changes of the cache and of other traffic

ASSUME FailoverAssumption ==
  /\ IsFiniteSet(Worker)
  /\ WSWorker \subseteq Worker /\ Willing \subseteq Worker
  /\ MaxAttempts \in Nat \ {0}
  /\ MaxPosts \in Nat \ {0}
  /\ Cap \in Nat \ {0}
  /\ IncludeUnloaded \in BOOLEAN
  /\ MaxChanges \in Nat

VARIABLES
  cache,    \* what the capability cache says of each worker and the model
  changes,
  pending,  \* the calls in flight on each worker's connection
  at,       \* progress of dispatchWithFailover
  ctx,      \* the request's context: live, over budget or cancelled
  attempt,
  excluded,
  cands,    \* what buildCandidates returned
  chosen,   \* the selected worker
  lastErr,
  recorded, \* counter.Record calls
  posts,    \* how often the Complete call in progress has sent the request
  calls,    \* how often the request was sent to each worker
  trace,    \* this request's rows in the tracker, by status
  status,   \* the HTTP status written to the client
  steady    \* history: workers cached ever since the request arrived

vars == <<cache, changes, pending, at, ctx, attempt, excluded, cands, chosen,
          lastErr, recorded, posts, calls, trace, status, steady>>
sharedVars == <<cache, changes, pending, steady>>
outVars == <<recorded, posts, calls, trace, status>>

NoWorker == "no worker"
Other == "other"   \* a call that is not one of Req
Cached == {w \in Worker : cache[w] # "absent"}
Advertisers == {w \in Worker : cache[w] \in {"advertised", "loaded"}}
Loaded == {w \in Worker : cache[w] = "loaded"}

Init ==
  /\ cache \in [Worker -> {"absent", "other", "advertised", "loaded"}]
  /\ changes = 0
  /\ pending = [w \in Worker |-> {}]
  /\ at = [r \in Req |-> "idle"]
  /\ ctx = [r \in Req |-> "live"]
  /\ attempt = [r \in Req |-> 1]
  /\ excluded = [r \in Req |-> {}]
  /\ cands = [r \in Req |-> {}]
  /\ chosen = [r \in Req |-> NoWorker]
  /\ lastErr = [r \in Req |-> "none"]
  /\ recorded = [r \in Req |-> 0]
  /\ posts = [r \in Req |-> 0]
  /\ calls = [r \in Req |-> [w \in Worker |-> 0]]
  /\ trace = [r \in Req |-> [inflight |-> 0, done |-> 0, error |-> 0]]
  /\ status = [r \in Req |-> "none"]
  /\ steady = [r \in Req |-> {}]

-----------------------------------------------------------------------------
(* Errors, by what isRetryableError and writeFailoverError tell apart:     *)
(* "busy" is a worker's 5xx or 429 status, "refusal" any other status,     *)
(* "closed" is errConnClosed or errRelayDisconnected.                      *)

HTTPErr == {"transport", "busy", "refusal", "deadline"}
WSErr == {"closed", "inference", "parse"}
Err == HTTPErr \cup WSErr \cup {"rateLimited", "canceled", "noWorkers"}

isRetryableError(e) ==
  e \in {"closed", "rateLimited", "inference", "deadline", "busy"}

(* What Complete may return: an expired context is reported by either      *)
(* transport, and the HTTP client has a timeout of its own.                *)
CompleteErr(r) ==
  (IF chosen[r] \in WSWorker THEN WSErr ELSE HTTPErr)
    \cup (IF ctx[r] = "live" THEN {} ELSE {ctx[r]})

(* writeFailoverError.  The sentinel of an exhausted loop wraps the last   *)
(* error and is looked at first.                                           *)
StatusOf(exhausted, e) ==
  CASE exhausted -> "503 all_attempts_failed"
    [] ~exhausted /\ e = "deadline" -> "504 timeout_error"
    [] ~exhausted /\ e \in {"busy", "refusal"} -> "worker's status"
    [] ~exhausted /\ e = "closed" -> "503 connection_error"
    [] OTHER -> "503 no_workers"

Answer(r, s) ==
  /\ at' = [at EXCEPT ![r] = "returned"]
  /\ status' = [status EXCEPT ![r] = s]

-----------------------------------------------------------------------------

Arrive(r) ==
  /\ at[r] = "idle"
  /\ at' = [at EXCEPT ![r] = "loop"]
  /\ steady' = [steady EXCEPT ![r] = Cached]
  /\ UNCHANGED <<cache, changes, pending, ctx, attempt, excluded, cands, chosen,
                 lastErr, outVars>>

(* The head of the loop: the budget is spent, or the client is gone. *)
OverBudget(r) ==
  /\ at[r] = "loop" /\ attempt[r] <= MaxAttempts
  /\ ctx[r] # "live"
  /\ lastErr' = [lastErr EXCEPT ![r] = ctx[r]]
  /\ Answer(r, StatusOf(TRUE, ctx[r]))
  /\ UNCHANGED <<sharedVars, ctx, attempt, excluded, cands, chosen, recorded,
                 posts, calls, trace>>

Exhausted(r) ==
  /\ at[r] = "loop" /\ attempt[r] > MaxAttempts
  /\ Answer(r, StatusOf(TRUE, lastErr[r]))
  /\ UNCHANGED <<sharedVars, ctx, attempt, excluded, cands, chosen, lastErr,
                 recorded, posts, calls, trace>>

(* buildCandidates, under the cache's read lock.  With no loaded worker,   *)
(* every advertiser is asked to load the model; those that do are taken.   *)
BuildCandidates(r) ==
  /\ at[r] = "loop" /\ attempt[r] <= MaxAttempts
  /\ ctx[r] = "live"
  /\ \E autoLoaded \in SUBSET Advertisers :
       /\ Loaded # {} => autoLoaded = {}
       /\ cands' = [cands EXCEPT ![r] =
            IF IncludeUnloaded THEN Advertisers ELSE Loaded \cup autoLoaded]
  /\ at' = [at EXCEPT ![r] = "selecting"]
  /\ UNCHANGED <<sharedVars, ctx, attempt, excluded, chosen, lastErr, outVars>>

(* selectWorkerExcluding, after buildCandidates: the candidates, else the  *)
(* advertisers, else any cached worker, the latter two read under a second *)
(* read lock.  Excluded and unwilling workers are left out of all three.   *)
Eligible(S, r) == {w \in S : w \notin excluded[r] /\ w \in Willing}

(* Mutant: no last resort after the advertisers. *)
SelectableNoLastResort(r) ==
  CASE Eligible(cands[r], r) # {} -> Eligible(cands[r], r)
    [] Eligible(cands[r], r) = {} /\ Eligible(Advertisers, r) # {} ->
         Eligible(Advertisers, r)
    [] OTHER -> {}

Selectable(r) ==
  CASE Eligible(cands[r], r) # {} -> Eligible(cands[r], r)
    [] Eligible(cands[r], r) = {} /\ Eligible(Advertisers, r) # {} ->
         Eligible(Advertisers, r)
    [] OTHER -> Eligible(Cached, r)

(* The request is counted once, by its first selection. *)
Select(r, w) ==
  /\ at[r] = "selecting"
  /\ w \in Selectable(r)
  /\ chosen' = [chosen EXCEPT ![r] = w]
  /\ recorded' = [recorded EXCEPT ![r] = IF @ = 0 THEN 1 ELSE @]
  /\ at' = [at EXCEPT ![r] = "selected"]
  /\ UNCHANGED <<sharedVars, ctx, attempt, excluded, cands, lastErr, posts,
                 calls, trace, status>>

(* Mutant: a failed selection does not use up an attempt. *)
SelectFailsForever(r) ==
  /\ at[r] = "selecting"
  /\ Selectable(r) = {}
  /\ lastErr' = [lastErr EXCEPT ![r] = "noWorkers"]
  /\ UNCHANGED attempt
  /\ at' = [at EXCEPT ![r] = "loop"]
  /\ UNCHANGED <<sharedVars, ctx, excluded, cands, chosen, outVars>>

SelectFails(r) ==
  /\ at[r] = "selecting"
  /\ Selectable(r) = {}
  /\ lastErr' = [lastErr EXCEPT ![r] = "noWorkers"]
  /\ attempt' = [attempt EXCEPT ![r] = @ + 1]
  /\ at' = [at EXCEPT ![r] = "loop"]
  /\ UNCHANGED <<sharedVars, ctx, excluded, cands, chosen, outVars>>

(* isRateLimited; addPending looks again when Complete registers.          *)
AtCap(w) == w \in WSWorker /\ Cardinality(pending[w]) >= Cap

TryNext(r, e) ==
  /\ excluded' = [excluded EXCEPT ![r] = @ \cup {chosen[r]}]
  /\ lastErr' = [lastErr EXCEPT ![r] = e]
  /\ attempt' = [attempt EXCEPT ![r] = @ + 1]
  /\ at' = [at EXCEPT ![r] = "loop"]

RateLimited(r) ==
  /\ at[r] = "selected"
  /\ AtCap(chosen[r])
  /\ TryNext(r, "rateLimited")
  /\ UNCHANGED <<sharedVars, ctx, cands, chosen, outVars>>

(* tracker.Begin, then client.Complete. *)
Dispatch(r) ==
  /\ at[r] = "selected"
  /\ ~AtCap(chosen[r])
  /\ trace' = [trace EXCEPT ![r].inflight = @ + 1]
  /\ at' = [at EXCEPT ![r] = "calling"]
  /\ UNCHANGED <<sharedVars, ctx, attempt, excluded, cands, chosen, lastErr,
                 recorded, posts, calls, status>>

Sent(r, n) ==
  /\ posts' = [posts EXCEPT ![r] = n]
  /\ calls' = [calls EXCEPT ![r][chosen[r]] = @ + 1]

(* The call is registered on the worker's connection and its frame queued, *)
(* or the first POST goes out.                                             *)
Admit(r) ==
  /\ at[r] = "calling"
  /\ ~AtCap(chosen[r])
  /\ pending' = [pending EXCEPT ![chosen[r]] = @ \cup {r}]
  /\ Sent(r, 1)
  /\ at' = [at EXCEPT ![r] = "waiting"]
  /\ UNCHANGED <<cache, changes, steady, ctx, attempt, excluded, cands, chosen,
                 lastErr, recorded, trace, status>>

(* postWithRetry: client.Do failed, also when the worker may have begun to *)
(* work on the request, and the same body is POSTed to the same worker.    *)
(* With a finished context client.Do sends nothing.                        *)
Repost(r) ==
  /\ at[r] = "waiting" /\ chosen[r] \notin WSWorker
  /\ ctx[r] = "live"
  /\ posts[r] < MaxPosts
  /\ Sent(r, posts[r] + 1)
  /\ UNCHANGED <<sharedVars, at, ctx, attempt, excluded, cands, chosen, lastErr,
                 recorded, trace, status>>

(* Complete returned e: the trace row ends, then failover or fail fast. *)
Failed(r, e) ==
  /\ trace' = [trace EXCEPT ![r].inflight = @ - 1, ![r].error = @ + 1]
  /\ IF isRetryableError(e)
       THEN TryNext(r, e) /\ UNCHANGED status
       ELSE /\ lastErr' = [lastErr EXCEPT ![r] = e]
            /\ Answer(r, StatusOf(FALSE, e))
            /\ UNCHANGED <<attempt, excluded>>
  /\ UNCHANGED <<cache, changes, steady, ctx, cands, chosen, recorded, posts,
                 calls>>

(* The cap was reached between isRateLimited and addPending. *)
Refused(r) ==
  /\ at[r] = "calling"
  /\ AtCap(chosen[r])
  /\ Failed(r, "rateLimited")
  /\ UNCHANGED pending

(* Mutant: a worker that was sent the request and failed is not excluded. *)
CompleteFailsKeeps(r, e) ==
  /\ at[r] = "waiting"
  /\ e \in CompleteErr(r) /\ isRetryableError(e)
  /\ pending' = [pending EXCEPT ![chosen[r]] = @ \ {r}]
  /\ trace' = [trace EXCEPT ![r].inflight = @ - 1, ![r].error = @ + 1]
  /\ lastErr' = [lastErr EXCEPT ![r] = e]
  /\ attempt' = [attempt EXCEPT ![r] = @ + 1]
  /\ at' = [at EXCEPT ![r] = "loop"]
  /\ UNCHANGED <<cache, changes, steady, ctx, excluded, cands, chosen, recorded,
                 posts, calls, status>>

CompleteFails(r, e) ==
  /\ at[r] = "waiting"
  /\ e \in CompleteErr(r)
  /\ pending' = [pending EXCEPT ![chosen[r]] = @ \ {r}]
  /\ Failed(r, e)

(* Mutant: success returns before Finish. *)
CompleteSucceedsUnfinished(r) ==
  /\ at[r] = "waiting"
  /\ pending' = [pending EXCEPT ![chosen[r]] = @ \ {r}]
  /\ UNCHANGED trace
  /\ Answer(r, "200")
  /\ UNCHANGED <<cache, changes, steady, ctx, attempt, excluded, cands, chosen,
                 lastErr, recorded, posts, calls>>

CompleteSucceeds(r) ==
  /\ at[r] = "waiting"
  /\ pending' = [pending EXCEPT ![chosen[r]] = @ \ {r}]
  /\ trace' = [trace EXCEPT ![r].inflight = @ - 1, ![r].done = @ + 1]
  /\ Answer(r, "200")
  /\ UNCHANGED <<cache, changes, steady, ctx, attempt, excluded, cands, chosen,
                 lastErr, recorded, posts, calls>>

-----------------------------------------------------------------------------
(* The surroundings.                                                       *)

CtxEnds(r, why) ==
  /\ at[r] \notin {"idle", "returned"}
  /\ ctx[r] = "live"
  /\ ctx' = [ctx EXCEPT ![r] = why]
  /\ UNCHANGED <<sharedVars, at, attempt, excluded, cands, chosen, lastErr,
                 outVars>>

(* The cache's event goroutine (module CapabilityCache). *)
CacheChange(w, v) ==
  /\ changes < MaxChanges
  /\ v # cache[w]
  /\ changes' = changes + 1
  /\ cache' = [cache EXCEPT ![w] = v]
  /\ steady' = IF v = "absent" THEN [r \in Req |-> steady[r] \ {w}] ELSE steady
  /\ UNCHANGED <<pending, at, ctx, attempt, excluded, cands, chosen, lastErr,
                 outVars>>

(* A streaming request or a model load, which the failover loop does not   *)
(* see, takes a place on the worker's connection or gives it back.         *)
OtherCall(w) ==
  /\ changes < MaxChanges
  /\ w \in WSWorker
  /\ Other \in pending[w] \/ ~AtCap(w)
  /\ changes' = changes + 1
  /\ pending' = [pending EXCEPT ![w] = IF Other \in @ THEN @ \ {Other} ELSE @ \cup {Other}]
  /\ UNCHANGED <<cache, steady, at, ctx, attempt, excluded, cands, chosen, lastErr,
                 outVars>>

DispatchWithFailover(r) ==
  \/ OverBudget(r) \/ Exhausted(r) \/ BuildCandidates(r)
  \/ (\E w \in Worker : Select(r, w)) \/ SelectFails(r) \/ RateLimited(r)
  \/ Dispatch(r) \/ Admit(r) \/ Repost(r) \/ Refused(r)
  \/ (\E e \in Err : CompleteFails(r, e)) \/ CompleteSucceeds(r)

Next ==
  \/ \E r \in Req : Arrive(r) \/ DispatchWithFailover(r)
  \/ \E r \in Req, why \in {"deadline", "canceled"} : CtxEnds(r, why)
  \/ \E w \in Worker, v \in {"absent", "other", "advertised", "loaded"} :
       CacheChange(w, v)
  \/ \E w \in Worker : OtherCall(w)

Spec == Init /\ [][Next]_vars

(* The loop runs, and Complete returns: the budget ends its context, which *)
(* ends the wait over WebSocket (PendingCalls) and every POST over HTTP.   *)
Fairness == \A r \in Req : WF_vars(DispatchWithFailover(r))

FairSpec == Spec /\ Fairness

-----------------------------------------------------------------------------
(* Properties.                                                             *)

(* The type invariant; the trace never goes negative. *)
TypeOK ==
  /\ cache \in [Worker -> {"absent", "other", "advertised", "loaded"}]
  /\ changes \in 0..MaxChanges
  /\ pending \in [Worker -> SUBSET (Req \cup {Other})]
  /\ at \in [Req -> {"idle", "loop", "selecting", "selected", "calling",
                     "waiting", "returned"}]
  /\ ctx \in [Req -> {"live", "deadline", "canceled"}]
  /\ attempt \in [Req -> 1..(MaxAttempts + 1)]
  /\ excluded \in [Req -> SUBSET Worker]
  /\ cands \in [Req -> SUBSET Worker]
  /\ chosen \in [Req -> Worker \cup {NoWorker}]
  /\ lastErr \in [Req -> Err \cup {"none"}]
  /\ recorded \in [Req -> Nat]
  /\ posts \in [Req -> 0..MaxPosts]
  /\ calls \in [Req -> [Worker -> Nat]]
  /\ trace \in [Req -> [inflight : Nat, done : Nat, error : Nat]]
  /\ status \in [Req -> {"none", "200", "503 all_attempts_failed",
                         "504 timeout_error", "worker's status",
                         "503 connection_error", "503 no_workers"}]
  /\ steady \in [Req -> SUBSET Worker]

(* How often one request may reach a worker. *)
SendLimit(w) ==
  CASE w \notin Willing -> 0
    [] w \in Willing /\ w \in WSWorker -> 1
    [] OTHER -> MaxPosts

(* However the cache changes between the candidate snapshot, the fallback  *)
(* scan and the next attempt, a worker that opted out of the model is      *)
(* never sent the request, and no failover comes back to a worker: a       *)
(* WebSocket worker is sent it once, an HTTP worker no more often than one *)
(* postWithRetry POSTs it (that is up to four times: the retries do not    *)
(* ask whether the worker had begun).                                      *)
SentWithinLimits == \A r \in Req, w \in Worker : calls[r][w] <= SendLimit(w)

(* A request gives up with its context live only after MaxAttempts         *)
(* different workers were tried, or once every willing worker that stayed  *)
(* in the cache all along was tried: a worker that comes, goes or changes  *)
(* its models does not make the loop skip a usable one.                    *)
GivesUpOnlyWhenTried ==
  \A r \in Req :
    status[r] = "503 all_attempts_failed" /\ lastErr[r] \notin {"deadline", "canceled"}
      => \/ Cardinality(excluded[r]) >= MaxAttempts
         \/ steady[r] \cap Willing \subseteq excluded[r]

(* The request trace tells the truth: while a call is out exactly one row  *)
(* is in flight, an answered request leaves none behind, and it has one    *)
(* "done" row if and only if the client got 200.                           *)
TraceMatchesAnswer ==
  \A r \in Req :
    /\ trace[r].inflight = (IF at[r] \in {"calling", "waiting"} THEN 1 ELSE 0)
    /\ trace[r].done = (IF status[r] = "200" THEN 1 ELSE 0)

(* Every request is answered. *)
EveryRequestAnswered == \A r \in Req : (at[r] # "idle") ~> (at[r] = "returned")

-----------------------------------------------------------------------------
(* What comments and docs say and the code does not do.                    *)

(* dispatch.go and the failover plan: a transport failure is retryable, so *)
(* it ends a request only when the attempts are used up.                   *)
TransportFailureFailsOver ==
  \A r \in Req :
    at[r] = "returned" /\ lastErr[r] = "transport" => attempt[r] > MaxAttempts
=============================================================================
