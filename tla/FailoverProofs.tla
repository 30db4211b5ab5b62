--------------------------- MODULE FailoverProofs ---------------------------
(***************************************************************************)
(* Proofs about Failover, for any number of concurrent requests, every     *)
(* finite set of workers, every cap and attempt limit and any number of    *)
(* cache changes.                                                          *)
(***************************************************************************)
EXTENDS Failover, FiniteSetTheorems, TLAPS

(* The rows of one request in the tracker, by status. *)
Row == [inflight : Nat, done : Nat, error : Nat]

(* The inductive invariant: what one request knows. *)

(* The loop's counter leaves room for the attempt in progress. *)
AttemptBounded ==
  \A r \in Req : at[r] \in {"selecting", "selected", "calling", "waiting"}
                   => attempt[r] <= MaxAttempts

(* The worker in hand was admissible and is new to this request. *)
ChosenIsFresh ==
  \A r \in Req : at[r] \in {"selected", "calling", "waiting"}
                   => chosen[r] \in Willing /\ chosen[r] \notin excluded[r]

(* A worker that was sent the request is excluded by the time the loop     *)
(* looks for another.                                                      *)
CalledIsExcluded ==
  \A r \in Req, w \in Worker :
    /\ calls[r][w] <= SendLimit(w)
    /\ calls[r][w] # 0 =>
         /\ w \in Willing
         /\ \/ w \in excluded[r]
            \/ w = chosen[r] /\ at[r] \in {"waiting", "returned"}

(* All that the worker in hand was sent, the current Complete call sent. *)
PostsCounted ==
  \A r \in Req : at[r] = "waiting" => calls[r][chosen[r]] <= posts[r]

(* Only a returned request has been answered. *)
UnansweredUntilReturn == \A r \in Req : at[r] # "returned" => status[r] = "none"

(* Workers that stayed in the cache are in it. *)
SteadyIsCached == \A r \in Req : steady[r] \subseteq Cached

(* Every attempt used up has excluded a worker, unless a selection found   *)
(* none left: then no willing worker that stayed was untried.              *)
AttemptsTried ==
  \A r \in Req : \/ attempt[r] <= Cardinality(excluded[r]) + 1
                 \/ steady[r] \cap Willing \subseteq excluded[r]

(* A request that has not arrived has tried nothing. *)
IdleUntried == \A r \in Req : at[r] = "idle" => attempt[r] = 1

DispatchInv ==
  /\ TypeOK
  /\ AttemptBounded
  /\ ChosenIsFresh
  /\ CalledIsExcluded
  /\ PostsCounted
  /\ UnansweredUntilReturn
  /\ TraceMatchesAnswer

TriedInv ==
  /\ IdleUntried
  /\ SteadyIsCached
  /\ AttemptsTried
  /\ GivesUpOnlyWhenTried

-----------------------------------------------------------------------------

(* The limits, by kind of worker. *)
LEMMA SendLimits ==
  ASSUME NEW w
  PROVE  /\ SendLimit(w) \in Nat
         /\ w \notin Willing => SendLimit(w) = 0
         /\ w \in Willing => 1 <= SendLimit(w)
         /\ w \in Willing /\ w \notin WSWorker => SendLimit(w) = MaxPosts
  BY FailoverAssumption DEF SendLimit

(* One more send of request r: its worker's count goes up, no other. *)
LEMMA SentStep ==
  ASSUME TypeOK, NEW r \in Req, NEW n \in 0..MaxPosts, Sent(r, n), chosen[r] \in Worker
  PROVE  /\ calls' \in [Req -> [Worker -> Nat]] /\ posts' \in [Req -> 0..MaxPosts]
         /\ posts'[r] = n /\ \A q \in Req \ {r} : posts'[q] = posts[q]
         /\ \A q \in Req, w \in Worker :
              calls'[q][w] = IF q = r /\ w = chosen[r] THEN calls[r][w] + 1 ELSE calls[q][w]
<1>1. calls' = [calls EXCEPT ![r] = [calls[r] EXCEPT ![chosen[r]] = @ + 1]]
  BY DEF Sent
<1>2. calls \in [Req -> [Worker -> Nat]] /\ posts \in [Req -> 0..MaxPosts]
  BY DEF TypeOK
<1>3. posts' = [posts EXCEPT ![r] = n]
  BY DEF Sent
<1> QED
  BY <1>1, <1>2, <1>3

LEMMA DispatchInit == Init => DispatchInv
<1> SUFFICES ASSUME Init PROVE DispatchInv
  OBVIOUS
<1>1. TypeOK
  BY FailoverAssumption DEF Init, TypeOK
<1>2. AttemptBounded /\ ChosenIsFresh /\ CalledIsExcluded /\ PostsCounted /\ UnansweredUntilReturn
  BY SendLimits DEF Init, AttemptBounded, ChosenIsFresh, CalledIsExcluded, PostsCounted,
                    UnansweredUntilReturn
<1>3. TraceMatchesAnswer
  BY DEF Init, TraceMatchesAnswer
<1> QED
  BY <1>1, <1>2, <1>3 DEF DispatchInv

(* What a selection returns. *)
LEMMA SelectableIsFresh ==
  ASSUME TypeOK, NEW r \in Req
  PROVE  /\ Selectable(r) \subseteq {w \in Worker : w \in Willing /\ w \notin excluded[r]}
         /\ Selectable(r) = {} => Cached \cap Willing \subseteq excluded[r]
<1> DEFINE A == Eligible(cands[r], r)
           B == Eligible(Advertisers, r)
           C == Eligible(Cached, r)
<1>1. Selectable(r) = C \/ (Selectable(r) \in {A, B} /\ Selectable(r) # {})
  <2>1. CASE A # {}
    BY <2>1 DEF Selectable
  <2>2. CASE A = {} /\ B # {}
    BY <2>2 DEF Selectable
  <2>3. CASE A = {} /\ B = {}
    BY <2>3 DEF Selectable
  <2> QED
    BY <2>1, <2>2, <2>3
<1>2. cands[r] \subseteq Worker /\ Advertisers \subseteq Worker /\ Cached \subseteq Worker
  BY DEF TypeOK, Advertisers, Cached
<1> QED
  BY <1>1, <1>2 DEF Eligible

(* Complete's errors are errors, and only an exhausted loop says so. *)
LEMMA Statuses ==
  ASSUME NEW e \in Err
  PROVE  /\ StatusOf(TRUE, e) = "503 all_attempts_failed"
         /\ StatusOf(FALSE, e) \in {"504 timeout_error", "worker's status",
                                    "503 connection_error", "503 no_workers"}
  BY DEF StatusOf

(* tracker.Begin and Finish on one request's rows. *)
LEMMA RowBegins ==
  ASSUME NEW t \in Row
  PROVE  /\ [t EXCEPT !.inflight = @ + 1] \in Row
         /\ [t EXCEPT !.inflight = @ + 1].inflight = t.inflight + 1
         /\ [t EXCEPT !.inflight = @ + 1].done = t.done
  BY DEF Row

LEMMA RowFails ==
  ASSUME NEW t \in Row, t.inflight = 1
  PROVE  /\ [t EXCEPT !.inflight = @ - 1, !.error = @ + 1] \in Row
         /\ [t EXCEPT !.inflight = @ - 1, !.error = @ + 1].inflight = 0
         /\ [t EXCEPT !.inflight = @ - 1, !.error = @ + 1].done = t.done
<1>1. t.inflight - 1 = 0 /\ t.error + 1 \in Nat
  BY DEF Row
<1>2. \A x, y \in Nat : [t EXCEPT !.inflight = x, !.error = y] \in Row
  BY DEF Row
<1>3. [t EXCEPT !.inflight = @ - 1, !.error = @ + 1].inflight = t.inflight - 1
  BY DEF Row
<1>4. [t EXCEPT !.inflight = @ - 1, !.error = @ + 1].done = t.done
  BY DEF Row
<1> QED
  BY <1>1, <1>2, <1>3, <1>4

LEMMA RowSucceeds ==
  ASSUME NEW t \in Row, t.inflight = 1
  PROVE  /\ [t EXCEPT !.inflight = @ - 1, !.done = @ + 1] \in Row
         /\ [t EXCEPT !.inflight = @ - 1, !.done = @ + 1].inflight = 0
         /\ [t EXCEPT !.inflight = @ - 1, !.done = @ + 1].done = t.done + 1
<1>1. t.inflight - 1 = 0 /\ t.done + 1 \in Nat
  BY DEF Row
<1>2. \A x, y \in Nat : [t EXCEPT !.inflight = x, !.done = y] \in Row
  BY DEF Row
<1>3. [t EXCEPT !.inflight = @ - 1, !.done = @ + 1].inflight = t.inflight - 1
  BY DEF Row
<1>4. [t EXCEPT !.inflight = @ - 1, !.done = @ + 1].done = t.done + 1
  BY DEF Row
<1> QED
  BY <1>1, <1>2, <1>3, <1>4

(* The loop's own variables after an attempt that failed. *)
LEMMA TryNextTypes ==
  ASSUME TypeOK, NEW r \in Req, NEW e \in Err, TryNext(r, e),
         chosen[r] \in Worker, attempt[r] \in 1..MaxAttempts
  PROVE  /\ attempt' \in [Req -> 1..(MaxAttempts + 1)]
         /\ excluded' \in [Req -> SUBSET Worker]
         /\ lastErr' \in [Req -> Err \cup {"none"}]
<1>1. attempt[r] + 1 \in 1..(MaxAttempts + 1)
  BY FailoverAssumption
<1>2. attempt' \in [Req -> 1..(MaxAttempts + 1)]
  BY <1>1 DEF TypeOK, TryNext
<1>3. excluded' \in [Req -> SUBSET Worker]
  BY DEF TypeOK, TryNext
<1>4. lastErr' \in [Req -> Err \cup {"none"}]
  BY DEF TypeOK, TryNext
<1> QED
  BY <1>2, <1>3, <1>4

(* A failed Complete is taken apart: the row ends, then the loop goes on   *)
(* or the request is answered.                                             *)
LEMMA FailedStep ==
  ASSUME DispatchInv, NEW r \in Req, NEW e \in Err, Failed(r, e), at[r] \in {"calling", "waiting"},
         pending' \in [Worker -> SUBSET (Req \cup {Other})]
  PROVE  DispatchInv'
<1>0. TypeOK /\ chosen[r] \in Worker /\ attempt[r] \in 1..MaxAttempts
  <2>1. TypeOK /\ chosen[r] \in Willing
    BY DEF DispatchInv, ChosenIsFresh
  <2>2. attempt[r] <= MaxAttempts
    BY DEF DispatchInv, AttemptBounded
  <2>3. attempt[r] \in 1..(MaxAttempts + 1)
    BY <2>1 DEF TypeOK
  <2> QED
    BY <2>1, <2>2, <2>3, FailoverAssumption
<1>1. trace[r].inflight = 1 /\ status[r] = "none"
  BY DEF DispatchInv, TraceMatchesAnswer, UnansweredUntilReturn
<1>2. trace \in [Req -> Row]
  BY <1>0 DEF TypeOK, Row
<1> DEFINE ended == [trace[r] EXCEPT !.inflight = @ - 1, !.error = @ + 1]
<1>3. /\ trace' \in [Req -> Row]
      /\ trace'[r].inflight = 0 /\ trace'[r].done = trace[r].done
      /\ \A q \in Req \ {r} : trace'[q] = trace[q]
  <2>1. trace[r] \in Row
    BY <1>2
  <2>2. ended \in Row /\ ended.inflight = 0 /\ ended.done = trace[r].done
    BY <1>1, <2>1, RowFails
  <2>3. trace' = [trace EXCEPT ![r] = ended]
    BY <1>2 DEF Failed, Row
  <2> QED
    BY <1>2, <2>2, <2>3
<1>4. CASE isRetryableError(e)
  <2>1. TryNext(r, e) /\ UNCHANGED <<cache, changes, steady, ctx, cands, chosen, recorded, posts, calls, status>>
    BY <1>4 DEF Failed
  <2>2. TypeOK'
    BY <1>0, <1>3, <2>1, TryNextTypes DEF TypeOK, Row, TryNext
  <2>3. AttemptBounded' /\ ChosenIsFresh' /\ UnansweredUntilReturn'
    BY <1>0, <1>1, <2>1 DEF TypeOK, TryNext, DispatchInv, AttemptBounded, ChosenIsFresh, UnansweredUntilReturn
  <2>4. CalledIsExcluded' /\ PostsCounted'
    BY <1>0, <2>1 DEF TypeOK, TryNext, DispatchInv, CalledIsExcluded, PostsCounted
  <2>5. TraceMatchesAnswer'
    <3>1. /\ at'[r] \notin {"calling", "waiting"} /\ status'[r] # "200"
          /\ \A q \in Req \ {r} : at'[q] = at[q] /\ status'[q] = status[q]
      BY <1>0, <1>1, <2>1 DEF TypeOK, TryNext
    <3> QED
      BY <1>1, <1>3, <3>1 DEF DispatchInv, TraceMatchesAnswer
  <2> QED
    BY <2>2, <2>3, <2>4, <2>5 DEF DispatchInv
<1>5. CASE ~isRetryableError(e)
  <2>1. /\ Answer(r, StatusOf(FALSE, e)) /\ lastErr' = [lastErr EXCEPT ![r] = e]
        /\ UNCHANGED <<cache, changes, steady, ctx, cands, chosen, recorded, posts, calls, attempt, excluded>>
    BY <1>5 DEF Failed
  <2>2. TypeOK'
    BY <1>0, <1>3, <2>1, Statuses DEF TypeOK, Row, Answer
  <2>3. AttemptBounded' /\ ChosenIsFresh' /\ UnansweredUntilReturn'
    BY <1>0, <1>1, <2>1 DEF TypeOK, Answer, DispatchInv, AttemptBounded, ChosenIsFresh, UnansweredUntilReturn
  <2>4. CalledIsExcluded' /\ PostsCounted'
    BY <1>0, <2>1 DEF TypeOK, Answer, DispatchInv, CalledIsExcluded, PostsCounted
  <2>5. TraceMatchesAnswer'
    <3>1. /\ at'[r] \notin {"calling", "waiting"} /\ status'[r] # "200"
          /\ \A q \in Req \ {r} : at'[q] = at[q] /\ status'[q] = status[q]
      BY <1>0, <1>1, <2>1, Statuses DEF TypeOK, Answer
    <3> QED
      BY <1>1, <1>3, <3>1 DEF DispatchInv, TraceMatchesAnswer
  <2> QED
    BY <2>2, <2>3, <2>4, <2>5 DEF DispatchInv
<1> QED
  BY <1>4, <1>5

LEMMA DispatchNext == DispatchInv /\ [Next]_vars => DispatchInv'
<1> SUFFICES ASSUME DispatchInv, [Next]_vars PROVE DispatchInv'
  OBVIOUS
<1> USE DEF sharedVars, outVars
<1> DEFINE Parts == /\ AttemptBounded /\ ChosenIsFresh /\ CalledIsExcluded
                    /\ PostsCounted /\ UnansweredUntilReturn /\ TraceMatchesAnswer
<1>0. TypeOK /\ Parts
  BY DEF DispatchInv
<1>a. SUFFICES TypeOK' /\ Parts'
  BY DEF DispatchInv
<1>b. \A r \in Req : at[r] \in {"selected", "calling", "waiting"} => chosen[r] \in Worker
  BY <1>0, FailoverAssumption DEF ChosenIsFresh
<1>c. \A r \in Req : at[r] \in {"selecting", "selected", "calling", "waiting"}
                       => attempt[r] \in 1..MaxAttempts
  <2> SUFFICES ASSUME NEW r \in Req,
                      at[r] \in {"selecting", "selected", "calling", "waiting"}
               PROVE  attempt[r] \in 1..MaxAttempts
    OBVIOUS
  <2>1. attempt[r] \in 1..(MaxAttempts + 1) /\ attempt[r] <= MaxAttempts
    BY <1>0 DEF TypeOK, AttemptBounded
  <2> QED
    BY <2>1, FailoverAssumption
<1> USE DEF AttemptBounded, ChosenIsFresh, CalledIsExcluded, PostsCounted,
            UnansweredUntilReturn, TraceMatchesAnswer
<1>1. ASSUME NEW r \in Req, Arrive(r) PROVE TypeOK' /\ Parts'
  <2>1. TypeOK'
    BY <1>0, <1>1 DEF TypeOK, Arrive, Cached
  <2>2. Parts'
    <3>1. AttemptBounded' /\ ChosenIsFresh' /\ UnansweredUntilReturn'
      BY <1>0, <1>1 DEF TypeOK, Arrive
    <3>2. CalledIsExcluded' /\ PostsCounted'
      BY <1>0, <1>1 DEF TypeOK, Arrive
    <3>3. TraceMatchesAnswer'
      BY <1>0, <1>1 DEF TypeOK, Arrive
    <3> QED
      BY <3>1, <3>2, <3>3
  <2> QED
    BY <2>1, <2>2
<1>2. ASSUME NEW r \in Req, OverBudget(r) PROVE TypeOK' /\ Parts'
  <2>0. ctx[r] \in Err
    BY <1>0, <1>2 DEF TypeOK, OverBudget, Err, HTTPErr
  <2>1. TypeOK'
    BY <1>0, <1>2, <2>0, Statuses DEF TypeOK, OverBudget, Answer
  <2>2. Parts'
    <3>1. AttemptBounded' /\ ChosenIsFresh' /\ UnansweredUntilReturn'
      BY <1>0, <1>2, <2>0, Statuses DEF TypeOK, OverBudget, Answer
    <3>2. CalledIsExcluded' /\ PostsCounted'
      BY <1>0, <1>2, <2>0, Statuses DEF TypeOK, OverBudget, Answer
    <3>3. TraceMatchesAnswer'
      BY <1>0, <1>2, <2>0, Statuses DEF TypeOK, OverBudget, Answer
    <3> QED
      BY <3>1, <3>2, <3>3
  <2> QED
    BY <2>1, <2>2
<1>3. ASSUME NEW r \in Req, Exhausted(r) PROVE TypeOK' /\ Parts'
  <2>0. StatusOf(TRUE, lastErr[r]) = "503 all_attempts_failed"
    BY DEF StatusOf
  <2>1. TypeOK'
    BY <1>0, <1>3, <2>0 DEF TypeOK, Exhausted, Answer
  <2>2. Parts'
    <3>1. AttemptBounded' /\ ChosenIsFresh' /\ UnansweredUntilReturn'
      BY <1>0, <1>3, <2>0 DEF TypeOK, Exhausted, Answer
    <3>2. CalledIsExcluded' /\ PostsCounted'
      BY <1>0, <1>3, <2>0 DEF TypeOK, Exhausted, Answer
    <3>3. TraceMatchesAnswer'
      BY <1>0, <1>3, <2>0 DEF TypeOK, Exhausted, Answer
    <3> QED
      BY <3>1, <3>2, <3>3
  <2> QED
    BY <2>1, <2>2
<1>4. ASSUME NEW r \in Req, BuildCandidates(r) PROVE TypeOK' /\ Parts'
  <2>0. PICK S \in SUBSET Worker : cands' = [cands EXCEPT ![r] = S]
    BY <1>0, <1>4 DEF BuildCandidates, Advertisers, Loaded
  <2>1. TypeOK'
    BY <1>0, <1>4, <2>0 DEF TypeOK, BuildCandidates
  <2>2. Parts'
    <3>1. AttemptBounded' /\ ChosenIsFresh' /\ UnansweredUntilReturn'
      BY <1>0, <1>4 DEF TypeOK, BuildCandidates
    <3>2. CalledIsExcluded' /\ PostsCounted'
      BY <1>0, <1>4 DEF TypeOK, BuildCandidates
    <3>3. TraceMatchesAnswer'
      BY <1>0, <1>4 DEF TypeOK, BuildCandidates
    <3> QED
      BY <3>1, <3>2, <3>3
  <2> QED
    BY <2>1, <2>2
<1>5. ASSUME NEW r \in Req, NEW w \in Worker, Select(r, w) PROVE TypeOK' /\ Parts'
  <2>0. w \in Willing /\ w \notin excluded[r]
    BY <1>0, <1>5, SelectableIsFresh DEF Select
  <2>1. TypeOK'
    BY <1>0, <1>5 DEF TypeOK, Select
  <2>2. Parts'
    <3>1. AttemptBounded' /\ ChosenIsFresh' /\ UnansweredUntilReturn'
      BY <1>0, <1>5, <2>0 DEF TypeOK, Select
    <3>2. CalledIsExcluded' /\ PostsCounted'
      BY <1>0, <1>5, <2>0 DEF TypeOK, Select
    <3>3. TraceMatchesAnswer'
      BY <1>0, <1>5, <2>0 DEF TypeOK, Select
    <3> QED
      BY <3>1, <3>2, <3>3
  <2> QED
    BY <2>1, <2>2
<1>6. ASSUME NEW r \in Req, SelectFails(r) PROVE TypeOK' /\ Parts'
  <2>0. attempt[r] + 1 \in 1..(MaxAttempts + 1)
    BY <1>c, <1>6, FailoverAssumption DEF SelectFails
  <2>1. TypeOK'
    BY <1>0, <1>6, <2>0 DEF TypeOK, SelectFails, Err
  <2>2. Parts'
    <3>1. AttemptBounded' /\ ChosenIsFresh' /\ UnansweredUntilReturn'
      BY <1>0, <1>6 DEF TypeOK, SelectFails
    <3>2. CalledIsExcluded' /\ PostsCounted'
      BY <1>0, <1>6 DEF TypeOK, SelectFails
    <3>3. TraceMatchesAnswer'
      BY <1>0, <1>6 DEF TypeOK, SelectFails
    <3> QED
      BY <3>1, <3>2, <3>3
  <2> QED
    BY <2>1, <2>2
<1>7. ASSUME NEW r \in Req, RateLimited(r) PROVE TypeOK' /\ Parts'
  <2>0. "rateLimited" \in Err /\ chosen[r] \in Worker /\ attempt[r] \in 1..MaxAttempts
    BY <1>b, <1>c, <1>7 DEF RateLimited, Err
  <2>1. TypeOK'
    <3>1. /\ attempt' \in [Req -> 1..(MaxAttempts + 1)]
          /\ excluded' \in [Req -> SUBSET Worker]
          /\ lastErr' \in [Req -> Err \cup {"none"}]
      BY <1>0, <1>7, <2>0, TryNextTypes DEF RateLimited
    <3> QED
      BY <1>0, <1>7, <3>1 DEF TypeOK, RateLimited, TryNext
  <2>2. Parts'
    <3>1. AttemptBounded' /\ ChosenIsFresh' /\ UnansweredUntilReturn'
      BY <1>0, <1>7 DEF TypeOK, RateLimited, TryNext
    <3>2. CalledIsExcluded' /\ PostsCounted'
      BY <1>0, <1>7 DEF TypeOK, RateLimited, TryNext
    <3>3. TraceMatchesAnswer'
      BY <1>0, <1>7 DEF TypeOK, RateLimited, TryNext
    <3> QED
      BY <3>1, <3>2, <3>3
  <2> QED
    BY <2>1, <2>2
<1>8. ASSUME NEW r \in Req, Dispatch(r) PROVE TypeOK' /\ Parts'
  <2>1. trace \in [Req -> Row] /\ trace[r].inflight = 0 /\ status[r] # "200"
    BY <1>0, <1>8 DEF TypeOK, Row, Dispatch
  <2>2. /\ trace' \in [Req -> Row]
        /\ trace'[r].inflight = 1 /\ trace'[r].done = trace[r].done
        /\ \A q \in Req \ {r} : trace'[q] = trace[q]
    BY <1>8, <2>1, RowBegins DEF Dispatch
  <2>5. TypeOK'
    BY <1>0, <1>8, <2>2 DEF TypeOK, Row, Dispatch
  <2>6. CalledIsExcluded' /\ PostsCounted'
    BY <1>0, <1>8 DEF TypeOK, Dispatch
  <2>7. AttemptBounded' /\ ChosenIsFresh' /\ UnansweredUntilReturn'
    BY <1>0, <1>8 DEF TypeOK, Dispatch
  <2>8. TraceMatchesAnswer'
    BY <1>0, <1>8, <2>1, <2>2 DEF TypeOK, Dispatch
  <2> QED
    BY <2>5, <2>6, <2>7, <2>8
<1>9. ASSUME NEW r \in Req, Admit(r) PROVE TypeOK' /\ Parts'
  <2>0. /\ chosen[r] \in Worker /\ chosen[r] \in Willing /\ at[r] = "calling"
        /\ calls[r][chosen[r]] = 0 /\ 1 \in 0..MaxPosts
    BY <1>0, <1>b, <1>9, FailoverAssumption DEF Admit
  <2>1. /\ calls' \in [Req -> [Worker -> Nat]] /\ posts' \in [Req -> 0..MaxPosts]
        /\ posts'[r] = 1 /\ \A q \in Req \ {r} : posts'[q] = posts[q]
        /\ \A q \in Req, w \in Worker :
             calls'[q][w] = IF q = r /\ w = chosen[r] THEN calls[r][w] + 1 ELSE calls[q][w]
    BY <1>0, <1>9, <2>0, SentStep DEF Admit
  <2>2. /\ UNCHANGED <<chosen, excluded>>
        /\ at'[r] = "waiting" /\ \A q \in Req \ {r} : at'[q] = at[q]
    BY <1>0, <1>9 DEF TypeOK, Admit
  <2>3. TypeOK'
    <3>1. pending' \in [Worker -> SUBSET (Req \cup {Other})]
      <4>1. pending \in [Worker -> SUBSET (Req \cup {Other})]
        BY <1>0 DEF TypeOK
      <4>2. pending' = [pending EXCEPT ![chosen[r]] = pending[chosen[r]] \cup {r}]
        BY <1>9 DEF Admit
      <4> QED
        BY <2>0, <4>1, <4>2
    <3>2. at' \in [Req -> {"idle", "loop", "selecting", "selected", "calling",
                           "waiting", "returned"}]
      BY <1>0, <1>9 DEF TypeOK, Admit
    <3>3. UNCHANGED <<cache, changes, steady, ctx, attempt, excluded, cands, chosen,
                      lastErr, recorded, trace, status>>
      BY <1>9 DEF Admit
    <3> QED
      BY <1>0, <2>1, <3>1, <3>2, <3>3 DEF TypeOK
  <2>4. CalledIsExcluded'
    <3>1. 1 <= SendLimit(chosen[r])
      BY <2>0, SendLimits
    <3>2. CalledIsExcluded
      BY <1>0
    <3> QED
      BY <2>0, <2>1, <2>2, <3>1, <3>2
  <2>5. PostsCounted'
    <3>1. \A q \in Req : at[q] = "waiting" => chosen[q] \in Worker
      BY <1>b
    <3>2. PostsCounted
      BY <1>0
    <3> QED
      BY <2>0, <2>1, <2>2, <3>1, <3>2
  <2>6. AttemptBounded' /\ ChosenIsFresh' /\ UnansweredUntilReturn'
    BY <1>0, <1>9 DEF TypeOK, Admit
  <2>7. TraceMatchesAnswer'
    BY <1>0, <1>9 DEF TypeOK, Admit
  <2> QED
    BY <2>3, <2>4, <2>5, <2>6, <2>7
<1>18. ASSUME NEW r \in Req, Repost(r) PROVE TypeOK' /\ Parts'
  <2>0. /\ chosen[r] \in Worker /\ chosen[r] \in Willing /\ at[r] = "waiting"
        /\ chosen[r] \notin WSWorker
        /\ calls[r][chosen[r]] \in Nat /\ calls[r][chosen[r]] <= posts[r]
    <3>1. at[r] = "waiting" /\ chosen[r] \notin WSWorker
      BY <1>18 DEF Repost
    <3>2. chosen[r] \in Worker /\ chosen[r] \in Willing
      BY <1>0, <1>b, <3>1
    <3>3. calls \in [Req -> [Worker -> Nat]]
      BY <1>0 DEF TypeOK
    <3>4. calls[r][chosen[r]] <= posts[r]
      BY <1>0, <3>1
    <3> QED
      BY <3>1, <3>2, <3>3, <3>4
  <2>n. posts[r] \in Nat /\ posts[r] + 1 \in 0..MaxPosts
    <3>1. posts[r] \in 0..MaxPosts /\ posts[r] < MaxPosts
      BY <1>0, <1>18 DEF Repost, TypeOK
    <3> QED
      BY <3>1, FailoverAssumption
  <2>1. /\ calls' \in [Req -> [Worker -> Nat]] /\ posts' \in [Req -> 0..MaxPosts]
        /\ posts'[r] = posts[r] + 1 /\ \A q \in Req \ {r} : posts'[q] = posts[q]
        /\ \A q \in Req, w \in Worker :
             calls'[q][w] = IF q = r /\ w = chosen[r] THEN calls[r][w] + 1 ELSE calls[q][w]
    BY <1>0, <1>18, <2>0, <2>n, SentStep DEF Repost
  <2>2. UNCHANGED <<chosen, excluded, at>>
    BY <1>18 DEF Repost
  <2>3. TypeOK'
    BY <1>0, <1>18, <2>1 DEF TypeOK, Repost
  <2>4. CalledIsExcluded'
    <3>1. calls[r][chosen[r]] + 1 <= SendLimit(chosen[r])
      BY <2>0, <2>n, SendLimits, FailoverAssumption
    <3>2. CalledIsExcluded
      BY <1>0
    <3> QED
      BY <2>0, <2>1, <2>2, <3>1, <3>2
  <2>5. PostsCounted'
    <3>1. \A q \in Req : at[q] = "waiting" => chosen[q] \in Worker
      BY <1>b
    <3>2. PostsCounted
      BY <1>0
    <3> QED
      BY <2>0, <2>n, <2>1, <2>2, <3>1, <3>2
  <2>6. AttemptBounded' /\ ChosenIsFresh' /\ UnansweredUntilReturn'
    BY <1>0, <1>18 DEF Repost
  <2>7. TraceMatchesAnswer'
    BY <1>0, <1>18 DEF Repost
  <2> QED
    BY <2>3, <2>4, <2>5, <2>6, <2>7
<1>10. ASSUME NEW r \in Req, Refused(r) PROVE DispatchInv'
  <2>1. "rateLimited" \in Err /\ pending' \in [Worker -> SUBSET (Req \cup {Other})]
    BY <1>0, <1>10 DEF TypeOK, Refused, Err
  <2> QED
    BY <1>10, <2>1, FailedStep DEF Refused
<1>11. ASSUME NEW r \in Req, NEW e \in Err, CompleteFails(r, e) PROVE DispatchInv'
  <2>1. pending' \in [Worker -> SUBSET (Req \cup {Other})]
    BY <1>0, <1>b, <1>11 DEF TypeOK, CompleteFails
  <2> QED
    BY <1>11, <2>1, FailedStep DEF CompleteFails
<1>12. ASSUME NEW r \in Req, CompleteSucceeds(r) PROVE TypeOK' /\ Parts'
  <2>1. trace \in [Req -> Row] /\ trace[r].inflight = 1 /\ trace[r].done = 0 /\ status[r] # "200"
    BY <1>0, <1>12 DEF TypeOK, Row, CompleteSucceeds
  <2>2. /\ trace' \in [Req -> Row]
        /\ trace'[r].inflight = 0 /\ trace'[r].done = 1
        /\ \A q \in Req \ {r} : trace'[q] = trace[q]
    <3> DEFINE ended == [trace[r] EXCEPT !.inflight = @ - 1, !.done = @ + 1]
    <3>1. ended \in Row /\ ended.inflight = 0 /\ ended.done = 0 + 1
      BY <2>1, RowSucceeds
    <3>2. trace' = [trace EXCEPT ![r] = ended]
      BY <1>12, <2>1 DEF CompleteSucceeds, Row
    <3> HIDE DEF ended
    <3> QED
      BY <2>1, <3>1, <3>2
  <2>3. TypeOK'
    BY <1>0, <1>b, <1>12, <2>2 DEF TypeOK, Row, CompleteSucceeds, Answer
  <2>4. TraceMatchesAnswer'
    BY <1>0, <1>12, <2>2 DEF TypeOK, CompleteSucceeds, Answer
  <2>5. /\ AttemptBounded' /\ ChosenIsFresh' /\ UnansweredUntilReturn'
        /\ CalledIsExcluded' /\ PostsCounted'
    BY <1>0, <1>12 DEF TypeOK, CompleteSucceeds, Answer
  <2> QED
    BY <2>3, <2>4, <2>5
<1>13. ASSUME NEW r \in Req, NEW why \in {"deadline", "canceled"}, CtxEnds(r, why)
       PROVE  TypeOK' /\ Parts'
  <2>1. TypeOK'
    BY <1>0, <1>13 DEF TypeOK, CtxEnds
  <2>2. Parts'
    <3>1. AttemptBounded' /\ ChosenIsFresh' /\ UnansweredUntilReturn'
      BY <1>0, <1>13 DEF TypeOK, CtxEnds
    <3>2. CalledIsExcluded' /\ PostsCounted'
      BY <1>0, <1>13 DEF TypeOK, CtxEnds
    <3>3. TraceMatchesAnswer'
      BY <1>0, <1>13 DEF TypeOK, CtxEnds
    <3> QED
      BY <3>1, <3>2, <3>3
  <2> QED
    BY <2>1, <2>2
<1>14. ASSUME NEW w \in Worker, NEW v \in {"absent", "other", "advertised", "loaded"},
              CacheChange(w, v)
       PROVE  TypeOK' /\ Parts'
  <2>1. TypeOK'
    <3>1. changes' \in 0..MaxChanges
      <4>1. changes \in 0..MaxChanges /\ changes < MaxChanges /\ changes' = changes + 1
        BY <1>0, <1>14 DEF TypeOK, CacheChange
      <4> QED
        BY <4>1, FailoverAssumption
    <3>2. steady' \in [Req -> SUBSET Worker] /\ cache' \in [Worker -> {"absent", "other", "advertised", "loaded"}]
      BY <1>0, <1>14 DEF TypeOK, CacheChange
    <3> QED
      BY <1>0, <1>14, <3>1, <3>2 DEF TypeOK, CacheChange
  <2>2. Parts'
    <3>1. AttemptBounded' /\ ChosenIsFresh' /\ UnansweredUntilReturn'
      BY <1>0, <1>14 DEF TypeOK, CacheChange
    <3>2. CalledIsExcluded' /\ PostsCounted'
      BY <1>0, <1>14 DEF TypeOK, CacheChange
    <3>3. TraceMatchesAnswer'
      BY <1>0, <1>14 DEF TypeOK, CacheChange
    <3> QED
      BY <3>1, <3>2, <3>3
  <2> QED
    BY <2>1, <2>2
<1>15. ASSUME NEW w \in Worker, OtherCall(w) PROVE TypeOK' /\ Parts'
  <2>1. TypeOK'
    <3>1. changes' \in 0..MaxChanges
      <4>1. changes \in 0..MaxChanges /\ changes < MaxChanges /\ changes' = changes + 1
        BY <1>0, <1>15 DEF TypeOK, OtherCall
      <4> QED
        BY <4>1, FailoverAssumption
    <3>2. pending' \in [Worker -> SUBSET (Req \cup {Other})]
      BY <1>0, <1>15 DEF TypeOK, OtherCall
    <3> QED
      BY <1>0, <1>15, <3>1, <3>2 DEF TypeOK, OtherCall
  <2>2. Parts'
    <3>1. AttemptBounded' /\ ChosenIsFresh' /\ UnansweredUntilReturn'
      BY <1>0, <1>15 DEF TypeOK, OtherCall
    <3>2. CalledIsExcluded' /\ PostsCounted'
      BY <1>0, <1>15 DEF TypeOK, OtherCall
    <3>3. TraceMatchesAnswer'
      BY <1>0, <1>15 DEF TypeOK, OtherCall
    <3> QED
      BY <3>1, <3>2, <3>3
  <2> QED
    BY <2>1, <2>2
<1>16. CASE UNCHANGED vars
  BY <1>0, <1>16 DEF TypeOK, vars
<1>17. ASSUME DispatchInv' PROVE TypeOK' /\ Parts'
  BY <1>17 DEF DispatchInv
<1> HIDE DEF Parts
<1> QED
  BY <1>1, <1>2, <1>3, <1>4, <1>5, <1>6, <1>7, <1>8, <1>9, <1>10, <1>11, <1>12,
     <1>13, <1>14, <1>15, <1>16, <1>17, <1>18 DEF Next, DispatchWithFailover

LEMMA DispatchInvariant == Spec => []DispatchInv
  BY DispatchInit, DispatchNext, PTL DEF Spec

(* Every request's attempt counter, exclusion list, trace rows and status  *)
(* stay in range, however many requests share the cache and the workers.   *)
THEOREM TypeCorrect == Spec => []TypeOK
  BY DispatchInvariant, PTL DEF DispatchInv

(* Whatever the cache does between the candidate snapshot, the fallback    *)
(* scan and the next attempt, a worker that opted out is never sent the    *)
(* request, a WebSocket worker is sent it at most once and an HTTP worker  *)
(* at most as often as one postWithRetry POSTs: failover never returns.    *)
THEOREM SentWithinItsLimit == Spec => []SentWithinLimits
<1>1. DispatchInv => SentWithinLimits
  BY DEF DispatchInv, CalledIsExcluded, SentWithinLimits
<1> QED
  BY <1>1, DispatchInvariant, PTL

(* The tracker's rows agree with what the client was told: one row in      *)
(* flight while a call is out, none after the answer, and a done row only  *)
(* for a 200.                                                              *)
THEOREM TraceIsTruthful == Spec => []TraceMatchesAnswer
  BY DispatchInvariant, PTL DEF DispatchInv

-----------------------------------------------------------------------------
(* Giving up.                                                              *)

LEMMA ExcludedFinite ==
  ASSUME TypeOK, NEW r \in Req
  PROVE  IsFiniteSet(excluded[r]) /\ Cardinality(excluded[r]) \in Nat
<1>1. excluded[r] \subseteq Worker
  BY DEF TypeOK
<1> QED
  BY <1>1, FS_Subset, FS_CardinalityType, FailoverAssumption

(* The exclusion list keeps pace with the attempt counter. *)
LEMMA TryNextCounts ==
  ASSUME DispatchInv, AttemptsTried, NEW r \in Req, NEW e, TryNext(r, e),
         at[r] \in {"selected", "calling", "waiting"}, UNCHANGED steady
  PROVE  AttemptsTried'
<1>0. TypeOK /\ chosen[r] \notin excluded[r] /\ attempt[r] \in Nat
  <2>1. TypeOK /\ chosen[r] \notin excluded[r]
    BY DEF DispatchInv, ChosenIsFresh
  <2>2. attempt[r] \in 1..(MaxAttempts + 1)
    BY <2>1 DEF TypeOK
  <2> QED
    BY <2>1, <2>2, FailoverAssumption
<1>1. \A q \in Req \ {r} : attempt'[q] = attempt[q] /\ excluded'[q] = excluded[q]
  BY <1>0 DEF TryNext, TypeOK
<1>2. attempt'[r] = attempt[r] + 1 /\ excluded'[r] = excluded[r] \cup {chosen[r]}
  BY <1>0 DEF TryNext, TypeOK
<1>3. /\ Cardinality(excluded'[r]) = Cardinality(excluded[r]) + 1
      /\ Cardinality(excluded[r]) \in Nat
  BY <1>0, <1>2, ExcludedFinite, FS_AddElement
<1>4. ASSUME NEW q \in Req
      PROVE  \/ attempt'[q] <= Cardinality(excluded'[q]) + 1
             \/ steady'[q] \cap Willing \subseteq excluded'[q]
  <2>1. CASE q # r
    BY <1>1, <2>1 DEF AttemptsTried
  <2>2. CASE q = r
    <3>1. CASE attempt[r] <= Cardinality(excluded[r]) + 1
      <4>1. attempt[r] + 1 <= (Cardinality(excluded[r]) + 1) + 1
        BY <1>0, <1>3, <3>1
      <4> QED
        BY <1>2, <1>3, <2>2, <4>1
    <3>2. CASE steady[r] \cap Willing \subseteq excluded[r]
      BY <1>2, <2>2, <3>2
    <3> QED
      BY <3>1, <3>2 DEF AttemptsTried
  <2> QED
    BY <2>1, <2>2
<1> QED
  BY <1>4 DEF AttemptsTried

LEMMA TriedNext == DispatchInv /\ TriedInv /\ [Next]_vars => TriedInv'
<1> SUFFICES ASSUME DispatchInv, TriedInv, [Next]_vars PROVE TriedInv'
  OBVIOUS
<1> USE DEF sharedVars, outVars
<1>0. TypeOK /\ IdleUntried /\ SteadyIsCached /\ AttemptsTried /\ GivesUpOnlyWhenTried
  BY DEF DispatchInv, TriedInv
<1>1. ASSUME NEW r \in Req, Arrive(r) PROVE TriedInv'
  <2>1. IdleUntried' /\ SteadyIsCached'
    BY <1>0, <1>1 DEF TypeOK, Arrive, IdleUntried, SteadyIsCached, Cached
  <2>2. AttemptsTried'
    <3>1. attempt[r] <= Cardinality(excluded[r]) + 1
      BY <1>0, <1>1, ExcludedFinite DEF Arrive, IdleUntried
    <3>2. /\ UNCHANGED <<attempt, excluded>>
          /\ \A q \in Req \ {r} : steady'[q] = steady[q]
      BY <1>0, <1>1 DEF TypeOK, Arrive
    <3> QED
      BY <1>0, <3>1, <3>2 DEF AttemptsTried
  <2>3. GivesUpOnlyWhenTried'
    <3>1. status[r] = "none"
      BY <1>1 DEF Arrive, DispatchInv, UnansweredUntilReturn
    <3>2. /\ UNCHANGED <<status, lastErr, excluded>>
          /\ \A q \in Req \ {r} : steady'[q] = steady[q]
      BY <1>0, <1>1 DEF TypeOK, Arrive
    <3> QED
      BY <1>0, <3>1, <3>2 DEF GivesUpOnlyWhenTried
  <2> QED
    BY <2>1, <2>2, <2>3 DEF TriedInv
<1>2. ASSUME /\ UNCHANGED <<attempt, excluded, status, lastErr>> /\ SteadyIsCached'
             /\ \A r \in Req : /\ steady'[r] \subseteq steady[r]
                               /\ at'[r] = "idle" => at[r] = "idle"
      PROVE  TriedInv'
  BY <1>0, <1>2 DEF TriedInv, IdleUntried, AttemptsTried, GivesUpOnlyWhenTried
<1>3. ASSUME UNCHANGED <<cache, steady>> PROVE SteadyIsCached'
  BY <1>0, <1>3 DEF SteadyIsCached, Cached
<1>4. ASSUME NEW w \in Worker, NEW v \in {"absent", "other", "advertised", "loaded"},
             CacheChange(w, v)
      PROVE  TriedInv'
  <2>1. SteadyIsCached'
    BY <1>0, <1>4 DEF TypeOK, CacheChange, SteadyIsCached, Cached
  <2>2. \A r \in Req : steady'[r] \subseteq steady[r]
    BY <1>0, <1>4 DEF TypeOK, CacheChange
  <2> QED
    BY <1>2, <1>4, <2>1, <2>2 DEF CacheChange
<1>5. ASSUME NEW r \in Req,
             \/ BuildCandidates(r) \/ Dispatch(r) \/ Admit(r) \/ Repost(r)
             \/ \E w \in Worker : Select(r, w)
             \/ \E why \in {"deadline", "canceled"} : CtxEnds(r, why)
      PROVE  TriedInv'
  <2>1. UNCHANGED <<cache, steady, attempt, excluded, status, lastErr>>
    BY <1>5 DEF BuildCandidates, Dispatch, Admit, Repost, Select, CtxEnds
  <2>2. \A q \in Req : at'[q] = "idle" => at[q] = "idle"
    BY <1>0, <1>5 DEF TypeOK, BuildCandidates, Dispatch, Admit, Repost, Select, CtxEnds
  <2> QED
    BY <1>2, <1>3, <2>1, <2>2
<1>6. CASE UNCHANGED vars \/ \E w \in Worker : OtherCall(w)
  <2>1. UNCHANGED <<cache, steady, at, attempt, excluded, status, lastErr>>
    BY <1>6 DEF vars, OtherCall
  <2> QED
    BY <1>2, <1>3, <2>1
<1>7. ASSUME NEW r \in Req, UNCHANGED <<cache, steady, attempt, excluded>>, at[r] # "idle",
             at' = [at EXCEPT ![r] = "returned"],
             \A q \in Req \ {r} : status'[q] = status[q] /\ lastErr'[q] = lastErr[q],
             \/ status'[r] # "503 all_attempts_failed"
             \/ lastErr'[r] \in {"deadline", "canceled"}
             \/ attempt[r] > MaxAttempts
      PROVE  TriedInv'
  <2>1. IdleUntried' /\ AttemptsTried' /\ SteadyIsCached'
    BY <1>0, <1>3, <1>7 DEF TypeOK, IdleUntried, AttemptsTried
  <2>2. attempt[r] > MaxAttempts => \/ Cardinality(excluded[r]) >= MaxAttempts
                                    \/ steady[r] \cap Willing \subseteq excluded[r]
    <3>1. attempt[r] \in 1..(MaxAttempts + 1)
      BY <1>0 DEF TypeOK
    <3>2. \/ attempt[r] <= Cardinality(excluded[r]) + 1
          \/ steady[r] \cap Willing \subseteq excluded[r]
      BY <1>0 DEF AttemptsTried
    <3>3. Cardinality(excluded[r]) \in Nat
      BY <1>0, ExcludedFinite
    <3> QED
      BY <3>1, <3>2, <3>3, FailoverAssumption
  <2>3. GivesUpOnlyWhenTried'
    BY <1>0, <1>7, <2>2 DEF GivesUpOnlyWhenTried
  <2> QED
    BY <2>1, <2>3 DEF TriedInv
<1>8. ASSUME NEW r \in Req, OverBudget(r) PROVE TriedInv'
  <2>1. /\ \A q \in Req \ {r} : status'[q] = status[q] /\ lastErr'[q] = lastErr[q]
        /\ lastErr'[r] \in {"deadline", "canceled"}
    BY <1>0, <1>8 DEF TypeOK, OverBudget, Answer
  <2> QED
    BY <1>7, <1>8, <2>1 DEF OverBudget, Answer
<1>9. ASSUME NEW r \in Req, Exhausted(r) PROVE TriedInv'
  <2>1. \A q \in Req \ {r} : status'[q] = status[q] /\ lastErr'[q] = lastErr[q]
    BY <1>0, <1>9 DEF TypeOK, Exhausted, Answer
  <2> QED
    BY <1>7, <1>9, <2>1 DEF Exhausted, Answer
<1>10. ASSUME NEW r \in Req, CompleteSucceeds(r) PROVE TriedInv'
  <2>1. /\ \A q \in Req \ {r} : status'[q] = status[q] /\ lastErr'[q] = lastErr[q]
        /\ status'[r] = "200"
    BY <1>0, <1>10 DEF TypeOK, CompleteSucceeds, Answer
  <2> QED
    BY <1>7, <1>10, <2>1 DEF CompleteSucceeds, Answer
<1>11. ASSUME NEW r \in Req, SelectFails(r) PROVE TriedInv'
  <2>1. steady[r] \cap Willing \subseteq excluded[r]
    BY <1>0, <1>11, SelectableIsFresh DEF SelectFails, SteadyIsCached
  <2>2. /\ UNCHANGED <<steady, excluded, status>>
        /\ \A q \in Req \ {r} : attempt'[q] = attempt[q] /\ lastErr'[q] = lastErr[q]
        /\ at'[r] = "loop" /\ \A q \in Req \ {r} : at'[q] = at[q]
    BY <1>0, <1>11 DEF TypeOK, SelectFails
  <2>3. IdleUntried' /\ SteadyIsCached'
    BY <1>0, <1>3, <1>11, <2>2 DEF IdleUntried, SelectFails
  <2>4. AttemptsTried' /\ GivesUpOnlyWhenTried'
    BY <1>0, <2>1, <2>2 DEF AttemptsTried, GivesUpOnlyWhenTried
  <2> QED
    BY <2>3, <2>4 DEF TriedInv
<1>12. ASSUME NEW r \in Req, NEW e \in Err, TryNext(r, e), UNCHANGED <<cache, steady, status>>,
              at[r] \in {"selected", "calling", "waiting"}
       PROVE  TriedInv'
  <2>1. AttemptsTried' /\ SteadyIsCached'
    BY <1>0, <1>3, <1>12, TryNextCounts
  <2>2. /\ \A q \in Req \ {r} : /\ attempt'[q] = attempt[q] /\ lastErr'[q] = lastErr[q]
                               /\ at'[q] = at[q] /\ excluded'[q] = excluded[q]
        /\ at'[r] = "loop" /\ status[r] = "none"
    BY <1>0, <1>12 DEF TypeOK, TryNext, DispatchInv, UnansweredUntilReturn
  <2>3. IdleUntried' /\ GivesUpOnlyWhenTried'
    BY <1>0, <1>12, <2>2 DEF IdleUntried, GivesUpOnlyWhenTried
  <2> QED
    BY <2>1, <2>3 DEF TriedInv
<1>13. ASSUME NEW r \in Req, RateLimited(r) PROVE TriedInv'
  <2>1. "rateLimited" \in Err
    BY DEF Err
  <2> QED
    BY <1>12, <1>13, <2>1 DEF RateLimited
<1>14. ASSUME NEW r \in Req, NEW e \in Err, Failed(r, e), at[r] \in {"calling", "waiting"}
       PROVE  TriedInv'
  <2>1. CASE isRetryableError(e)
    BY <1>12, <1>14, <2>1 DEF Failed
  <2>2. CASE ~isRetryableError(e)
    <3>1. /\ Answer(r, StatusOf(FALSE, e)) /\ lastErr' = [lastErr EXCEPT ![r] = e]
          /\ UNCHANGED <<cache, steady, attempt, excluded>>
      BY <1>14, <2>2 DEF Failed
    <3>2. /\ \A q \in Req \ {r} : status'[q] = status[q] /\ lastErr'[q] = lastErr[q]
          /\ status'[r] = StatusOf(FALSE, e)
      BY <1>0, <3>1 DEF TypeOK, Answer
    <3>3. status'[r] # "503 all_attempts_failed"
      BY <3>2, Statuses
    <3> QED
      BY <1>7, <1>14, <3>1, <3>2, <3>3 DEF Answer
  <2> QED
    BY <2>1, <2>2
<1>15. ASSUME NEW r \in Req, Refused(r) PROVE TriedInv'
  <2>1. "rateLimited" \in Err
    BY DEF Err
  <2> QED
    BY <1>14, <1>15, <2>1 DEF Refused
<1>16. ASSUME NEW r \in Req, NEW e \in Err, CompleteFails(r, e) PROVE TriedInv'
  BY <1>14, <1>16 DEF CompleteFails
<1> QED
  BY <1>1, <1>4, <1>5, <1>6, <1>8, <1>9, <1>10, <1>11, <1>13, <1>15, <1>16
     DEF Next, DispatchWithFailover

(* With the client still there, a request is told that all attempts failed *)
(* only after as many different workers as the limit allows, or after      *)
(* every willing worker that stayed in the cache: entries that come, go or *)
(* change between the two cache reads never make the loop skip one.        *)
THEOREM NoUsableWorkerSkipped == Spec => []GivesUpOnlyWhenTried
<1>1. Init => TriedInv
  <2>1. Cardinality({}) = 0
    BY FS_EmptySet
  <2> QED
    BY <2>1 DEF Init, TriedInv, IdleUntried, SteadyIsCached, AttemptsTried, GivesUpOnlyWhenTried
<1>2. TriedInv => GivesUpOnlyWhenTried
  BY DEF TriedInv
<1> QED
  BY <1>1, <1>2, DispatchInvariant, TriedNext, PTL DEF Spec

-----------------------------------------------------------------------------
(* The attempt limit.                                                      *)

SentTo(r) == {w \in Worker : calls[r][w] # 0}

(* The limit of the configuration bounds the workers a request reaches. *)
AttemptsLimited == \A r \in Req : Cardinality(SentTo(r)) <= MaxAttempts

(* Each excluded worker has used up an attempt, and so will a called one   *)
(* that is not excluded yet, for which there was still room.               *)
LimitInv ==
  /\ \A r \in Req : Cardinality(excluded[r]) + 1 <= attempt[r]
  /\ \A r \in Req : \A w \in SentTo(r) \ excluded[r] : attempt[r] <= MaxAttempts

(* What one step does to the counter and the exclusion list of a request. *)
LEMMA CounterStep ==
  ASSUME DispatchInv, [Next]_vars, NEW q \in Req
  PROVE  \/ /\ attempt'[q] \in {attempt[q], attempt[q] + 1}
            /\ excluded'[q] = excluded[q]
            /\ at'[q] = "returned" => attempt'[q] = attempt[q] /\ calls'[q] = calls[q]
         \/ /\ at'[q] = "loop"
            /\ attempt'[q] = attempt[q] + 1
            /\ excluded'[q] = excluded[q] \cup {chosen[q]}
<1> DEFINE Goal == \/ /\ attempt'[q] \in {attempt[q], attempt[q] + 1}
                      /\ excluded'[q] = excluded[q]
                      /\ at'[q] = "returned" => attempt'[q] = attempt[q] /\ calls'[q] = calls[q]
                   \/ /\ at'[q] = "loop"
                      /\ attempt'[q] = attempt[q] + 1
                      /\ excluded'[q] = excluded[q] \cup {chosen[q]}
<1> USE DEF sharedVars, outVars
<1>0. TypeOK
  BY DEF DispatchInv
<1>1. ASSUME UNCHANGED <<attempt, excluded, calls>> PROVE Goal
  BY <1>1
<1>2. CASE \/ UNCHANGED vars
           \/ \E w \in Worker : OtherCall(w)
           \/ \E w \in Worker, v \in {"absent", "other", "advertised", "loaded"} :
                CacheChange(w, v)
  BY <1>1, <1>2 DEF vars, OtherCall, CacheChange
<1>3. ASSUME NEW r \in Req,
             \/ Arrive(r) \/ OverBudget(r) \/ Exhausted(r) \/ BuildCandidates(r)
             \/ Dispatch(r) \/ CompleteSucceeds(r)
             \/ \E w \in Worker : Select(r, w)
             \/ \E why \in {"deadline", "canceled"} : CtxEnds(r, why)
      PROVE  Goal
  BY <1>1, <1>3 DEF Arrive, OverBudget, Exhausted, BuildCandidates, Dispatch, CompleteSucceeds,
                    Select, CtxEnds
<1>4. ASSUME NEW r \in Req, SelectFails(r) PROVE Goal
  BY <1>0, <1>4 DEF TypeOK, SelectFails
<1>5. ASSUME NEW r \in Req, Admit(r) \/ Repost(r) PROVE Goal
  <2>1. /\ UNCHANGED <<attempt, excluded>>
        /\ at'[r] = "waiting" /\ \A p \in Req \ {r} : calls'[p] = calls[p]
    BY <1>0, <1>5 DEF TypeOK, Admit, Repost, Sent
  <2> QED
    BY <2>1
<1>6. ASSUME NEW r \in Req, NEW e, TryNext(r, e), UNCHANGED calls PROVE Goal
  BY <1>0, <1>6 DEF TypeOK, TryNext
<1>7. ASSUME NEW r \in Req, RateLimited(r) PROVE Goal
  BY <1>6, <1>7 DEF RateLimited
<1>8. ASSUME NEW r \in Req, NEW e, Failed(r, e) PROVE Goal
  BY <1>1, <1>6, <1>8 DEF Failed
<1>9. ASSUME NEW r \in Req, Refused(r) \/ \E e \in Err : CompleteFails(r, e) PROVE Goal
  BY <1>8, <1>9 DEF Refused, CompleteFails
<1> QED
  BY <1>2, <1>3, <1>4, <1>5, <1>7, <1>9 DEF Next, DispatchWithFailover

LEMMA LimitNext == DispatchInv /\ LimitInv /\ [Next]_vars => LimitInv'
<1> SUFFICES ASSUME DispatchInv, LimitInv, [Next]_vars, NEW q \in Req
             PROVE  /\ Cardinality(excluded'[q]) + 1 <= attempt'[q]
                    /\ \A w \in SentTo(q)' \ excluded'[q] : attempt'[q] <= MaxAttempts
  BY DEF LimitInv
<1>0. DispatchInv'
  BY DispatchNext
<1>1. /\ IsFiniteSet(excluded[q]) /\ Cardinality(excluded[q]) \in Nat
      /\ attempt[q] \in Nat /\ attempt'[q] \in Nat
  <2>1. attempt[q] \in 1..(MaxAttempts + 1) /\ attempt'[q] \in 1..(MaxAttempts + 1)
    BY <1>0 DEF DispatchInv, TypeOK
  <2>2. TypeOK
    BY DEF DispatchInv
  <2> QED
    BY <2>1, <2>2, ExcludedFinite, FailoverAssumption
<1>2. Cardinality(excluded[q]) + 1 <= attempt[q]
  BY DEF LimitInv
<1>3. Cardinality(excluded'[q]) + 1 <= attempt'[q]
  <2>1. CASE /\ attempt'[q] \in {attempt[q], attempt[q] + 1}
             /\ excluded'[q] = excluded[q]
    BY <1>1, <1>2, <2>1
  <2>2. CASE /\ attempt'[q] = attempt[q] + 1
             /\ excluded'[q] = excluded[q] \cup {chosen[q]}
    <3>1. \/ Cardinality(excluded'[q]) = Cardinality(excluded[q])
          \/ Cardinality(excluded'[q]) = Cardinality(excluded[q]) + 1
      BY <1>1, <2>2, FS_AddElement
    <3> QED
      BY <1>1, <1>2, <2>2, <3>1
  <2> QED
    BY <2>1, <2>2, CounterStep
<1>4. ASSUME NEW w \in SentTo(q)' \ excluded'[q] PROVE attempt'[q] <= MaxAttempts
  <2>1. w \in Worker /\ calls'[q][w] # 0 /\ w \notin excluded'[q]
    BY <1>4 DEF SentTo
  <2>2. at'[q] \in {"waiting", "returned"}
    BY <1>0, <2>1 DEF DispatchInv, CalledIsExcluded
  <2>3. CASE at'[q] = "waiting"
    BY <1>0, <2>3 DEF DispatchInv, AttemptBounded
  <2>4. CASE at'[q] = "returned"
    <3>1. attempt'[q] = attempt[q] /\ calls'[q] = calls[q] /\ excluded'[q] = excluded[q]
      BY <2>4, CounterStep
    <3>2. w \in SentTo(q) \ excluded[q]
      BY <2>1, <3>1 DEF SentTo
    <3> QED
      BY <3>1, <3>2 DEF LimitInv
  <2> QED
    BY <2>2, <2>3, <2>4
<1> QED
  BY <1>3, <1>4

(* Whatever the cache does and however calls fail, a request is sent to at *)
(* most maxAttempts workers: an attempt that a failed selection or a full  *)
(* connection used up is never given back.                                 *)
THEOREM AttemptLimitHolds == Spec => []AttemptsLimited
<1>1. Init => LimitInv
  <2>1. Cardinality({}) = 0
    BY FS_EmptySet
  <2> QED
    BY <2>1 DEF Init, LimitInv, SentTo
<1>2. DispatchInv /\ LimitInv => AttemptsLimited
  <2> SUFFICES ASSUME DispatchInv, LimitInv, NEW r \in Req
               PROVE  Cardinality(SentTo(r)) <= MaxAttempts
    BY DEF AttemptsLimited
  <2> DEFINE E == excluded[r]
             S == SentTo(r)
  <2>1. /\ IsFiniteSet(E) /\ Cardinality(E) \in Nat /\ MaxAttempts \in Nat
        /\ attempt[r] \in Nat /\ attempt[r] <= MaxAttempts + 1
    <3>1. TypeOK
      BY DEF DispatchInv
    <3>2. attempt[r] \in 1..(MaxAttempts + 1)
      BY <3>1 DEF TypeOK
    <3> QED
      BY <3>1, <3>2, ExcludedFinite, FailoverAssumption
  <2>2. Cardinality(E) + 1 <= attempt[r]
    BY DEF LimitInv
  <2>3. S \subseteq E \cup {chosen[r]}
    BY DEF DispatchInv, CalledIsExcluded, SentTo
  <2>4. \A w \in S \ E : attempt[r] <= MaxAttempts
    BY DEF LimitInv
  <2> SUFFICES Cardinality(S) <= MaxAttempts
    OBVIOUS
  <2> HIDE DEF E, S
  <2>5. CASE S \subseteq E
    <3>1. Cardinality(S) <= Cardinality(E) /\ Cardinality(S) \in Nat
      BY <2>1, <2>5, FS_Subset, FS_CardinalityType
    <3> QED
      BY <2>1, <2>2, <3>1
  <2>6. CASE ~(S \subseteq E)
    <3>1. attempt[r] <= MaxAttempts
      BY <2>4, <2>6
    <3>2. /\ IsFiniteSet(E \cup {chosen[r]})
          /\ \/ Cardinality(E \cup {chosen[r]}) = Cardinality(E)
             \/ Cardinality(E \cup {chosen[r]}) = Cardinality(E) + 1
      BY <2>1, FS_AddElement
    <3>3. Cardinality(S) <= Cardinality(E \cup {chosen[r]}) /\ Cardinality(S) \in Nat
      BY <2>3, <3>2, FS_Subset, FS_CardinalityType
    <3> QED
      BY <2>1, <2>2, <3>1, <3>2, <3>3
  <2> QED
    BY <2>5, <2>6
<1> QED
  BY <1>1, <1>2, DispatchInvariant, LimitNext, PTL DEF Spec
=============================================================================
