---------------------------- MODULE WorkerServe -----------------------------
(***************************************************************************)
(* How a worker serves inference requests: the HTTP handlers               *)
(* (pkg/worker/handlers.go), the dispatch of requests that come over the   *)
(* WebSocket (ws_client.go), the OpenAI-compatible backend client with its *)
(* streaming goroutine and idle timer (openai.go, openai_stream.go,        *)
(* idle.go), the health loop (server.go), and the breaker and estimator    *)
(* they share.                                                             *)
(*                                                                         *)
(* A chunk is not told apart from another: a stream is a number of chunks. *)
(* The backend itself is the environment: reachable or not (up), answering *)
(* or failing as it likes.                                                 *)
(***************************************************************************)
EXTENDS WorkerCapacity, FiniteSets

CONSTANTS
  Req,         \* requests
  MaxRetries,  \* attempts of retryWithBackoff
  ChunkBuf,    \* capacity of chunkCh
  MaxChunks    \* bound: chunks the backend sends per stream

ASSUME WorkerServeAssumption ==
  /\ IsFiniteSet(Req)
  /\ MaxRetries \in Nat \ {0} /\ ChunkBuf \in Nat \ {0}
  /\ MaxChunks \in Nat

VARIABLES
  up,       \* the backend answers
  cb,       \* the circuit breaker
  est,      \* the concurrency estimator
  health,   \* the health loop: "tick", "probing" or "reporting"
  req,      \* per request: its handler
  prod      \* per request: the streaming goroutine and its two channels

vars == <<up, cb, est, health, req, prod>>
sysVars == <<up, health>>

(* A request comes over the WebSocket or HTTP, asks for a stream or not,   *)
(* and for a chat or a plain completion.                                   *)
Kind == [ws : BOOLEAN, stream : BOOLEAN, chat : BOOLEAN]
IsWS(r) == req[r].kind.ws
IsStream(r) == req[r].kind.stream
IsChat(r) == req[r].kind.chat

NewReq == [kind |-> [ws |-> FALSE, stream |-> FALSE, chat |-> FALSE], at |-> "idle", tries |-> 0, ret |-> "none", got |-> 0, ctx |-> FALSE,
           out |-> "none"]
NewProd == [at |-> "none", buf |-> 0, put |-> 0, err |-> "none", end |-> "none"]

(* A start or a restart, with the cap some earlier process persisted,      *)
(* perhaps for a backend with more threads.                                *)
Init ==
  /\ up \in BOOLEAN /\ cb = NewCircuitBreaker
  /\ \E c \in {0} \cup PersistedCaps : est = NewConcurrencyEstimator(c)
  /\ health = "tick"
  /\ req = [r \in Req |-> NewReq] /\ prod = [r \in Req |-> NewProd]

Goto(r, x) == req' = [req EXCEPT ![r].at = x]
(* The handler returns; net/http ends the context of an HTTP request. *)
Answer(r, x) == req' = [req EXCEPT ![r].at = "done", ![r].out = x, ![r].tries = 0,
                                   ![r].ret = "none", ![r].ctx = @ \/ ~IsWS(r)]
(* The HTTP handler is in a write to its caller; x is the answer it ends,  *)
(* "none" for a chunk of a stream.                                         *)
WriteOut(r, x) == req' = [req EXCEPT ![r].at = "writing", ![r].out = x]

-----------------------------------------------------------------------------
(* The handlers up to the backend call.                                    *)

Arrive(r, k) ==
  /\ req[r].at = "idle"
  /\ req' = [req EXCEPT ![r].kind = k,
               ![r].at = IF ~k.ws THEN "check" ELSE IF k.stream THEN "open" ELSE "execute"]
  /\ UNCHANGED <<cb, est, prod, sysVars>>

(* IsHealthy: no probe of an open circuit, else the backend is asked,      *)
(* without telling the breaker.  Either way "unhealthy" takes the cap to   *)
(* one.  Requests over the WebSocket are not checked.                      *)
CheckUnhealthy(r) ==
  /\ req[r].at = "check"
  /\ cb.state = "open" \/ ~up
  /\ est' = RecordCircuitOpen(est)
  /\ Answer(r, "unavailable")
  /\ UNCHANGED <<cb, prod, sysVars>>

CheckHealthy(r) ==
  /\ req[r].at = "check"
  /\ cb.state # "open" /\ up
  /\ Goto(r, IF IsStream(r) THEN "open" ELSE "execute")
  /\ UNCHANGED <<cb, est, prod, sysVars>>

(* CompleteChat asks the breaker; CompleteCompletions does not. *)
Execute(r) ==
  /\ req[r].at = "execute"
  /\ IF IsChat(r)
       THEN /\ cb' = AfterCanExecute(cb)
            /\ req' = [req EXCEPT ![r].at = IF CanExecute(cb) THEN "try" ELSE "result",
                                  ![r].ret = IF CanExecute(cb) THEN @ ELSE "err"]
       ELSE Goto(r, "try") /\ UNCHANGED cb
  /\ UNCHANGED <<est, prod, sysVars>>

TrySucceeds(r) ==
  /\ req[r].at = "try" /\ up
  /\ cb' = IF IsChat(r) THEN RecordSuccess(cb) ELSE cb
  /\ req' = [req EXCEPT ![r].at = "result", ![r].ret = "ok"]
  /\ UNCHANGED <<est, prod, sysVars>>

(* Each attempt is a failure of its own; /v1/completions has one attempt. *)
TryFails(r, status) ==
  /\ req[r].at = "try" /\ (status = "e429" => up)
  /\ cb' = IF IsChat(r) THEN RecordFailure(cb) ELSE cb
  /\ req' = [req EXCEPT ![r].ret = status, ![r].tries = @ + 1,
               ![r].at = IF IsChat(r) /\ req[r].tries + 1 < MaxRetries
                           THEN "backoff" ELSE "result"]
  /\ UNCHANGED <<est, prod, sysVars>>

Backoff(r) ==
  /\ req[r].at = "backoff"
  /\ \/ Goto(r, "try")
     \/ req[r].ctx /\ req' = [req EXCEPT ![r].at = "result", ![r].ret = "err"]
  /\ UNCHANGED <<cb, est, prod, sysVars>>

(* dispatchNonStreaming writes the answer or an error and records it with  *)
(* the estimator; on an error the HTTP handler goes on to the streaming    *)
(* path.  Over the WebSocket the result is sent and not recorded.          *)
Result(r, spike) ==
  /\ req[r].at = "result"
  /\ IF IsWS(r)
       THEN /\ Answer(r, IF req[r].ret = "ok" THEN "ok" ELSE "error")
            /\ UNCHANGED est
       ELSE /\ est' = RecordRequest(est, req[r].ret, spike)
            /\ IF req[r].ret = "ok" THEN WriteOut(r, "ok")
               ELSE req' = [req EXCEPT ![r].at = "open", ![r].ret = "none", ![r].tries = 0]
  /\ UNCHANGED <<cb, prod, sysVars>>

(* The client or the connection goes away. *)
CtxEnds(r) ==
  /\ req[r].at # "idle" /\ ~req[r].ctx
  /\ req' = [req EXCEPT ![r].ctx = TRUE]
  /\ UNCHANGED <<cb, est, prod, sysVars>>

-----------------------------------------------------------------------------
(* streamOpenAI: the goroutine between the backend and the handler.  It    *)
(* closes errCh, then chunkCh.                                             *)

ErrClosed(r) == prod[r].at \in {"close", "ended"}
ChunksClosed(r) == prod[r].at = "ended"
Drained(r) == ChunksClosed(r) /\ prod[r].buf = 0

OpenStream(r) ==
  /\ req[r].at = "open"
  /\ prod' = [prod EXCEPT ![r].at = "reading"]
  /\ Goto(r, "first")
  /\ UNCHANGED <<cb, est, sysVars>>

ProdTo(r, x) == prod' = [prod EXCEPT ![r].at = x]

(* A line with a chunk, the [DONE] line, or the end of the body. *)
ReadLine(r) ==
  /\ prod[r].at = "reading"
  /\ \/ /\ prod[r].put < MaxChunks /\ ProdTo(r, "sending")
     \/ prod' = [prod EXCEPT ![r].at = "leaving", ![r].end = "whole"]
     \/ prod' = [prod EXCEPT ![r].at = "final", ![r].end = "whole"]
  /\ UNCHANGED <<cb, est, req, sysVars>>

(* The request or the read fails, answers something but 200, or the idle   *)
(* timer cancels it.                                                       *)
ReadFails(r) ==
  /\ prod[r].at = "reading"
  /\ prod' = [prod EXCEPT ![r].at = "leaving", ![r].end = "error", ![r].err = "pending"]
  /\ UNCHANGED <<cb, est, req, sysVars>>

SendChunk(r) ==
  /\ prod[r].at \in {"sending", "final"} /\ prod[r].buf < ChunkBuf
  /\ prod' = [prod EXCEPT ![r].buf = @ + 1, ![r].put = @ + 1,
                ![r].at = IF @ = "final" THEN "leaving" ELSE "reading"]
  /\ UNCHANGED <<cb, est, req, sysVars>>

(* Mutant: the send has no way out. *)
SendAbandonedNever(r) == FALSE

(* A chunk is given up when the context has ended or the idle timer, which *)
(* only reading restarts, has fired: behind a full queue, or with room     *)
(* when it fired just as the line came.  The last send has no such way out. *)
SendAbandoned(r) == prod[r].at = "sending"

(* The goroutine says nothing of it in errCh. *)
LeaveSending(r) ==
  /\ SendAbandoned(r)
  /\ prod' = [prod EXCEPT ![r].at = "leaving",
                          ![r].end = IF req[r].ctx THEN "gone" ELSE "cut"]
  /\ UNCHANGED <<cb, est, req, sysVars>>

CloseErrCh(r) == /\ prod[r].at = "leaving" /\ ProdTo(r, "close")
                 /\ UNCHANGED <<cb, est, req, sysVars>>
CloseChunkCh(r) == /\ prod[r].at = "close" /\ ProdTo(r, "ended")
                   /\ UNCHANGED <<cb, est, req, sysVars>>

-----------------------------------------------------------------------------
(* streamSSE: the HTTP handler's loop.  It looks for an error first, then  *)
(* waits for a chunk, the end of the chunks or of the context.             *)

StreamBackendError(r) ==
  /\ prod' = [prod EXCEPT ![r].err = "taken"]
  /\ WriteOut(r, IF req[r].got = 0 THEN "error" ELSE "done after error")

CheckPendingError(r) ==
  /\ ~IsWS(r) /\ req[r].at = "first"
  /\ IF prod[r].err = "pending" THEN StreamBackendError(r)
                                ELSE Goto(r, "select") /\ UNCHANGED prod
  /\ UNCHANGED <<cb, est, sysVars>>

HttpSelects(r) == ~IsWS(r) /\ req[r].at = "select"

HttpChunk(r) ==
  /\ HttpSelects(r) /\ prod[r].buf > 0
  /\ prod' = [prod EXCEPT ![r].buf = @ - 1]
  /\ req' = [req EXCEPT ![r].at = "writing", ![r].got = @ + 1]
  /\ UNCHANGED <<cb, est, sysVars>>

(* Mutant: errCh is not looked at again once the chunks have ended. *)
HttpCloseUnchecked(r) ==
  /\ HttpSelects(r) /\ Drained(r)
  /\ WriteOut(r, "clean") /\ UNCHANGED prod
  /\ UNCHANGED <<cb, est, sysVars>>

(* errCh once more; a clean end is recorded as a completed inference. *)
HttpClose(r) ==
  /\ HttpSelects(r) /\ Drained(r)
  /\ IF prod[r].err = "pending" THEN StreamBackendError(r)
                                ELSE WriteOut(r, "clean") /\ UNCHANGED prod
  /\ UNCHANGED <<cb, est, sysVars>>

(* The caller has read what was written, or is gone; the servers set no    *)
(* WriteTimeout.  A chunk's write leads back into the loop, and a failed   *)
(* encoding of a whole answer on to the streaming path.                    *)
HttpWriteReturns(r) ==
  /\ req[r].at = "writing"
  /\ \/ req[r].out = "none" /\ Goto(r, "first")
     \/ req[r].out # "none" /\ Answer(r, req[r].out)
     \/ /\ req[r].out = "ok" /\ req[r].ctx
        /\ req' = [req EXCEPT ![r].at = "open", ![r].out = "none", ![r].ret = "none",
                              ![r].tries = 0]
  /\ UNCHANGED <<cb, est, prod, sysVars>>

HttpGone(r) ==
  /\ HttpSelects(r) /\ req[r].ctx
  /\ Answer(r, "gone")
  /\ UNCHANGED <<cb, est, prod, sysVars>>

-----------------------------------------------------------------------------
(* streamOrFallback: one select over both channels, the context and, until *)
(* the first chunk, the grace period.                                      *)

WSWaits(r) == IsWS(r) /\ req[r].at \in {"first", "select"}

(* The chunk goes out, or the connection is dead. *)
WSChunk(r) ==
  /\ WSWaits(r) /\ prod[r].buf > 0
  /\ prod' = [prod EXCEPT ![r].buf = @ - 1]
  /\ \/ req' = [req EXCEPT ![r].at = "select", ![r].got = @ + 1]
     \/ Answer(r, "gone")
  /\ UNCHANGED <<cb, est, sysVars>>

WSChunksEnd(r) ==
  /\ WSWaits(r) /\ Drained(r)
  /\ Answer(r, "clean")
  /\ UNCHANGED <<cb, est, prod, sysVars>>

(* errCh: an error, or closed, which is taken for the end of the stream    *)
(* whatever is left in chunkCh.                                            *)
WSErrCh(r) ==
  /\ WSWaits(r)
  /\ \/ /\ prod[r].err = "pending"
        /\ prod' = [prod EXCEPT ![r].err = "taken"] /\ Answer(r, "error")
     \/ /\ prod[r].err # "pending" /\ ErrClosed(r)
        /\ Answer(r, "clean") /\ UNCHANGED prod
  /\ UNCHANGED <<cb, est, sysVars>>

(* The streaming goroutine goes on beside the second backend call. *)
WSGrace(r) ==
  /\ IsWS(r) /\ req[r].at = "first"
  /\ Goto(r, "execute")
  /\ UNCHANGED <<cb, est, prod, sysVars>>

WSGone(r) ==
  /\ WSWaits(r) /\ req[r].ctx
  /\ Answer(r, "gone")
  /\ UNCHANGED <<cb, est, prod, sysVars>>

-----------------------------------------------------------------------------
(* The health loop, the estimator's own loop and timer, the clock.         *)

HealthProbe ==
  /\ health = "tick"
  /\ cb' = AfterCanExecute(cb)
  /\ health' = IF CanExecute(cb) THEN "probing" ELSE "reporting"
  /\ UNCHANGED <<up, est, req, prod>>

HealthResult ==
  /\ health = "probing"
  /\ cb' = IF up THEN RecordSuccess(cb) ELSE RecordFailure(cb)
  /\ health' = "reporting"
  /\ UNCHANGED <<up, est, req, prod>>

(* The state is read again and told to the estimator. *)
HealthReport ==
  /\ health = "reporting"
  /\ est' = CASE cb.state = "open"   -> RecordCircuitOpen(est)
              [] cb.state = "closed" -> RecordCircuitClosed(est)
              [] OTHER               -> est
  /\ health' = "tick"
  /\ UNCHANGED <<up, cb, req, prod>>

RecomputeTick(n, settled) ==
  /\ n <= est.n429
  /\ est' = Recompute(est, n, settled)
  /\ UNCHANGED <<cb, req, prod, sysVars>>

Cool == /\ cb.state = "open" /\ ~cb.cooled /\ cb' = [cb EXCEPT !.cooled = TRUE]
        /\ UNCHANGED <<est, req, prod, sysVars>>
BackendTurns == up' = ~up /\ UNCHANGED <<cb, est, health, req, prod>>

-----------------------------------------------------------------------------

(* What the handler of a request does by itself. *)
Handler(r) ==
  \/ CheckUnhealthy(r) \/ CheckHealthy(r) \/ Execute(r) \/ TrySucceeds(r)
  \/ (\E s \in {"e429", "err"} : TryFails(r, s)) \/ Backoff(r)
  \/ (\E b \in BOOLEAN : Result(r, b))
  \/ OpenStream(r) \/ CheckPendingError(r) \/ HttpChunk(r) \/ HttpClose(r) \/ HttpGone(r)
  \/ WSChunk(r) \/ WSChunksEnd(r) \/ WSErrCh(r) \/ WSGrace(r) \/ WSGone(r)

Producer(r) ==
  \/ ReadLine(r) \/ ReadFails(r) \/ SendChunk(r) \/ LeaveSending(r)
  \/ CloseErrCh(r) \/ CloseChunkCh(r)

HealthLoop == HealthProbe \/ HealthResult \/ HealthReport

Next ==
  \/ \E r \in Req : \/ \E k \in Kind : Arrive(r, k)
                    \/ Handler(r) \/ HttpWriteReturns(r) \/ Producer(r) \/ CtxEnds(r)
  \/ HealthLoop \/ (\E n \in 0..Http429Threshold, b \in BOOLEAN : RecomputeTick(n, b))
  \/ Cool \/ BackendTurns

Spec == Init /\ [][Next]_vars

(* Handlers and streaming goroutines run, the idle timer and the clients'  *)
(* time-outs end a read; the health loop is on; cool-downs pass.  Nothing  *)
(* is assumed of a caller that does not read what is written to it.        *)
Fairness ==
  /\ \A r \in Req : WF_vars(Handler(r)) /\ WF_vars(Producer(r))
  /\ WF_vars(HealthLoop) /\ WF_vars(Cool)

FairSpec == Spec /\ Fairness

-----------------------------------------------------------------------------
(* Properties.                                                             *)

ReqState == [kind : Kind,
             at : {"idle", "check", "execute", "try", "backoff", "result", "open",
                   "first", "select", "writing", "done"},
             tries : 0..MaxRetries, ret : {"none", "ok", "e429", "err"}, got : Nat,
             ctx : BOOLEAN,
             out : {"none", "ok", "error", "unavailable", "clean", "done after error", "gone"}]
ProdState == [at : {"none", "reading", "sending", "final", "leaving", "close", "ended"},
              buf : 0..ChunkBuf, put : 0..(MaxChunks + 1),
              err : {"none", "pending", "taken"},
              end : {"none", "whole", "error", "cut", "gone"}]

(* The type invariant: the cap never falls below one, whichever reasons    *)
(* to lower it come together.                                              *)
TypeOK ==
  /\ up \in BOOLEAN /\ cb \in Breaker /\ est \in Estimator
  /\ health \in {"tick", "probing", "reporting"}
  /\ req \in [Req -> ReqState] /\ prod \in [Req -> ProdState]

(* The breaker is closed exactly while its failures are below the          *)
(* threshold, although requests that began before it opened and the health *)
(* loop report their successes and failures in any order.                  *)
BreakerMatchesCount == (cb.state = "closed") <=> (cb.failures < FailureThreshold)

(* An HTTP stream that is ended with [DONE] and recorded as a completed    *)
(* inference passed on every chunk the backend's goroutine delivered, and  *)
(* hides no error that goroutine reported: one that races with the end of  *)
(* the chunks is not lost.  It may hide that the idle timer cut the stream *)
(* short, which the goroutine does not report (openai_stream.go:167-171):  *)
(* see CleanEndIsComplete below.                                           *)
CleanEndHidesNoError ==
  \A r \in Req :
    req[r].out = "clean" /\ ~IsWS(r) => prod[r].end # "error" /\ req[r].got = prod[r].put

(* The caller of an HTTP request is connected and does not read. *)
CallerBlocks(r) == [](req[r].at = "writing")

(* Every request ends and its streaming goroutine with it, whether the     *)
(* client leaves, the reader is slow or the handler fell back to another   *)
(* call.  Two exceptions: a goroutine whose last send finds the queue full *)
(* and its handler gone stays behind, and a handler whose caller stops     *)
(* reading waits for it.                                                   *)
Parked(r) == prod[r].at = "final" /\ prod[r].buf >= ChunkBuf
EveryRequestEnds ==
  \A r \in Req : (req[r].at # "idle")
     ~> \/ req[r].at = "done" /\ (prod[r].at \in {"none", "ended"} \/ Parked(r))
        \/ CallerBlocks(r)

(* Once the backend stays reachable and requests have stopped, the circuit *)
(* is found closed and the cap above one again and again, whether it fell  *)
(* by an open circuit, a failed probe, 429s, a spike or a restart.         *)
CapacityRecovers ==
  (<>[](up /\ \A r \in Req : req[r].at \in {"idle", "done"}))
     => []<>(cb.state = "closed" /\ est.cap > MinCap)

-----------------------------------------------------------------------------
(* What comments of the code say and the code does not do.                 *)

(* ws_client.go: streamOrFallback relays a backend streaming response as   *)
(* inference_chunk messages terminated by an inference_response.           *)
RelayedStreamIsComplete ==
  \A r \in Req : req[r].out = "clean" /\ IsWS(r) => req[r].got = prod[r].put

(* handlers.go: on a clean close the inference is recorded for the ranking *)
(* of the workers.  A stream the idle timer cut short ends the same way.   *)
CleanEndIsComplete ==
  \A r \in Req :
    req[r].out = "clean" /\ ~IsWS(r) => prod[r].end \in {"whole", "gone"}

=============================================================================
