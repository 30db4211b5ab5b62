---------------------------- MODULE WorkerProofs ----------------------------
(***************************************************************************)
(* Proofs about the worker: WorkerServe and WorkerCapacity for any number  *)
(* of concurrent requests and every threshold, cap, retry limit and        *)
(* channel size, then WorkerAgent for any number of reloads.               *)
(***************************************************************************)
EXTENDS WorkerServe, WorkerAgent, TLAPS

(* The circuit breaker and the estimator: what each critical section keeps. *)

CountRule(b) == (b.state = "closed") <=> (b.failures < FailureThreshold)

LEMMA RecordSuccessKeeps ==
  ASSUME NEW b \in Breaker, CountRule(b)
  PROVE  RecordSuccess(b) \in Breaker /\ CountRule(RecordSuccess(b))
<1> DEFINE n == [b EXCEPT !.state = "closed", !.failures = 0]
<1>0. 0 \in 0..FailureThreshold
  BY WorkerCapacityAssumption
<1>1. n \in Breaker
  BY <1>0 DEF Breaker
<1>2. n.state = "closed" /\ n.failures = 0
  BY DEF Breaker
<1>3. CountRule(n)
  BY <1>2, WorkerCapacityAssumption DEF CountRule
<1> QED
  BY <1>1, <1>3 DEF RecordSuccess

LEMMA RecordFailureKeeps ==
  ASSUME NEW b \in Breaker, CountRule(b)
  PROVE  RecordFailure(b) \in Breaker /\ CountRule(RecordFailure(b))
  BY WorkerCapacityAssumption DEF Breaker, CountRule, RecordFailure

LEMMA AfterCanExecuteKeeps ==
  ASSUME NEW b \in Breaker, CountRule(b)
  PROVE  AfterCanExecute(b) \in Breaker /\ CountRule(AfterCanExecute(b))
  BY WorkerCapacityAssumption DEF Breaker, CountRule, AfterCanExecute

LEMMA CoolKeeps ==
  ASSUME NEW b \in Breaker, CountRule(b)
  PROVE  [b EXCEPT !.cooled = TRUE] \in Breaker /\ CountRule([b EXCEPT !.cooled = TRUE])
  BY DEF Breaker, CountRule

LEMMA CapBounds ==
  /\ MinCap \in Cap /\ DefaultInitCap \in Cap /\ InitCap \in Cap
  /\ \A c \in Cap : c \in Int /\ (c > MinCap => c - 1 \in Cap) /\ c + 1 \in Cap
  BY WorkerCapacityAssumption DEF Cap, MinCap

LEMMA EstimatorInit == Init => est \in Estimator
<1> SUFFICES ASSUME NEW c \in {0} \cup PersistedCaps, est = NewConcurrencyEstimator(c)
             PROVE  est \in Estimator
  BY DEF Init
<1>1. (IF c > 0 THEN c ELSE InitCap) \in Cap
  BY WorkerCapacityAssumption DEF Cap
<1>2. 0 \in 0..Http429Threshold
  BY WorkerCapacityAssumption
<1> QED
  BY <1>1, <1>2 DEF NewConcurrencyEstimator, Estimator

LEMMA SetCapKeeps ==
  ASSUME NEW e \in Estimator, NEW c \in Cap
  PROVE  SetCap(e, c) \in Estimator
  BY DEF SetCap, Estimator

LEMMA RecordRequestKeeps ==
  ASSUME NEW e \in Estimator, NEW st, NEW spike \in BOOLEAN
  PROVE  RecordRequest(e, st, spike) \in Estimator
<1>1. (IF st = "e429" /\ e.n429 < Http429Threshold THEN e.n429 + 1 ELSE e.n429)
        \in 0..Http429Threshold
  BY WorkerCapacityAssumption DEF Estimator
<1> QED
  BY <1>1 DEF Estimator, RecordRequest

LEMMA CircuitKeeps ==
  ASSUME NEW e \in Estimator
  PROVE  RecordCircuitOpen(e) \in Estimator /\ RecordCircuitClosed(e) \in Estimator
  BY CapBounds, SetCapKeeps DEF RecordCircuitOpen, RecordCircuitClosed

(* However many reasons to lower the cap coincide, and whatever recovery   *)
(* adds, the cap stays at least one.                                       *)
LEMMA RecomputeKeeps ==
  ASSUME NEW e \in Estimator, NEW n \in 0..Http429Threshold, NEW settled \in BOOLEAN
  PROVE  Recompute(e, n, settled) \in Estimator
<1> DEFINE a == IF n >= Http429Threshold /\ e.cap > MinCap THEN e.cap - 1 ELSE e.cap
           raised == IF Lowered(e, n) < DefaultInitCap /\ settled /\ Lowered(e, n) = e.cap /\ n = 0
                       THEN Lowered(e, n) + 1 ELSE Lowered(e, n)
<1>1. e.cap \in Cap
  BY DEF Estimator
<1>2. a \in Cap
  BY <1>1, CapBounds
<1>3. Lowered(e, n) = IF e.spike /\ a > MinCap THEN a - 1 ELSE a
  BY DEF Lowered
<1> HIDE DEF a
<1>4. Lowered(e, n) \in Cap
  BY <1>2, <1>3, CapBounds
<1>5. raised \in Cap
  BY <1>4, CapBounds
<1>6. Recompute(e, n, settled) = [SetCap(e, raised) EXCEPT !.n429 = n]
  BY DEF Recompute
<1> HIDE DEF raised
<1>7. SetCap(e, raised) \in Estimator
  BY <1>5, SetCapKeeps
<1> QED
  BY <1>6, <1>7 DEF Estimator

(* Recovery raises a cap below DefaultInitCap, and nothing else raises it. *)
LEMMA RecomputeCap ==
  ASSUME NEW e \in Estimator, NEW n \in 0..Http429Threshold, NEW settled \in BOOLEAN
  PROVE  \/ Recompute(e, n, settled).cap <= e.cap
         \/ Recompute(e, n, settled).cap <= DefaultInitCap
<1> DEFINE raised == IF Lowered(e, n) < DefaultInitCap /\ settled /\ Lowered(e, n) = e.cap /\ n = 0
                       THEN Lowered(e, n) + 1 ELSE Lowered(e, n)
<1>1. e.cap \in Nat /\ e.cap >= 1
  BY DEF Estimator, Cap
<1>2. Lowered(e, n) \in Int /\ Lowered(e, n) <= e.cap
  BY <1>1 DEF Lowered, MinCap
<1>3. raised <= e.cap \/ raised <= DefaultInitCap
  BY <1>1, <1>2, WorkerCapacityAssumption
<1>4. Recompute(e, n, settled) = [SetCap(e, raised) EXCEPT !.n429 = n]
  BY DEF Recompute
<1> HIDE DEF raised
<1>5. [SetCap(e, raised) EXCEPT !.n429 = n].cap = raised
  BY DEF SetCap, Estimator
<1> QED
  BY <1>3, <1>4, <1>5

-----------------------------------------------------------------------------
(* The breaker under any interleaving.                                     *)

LEMMA BreakerStep ==
  ASSUME cb \in Breaker, CountRule(cb), [Next]_vars
  PROVE  cb' \in Breaker /\ CountRule(cb')
<1>1. \/ cb' = cb \/ cb' = RecordSuccess(cb) \/ cb' = RecordFailure(cb)
      \/ cb' = AfterCanExecute(cb) \/ cb' = [cb EXCEPT !.cooled = TRUE]
  BY DEF Next, Arrive, Handler, CheckUnhealthy, CheckHealthy, Execute, TrySucceeds, TryFails,
     Backoff, Result, OpenStream, CheckPendingError, HttpChunk, HttpClose, HttpWriteReturns,
     HttpGone, WSChunk, WSChunksEnd, WSErrCh, WSGrace, WSGone, Producer, ReadLine, ReadFails, SendChunk,
     LeaveSending, CloseErrCh, CloseChunkCh, CtxEnds, HealthLoop, HealthProbe, HealthResult,
     HealthReport, RecomputeTick, Cool, BackendTurns, vars
<1> QED
  BY <1>1, RecordSuccessKeeps, RecordFailureKeeps, AfterCanExecuteKeeps, CoolKeeps

(* The circuit is closed exactly while its failures are below the          *)
(* threshold, in whatever order the requests, their retries and the health *)
(* loop report to it.                                                      *)
THEOREM BreakerCountsRight == Spec => []BreakerMatchesCount
<1>1. Init => cb \in Breaker /\ CountRule(cb)
  BY WorkerCapacityAssumption DEF Init, NewCircuitBreaker, Breaker, CountRule
<1>2. (cb \in Breaker /\ CountRule(cb)) /\ [Next]_vars => (cb \in Breaker /\ CountRule(cb))'
  BY BreakerStep
<1>3. CountRule(cb) => BreakerMatchesCount
  BY DEF CountRule, BreakerMatchesCount
<1> QED
  BY <1>1, <1>2, <1>3, PTL DEF Spec

(* The critical sections a step can run of the estimator. *)
LEMMA EstimatorMoves ==
  ASSUME [Next]_vars
  PROVE  \/ est' = est \/ est' = RecordCircuitOpen(est) \/ est' = RecordCircuitClosed(est)
         \/ \E st, spike : spike \in BOOLEAN /\ est' = RecordRequest(est, st, spike)
         \/ \E n \in 0..Http429Threshold, b \in BOOLEAN : est' = Recompute(est, n, b)
<1>1. ASSUME NEW r \in Req, NEW spike \in BOOLEAN, Result(r, spike)
      PROVE  est' = est \/ est' = RecordRequest(est, req[r].ret, spike)
  BY <1>1 DEF Result
<1>2. ASSUME NEW r \in Req, Handler(r), \A spike \in BOOLEAN : ~Result(r, spike)
      PROVE  est' = est \/ est' = RecordCircuitOpen(est)
  BY <1>2 DEF Handler, CheckUnhealthy, CheckHealthy, Execute, TrySucceeds, TryFails,
     Backoff, OpenStream, CheckPendingError, HttpChunk, HttpClose, HttpGone, WSChunk,
     WSChunksEnd, WSErrCh, WSGrace, WSGone
<1>3. ASSUME NEW r \in Req, HttpWriteReturns(r) \/ Producer(r) \/ CtxEnds(r) \/ \E k \in Kind : Arrive(r, k)
      PROVE  est' = est
  BY <1>3 DEF Arrive, HttpWriteReturns, Producer, ReadLine, ReadFails, SendChunk, LeaveSending, CloseErrCh,
     CloseChunkCh, CtxEnds
<1>4. CASE HealthLoop
  BY <1>4 DEF HealthLoop, HealthProbe, HealthResult, HealthReport
<1>5. ASSUME NEW n \in 0..Http429Threshold, NEW b \in BOOLEAN, RecomputeTick(n, b)
      PROVE  est' = Recompute(est, n, b)
  BY <1>5 DEF RecomputeTick
<1>6. CASE Cool \/ BackendTurns \/ UNCHANGED vars
  BY <1>6 DEF Cool, BackendTurns, vars
<1> QED
  BY <1>1, <1>2, <1>3, <1>4, <1>5, <1>6 DEF Next

LEMMA EstimatorStep ==
  ASSUME est \in Estimator, [Next]_vars
  PROVE  est' \in Estimator
  BY EstimatorMoves, CircuitKeeps, RecordRequestKeeps, RecomputeKeeps

-----------------------------------------------------------------------------
(* The handlers and their streaming goroutines.                            *)

(* What holds of a handler q and its goroutine p at every moment. *)

(* Only a handler with its result in hand has used up its attempts. *)
TriesLeft(q) == q.at # "result" /\ q.out # "ok" => q.tries < MaxRetries

(* The goroutine has room for the chunk it is about to send. *)
ChunkBounded(p) ==
  /\ p.at \in {"none", "reading", "final"} => p.put <= MaxChunks
  /\ p.at = "sending" => p.put < MaxChunks

(* A stream is opened once: before that there is no goroutine, and over    *)
(* HTTP the handler only gets there after every other call.                *)
OpenedOnce(q, p) ==
  (\/ q.at \in {"idle", "check", "open"}
   \/ ~q.kind.ws /\ q.at \in {"execute", "try", "backoff", "result"}
   \/ q.at = "writing" /\ q.out = "ok")
    => p = NewProd /\ q.got = 0

(* Over HTTP every chunk delivered was passed on or is in the channel. *)
ChunksAccounted(q, p) == ~q.kind.ws => p.put = q.got + p.buf

(* An error of the goroutine waits in errCh until the handler takes it,    *)
(* and an HTTP handler that takes it does not end cleanly.                 *)
ErrorKept(q, p) ==
  /\ p.end = "error" => p.err # "none"
  /\ ~q.kind.ws /\ p.err = "taken" =>
       q.at \in {"writing", "done"} /\ q.out \in {"error", "done after error"}

(* A clean end over HTTP: the goroutine was through and its queue empty.   *)
(* Only a handler that writes or has returned has an outcome, and only an  *)
(* HTTP handler writes to its caller itself.                               *)
CleanIsDrained(q, p) ==
  /\ q.at \notin {"writing", "done"} => q.out = "none"
  /\ q.at = "writing" => ~q.kind.ws
  /\ ~q.kind.ws /\ q.out = "clean" => p.at = "ended" /\ p.buf = 0 /\ p.err = "none"

ServeOK(q, p) ==
  /\ TriesLeft(q) /\ ChunkBounded(p) /\ OpenedOnce(q, p)
  /\ ChunksAccounted(q, p) /\ ErrorKept(q, p) /\ CleanIsDrained(q, p)

ServeInv ==
  /\ req \in [Req -> ReqState] /\ prod \in [Req -> ProdState]
  /\ \A r \in Req : ServeOK(req[r], prod[r])

LEMMA Bounds ==
  /\ MaxRetries \in Nat /\ MaxRetries > 0 /\ 0 \in 0..MaxRetries
  /\ ChunkBuf \in Nat /\ ChunkBuf > 0 /\ 0 \in 0..ChunkBuf
  /\ MaxChunks \in Nat /\ 0 \in 0..(MaxChunks + 1)
  BY WorkerServeAssumption

(* A step of one request leaves the others alone. *)
LEMMA OneRequest ==
  ASSUME ServeInv, NEW r \in Req, NEW q \in ReqState, NEW p \in ProdState, ServeOK(q, p),
         req' = [req EXCEPT ![r] = q], prod' = [prod EXCEPT ![r] = p]
  PROVE  ServeInv'
  BY DEF ServeInv

LEMMA HandlerStep ==
  ASSUME ServeInv, NEW r \in Req, NEW q \in ReqState, ServeOK(q, prod[r]),
         req' = [req EXCEPT ![r] = q], prod' = prod
  PROVE  ServeInv'
  BY DEF ServeInv

LEMMA ProducerStep ==
  ASSUME ServeInv, NEW r \in Req, NEW p \in ProdState, ServeOK(req[r], p),
         prod' = [prod EXCEPT ![r] = p], req' = req
  PROVE  ServeInv'
  BY DEF ServeInv

Answered(r, x) == [req[r] EXCEPT !.at = "done", !.out = x, !.tries = 0,
                                 !.ret = "none", !.ctx = @ \/ ~IsWS(r)]

Outcomes == {"ok", "error", "unavailable", "clean", "done after error", "gone"}

LEMMA AnswerState ==
  ASSUME ServeInv, NEW r \in Req, NEW x, Answer(r, x), x \in Outcomes
  PROVE  /\ req' = [req EXCEPT ![r] = Answered(r, x)]
         /\ Answered(r, x) \in ReqState
         /\ Answered(r, x).at = "done" /\ Answered(r, x).out = x /\ Answered(r, x).tries = 0
         /\ Answered(r, x).kind = req[r].kind /\ Answered(r, x).got = req[r].got
<1>1. req[r] \in ReqState
  BY DEF ServeInv
<1>0. (req[r].ctx \/ ~IsWS(r)) \in BOOLEAN
  OBVIOUS
<1>2. 0 \in 0..MaxRetries
  BY Bounds
<1>3. req' = [req EXCEPT ![r] = Answered(r, x)]
  BY <1>1 DEF Answer, Answered, ServeInv, ReqState
<1>4. Answered(r, x) \in ReqState
  BY <1>0, <1>1, <1>2 DEF Answered, ReqState, Outcomes
<1>5. /\ Answered(r, x).at = "done" /\ Answered(r, x).out = x /\ Answered(r, x).tries = 0
      /\ Answered(r, x).kind = req[r].kind /\ Answered(r, x).got = req[r].got
  BY <1>1 DEF Answered, ReqState
<1> QED
  BY <1>3, <1>4, <1>5

(* Any answer but a clean end of an HTTP stream, or the one just written. *)
LEMMA AnswerKeeps ==
  ASSUME ServeInv, NEW r \in Req, NEW x, Answer(r, x), prod' = prod,
         x \in {"ok", "error", "unavailable", "clean", "done after error", "gone"},
         \/ req[r].at \notin {"writing", "done"} /\ (x # "clean" \/ IsWS(r))
         \/ req[r].at = "writing" /\ x = req[r].out
  PROVE  ServeInv'
<1>0. MaxRetries \in Nat /\ MaxRetries > 0
  BY Bounds
<1>1. ServeOK(req[r], prod[r]) /\ prod[r] \in ProdState
  BY DEF ServeInv
<1> DEFINE q == Answered(r, x)
<1>2. /\ req' = [req EXCEPT ![r] = q] /\ q \in ReqState
      /\ q.at = "done" /\ q.out = x /\ q.tries = 0 /\ q.kind = req[r].kind /\ q.got = req[r].got
  BY AnswerState DEF Outcomes
<1> HIDE DEF q
<1>3. ServeOK(q, prod[r])
  BY <1>0, <1>1, <1>2 DEF ServeOK, TriesLeft, ChunkBounded, OpenedOnce, ChunksAccounted,
     ErrorKept, CleanIsDrained, IsWS
<1> QED
  BY <1>2, <1>3, HandlerStep

(* Over the WebSocket: the goroutine's error is taken and the handler      *)
(* returns, or a chunk is taken from the queue of a dead connection.       *)
LEMMA AnswerTakes ==
  ASSUME ServeInv, NEW r \in Req, NEW x, Answer(r, x), NEW p \in ProdState,
         prod' = [prod EXCEPT ![r] = p], req[r].at \in {"first", "select"},
         x \in {"error", "done after error", "gone"},
         p.at = prod[r].at, p.put = prod[r].put, p.end = prod[r].end,
         IsWS(r), p.err \in {"taken", prod[r].err}
  PROVE  ServeInv'
<1>0. MaxRetries \in Nat /\ MaxRetries > 0
  BY Bounds
<1>1. ServeOK(req[r], prod[r]) /\ prod[r] \in ProdState
  BY DEF ServeInv
<1> DEFINE q == Answered(r, x)
<1>2. /\ req' = [req EXCEPT ![r] = q] /\ q \in ReqState
      /\ q.at = "done" /\ q.out = x /\ q.tries = 0 /\ q.kind = req[r].kind /\ q.got = req[r].got
  BY AnswerState DEF Outcomes
<1> HIDE DEF q
<1>3. ServeOK(q, p)
  BY <1>0, <1>1, <1>2 DEF ServeOK, TriesLeft, ChunkBounded, OpenedOnce, ChunksAccounted,
     ErrorKept, CleanIsDrained, IsWS
<1> QED
  BY <1>2, <1>3, OneRequest

WrittenOut(r, x) == [req[r] EXCEPT !.at = "writing", !.out = x]

LEMMA WriteState ==
  ASSUME ServeInv, NEW r \in Req, NEW x \in Outcomes, WriteOut(r, x)
  PROVE  /\ req' = [req EXCEPT ![r] = WrittenOut(r, x)]
         /\ WrittenOut(r, x) \in ReqState
         /\ WrittenOut(r, x).at = "writing" /\ WrittenOut(r, x).out = x
         /\ WrittenOut(r, x).tries = req[r].tries
         /\ WrittenOut(r, x).kind = req[r].kind /\ WrittenOut(r, x).got = req[r].got
<1>1. req[r] \in ReqState
  BY DEF ServeInv
<1>2. req' = [req EXCEPT ![r] = WrittenOut(r, x)]
  BY <1>1 DEF WriteOut, WrittenOut, ServeInv, ReqState
<1>3. WrittenOut(r, x) \in ReqState
  BY <1>1 DEF WrittenOut, ReqState, Outcomes
<1>4. /\ WrittenOut(r, x).at = "writing" /\ WrittenOut(r, x).out = x
      /\ WrittenOut(r, x).tries = req[r].tries
      /\ WrittenOut(r, x).kind = req[r].kind /\ WrittenOut(r, x).got = req[r].got
  BY <1>1 DEF WrittenOut, ReqState
<1> QED
  BY <1>2, <1>3, <1>4

(* A whole answer, or the clean end of an HTTP stream, begins to be        *)
(* written.                                                                *)
LEMMA WriteKeeps ==
  ASSUME ServeInv, NEW r \in Req, NEW x \in {"ok", "clean"}, WriteOut(r, x), prod' = prod,
         ~IsWS(r),
         \/ x = "ok" /\ req[r].at = "result"
         \/ x = "clean" /\ req[r].at = "select" /\ Drained(r) /\ prod[r].err # "pending"
  PROVE  ServeInv'
<1>1. ServeOK(req[r], prod[r]) /\ prod[r] \in ProdState
  BY DEF ServeInv
<1>a. x \in Outcomes
  BY DEF Outcomes
<1> DEFINE q == WrittenOut(r, x)
<1>2. /\ req' = [req EXCEPT ![r] = q] /\ q \in ReqState /\ q.tries = req[r].tries
      /\ q.at = "writing" /\ q.out = x /\ q.kind = req[r].kind /\ q.got = req[r].got
  BY <1>a, WriteState
<1> HIDE DEF q
<1>3. prod[r].err # "taken"
  BY <1>1 DEF ServeOK, ErrorKept, IsWS
<1>4. x = "clean" => prod[r].err = "none" /\ prod[r].at = "ended" /\ prod[r].buf = 0
  BY <1>1, <1>3 DEF ProdState, Drained, ChunksClosed
<1>5. ServeOK(q, prod[r])
  BY <1>1, <1>2, <1>3, <1>4 DEF ServeOK, TriesLeft, ChunkBounded, OpenedOnce,
     ChunksAccounted, ErrorKept, CleanIsDrained, IsWS
<1> QED
  BY <1>2, <1>5, HandlerStep

(* The goroutine's error is taken and written out. *)
LEMMA WriteTakes ==
  ASSUME ServeInv, NEW r \in Req, NEW x \in {"error", "done after error"}, WriteOut(r, x),
         NEW p \in ProdState, prod' = [prod EXCEPT ![r] = p], ~IsWS(r),
         req[r].at \in {"first", "select"},
         p.at = prod[r].at, p.put = prod[r].put, p.end = prod[r].end, p.buf = prod[r].buf,
         p.err = "taken"
  PROVE  ServeInv'
<1>1. ServeOK(req[r], prod[r]) /\ prod[r] \in ProdState
  BY DEF ServeInv
<1>a. x \in Outcomes
  BY DEF Outcomes
<1> DEFINE q == WrittenOut(r, x)
<1>2. /\ req' = [req EXCEPT ![r] = q] /\ q \in ReqState /\ q.tries = req[r].tries
      /\ q.at = "writing" /\ q.out = x /\ q.kind = req[r].kind /\ q.got = req[r].got
  BY <1>a, WriteState
<1> HIDE DEF q
<1>3. ServeOK(q, p)
  BY <1>1, <1>2 DEF ServeOK, TriesLeft, ChunkBounded, OpenedOnce, ChunksAccounted,
     ErrorKept, CleanIsDrained, IsWS
<1> QED
  BY <1>2, <1>3, OneRequest

(* The handler moves on without returning: it does not go back before the  *)
(* opening of its stream.                                                  *)
LEMMA MoveKeeps ==
  ASSUME ServeInv, NEW r \in Req, NEW q \in ReqState,
         req' = [req EXCEPT ![r] = q], prod' = prod,
         q.kind = req[r].kind, q.got = req[r].got, q.out = req[r].out, TriesLeft(q),
         \/ q.at = req[r].at
         \/ /\ req[r].at # "done" /\ q.at \notin {"writing", "done"} /\ q.out = "none"
            /\ \/ q.at \in {"first", "select"}
               \/ IsWS(r) /\ q.at \notin {"idle", "check", "open"}
               \/ req[r].at \in {"check", "open"}
               \/ ~IsWS(r) /\ req[r].at \in {"execute", "try", "backoff", "result"}
  PROVE  ServeInv'
<1>1. ServeOK(req[r], prod[r]) /\ prod[r] \in ProdState
  BY DEF ServeInv
<1>2. ServeOK(q, prod[r])
  BY <1>1 DEF ServeOK, ChunkBounded, OpenedOnce, ChunksAccounted, ErrorKept, CleanIsDrained,
     IsWS
<1> QED
  BY <1>2, HandlerStep

(* The goroutine moves on: its chunks stay, and an error it meets is kept. *)
LEMMA ProducerKeeps ==
  ASSUME ServeInv, NEW r \in Req, NEW p \in ProdState,
         prod' = [prod EXCEPT ![r] = p], req' = req, ChunkBounded(p),
         prod[r].at \in {"reading", "sending", "final", "leaving", "close"},
         p.put - p.buf = prod[r].put - prod[r].buf,
         \/ p.err = prod[r].err /\ (p.end = "error" => prod[r].end = "error")
         \/ p.err = "pending"
  PROVE  ServeInv'
<1>1. ServeOK(req[r], prod[r]) /\ prod[r] \in ProdState /\ req[r] \in ReqState
  BY DEF ServeInv
<1>2. /\ p.put \in Nat /\ p.buf \in Nat /\ prod[r].put \in Nat /\ prod[r].buf \in Nat
      /\ req[r].got \in Nat
  <2>1. \A m \in ProdState : m.put \in 0..(MaxChunks + 1) /\ m.buf \in 0..ChunkBuf
    BY DEF ProdState
  <2>2. \A n \in 0..(MaxChunks + 1) : n \in Nat
    BY Bounds
  <2>3. \A n \in 0..ChunkBuf : n \in Nat
    BY Bounds
  <2>4. req[r].got \in Nat
    BY <1>1 DEF ReqState
  <2> QED
    BY <1>1, <2>1, <2>2, <2>3, <2>4
<1>3. prod[r] # NewProd
  BY DEF NewProd
<1>4. ServeOK(req[r], p)
  <2>1. OpenedOnce(req[r], p)
    BY <1>1, <1>3 DEF ServeOK, OpenedOnce
  <2>2. ChunksAccounted(req[r], p)
    BY <1>1, <1>2 DEF ServeOK, ChunksAccounted
  <2>3. ErrorKept(req[r], p)
    BY <1>1 DEF ServeOK, ErrorKept
  <2>4. CleanIsDrained(req[r], p)
    BY <1>1 DEF ServeOK, CleanIsDrained
  <2> QED
    BY <1>1, <2>1, <2>2, <2>3, <2>4 DEF ServeOK
<1> QED
  BY <1>4, ProducerStep

LEMMA ServeInit == Init => ServeInv
<1> SUFFICES ASSUME Init PROVE ServeInv
  OBVIOUS
<1>1. NewReq \in ReqState
  BY Bounds DEF NewReq, ReqState, Kind
<1>2. NewProd \in ProdState
  BY Bounds DEF NewProd, ProdState
<1>3. /\ NewReq.at = "idle" /\ NewReq.tries = 0 /\ NewReq.got = 0 /\ NewReq.out = "none"
      /\ NewProd.at = "none" /\ NewProd.put = 0 /\ NewProd.buf = 0 /\ NewProd.err = "none"
      /\ NewProd.end = "none"
  BY DEF NewReq, NewProd
<1>4. ServeOK(NewReq, NewProd)
  BY <1>3, Bounds DEF ServeOK, TriesLeft, ChunkBounded, OpenedOnce, ChunksAccounted, ErrorKept,
     CleanIsDrained
<1> QED
  BY <1>1, <1>2, <1>4 DEF Init, ServeInv

(* The requests' own steps. *)

LEMMA ArriveKeeps ==
  ASSUME ServeInv, NEW r \in Req, NEW k \in Kind, Arrive(r, k)
  PROVE  ServeInv'
<1> DEFINE to == IF ~k.ws THEN "check" ELSE IF k.stream THEN "open" ELSE "execute"
           q == [req[r] EXCEPT !.kind = k, !.at = to]
<1>1. /\ req[r] \in ReqState /\ prod[r] \in ProdState /\ ServeOK(req[r], prod[r])
      /\ req[r].at = "idle"
  BY DEF ServeInv, Arrive
<1>2. to \in {"check", "open", "execute"} /\ (to = "execute" => k.ws)
  OBVIOUS
<1>3. req' = [req EXCEPT ![r] = q] /\ prod' = prod
  BY DEF Arrive, ServeInv
<1> HIDE DEF to
<1>4. q \in ReqState /\ q.kind = k /\ q.at = to /\ q.tries = req[r].tries /\ q.out = req[r].out
      /\ q.got = req[r].got
  BY <1>1, <1>2 DEF ReqState
<1> HIDE DEF q
<1>5. prod[r] = NewProd /\ req[r].got = 0
  BY <1>1 DEF ServeOK, OpenedOnce
<1>6. /\ prod[r].at = "none" /\ prod[r].put = 0 /\ prod[r].buf = 0 /\ prod[r].err = "none"
      /\ prod[r].end = "none"
  BY <1>5 DEF NewProd
<1>7. ServeOK(q, prod[r])
  BY <1>1, <1>2, <1>4, <1>5, <1>6, Bounds DEF ServeOK, TriesLeft, ChunkBounded, OpenedOnce, ChunksAccounted,
     ErrorKept, CleanIsDrained
<1> QED
  BY <1>3, <1>4, <1>7, HandlerStep

(* Goto leaves everything of the request but its place alone. *)
LEMMA GotoState ==
  ASSUME ServeInv, NEW r \in Req, NEW x, Goto(r, x),
         x \in {"execute", "try", "open", "first", "select"}
  PROVE  LET q == [req[r] EXCEPT !.at = x]
         IN  /\ req' = [req EXCEPT ![r] = q] /\ q \in ReqState /\ q.at = x
             /\ q.kind = req[r].kind /\ q.got = req[r].got /\ q.out = req[r].out
             /\ q.tries = req[r].tries
<1>1. req[r] \in ReqState
  BY DEF ServeInv
<1> QED
  BY <1>1 DEF Goto, ReqState, ServeInv

LEMMA GotoKeeps ==
  ASSUME ServeInv, NEW r \in Req, NEW x, Goto(r, x), prod' = prod,
         \/ req[r].at = "check" /\ x \in {"open", "execute"}
         \/ req[r].at \in {"execute", "backoff"} /\ x = "try"
         \/ req[r].at = "first" /\ x = "select"
         \/ req[r].at = "writing" /\ x = "first" /\ req[r].out = "none"
         \/ req[r].at = "first" /\ x = "execute" /\ IsWS(r)
  PROVE  ServeInv'
<1> DEFINE q == [req[r] EXCEPT !.at = x]
<1>0. x \in {"execute", "try", "open", "first", "select"}
  OBVIOUS
<1>1. /\ req' = [req EXCEPT ![r] = q] /\ q \in ReqState /\ q.at = x
      /\ q.kind = req[r].kind /\ q.got = req[r].got /\ q.out = req[r].out
      /\ q.tries = req[r].tries
  BY <1>0, GotoState
<1> HIDE DEF q
<1>2. TriesLeft(req[r]) /\ req[r].out = "none"
  BY DEF ServeInv, ServeOK, CleanIsDrained
<1>3. TriesLeft(q)
  BY <1>1, <1>2 DEF TriesLeft
<1> QED
  BY <1>1, <1>2, <1>3, MoveKeeps DEF ServeInv, IsWS

(* A call of the backend ends, or is not made. *)
LEMMA ResultKeeps ==
  ASSUME ServeInv, NEW r \in Req, NEW s \in {"none", "ok", "e429", "err"}, prod' = prod,
         req[r].at \in {"execute", "try", "backoff"},
         req' = [req EXCEPT ![r].at = "result", ![r].ret = s]
  PROVE  ServeInv'
<1> DEFINE q == [req[r] EXCEPT !.at = "result", !.ret = s]
<1>1. req[r] \in ReqState
  BY DEF ServeInv
<1>2. req' = [req EXCEPT ![r] = q]
  BY DEF ServeInv
<1>3. /\ q \in ReqState /\ q.at = "result"
      /\ q.kind = req[r].kind /\ q.got = req[r].got /\ q.out = req[r].out
  BY <1>1 DEF ReqState
<1> HIDE DEF q
<1>4. TriesLeft(q)
  BY <1>3 DEF TriesLeft
<1>5. req[r].out = "none"
  BY DEF ServeInv, ServeOK, CleanIsDrained
<1> QED
  BY <1>2, <1>3, <1>4, <1>5, MoveKeeps DEF IsWS

LEMMA ExecuteKeeps ==
  ASSUME ServeInv, NEW r \in Req, Execute(r)
  PROVE  ServeInv'
<1>1. CASE ~IsChat(r)
  BY <1>1, GotoKeeps DEF Execute
<1>2. CASE IsChat(r) /\ CanExecute(cb)
  <2>1. req' = [req EXCEPT ![r].at = "try", ![r].ret = @]
    BY <1>2 DEF Execute
  <2>2. Goto(r, "try")
    BY <2>1 DEF Goto, ServeInv, ReqState
  <2> QED
    BY <2>2, GotoKeeps DEF Execute
<1>3. CASE IsChat(r) /\ ~CanExecute(cb)
  <2>1. req' = [req EXCEPT ![r].at = "result", ![r].ret = "err"]
    BY <1>3 DEF Execute
  <2> QED
    BY <2>1, ResultKeeps DEF Execute
<1> QED
  BY <1>1, <1>2, <1>3

LEMMA TryFailsKeeps ==
  ASSUME ServeInv, NEW r \in Req, NEW s \in {"e429", "err"}, TryFails(r, s)
  PROVE  ServeInv'
<1> DEFINE n == req[r].tries + 1
           to == IF IsChat(r) /\ n < MaxRetries THEN "backoff" ELSE "result"
           q == [req[r] EXCEPT !.ret = s, !.tries = n, !.at = to]
<1>1. req[r] \in ReqState /\ ServeOK(req[r], prod[r]) /\ req[r].at = "try" /\ prod' = prod
  BY DEF ServeInv, TryFails
<1>2. req' = [req EXCEPT ![r] = q]
  BY <1>1 DEF TryFails, ServeInv, ReqState
<1>3. req[r].tries \in 0..MaxRetries /\ req[r].tries < MaxRetries
  BY <1>1 DEF ReqState, ServeOK, TriesLeft, CleanIsDrained
<1>4. n \in 0..MaxRetries
  BY <1>3, Bounds
<1>5. to \in {"backoff", "result"} /\ (to # "result" => n < MaxRetries)
  OBVIOUS
<1> HIDE DEF n, to
<1>6. /\ q \in ReqState /\ q.at = to /\ q.tries = n
      /\ q.kind = req[r].kind /\ q.got = req[r].got /\ q.out = req[r].out
  BY <1>1, <1>4, <1>5 DEF ReqState
<1> HIDE DEF q
<1>7. TriesLeft(q) /\ req[r].out = "none"
  BY <1>1, <1>5, <1>6 DEF TriesLeft, ServeOK, CleanIsDrained
<1> QED
  BY <1>1, <1>2, <1>5, <1>6, <1>7, MoveKeeps DEF IsWS

LEMMA ResultStepKeeps ==
  ASSUME ServeInv, NEW r \in Req, NEW b \in BOOLEAN, Result(r, b)
  PROVE  ServeInv'
<1>1. CASE IsWS(r)
  BY <1>1, AnswerKeeps DEF Result
<1>3. CASE ~IsWS(r) /\ WriteOut(r, "ok")
  BY <1>3, WriteKeeps DEF Result
<1>2. CASE /\ ~IsWS(r)
           /\ req' = [req EXCEPT ![r].at = "open", ![r].ret = "none", ![r].tries = 0]
  <2> DEFINE q == [req[r] EXCEPT !.at = "open", !.ret = "none", !.tries = 0]
  <2>1. req[r] \in ReqState /\ req[r].at = "result" /\ prod' = prod
    BY DEF ServeInv, Result
  <2>2. req' = [req EXCEPT ![r] = q]
    BY <1>2 DEF ServeInv
  <2>3. /\ q \in ReqState /\ q.at = "open" /\ q.tries = 0
        /\ q.kind = req[r].kind /\ q.got = req[r].got /\ q.out = req[r].out
    BY <2>1, Bounds DEF ReqState
  <2> HIDE DEF q
  <2>4. TriesLeft(q) /\ req[r].out = "none"
    BY <2>1, <2>3, Bounds DEF TriesLeft, ServeInv, ServeOK, CleanIsDrained
  <2> QED
    BY <1>2, <2>1, <2>2, <2>3, <2>4, MoveKeeps
<1> QED
  BY <1>1, <1>2, <1>3 DEF Result

LEMMA CtxEndsKeeps ==
  ASSUME ServeInv, NEW r \in Req, CtxEnds(r)
  PROVE  ServeInv'
<1> DEFINE q == [req[r] EXCEPT !.ctx = TRUE]
<1>1. req[r] \in ReqState /\ TriesLeft(req[r]) /\ prod' = prod
  BY DEF ServeInv, CtxEnds, ServeOK
<1>2. req' = [req EXCEPT ![r] = q]
  BY DEF CtxEnds, ServeInv
<1>3. /\ q \in ReqState /\ q.at = req[r].at /\ q.tries = req[r].tries
      /\ q.kind = req[r].kind /\ q.got = req[r].got /\ q.out = req[r].out
  BY <1>1 DEF ReqState
<1> HIDE DEF q
<1>4. TriesLeft(q)
  BY <1>1, <1>3 DEF TriesLeft
<1> QED
  BY <1>1, <1>2, <1>3, <1>4, MoveKeeps

-----------------------------------------------------------------------------
(* The stream's two ends.                                                  *)

LEMMA OpenStreamKeeps ==
  ASSUME ServeInv, NEW r \in Req, OpenStream(r)
  PROVE  ServeInv'
<1> DEFINE p == [prod[r] EXCEPT !.at = "reading"]
           q == [req[r] EXCEPT !.at = "first"]
<1>1. /\ prod[r] \in ProdState /\ req[r] \in ReqState /\ ServeOK(req[r], prod[r])
      /\ req[r].at = "open"
  BY DEF ServeInv, OpenStream
<1>2. prod' = [prod EXCEPT ![r] = p]
  BY DEF OpenStream, ServeInv
<1>3. /\ req' = [req EXCEPT ![r] = q] /\ q \in ReqState /\ q.at = "first"
      /\ q.kind = req[r].kind /\ q.got = req[r].got /\ q.out = req[r].out
      /\ q.tries = req[r].tries
  BY GotoState DEF OpenStream
<1>4. /\ p \in ProdState /\ p.at = "reading" /\ p.put = prod[r].put /\ p.buf = prod[r].buf
      /\ p.err = prod[r].err /\ p.end = prod[r].end
  BY <1>1 DEF ProdState
<1>5. prod[r] = NewProd
  BY <1>1 DEF ServeOK, OpenedOnce
<1>6. /\ prod[r].put = 0 /\ prod[r].buf = 0 /\ prod[r].err = "none" /\ prod[r].end = "none"
      /\ req[r].out = "none" /\ TriesLeft(req[r]) /\ req[r].got = 0
  BY <1>1, <1>5 DEF NewProd, ServeOK, CleanIsDrained, OpenedOnce
<1> HIDE DEF p, q
<1>7. ServeOK(q, p)
  BY <1>1, <1>3, <1>4, <1>6, Bounds DEF ServeOK, TriesLeft, ChunkBounded, OpenedOnce,
     ChunksAccounted, ErrorKept, CleanIsDrained
<1> QED
  BY <1>2, <1>3, <1>4, <1>7, OneRequest

(* Taking the goroutine's error. *)
LEMMA TakeErrorState ==
  ASSUME ServeInv, NEW r \in Req, prod' = [prod EXCEPT ![r].err = "taken"]
  PROVE  LET p == [prod[r] EXCEPT !.err = "taken"]
         IN  /\ prod' = [prod EXCEPT ![r] = p] /\ p \in ProdState /\ p.err = "taken"
             /\ p.at = prod[r].at /\ p.put = prod[r].put /\ p.end = prod[r].end
             /\ p.buf = prod[r].buf
<1>1. prod[r] \in ProdState
  BY DEF ServeInv
<1> QED
  BY <1>1 DEF ProdState, ServeInv

LEMMA TakeErrorKeeps ==
  ASSUME ServeInv, NEW r \in Req, NEW x \in {"error", "done after error"},
         \/ IsWS(r) /\ Answer(r, x)
         \/ ~IsWS(r) /\ WriteOut(r, x),
         prod' = [prod EXCEPT ![r].err = "taken"], req[r].at \in {"first", "select"}
  PROVE  ServeInv'
<1> DEFINE p == [prod[r] EXCEPT !.err = "taken"]
<1>1. /\ prod' = [prod EXCEPT ![r] = p] /\ p \in ProdState /\ p.err = "taken"
      /\ p.at = prod[r].at /\ p.put = prod[r].put /\ p.end = prod[r].end
      /\ p.buf = prod[r].buf
  BY TakeErrorState
<1> HIDE DEF p
<1>2. x \in {"error", "done after error", "gone"}
  OBVIOUS
<1>3. CASE IsWS(r)
  BY <1>1, <1>2, <1>3, AnswerTakes
<1>4. CASE ~IsWS(r)
  BY <1>1, <1>4, WriteTakes
<1> QED
  BY <1>3, <1>4

LEMMA StreamErrorKeeps ==
  ASSUME ServeInv, NEW r \in Req, StreamBackendError(r), req[r].at \in {"first", "select"},
         ~IsWS(r)
  PROVE  ServeInv'
<1>1. PICK x \in {"error", "done after error"} : WriteOut(r, x)
  BY DEF StreamBackendError
<1> QED
  BY <1>1, TakeErrorKeeps DEF StreamBackendError

(* Taking a chunk from the queue. *)
LEMMA TakeChunkState ==
  ASSUME ServeInv, NEW r \in Req, prod[r].buf > 0, prod' = [prod EXCEPT ![r].buf = @ - 1]
  PROVE  LET p == [prod[r] EXCEPT !.buf = prod[r].buf - 1]
         IN  /\ prod' = [prod EXCEPT ![r] = p] /\ p \in ProdState /\ p.err = prod[r].err
             /\ p.at = prod[r].at /\ p.put = prod[r].put /\ p.end = prod[r].end
             /\ p.buf = prod[r].buf - 1
<1> DEFINE b == prod[r].buf - 1
           p == [prod[r] EXCEPT !.buf = b]
<1>1. prod[r] \in ProdState
  BY DEF ServeInv
<1>2. prod' = [prod EXCEPT ![r] = p]
  BY <1>1 DEF ProdState, ServeInv
<1>3. prod[r].buf \in 0..ChunkBuf
  BY <1>1 DEF ProdState
<1>4. b \in 0..ChunkBuf
  BY <1>3, Bounds
<1> HIDE DEF b
<1>5. /\ p \in ProdState /\ p.err = prod[r].err /\ p.at = prod[r].at /\ p.put = prod[r].put
      /\ p.end = prod[r].end /\ p.buf = b
  BY <1>1, <1>4 DEF ProdState
<1> QED
  BY <1>2, <1>5 DEF b

(* A chunk is taken and passed on. *)
LEMMA PassChunkKeeps ==
  ASSUME ServeInv, NEW r \in Req, NEW x \in {"select", "writing"}, prod[r].buf > 0,
         x = "writing" => ~IsWS(r),
         req[r].at \in {"first", "select"}, prod' = [prod EXCEPT ![r].buf = @ - 1],
         req' = [req EXCEPT ![r].at = x, ![r].got = @ + 1]
  PROVE  ServeInv'
<1> DEFINE p == [prod[r] EXCEPT !.buf = prod[r].buf - 1]
           n == req[r].got + 1
           q == [req[r] EXCEPT !.at = x, !.got = n]
<1>1. /\ prod[r] \in ProdState /\ req[r] \in ReqState /\ ServeOK(req[r], prod[r])
  BY DEF ServeInv
<1>2. /\ prod' = [prod EXCEPT ![r] = p] /\ p \in ProdState /\ p.err = prod[r].err
      /\ p.at = prod[r].at /\ p.put = prod[r].put /\ p.end = prod[r].end
      /\ p.buf = prod[r].buf - 1
  BY TakeChunkState
<1>3. req' = [req EXCEPT ![r] = q]
  BY <1>1 DEF ServeInv, ReqState
<1>4. req[r].got \in Nat /\ n \in Nat
  <2>1. req[r].got \in Nat
    BY <1>1 DEF ReqState
  <2> QED
    BY <2>1
<1>5. prod[r].put \in Nat /\ prod[r].buf \in Nat
  <2>1. prod[r].put \in 0..(MaxChunks + 1) /\ prod[r].buf \in 0..ChunkBuf
    BY <1>1 DEF ProdState
  <2> QED
    BY <2>1, Bounds
<1>6. n = req[r].got + 1
  OBVIOUS
<1> HIDE DEF n
<1>7. /\ q \in ReqState /\ q.at = x /\ q.got = n /\ q.kind = req[r].kind /\ q.out = req[r].out
      /\ q.tries = req[r].tries
  BY <1>1, <1>4 DEF ReqState
<1> HIDE DEF p, q
<1>8. ChunksAccounted(q, p)
  BY <1>1, <1>2, <1>4, <1>5, <1>6, <1>7 DEF ServeOK, ChunksAccounted
<1>9. ServeOK(q, p)
  BY <1>1, <1>2, <1>7, <1>8 DEF ServeOK, TriesLeft, ChunkBounded, OpenedOnce, ErrorKept,
     CleanIsDrained, IsWS
<1> QED
  BY <1>2, <1>3, <1>7, <1>9, OneRequest

LEMMA WSChunkKeeps ==
  ASSUME ServeInv, NEW r \in Req, WSChunk(r)
  PROVE  ServeInv'
<1>1. CASE req' = [req EXCEPT ![r].at = "select", ![r].got = @ + 1]
  BY <1>1, PassChunkKeeps DEF WSChunk, WSWaits
<1>2. CASE Answer(r, "gone")
  <2> DEFINE p == [prod[r] EXCEPT !.buf = prod[r].buf - 1]
  <2>1. prod[r].buf > 0 /\ prod' = [prod EXCEPT ![r].buf = @ - 1]
        /\ IsWS(r) /\ req[r].at \in {"first", "select"}
    BY DEF WSChunk, WSWaits
  <2>2. /\ prod' = [prod EXCEPT ![r] = p] /\ p \in ProdState /\ p.err = prod[r].err
        /\ p.at = prod[r].at /\ p.put = prod[r].put /\ p.end = prod[r].end
    BY <2>1, TakeChunkState
  <2> HIDE DEF p
  <2> QED
    BY <1>2, <2>1, <2>2, AnswerTakes
<1> QED
  BY <1>1, <1>2 DEF WSChunk

LEMMA HandlerKeeps ==
  ASSUME ServeInv, NEW r \in Req, Handler(r)
  PROVE  ServeInv'
<1>1. CASE CheckUnhealthy(r)
  BY <1>1, AnswerKeeps DEF CheckUnhealthy
<1>2. CASE CheckHealthy(r)
  BY <1>2, GotoKeeps DEF CheckHealthy
<1>3. CASE TrySucceeds(r)
  BY <1>3, ResultKeeps DEF TrySucceeds
<1>4. CASE Backoff(r)
  BY <1>4, GotoKeeps, ResultKeeps DEF Backoff
<1>5. CASE CheckPendingError(r)
  BY <1>5, GotoKeeps, StreamErrorKeeps DEF CheckPendingError
<1>6. CASE HttpChunk(r)
  BY <1>6, PassChunkKeeps DEF HttpChunk, HttpSelects
<1>7. CASE HttpClose(r)
  BY <1>7, StreamErrorKeeps, WriteKeeps DEF HttpClose, HttpSelects
<1>8. CASE HttpGone(r)
  BY <1>8, AnswerKeeps DEF HttpGone, HttpSelects
<1>9. CASE WSChunksEnd(r)
  BY <1>9, AnswerKeeps DEF WSChunksEnd, WSWaits
<1>10. CASE WSErrCh(r)
  <2>1. req[r].at \in {"first", "select"} /\ IsWS(r)
    BY <1>10 DEF WSErrCh, WSWaits
  <2>2. \/ prod' = [prod EXCEPT ![r].err = "taken"] /\ Answer(r, "error")
        \/ Answer(r, "clean") /\ prod' = prod
    BY <1>10 DEF WSErrCh
  <2> QED
    BY <2>1, <2>2, AnswerKeeps, TakeErrorKeeps
<1>11. CASE WSGrace(r)
  BY <1>11, GotoKeeps DEF WSGrace
<1>12. CASE WSGone(r)
  BY <1>12, AnswerKeeps DEF WSGone, WSWaits
<1> QED
  BY <1>1, <1>2, <1>3, <1>4, <1>5, <1>6, <1>7, <1>8, <1>9, <1>10, <1>11, <1>12, ExecuteKeeps,
     TryFailsKeeps, ResultStepKeeps, OpenStreamKeeps, WSChunkKeeps DEF Handler

LEMMA WriteReturnsKeeps ==
  ASSUME ServeInv, NEW r \in Req, HttpWriteReturns(r)
  PROVE  ServeInv'
<1>1. /\ req[r] \in ReqState /\ prod[r] \in ProdState /\ ServeOK(req[r], prod[r])
      /\ req[r].at = "writing" /\ prod' = prod
  BY DEF ServeInv, HttpWriteReturns
<1>2. CASE req[r].out = "none" /\ Goto(r, "first")
  BY <1>1, <1>2, GotoKeeps
<1>3. CASE req[r].out # "none" /\ Answer(r, req[r].out)
  <2>1. req[r].out \in {"ok", "error", "unavailable", "clean", "done after error", "gone"}
    BY <1>1, <1>3 DEF ReqState
  <2> QED
    BY <1>1, <1>3, <2>1, AnswerKeeps
<1>4. CASE /\ req[r].out = "ok"
           /\ req' = [req EXCEPT ![r].at = "open", ![r].out = "none", ![r].ret = "none",
                                 ![r].tries = 0]
  <2> DEFINE q == [req[r] EXCEPT !.at = "open", !.out = "none", !.ret = "none", !.tries = 0]
  <2>1. req' = [req EXCEPT ![r] = q]
    BY <1>4 DEF ServeInv
  <2>2. /\ q \in ReqState /\ q.at = "open" /\ q.tries = 0 /\ q.out = "none"
        /\ q.kind = req[r].kind /\ q.got = req[r].got
    BY <1>1, Bounds DEF ReqState
  <2> HIDE DEF q
  <2>3. prod[r] = NewProd /\ req[r].got = 0
    BY <1>1, <1>4 DEF ServeOK, OpenedOnce
  <2>4. /\ prod[r].put = 0 /\ prod[r].buf = 0 /\ prod[r].err = "none"
        /\ prod[r].end = "none" /\ prod[r].at = "none"
    BY <2>3 DEF NewProd
  <2>5. ServeOK(q, prod[r])
    BY <2>2, <2>3, <2>4, Bounds DEF ServeOK, TriesLeft, ChunkBounded, OpenedOnce,
       ChunksAccounted, ErrorKept, CleanIsDrained
  <2> QED
    BY <1>1, <2>1, <2>2, <2>5, HandlerStep
<1> QED
  BY <1>2, <1>3, <1>4 DEF HttpWriteReturns

-----------------------------------------------------------------------------
(* The streaming goroutine.                                                *)

LEMMA SendChunkKeeps ==
  ASSUME ServeInv, NEW r \in Req, SendChunk(r)
  PROVE  ServeInv'
<1> DEFINE b == prod[r].buf + 1
           n == prod[r].put + 1
           to == IF prod[r].at = "final" THEN "leaving" ELSE "reading"
           p == [prod[r] EXCEPT !.buf = b, !.put = n, !.at = to]
<1>1. /\ prod[r] \in ProdState /\ ServeOK(req[r], prod[r])
      /\ prod[r].at \in {"sending", "final"} /\ prod[r].buf < ChunkBuf /\ req' = req
  BY DEF ServeInv, SendChunk
<1>2. prod' = [prod EXCEPT ![r] = p]
  BY <1>1 DEF SendChunk, ServeInv, ProdState
<1>3. prod[r].buf \in 0..ChunkBuf /\ prod[r].put \in 0..(MaxChunks + 1)
      /\ prod[r].put <= MaxChunks /\ (prod[r].at = "sending" => prod[r].put < MaxChunks)
  <2>1. prod[r].buf \in 0..ChunkBuf /\ prod[r].put \in 0..(MaxChunks + 1)
    BY <1>1 DEF ProdState
  <2>2. /\ prod[r].at = "final" => prod[r].put <= MaxChunks
        /\ prod[r].at = "sending" => prod[r].put < MaxChunks
    BY <1>1 DEF ServeOK, ChunkBounded
  <2> QED
    BY <1>1, <2>1, <2>2, Bounds
<1>4. b \in 0..ChunkBuf /\ n \in 0..(MaxChunks + 1) /\ n - b = prod[r].put - prod[r].buf
      /\ (to = "reading" => n <= MaxChunks)
  BY <1>1, <1>3, Bounds
<1>5. to \in {"leaving", "reading"}
  OBVIOUS
<1> HIDE DEF b, n, to
<1>6. /\ p \in ProdState /\ p.buf = b /\ p.put = n /\ p.at = to /\ p.err = prod[r].err
      /\ p.end = prod[r].end
  BY <1>1, <1>4, <1>5 DEF ProdState
<1> HIDE DEF p
<1>7. ChunkBounded(p)
  BY <1>4, <1>5, <1>6 DEF ChunkBounded
<1> QED
  BY <1>1, <1>2, <1>4, <1>6, <1>7, ProducerKeeps

(* The goroutine's other steps leave its chunks alone. *)
LEMMA ProducerMoves ==
  ASSUME ServeInv, NEW r \in Req, NEW e \in {"none", "pending", "taken"},
         NEW d \in {"none", "whole", "error", "cut", "gone"},
         NEW x \in {"sending", "final", "leaving", "close", "ended"},
         prod[r].at \in {"reading", "sending", "leaving", "close"},
         x \in {"sending", "final"} => prod[r].at = "reading",
         x = "sending" => prod[r].put < MaxChunks,
         \/ e = prod[r].err /\ (d = "error" => prod[r].end = "error")
         \/ e = "pending",
         prod' = [prod EXCEPT ![r].at = x, ![r].err = e, ![r].end = d], req' = req
  PROVE  ServeInv'
<1> DEFINE p == [prod[r] EXCEPT !.at = x, !.err = e, !.end = d]
<1>1. prod[r] \in ProdState /\ ChunkBounded(prod[r])
  BY DEF ServeInv, ServeOK
<1>2. prod' = [prod EXCEPT ![r] = p]
  BY DEF ServeInv
<1>3. /\ p \in ProdState /\ p.at = x /\ p.err = e /\ p.end = d
      /\ p.put = prod[r].put /\ p.buf = prod[r].buf
  BY <1>1 DEF ProdState
<1> HIDE DEF p
<1>4. ChunkBounded(p)
  BY <1>1, <1>3 DEF ChunkBounded
<1> QED
  BY <1>2, <1>3, <1>4, ProducerKeeps

LEMMA ProducerStepKeeps ==
  ASSUME ServeInv, NEW r \in Req, Producer(r)
  PROVE  ServeInv'
<1>1. prod[r] \in ProdState /\ prod \in [Req -> ProdState]
  BY DEF ServeInv
<1>2. prod[r].err \in {"none", "pending", "taken"} /\ prod[r].end \in {"none", "whole", "error", "cut", "gone"}
  BY <1>1 DEF ProdState
<1>3. ASSUME NEW x, ProdTo(r, x)
      PROVE  prod' = [prod EXCEPT ![r].at = x, ![r].err = prod[r].err, ![r].end = prod[r].end]
  BY <1>1, <1>3 DEF ProdTo, ProdState
<1>4. ASSUME NEW x, NEW d, prod' = [prod EXCEPT ![r].at = x, ![r].end = d]
      PROVE  prod' = [prod EXCEPT ![r].at = x, ![r].err = prod[r].err, ![r].end = d]
  BY <1>1, <1>4 DEF ProdState
<1>5. CASE ReadLine(r)
  <2>0. prod[r].at = "reading" /\ req' = req
    BY <1>5 DEF ReadLine
  <2>1. CASE prod[r].put < MaxChunks /\ ProdTo(r, "sending")
    <3>1. prod' = [prod EXCEPT ![r].at = "sending", ![r].err = prod[r].err, ![r].end = prod[r].end]
      BY <1>3, <2>1
    <3> QED
      BY <1>2, <2>0, <2>1, <3>1, ProducerMoves
  <2>2. ASSUME NEW x \in {"leaving", "final"}, prod' = [prod EXCEPT ![r].at = x, ![r].end = "whole"]
        PROVE  ServeInv'
    <3>1. prod' = [prod EXCEPT ![r].at = x, ![r].err = prod[r].err, ![r].end = "whole"]
      BY <1>4, <2>2
    <3> QED
      BY <1>2, <2>0, <3>1, ProducerMoves
  <2> QED
    BY <1>5, <2>1, <2>2 DEF ReadLine
<1>6. CASE ReadFails(r)
  <2>1. prod' = [prod EXCEPT ![r].at = "leaving", ![r].err = "pending", ![r].end = "error"]
    BY <1>1, <1>6 DEF ReadFails, ProdState
  <2> QED
    BY <1>6, <2>1, ProducerMoves DEF ReadFails
<1>7. CASE LeaveSending(r)
  <2>1. prod[r].at = "sending" /\ req' = req
    BY <1>7 DEF LeaveSending, SendAbandoned
  <2>2. PICK d \in {"cut", "gone"} : prod' = [prod EXCEPT ![r].at = "leaving", ![r].end = d]
    BY <1>7 DEF LeaveSending
  <2>3. prod' = [prod EXCEPT ![r].at = "leaving", ![r].err = prod[r].err, ![r].end = d]
    BY <1>4, <2>2
  <2> QED
    BY <1>2, <2>1, <2>3, ProducerMoves
<1>8. CASE CloseErrCh(r) \/ CloseChunkCh(r)
  <2>1. PICK x \in {"close", "ended"} : ProdTo(r, x)
    BY <1>8 DEF CloseErrCh, CloseChunkCh
  <2>2. prod' = [prod EXCEPT ![r].at = x, ![r].err = prod[r].err, ![r].end = prod[r].end]
    BY <1>3, <2>1
  <2>3. prod[r].at \in {"leaving", "close"} /\ req' = req
    BY <1>8 DEF CloseErrCh, CloseChunkCh
  <2> QED
    BY <1>2, <2>2, <2>3, ProducerMoves
<1> QED
  BY <1>5, <1>6, <1>7, <1>8, SendChunkKeeps DEF Producer

-----------------------------------------------------------------------------

LEMMA ServeNext == ServeInv /\ [Next]_vars => ServeInv'
<1> SUFFICES ASSUME ServeInv, [Next]_vars PROVE ServeInv'
  OBVIOUS
<1>1. CASE \/ HealthLoop \/ Cool \/ BackendTurns \/ UNCHANGED vars
           \/ \E n \in 0..Http429Threshold, b \in BOOLEAN : RecomputeTick(n, b)
  <2>1. req' = req /\ prod' = prod
    BY <1>1 DEF HealthLoop, HealthProbe, HealthResult, HealthReport, RecomputeTick, Cool,
       BackendTurns, vars
  <2> QED
    BY <2>1 DEF ServeInv
<1> QED
  BY <1>1, ArriveKeeps, HandlerKeeps, WriteReturnsKeeps, ProducerStepKeeps, CtxEndsKeeps
     DEF Next

LEMMA SystemStep ==
  ASSUME up \in BOOLEAN, health \in {"tick", "probing", "reporting"}, [Next]_vars
  PROVE  up' \in BOOLEAN /\ health' \in {"tick", "probing", "reporting"}
<1>1. up' = up \/ up' = ~up
  BY DEF Next, Arrive, Handler, CheckUnhealthy, CheckHealthy, Execute, TrySucceeds, TryFails,
     Backoff, Result, OpenStream, CheckPendingError, HttpChunk, HttpClose, HttpWriteReturns,
     HttpGone, WSChunk, WSChunksEnd, WSErrCh, WSGrace, WSGone, Producer, ReadLine, ReadFails, SendChunk,
     LeaveSending, CloseErrCh, CloseChunkCh, CtxEnds, HealthLoop, HealthProbe, HealthResult,
     HealthReport, RecomputeTick, Cool, BackendTurns, vars, sysVars
<1>2. health' = health \/ health' \in {"tick", "probing", "reporting"}
  BY DEF Next, Arrive, Handler, CheckUnhealthy, CheckHealthy, Execute, TrySucceeds, TryFails,
     Backoff, Result, OpenStream, CheckPendingError, HttpChunk, HttpClose, HttpWriteReturns,
     HttpGone, WSChunk, WSChunksEnd, WSErrCh, WSGrace, WSGone, Producer, ReadLine, ReadFails, SendChunk,
     LeaveSending, CloseErrCh, CloseChunkCh, CtxEnds, HealthLoop, HealthProbe, HealthResult,
     HealthReport, RecomputeTick, Cool, BackendTurns, vars, sysVars
<1>3. up' \in BOOLEAN
  BY <1>1, Zenon
<1> QED
  BY <1>2, <1>3

(* The state of every request, channel, breaker and estimator keeps its    *)
(* type: in particular the cap the worker announces stays at least one     *)
(* whichever of an open circuit, 429s and a latency spike lower it, the    *)
(* attempts of a call stay within the retry limit, and the chunk channel   *)
(* within its capacity.                                                    *)
THEOREM TypeCorrect == Spec => []TypeOK
<1> DEFINE Inv == /\ up \in BOOLEAN /\ health \in {"tick", "probing", "reporting"}
                  /\ cb \in Breaker /\ CountRule(cb) /\ est \in Estimator /\ ServeInv
<1>1. Init => Inv
  <2> SUFFICES ASSUME Init PROVE Inv
    OBVIOUS
  <2>1. cb \in Breaker /\ CountRule(cb)
    BY WorkerCapacityAssumption DEF Init, NewCircuitBreaker, Breaker, CountRule
  <2>2. est \in Estimator
    BY EstimatorInit
  <2> QED
    BY <2>1, <2>2, ServeInit DEF Init
<1>2. Inv /\ [Next]_vars => Inv'
  BY BreakerStep, EstimatorStep, ServeNext, SystemStep
<1>3. Inv => TypeOK
  BY DEF TypeOK, ServeInv
<1> QED
  BY <1>1, <1>2, <1>3, PTL DEF Spec

(* The cap only ever grows up to DefaultInitCap: a larger one, from the    *)
(* backend's thread count or an earlier process's file, can only fall      *)
(* (concurrency_estimator.go: RecordCircuitClosed, recompute).             *)
THEOREM CapGrowsToDefault ==
  Spec => [][est'.cap > est.cap => est'.cap <= DefaultInitCap]_vars
<1>1. Init => est \in Estimator
  BY EstimatorInit
<1>2. est \in Estimator /\ [Next]_vars => (est \in Estimator)'
  BY EstimatorStep
<1>3. est \in Estimator /\ [Next]_vars 
        => [est'.cap > est.cap => est'.cap <= DefaultInitCap]_vars
  <2> SUFFICES ASSUME est \in Estimator, [Next]_vars, est'.cap > est.cap
               PROVE  est'.cap <= DefaultInitCap
    OBVIOUS
  <2>0. est.cap \in Nat /\ est.cap >= 1
    BY DEF Estimator, Cap
  <2>a. est'.cap \in Nat
    BY EstimatorStep DEF Estimator, Cap
  <2>1. est' # est
    BY <2>0
  <2>2. CASE est' = RecordCircuitOpen(est)
    BY <2>0, <2>2 DEF RecordCircuitOpen, SetCap, Estimator, MinCap
  <2>3. CASE est' = RecordCircuitClosed(est)
    BY <2>0, <2>1, <2>3, WorkerCapacityAssumption DEF RecordCircuitClosed, SetCap, Estimator
  <2>4. ASSUME NEW st, NEW spike, est' = RecordRequest(est, st, spike)
        PROVE  FALSE
    BY <2>0, <2>4 DEF RecordRequest, Estimator
  <2>5. ASSUME NEW n \in 0..Http429Threshold, NEW b \in BOOLEAN, est' = Recompute(est, n, b)
        PROVE  est'.cap <= DefaultInitCap
    <3>1. est'.cap <= est.cap \/ est'.cap <= DefaultInitCap
      BY <2>5, RecomputeCap
    <3> QED
      BY <2>0, <2>a, <3>1
  <2> QED
    BY <2>1, <2>2, <2>3, <2>4, <2>5, EstimatorMoves
<1> QED
  BY <1>1, <1>2, <1>3, PTL DEF Spec

(* An HTTP stream that ended cleanly passed on every chunk its goroutine   *)
(* delivered and lost no error it reported, whatever the order of the      *)
(* close of the two channels, the handler's two looks at errCh and the     *)
(* idle timer.                                                             *)
THEOREM CleanHidesNoError == Spec => []CleanEndHidesNoError
<1>1. Init => ServeInv
  BY ServeInit
<1>2. ServeInv /\ [Next]_vars => ServeInv'
  BY ServeNext
<1>3. ServeInv => CleanEndHidesNoError
  <2> SUFFICES ASSUME ServeInv, NEW r \in Req, req[r].out = "clean", ~IsWS(r)
               PROVE  prod[r].end # "error" /\ req[r].got = prod[r].put
    BY DEF CleanEndHidesNoError
  <2>1. ServeOK(req[r], prod[r]) /\ req[r] \in ReqState
    BY DEF ServeInv
  <2>2. req[r].got \in Nat
    BY <2>1 DEF ReqState
  <2>3. prod[r].buf = 0 /\ prod[r].err = "none" /\ prod[r].put = req[r].got + prod[r].buf
    BY <2>1 DEF ServeOK, CleanIsDrained, ChunksAccounted, IsWS
  <2>4. prod[r].end # "error"
    BY <2>1, <2>3 DEF ServeOK, ErrorKept
  <2> QED
    BY <2>2, <2>3, <2>4
<1> QED
  BY <1>1, <1>2, <1>3, PTL DEF Spec

-----------------------------------------------------------------------------
(* The worker beside its requests: WorkerAgent, for any number of reloads. *)

(* The catalogue: what the refresh loop merged still has the model if the  *)
(* catalogue has it, because a load never removes one.                     *)
CatalogueInv ==
  /\ model \in Status /\ refresh \in [at : {"tick", "merged"}, got : Status]
  /\ refresh.at = "merged" /\ model # "absent" => refresh.got # "absent"

(* Neither the signal goroutine nor a registration loop touches it. *)
LEMMA CatalogueUntouched ==
  ASSUME \/ RunWorker \/ ReloadConfig \/ ReloadCancels
         \/ ReloadLaunches \/ Stop \/ (\E g \in Gen : LoopStep(g))
  PROVE  model' = model /\ refresh' = refresh
BY DEF catalogueVars, RunWorker, ReloadConfig, ReloadCancels,
       ReloadLaunches, Stop, LoopStep, BuildPost, PostArrives,
       PostFails, TickOrDone, Dial, SendRegister, RegisterFails,
       HeartbeatArrives, ConnLost, CloserFires, ReaderEnds,
       Step, LoopGoto

LEMMA CatalogueStep ==
  ASSUME CatalogueInv, [AgentNext]_agentVars
  PROVE  CatalogueInv' /\ (model # "absent" => model' # "absent")
<1>1. CASE model' = model /\ refresh' = refresh
  BY <1>1 DEF CatalogueInv, Status
<1>2. CASE RefreshModels
  BY <1>2 DEF CatalogueInv, Status, RefreshModels, MergeModels
<1>3. CASE SetModels
  BY <1>3 DEF CatalogueInv, Status, SetModels
<1>4. CASE LoadModelByName
  BY <1>4 DEF CatalogueInv, Status, LoadModelByName
<1> QED
  BY <1>1, <1>2, <1>3, <1>4, CatalogueUntouched DEF AgentNext, agentVars

LEMMA CatalogueHolds == AgentSpec => []CatalogueInv
<1>1. AgentInit => CatalogueInv
  BY DEF AgentInit, CatalogueInv, Status
<1>2. CatalogueInv /\ [AgentNext]_agentVars => CatalogueInv'
  BY CatalogueStep
<1> QED
  BY <1>1, <1>2, PTL DEF AgentSpec

(* A model declared on the command line or ever listed by the backend is   *)
(* never dropped from the catalogue, however refreshModels, SetModels and  *)
(* LoadModelByName interleave (model_refresh.go).                          *)
THEOREM DeclaredModelKept == AgentSpec => DeclaredModelSurvives
<1>1. CatalogueInv /\ [AgentNext]_agentVars => [model # "absent" => model' # "absent"]_agentVars
  BY CatalogueStep
<1> QED
  BY <1>1, CatalogueHolds, PTL DEF AgentSpec, DeclaredModelSurvives

-----------------------------------------------------------------------------
(* The registration loops. *)

Places == {"idle", "dial", "register", "serve", "build", "post", "wait", "exited"}
Filters == 0 .. MaxReloads

(* What an update of a loop's record leaves alone. *)
Continues(l, m) == m \in Loops /\ m.kind = l.kind /\ m.relay = l.relay /\ m.cancelled = l.cancelled

LEMMA LoopMoves ==
  ASSUME NEW l \in Loops, NEW a \in Places
  PROVE  Continues(l, [l EXCEPT !.at = a]) /\ [l EXCEPT !.at = a].at = a
BY DEF Loops, Places, Continues

LEMMA LoopBuilds ==
  ASSUME NEW l \in Loops, NEW a \in Places, NEW f \in Filters
  PROVE  /\ Continues(l, [l EXCEPT !.at = a, !.sent = f])
         /\ [l EXCEPT !.at = a, !.sent = f].at = a
BY DEF Loops, Places, Filters, Continues

LEMMA LoopOpens ==
  ASSUME NEW l \in Loops, NEW a \in Places, NEW o \in BOOLEAN
  PROVE  /\ Continues(l, [l EXCEPT !.at = a, !.open = o])
         /\ [l EXCEPT !.at = a, !.open = o].at = a
BY DEF Loops, Places, Continues

LEMMA LoopCloses ==
  ASSUME NEW l \in Loops
  PROVE  /\ Continues(l, [l EXCEPT !.open = FALSE]) /\ [l EXCEPT !.open = FALSE].at = l.at
         /\ ~[l EXCEPT !.open = FALSE].open
BY DEF Loops, Continues

LEMMA LoopCancelled ==
  ASSUME NEW l \in Loops
  PROVE  /\ [l EXCEPT !.cancelled = TRUE] \in Loops
         /\ [l EXCEPT !.cancelled = TRUE].kind = l.kind
         /\ [l EXCEPT !.cancelled = TRUE].at = l.at /\ [l EXCEPT !.cancelled = TRUE].open = l.open
         /\ [l EXCEPT !.cancelled = TRUE].cancelled
BY DEF Loops

Announcements == [gen : {0} \cup Gen, filters : Filters, ws : BOOLEAN]

(* A loop can announce the worker from inside a POST or a register, and by *)
(* a heartbeat while its connection is open.                               *)
CanAnnounce(l) == l.at \in {"post", "register"} \/ (l.at = "serve" /\ l.open)

(* One step of one loop, seen from the rest: the others and the contexts   *)
(* stay.  A loop whose context is done starts no POST and no register, and *)
(* once it can announce nothing it never can again.                        *)
OneLoopMoves(g) ==
  /\ loop' \in [Gen -> Loops]
  /\ Continues(loop[g], loop'[g])
  /\ \A h \in Gen \ {g} : loop'[h] = loop[h]
  /\ told' \in Announcements
  /\ told' # told => told'.gen = g /\ CanAnnounce(loop[g])
  /\ loop[g].cancelled =>
       /\ loop'[g].at \in {"post", "register"} => loop'[g].at = loop[g].at
       /\ CanAnnounce(loop'[g]) => CanAnnounce(loop[g])

LEMMA StepMoves ==
  ASSUME NEW g \in Gen, loop \in [Gen -> Loops], NEW x,
         Continues(loop[g], x), loop' = [loop EXCEPT ![g] = x]
  PROVE  /\ loop' \in [Gen -> Loops] /\ loop'[g] = x
         /\ Continues(loop[g], loop'[g])
         /\ \A h \in Gen \ {g} : loop'[h] = loop[h]
BY DEF Continues

LEMMA LoopStepMoves ==
  ASSUME NEW g \in Gen, loop \in [Gen -> Loops], told \in Announcements,
         filters \in Filters, LoopStep(g)
  PROVE  OneLoopMoves(g)
<1> DEFINE l == loop[g]
           Away == IF Cancelled(g) THEN "exited" ELSE "wait"
<1>0. l \in Loops /\ Away \in Places /\ (l.cancelled => Cancelled(g))
  BY DEF Places, Cancelled
<1>a. l.at \in Places /\ l.relay \in BOOLEAN /\ l.sent \in Filters
  BY <1>0 DEF Loops, Places, Filters
<1>b. \A f \in Filters : [gen |-> g, filters |-> f, ws |-> l.relay] \in Announcements
  BY <1>a DEF Announcements
<1>c. "wait" \in Places /\ "post" \in Places /\ "serve" \in Places /\ "register" \in Places
      /\ "build" \in Places /\ "dial" \in Places /\ "exited" \in Places
  BY DEF Places
<1> HIDE DEF l, Away
<1>1. CASE BuildPost(g)
  <2> DEFINE a == IF Cancelled(g) THEN "wait" ELSE "post"
             x == [l EXCEPT !.at = a, !.sent = filters]
  <2>1. a \in Places /\ (l.cancelled => a = "wait")
    BY <1>0, <1>c
  <2>2. loop' = [loop EXCEPT ![g] = x] /\ told' = told
    BY <1>1 DEF BuildPost, Step, l
  <2> HIDE DEF a
  <2>3. Continues(l, x) /\ x.at = a
    BY <1>0, <2>1, LoopBuilds
  <2> HIDE DEF x
  <2> QED
    BY <2>1, <2>2, <2>3, StepMoves DEF OneLoopMoves, CanAnnounce, l
<1>2. CASE PostArrives(g)
  <2> DEFINE x == [l EXCEPT !.at = "wait"]
  <2>1. loop' = [loop EXCEPT ![g] = x] /\ told' = [gen |-> g, filters |-> l.sent, ws |-> l.relay]
        /\ l.at = "post"
    BY <1>2 DEF PostArrives, Step, BuildRegistrationInfo, l
  <2>2. Continues(l, x) /\ x.at = "wait"
    BY <1>0, <1>c, LoopMoves
  <2>3. told' \in Announcements /\ told'.gen = g
    BY <2>1, <1>a, <1>b
  <2> HIDE DEF x
  <2> QED
    BY <2>1, <2>2, <2>3, StepMoves DEF OneLoopMoves, CanAnnounce, l
<1>3. ASSUME NEW a \in Places, LoopGoto(g, a), l.cancelled => a \notin {"post", "register", "serve"}
      PROVE  OneLoopMoves(g)
  <2> DEFINE x == [l EXCEPT !.at = a]
  <2>1. loop' = [loop EXCEPT ![g] = x] /\ told' = told
    BY <1>3 DEF LoopGoto, Step, l
  <2>2. Continues(l, x) /\ x.at = a
    BY <1>0, LoopMoves
  <2> HIDE DEF x
  <2> QED
    BY <1>3, <2>1, <2>2, StepMoves DEF OneLoopMoves, CanAnnounce, l
<1>4. CASE PostFails(g)
  BY <1>4, <1>3, <1>c DEF PostFails
<1>5. CASE TickOrDone(g)
  <2> DEFINE a == IF Cancelled(g) THEN "exited" ELSE IF loop[g].kind = "ws" THEN "dial" ELSE "build"
  <2>1. a \in Places /\ a \notin {"post", "register", "serve"}
    BY <1>c
  <2>2. LoopGoto(g, a)
    BY <1>5 DEF TickOrDone
  <2> QED
    BY <1>3, <2>1, <2>2
<1>6. CASE Dial(g)
  <2>1. CASE ~Cancelled(g) /\ LoopGoto(g, "register")
    BY <2>1, <1>0, <1>3, <1>c
  <2>2. CASE LoopGoto(g, Away)
    BY <2>2, <1>0, <1>3 DEF Away
  <2> QED
    BY <1>6, <2>1, <2>2 DEF Dial, Away
<1>7. CASE SendRegister(g)
  <2> DEFINE x == [l EXCEPT !.at = "serve", !.open = TRUE]
  <2>1. loop' = [loop EXCEPT ![g] = x] /\ told' = [gen |-> g, filters |-> filters, ws |-> l.relay]
        /\ l.at = "register"
    BY <1>7 DEF SendRegister, Step, l
  <2>2. Continues(l, x) /\ x.at = "serve"
    BY <1>0, <1>c, LoopOpens
  <2>3. told' \in Announcements /\ told'.gen = g
    BY <2>1, <1>b
  <2> HIDE DEF x
  <2> QED
    BY <2>1, <2>2, <2>3, StepMoves DEF OneLoopMoves, CanAnnounce, l
<1>8. CASE RegisterFails(g)
  BY <1>8, <1>3, <1>0 DEF RegisterFails, Away
<1>9. CASE HeartbeatArrives(g)
  <2>1. loop' = loop /\ told' = [gen |-> g, filters |-> filters, ws |-> l.relay]
        /\ l.at = "serve" /\ l.open
    BY <1>9 DEF HeartbeatArrives, l
  <2>2. told' \in Announcements /\ told'.gen = g
    BY <2>1, <1>b
  <2>3. Continues(loop[g], loop'[g])
    BY <2>1, <1>0 DEF Continues, l
  <2> QED
    BY <2>1, <2>2, <2>3 DEF OneLoopMoves, CanAnnounce, l
<1>10. CASE ConnLost(g) \/ CloserFires(g)
  <2> DEFINE x == [l EXCEPT !.open = FALSE]
  <2>1. loop' = [loop EXCEPT ![g] = x] /\ told' = told
    BY <1>10 DEF ConnLost, CloserFires, Step, l
  <2>2. Continues(l, x) /\ x.at = l.at /\ ~x.open
    BY <1>0, LoopCloses
  <2> HIDE DEF x
  <2> QED
    BY <2>1, <2>2, StepMoves DEF OneLoopMoves, CanAnnounce, l
<1>11. CASE ReaderEnds(g)
  <2> DEFINE x == [l EXCEPT !.at = Away, !.open = FALSE]
  <2>1. loop' = [loop EXCEPT ![g] = x] /\ told' = told
    BY <1>11 DEF ReaderEnds, Step, l, Away
  <2>2. Continues(l, x) /\ x.at = Away
    BY <1>0, LoopOpens
  <2>3. Away \notin {"post", "register", "serve"}
    BY DEF Away
  <2> HIDE DEF x
  <2> QED
    BY <2>1, <2>2, <2>3, StepMoves DEF OneLoopMoves, CanAnnounce, l
<1> QED
  BY <1>1, <1>2, <1>4, <1>5, <1>6, <1>7, <1>8, <1>9, <1>10, <1>11 DEF LoopStep

(* Where the signal goroutine is says how many loops it has launched, and  *)
(* which of them it has cancelled: a launch follows a cancel.              *)
MainTyped ==
  /\ static \in [dev : BOOLEAN, prodRouter : BOOLEAN] /\ mdns \in BOOLEAN
  /\ cfg \in Config /\ next \in Config /\ filters \in Filters
  /\ main \in {"start", "listen", "filtered", "cancelled", "stopped"}
  /\ gen \in Nat /\ gen <= MaxReloads + 1

LaunchesCounted ==
  /\ main = "start" => gen = 0
  /\ main \in {"listen", "filtered"} => gen <= cfg.n + 1
  /\ main = "filtered" => next.n = cfg.n + 1
  /\ main = "cancelled" => gen <= cfg.n

LoopsTyped == loop \in [Gen -> Loops] /\ told \in Announcements

EarlierCancelled ==
  \A g \in Gen :
    /\ g < gen => loop[g].cancelled
    /\ g <= gen /\ main = "cancelled" => loop[g].cancelled
    /\ g > gen => loop[g].kind = "none" /\ ~loop[g].cancelled

AgentInv == MainTyped /\ LaunchesCounted /\ LoopsTyped /\ EarlierCancelled

(* A launch adds the next loop, or finds no path and adds none. *)
LEMMA LaunchAdds ==
  ASSUME MaxReloads \in Nat, gen \in Nat, gen + 1 \in Gen, loop \in [Gen -> Loops],
         NEW c \in Config, LaunchRegistration(c)
  PROVE  \/ gen' = gen /\ loop' = loop
         \/ /\ gen' = gen + 1 /\ loop' \in [Gen -> Loops]
            /\ \A g \in Gen \ {gen + 1} : loop'[g] = loop[g]
<1> PICK reachable \in BOOLEAN :
      LET kind == IF UsesMTLS THEN "mtls" ELSE Path(c, reachable) IN
      IF kind = "none" THEN UNCHANGED <<gen, loop>>
      ELSE gen' = gen + 1 /\ loop' = [loop EXCEPT ![gen + 1] = Started(kind, c)]
  BY DEF LaunchRegistration
<1> DEFINE kind == IF UsesMTLS THEN "mtls" ELSE Path(c, reachable)
<1>1. kind \in {"none", "ws", "http", "mtls"}
  BY DEF Path
<1>2. NewLoop \in Loops
  BY DEF NewLoop, Loops
<1>3. c.relay \in BOOLEAN
  BY DEF Config
<1> HIDE DEF kind
<1>4. Started(kind, c) \in Loops
  <2> DEFINE a == IF kind = "ws" THEN "dial" ELSE "build"
  <2>1. a \in {"dial", "build"}
    OBVIOUS
  <2>2. Started(kind, c) = [NewLoop EXCEPT !.kind = kind, !.relay = c.relay, !.at = a]
    BY DEF Started
  <2> HIDE DEF a
  <2> QED
    BY <1>1, <1>2, <1>3, <2>1, <2>2 DEF Loops
<1>5. CASE kind = "none"
  BY <1>5 DEF kind
<1>6. CASE kind # "none"
  <2>1. gen' = gen + 1 /\ loop' = [loop EXCEPT ![gen + 1] = Started(kind, c)]
    BY <1>6 DEF kind
  <2> QED
    BY <2>1, <1>4
<1> QED
  BY <1>5, <1>6

LEMMA AgentInvInit == ASSUME MaxReloads \in Nat PROVE AgentInit => AgentInv
<1> SUFFICES ASSUME AgentInit PROVE AgentInv
  OBVIOUS
<1>1. cfg \in Config /\ cfg.n = 0 /\ filters \in Filters
  BY DEF AgentInit, Config, Filters
<1>2. MainTyped
  <2>1. gen = 0 /\ gen \in Nat /\ gen <= MaxReloads + 1
    BY DEF AgentInit
  <2>2. main = "start" /\ next = cfg /\ mdns = FALSE /\ static \in [dev : BOOLEAN, prodRouter : BOOLEAN]
    BY DEF AgentInit
  <2> QED
    BY <1>1, <2>1, <2>2 DEF MainTyped
<1>3. LaunchesCounted
  BY DEF AgentInit, LaunchesCounted
<1>4. NewLoop \in Loops /\ NewLoop.kind = "none" /\ ~NewLoop.cancelled
  BY DEF NewLoop, Loops
<1>5. Nothing \in Announcements
  BY DEF Nothing, Announcements, Filters
<1>6. LoopsTyped
  BY <1>4, <1>5 DEF AgentInit, LoopsTyped
<1>7. EarlierCancelled
  BY <1>4 DEF AgentInit, EarlierCancelled, Gen
<1> QED
  BY <1>2, <1>3, <1>6, <1>7 DEF AgentInv

LEMMA LaunchKeeps ==
  ASSUME MaxReloads \in Nat, AgentInv, RunWorker \/ ReloadLaunches
  PROVE  AgentInv'
<1>1. main' = "listen" /\ UNCHANGED <<static, cfg, next, filters, told>> /\ mdns' \in BOOLEAN
  BY DEF AgentInv, MainTyped, RunWorker, ReloadLaunches
<1>2. cfg.n \in Nat /\ cfg.n <= MaxReloads /\ gen \in Nat /\ gen <= cfg.n
  BY DEF AgentInv, MainTyped, LaunchesCounted, Config, RunWorker, ReloadLaunches
<1>3. \A g \in Gen : (g <= gen => loop[g].cancelled) /\ (g > gen => loop[g].kind = "none" /\ ~loop[g].cancelled)
  <2> TAKE g \in Gen
  <2>1. g \in Nat /\ g >= 1
    BY DEF Gen
  <2>2. CASE main = "start"
    BY <2>1, <2>2 DEF AgentInv, LaunchesCounted, EarlierCancelled
  <2>3. CASE main = "cancelled"
    BY <2>3 DEF AgentInv, EarlierCancelled
  <2> QED
    BY <2>2, <2>3 DEF RunWorker, ReloadLaunches
<1>4. gen + 1 \in Gen
  BY <1>2 DEF Gen
<1>5. \/ gen' = gen /\ loop' = loop
      \/ /\ gen' = gen + 1 /\ loop' \in [Gen -> Loops]
         /\ \A g \in Gen \ {gen + 1} : loop'[g] = loop[g]
  <2>1. CASE LaunchRegistration(cfg)
    BY <2>1, <1>2, <1>4, LaunchAdds DEF AgentInv, MainTyped, LoopsTyped
  <2> QED
    BY <2>1 DEF RunWorker, ReloadLaunches
<1>6. MainTyped'
  BY <1>1, <1>2, <1>5 DEF AgentInv, MainTyped
<1>7. LaunchesCounted'
  BY <1>1, <1>2, <1>5 DEF LaunchesCounted
<1>8. LoopsTyped'
  BY <1>1, <1>5 DEF AgentInv, LoopsTyped
<1>9. EarlierCancelled'
  <2>1. \A g \in Gen : g \in Nat
    BY DEF Gen
  <2>2. CASE gen' = gen /\ loop' = loop
    BY <2>1, <2>2, <1>1, <1>2, <1>3 DEF EarlierCancelled
  <2>3. CASE gen' = gen + 1 /\ \A g \in Gen \ {gen + 1} : loop'[g] = loop[g]
    BY <2>1, <2>3, <1>1, <1>2, <1>3 DEF EarlierCancelled
  <2> QED
    BY <2>2, <2>3, <1>5
<1> QED
  BY <1>6, <1>7, <1>8, <1>9 DEF AgentInv

LEMMA ReloadKeeps ==
  ASSUME MaxReloads \in Nat, AgentInv, ReloadConfig
  PROVE  AgentInv'
<1>1. UNCHANGED <<static, cfg, gen, loop, mdns, told>> /\ main = "listen" /\ main' = "filtered"
      /\ filters' = cfg.n + 1 /\ cfg.n < MaxReloads
  BY DEF ReloadConfig
<1>2. cfg.n \in Nat /\ cfg.relay \in BOOLEAN /\ cfg.router \in BOOLEAN
  BY DEF AgentInv, MainTyped, Config
<1>3. cfg.n + 1 \in Filters
  BY <1>1, <1>2 DEF Filters
<1>4. next' \in Config /\ next'.n = cfg.n + 1
  BY <1>2, <1>3 DEF ReloadConfig, Effective, Config, Filters
<1> QED
  BY <1>1, <1>2, <1>3, <1>4
     DEF AgentInv, MainTyped, LaunchesCounted, LoopsTyped, EarlierCancelled

LEMMA CancelKeeps ==
  ASSUME MaxReloads \in Nat, AgentInv, ReloadCancels
  PROVE  AgentInv' /\ loop' \in [Gen -> Loops]
         /\ \A g \in Gen : /\ loop[g].cancelled => loop'[g].cancelled
                           /\ loop'[g].at = loop[g].at /\ loop'[g].open = loop[g].open
<1>1. UNCHANGED <<static, next, filters, gen, mdns, told>> /\ main = "filtered"
      /\ main' = "cancelled" /\ cfg' = next
      /\ loop' = IF gen = 0 THEN loop ELSE [loop EXCEPT ![gen].cancelled = TRUE]
  BY DEF ReloadCancels, RegCancel
<1>2. gen \in Nat /\ gen <= MaxReloads + 1 /\ loop \in [Gen -> Loops]
      /\ gen <= cfg.n + 1 /\ next.n = cfg.n + 1
  BY <1>1 DEF AgentInv, MainTyped, LoopsTyped, LaunchesCounted
<1>3. \A g \in Gen : g \in Nat /\ g >= 1
  BY DEF Gen
<1>4. /\ loop' \in [Gen -> Loops]
      /\ \A g \in Gen : /\ loop[g].cancelled => loop'[g].cancelled
                        /\ g = gen => loop'[g].cancelled
                        /\ g # gen => loop'[g].cancelled = loop[g].cancelled
                        /\ loop'[g].kind = loop[g].kind /\ loop'[g].at = loop[g].at
                        /\ loop'[g].open = loop[g].open
  <2>1. CASE gen = 0
    BY <2>1, <1>1, <1>2, <1>3
  <2>2. CASE gen # 0
    <3> DEFINE x == [loop[gen] EXCEPT !.cancelled = TRUE]
    <3>1. gen \in Gen
      BY <2>2, <1>2 DEF Gen
    <3>2. loop' = [loop EXCEPT ![gen] = x]
      BY <2>2, <1>1
    <3>3. x \in Loops /\ x.kind = loop[gen].kind /\ x.at = loop[gen].at /\ x.cancelled
          /\ x.open = loop[gen].open
      BY <3>1, <1>2, LoopCancelled
    <3> HIDE DEF x
    <3> QED
      BY <3>1, <3>2, <3>3, <1>2
  <2> QED
    BY <2>1, <2>2
<1>5. MainTyped' /\ LoopsTyped'
  BY <1>1, <1>4 DEF AgentInv, MainTyped, LoopsTyped
<1>6. LaunchesCounted'
  BY <1>1, <1>2 DEF LaunchesCounted
<1>7. EarlierCancelled'
  BY <1>1, <1>2, <1>3, <1>4 DEF AgentInv, EarlierCancelled
<1> QED
  BY <1>4, <1>5, <1>6, <1>7 DEF AgentInv

LEMMA LoopStepKeeps ==
  ASSUME MaxReloads \in Nat, AgentInv, NEW g \in Gen, LoopStep(g)
  PROVE  AgentInv' /\ OneLoopMoves(g)
<1>1. OneLoopMoves(g)
  BY LoopStepMoves DEF AgentInv, MainTyped, LoopsTyped
<1>2. UNCHANGED <<static, cfg, main, next, filters, gen, mdns>>
  BY DEF LoopStep, BuildPost, PostArrives,
       PostFails, TickOrDone, Dial, SendRegister, RegisterFails,
       HeartbeatArrives, ConnLost, CloserFires, ReaderEnds,
       Step, LoopGoto, mainVars
<1>3. \A h \in Gen : loop'[h].cancelled = loop[h].cancelled /\ loop'[h].kind = loop[h].kind
  BY <1>1 DEF OneLoopMoves, Continues
<1>4. LoopsTyped'
  BY <1>1 DEF OneLoopMoves, LoopsTyped
<1>5. MainTyped' /\ LaunchesCounted'
  BY <1>2 DEF AgentInv, MainTyped, LaunchesCounted
<1>6. EarlierCancelled'
  BY <1>2, <1>3 DEF AgentInv, EarlierCancelled
<1> QED
  BY <1>1, <1>4, <1>5, <1>6 DEF AgentInv

(* The other actions leave the loops alone. *)
LEMMA OthersKeep ==
  ASSUME AgentInv,
         \/ Stop \/ RefreshModels \/ SetModels \/ LoadModelByName
         \/ UNCHANGED agentVars
  PROVE  AgentInv' /\ loop' = loop /\ told' = told
<1>1. UNCHANGED <<static, cfg, next, filters, gen, loop, told>>
      /\ main' \in {main, "stopped"} /\ mdns' \in {mdns, FALSE}
  BY DEF Stop, RefreshModels, SetModels, LoadModelByName, agentVars,
         mainVars
<1> QED
  BY <1>1 DEF AgentInv, MainTyped, LaunchesCounted, LoopsTyped, EarlierCancelled

LEMMA AgentHolds == AgentSpec => []AgentInv
<1> USE WorkerAgentAssumption
<1>1. AgentInit => AgentInv
  BY AgentInvInit
<1>2. AgentInv /\ [AgentNext]_agentVars => AgentInv'
  BY LaunchKeeps, ReloadKeeps, CancelKeeps, LoopStepKeeps, OthersKeep DEF AgentNext
<1> QED
  BY <1>1, <1>2, PTL DEF AgentSpec

(* The state of a worker keeps its shape for any number of reloads: each   *)
(* configuration launches at most one loop (run.go), and the refresh loop  *)
(* stores what it merged.                                                  *)
THEOREM AgentTypeCorrect == AgentSpec => []AgentTypeOK
<1>1. AgentInv /\ CatalogueInv => AgentTypeOK
  <2> SUFFICES ASSUME AgentInv, CatalogueInv PROVE AgentTypeOK
    OBVIOUS
  <2>1. gen \in 0 .. MaxReloads + 1
    BY DEF AgentInv, MainTyped
  <2> QED
    BY <2>1 DEF AgentInv, MainTyped, LoopsTyped, CatalogueInv, Announcements, Filters, AgentTypeOK
<1> QED
  BY <1>1, AgentHolds, CatalogueHolds, PTL

(* Two loops that both may announce the worker are the same loop: a reload *)
(* cancels the running loop before it launches the next (reloadConfig), so *)
(* an old configuration never keeps registering beside the new one.        *)
OneLiveLoop ==
  \A g, h \in Gen :
    (loop[g].kind # "none" /\ loop[h].kind # "none" /\ ~loop[g].cancelled /\ ~loop[h].cancelled)
    => g = h

(* Of all the registration loops SIGHUP ever launched only the last may    *)
(* run.                                                                    *)
THEOREM OnlyLatestLoopLives == AgentSpec => []OneLiveLoop
<1>1. AgentInv => OneLiveLoop
  <2> SUFFICES ASSUME AgentInv, NEW g \in Gen, NEW h \in Gen,
                      loop[g].kind # "none", loop[h].kind # "none",
                      ~loop[g].cancelled, ~loop[h].cancelled
               PROVE  g = h
    BY DEF OneLiveLoop
  <2>1. g \in Nat /\ h \in Nat /\ gen \in Nat
    BY DEF Gen, AgentInv, MainTyped
  <2>2. ~(g < gen) /\ ~(g > gen) /\ ~(h < gen) /\ ~(h > gen)
    BY DEF AgentInv, EarlierCancelled
  <2> QED
    BY <2>1, <2>2
<1> QED
  BY <1>1, AgentHolds, PTL

(* A loop the reload cancelled stays cancelled and starts no POST and no   *)
(* register any more.  What of it still reaches the router is the one it   *)
(* was making, or a heartbeat over a connection not closed yet; once it is *)
(* past the one and the other it is silent for good.                       *)
CancelledLoopFallsSilent ==
  [][\A g \in Gen : loop[g].cancelled =>
       /\ loop'[g].cancelled
       /\ loop'[g].at \in {"post", "register"} => loop'[g].at = loop[g].at
       /\ CanAnnounce(loop'[g]) => CanAnnounce(loop[g])
       /\ (told' # told /\ told'.gen = g) => CanAnnounce(loop[g])
    ]_agentVars

(* What a cancelled loop may still do to the router, in every interleaving *)
(* of its dial, build, post, heartbeat and close with the reload           *)
(* (ws_client.go: wsConnectOnce and wsHeartbeat; register.go).             *)
THEOREM StaleLoopFallsSilent == AgentSpec => CancelledLoopFallsSilent
<1> USE WorkerAgentAssumption
<1> DEFINE Silent(g) ==
      /\ loop'[g].cancelled
      /\ loop'[g].at \in {"post", "register"} => loop'[g].at = loop[g].at
      /\ CanAnnounce(loop'[g]) => CanAnnounce(loop[g])
      /\ (told' # told /\ told'.gen = g) => CanAnnounce(loop[g])
<1>1. AgentInv /\ [AgentNext]_agentVars
      => [\A g \in Gen : loop[g].cancelled => Silent(g)]_agentVars
  <2> SUFFICES ASSUME AgentInv, [AgentNext]_agentVars, NEW g \in Gen, loop[g].cancelled
               PROVE  Silent(g)
    OBVIOUS
  <2>1. CASE told' = told /\ loop'[g] = loop[g]
    BY <2>1
  <2>2. CASE RunWorker \/ ReloadLaunches
    <3>1. told' = told /\ main \in {"start", "cancelled"}
          /\ (LaunchRegistration(cfg) \/ loop' = loop)
      BY <2>2 DEF RunWorker, ReloadLaunches
    <3>2. gen \in Nat /\ gen + 1 \in Gen /\ cfg \in Config
      <4>1. cfg.n \in Nat /\ cfg.n <= MaxReloads /\ gen \in Nat /\ gen <= cfg.n
        BY <3>1 DEF AgentInv, MainTyped, LaunchesCounted, Config
      <4> QED
        BY <4>1 DEF Gen, AgentInv, MainTyped
    <3>3. g # gen + 1
      BY <3>2 DEF AgentInv, EarlierCancelled
    <3> QED
      BY <2>1, <3>1, <3>2, <3>3, LaunchAdds DEF AgentInv, LoopsTyped
  <2>3. CASE ReloadCancels
    BY <2>3, CancelKeeps DEF ReloadCancels, CanAnnounce
  <2>4. ASSUME NEW h \in Gen, LoopStep(h) PROVE Silent(g)
    <3>1. OneLoopMoves(h)
      BY <2>4, LoopStepKeeps
    <3> QED
      BY <3>1 DEF OneLoopMoves, Continues
  <2>5. CASE ReloadConfig
    BY <2>1, <2>5 DEF ReloadConfig
  <2> QED
    BY <2>1, <2>2, <2>3, <2>4, <2>5, OthersKeep DEF AgentNext
<1> QED
  BY <1>1, AgentHolds, PTL DEF AgentSpec, CancelledLoopFallsSilent

=============================================================================
