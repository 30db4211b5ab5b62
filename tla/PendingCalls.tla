---------------------------- MODULE PendingCalls ----------------------------
(***************************************************************************)
(* The in-flight calls of one direct worker connection of the router       *)
(* (pkg/router/ws_conn.go, ws_pending.go, the pendingCall type of          *)
(* ws_hub.go and the consumer loops awaitResponse and proxyStream).        *)
(*                                                                         *)
(* Goroutines: per call, the HTTP handler (register, send, consume) and    *)
(* the watcher of its context; per connection, the reader loop, the writer *)
(* loop and whoever runs shutdown.  A step is one critical section, one    *)
(* channel operation or one select; everything else interleaves.           *)
(*                                                                         *)
(* Message IDs are random and never collide, so a call is its message ID.  *)
(* Payloads are abstracted to what the handlers branch on.                 *)
(***************************************************************************)
EXTENDS Integers, Sequences, FiniteSets

CONSTANTS
  Call,          \* the calls ever made on this connection
  StreamCall,    \* those made by wsWorkerClient.Stream; the others are
                 \* Complete or LoadModel calls
  Caps,          \* the values maxInFlightFor may return for this worker
  SendQueueSize, \* capacity of the connection's sendCh
  ChunkBuf,      \* capacity of a stream's chunkCh
  RespBuf,       \* capacity of a call's respCh (4 in the code)
  MaxCalls,      \* bound: calls made in one behaviour
  MaxMsgs,       \* bound: messages the worker sends per call
  MaxControl     \* bound: welcome, ping and close frames enqueued

Ctl == "control frame"

ASSUME PendingCallsAssumption ==
  /\ IsFiniteSet(Call) /\ Ctl \notin Call
  /\ StreamCall \subseteq Call
  /\ Caps \subseteq Nat \ {0} /\ Caps # {}
  /\ SendQueueSize \in Nat \ {0}
  /\ ChunkBuf \in Nat \ {0}
  /\ RespBuf \in Nat \ {0}
  /\ MaxCalls \in Nat
  /\ MaxMsgs \in Nat
  /\ MaxControl \in Nat

VARIABLES
  cap,        \* h.maxInFlightFor(c.id)
  pending,    \* c.pending: the calls registered on the connection
  rejected,   \* c.rejected429
  sendCh,     \* c.sendCh: requests (a call) and control frames
  queueDepth, \* c.queueDepth
  control,    \* control frames enqueued so far (bounded by MaxControl)
  step,       \* the HTTP handler goroutine of a call
  ctxDone,    \* ctx.Done() of a call is closed
  fin,        \* progress of closeOnce.Do(...; pc.finish()) of a call
  outcome,    \* which of complete / fail won closeOnce
  err,        \* an error sits in pc.errCh (capacity 1)
  buf,        \* contents of pc.chunkCh or pc.respCh
  result,     \* what the consumer reported for the call
  wire,       \* calls whose request the writer put on the socket
  received,   \* messages read for a call
  answered,   \* calls for which a terminal success was read
  reader,     \* the reader loop
  writer,     \* the writer loop
  shut,       \* progress of c.shutdown
  todo        \* the snapshot of pending calls shutdown has yet to fail

vars == <<cap, pending, rejected, sendCh, queueDepth, control, step, ctxDone,
          fin, outcome, err, buf, result, wire, received, answered, reader,
          writer, shut, todo>>

callVars   == <<step, ctxDone, result>>
finVars    == <<fin, outcome, err>>
queueVars  == <<sendCh, queueDepth, control>>
peerVars   == <<wire, received, answered>>
shutVars   == <<shut, todo>>

Msg == {"chunk", "final", "empty", "finalErr", "error"}
NoCall == "no call"

IsStream(k) == k \in StreamCall
BufCap(k) == IF IsStream(k) THEN ChunkBuf ELSE RespBuf

(* c.doneCh is closed first thing in shutdown. *)
connDone == shut # "open"
(* finish has closed pc.doneCh, and pc.chunkCh or pc.respCh. *)
chClosed(k) == fin[k] = "closed"

Idle == [at |-> "idle", call |-> NoCall, msg |-> "none"]

-----------------------------------------------------------------------------

Init ==
  /\ cap \in Caps
  /\ pending = {}
  /\ rejected = 0
  /\ sendCh = <<>>
  /\ queueDepth = 0
  /\ control = 0
  /\ step = [k \in Call |-> "idle"]
  /\ ctxDone = [k \in Call |-> FALSE]
  /\ fin = [k \in Call |-> "open"]
  /\ outcome = [k \in Call |-> "none"]
  /\ err = [k \in Call |-> FALSE]
  /\ buf = [k \in Call |-> <<>>]
  /\ result = [k \in Call |-> "none"]
  /\ wire = {}
  /\ received = [k \in Call |-> 0]
  /\ answered = {}
  /\ reader = Idle
  /\ writer = "running"
  /\ shut = "open"
  /\ todo = {}

-----------------------------------------------------------------------------
(* closeOnce: completeStream, completeCall and fail.                       *)

(* Mutant: the sentinel is sent without a default case. *)
WithSentinelUnbounded(k) ==
  IF IsStream(k) THEN Append(buf[k], "done") ELSE buf[k]

(* The select in completeStream: the [DONE] sentinel, dropped when full.   *)
WithSentinel(k) ==
  IF IsStream(k) /\ Len(buf[k]) < BufCap(k) THEN Append(buf[k], "done") ELSE buf[k]

Terminate(k, why) ==
  /\ fin[k] = "open"
  /\ fin' = [fin EXCEPT ![k] = "claimed"]
  /\ outcome' = [outcome EXCEPT ![k] = why]
  /\ IF why = "fail"
       THEN err' = [err EXCEPT ![k] = TRUE] /\ UNCHANGED buf
       ELSE buf' = [buf EXCEPT ![k] = WithSentinel(k)] /\ UNCHANGED err

(* Mutant: finish leaves the call in the map. *)
FinishRemoveForgets(k) ==
  /\ fin[k] = "claimed"
  /\ fin' = [fin EXCEPT ![k] = "removed"]
  /\ UNCHANGED pending
  /\ UNCHANGED <<cap, rejected, queueVars, callVars, outcome, err, buf,
                 peerVars, reader, writer, shutVars>>

(* pc.finish: remove from the map under pendingMu, then close the          *)
(* channels.  The goroutine that won closeOnce runs it; any other caller   *)
(* of closeOnce.Do waits until fin = "closed".                             *)
FinishRemove(k) ==
  /\ fin[k] = "claimed"
  /\ fin' = [fin EXCEPT ![k] = "removed"]
  /\ pending' = pending \ {k}
  /\ UNCHANGED <<cap, rejected, queueVars, callVars, outcome, err, buf,
                 peerVars, reader, writer, shutVars>>

(* close(doneCh) and close(chunkCh / respCh): a select that runs between   *)
(* the two has no outcome it could not have before or after both.          *)
FinishClose(k) ==
  /\ fin[k] = "removed"
  /\ fin' = [fin EXCEPT ![k] = "closed"]
  /\ UNCHANGED <<cap, pending, rejected, queueVars, callVars, outcome, err, buf,
                 peerVars, reader, writer, shutVars>>

Finish(k) == FinishRemove(k) \/ FinishClose(k)

-----------------------------------------------------------------------------
(* The HTTP handler: Stream, Complete and LoadModel.                       *)

(* The calls made so far; a handler makes its call once. *)
started == {k \in Call : step[k] # "idle"}

NewCall(k) == step[k] = "idle" /\ Cardinality(started) < MaxCalls

AtCap == Cardinality(pending) >= cap

(* Mutant: the cap is not looked at under the lock. *)
RegisterUnchecked(k) ==
  /\ NewCall(k)
  /\ pending' = pending \cup {k}
  /\ step' = [step EXCEPT ![k] = "registered"]
  /\ UNCHANGED <<cap, rejected, queueVars, ctxDone, result, finVars, buf,
                 peerVars, reader, writer, shutVars>>

(* registerStream / registerCall -> addPending. *)
Register(k) ==
  /\ NewCall(k)
  /\ ~AtCap
  /\ pending' = pending \cup {k}
  /\ step' = [step EXCEPT ![k] = "registered"]
  /\ UNCHANGED <<cap, rejected, queueVars, ctxDone, result, finVars, buf,
                 peerVars, reader, writer, shutVars>>

(* addPending returns errRateLimited.  Complete and LoadModel return it;   *)
(* Stream puts it on errCh, closes chunkCh and hands both to proxyStream.  *)
RegisterRejected(k) ==
  /\ NewCall(k)
  /\ AtCap
  /\ rejected' = rejected + 1
  /\ fin' = [fin EXCEPT ![k] = "closed"]
  /\ outcome' = [outcome EXCEPT ![k] = "fail"]
  /\ err' = [err EXCEPT ![k] = IsStream(k)]
  /\ step' = [step EXCEPT ![k] = IF IsStream(k) THEN "waiting" ELSE "returned"]
  /\ result' = [result EXCEPT ![k] = IF IsStream(k) THEN "none" ELSE "error"]
  /\ UNCHANGED <<cap, pending, queueVars, ctxDone, buf, peerVars, reader,
                 writer, shutVars>>

(* send: the select may take the free queue even when the connection is    *)
(* already done.                                                           *)
SendEnqueue(k) ==
  /\ step[k] = "registered"
  /\ Len(sendCh) < SendQueueSize
  /\ sendCh' = Append(sendCh, k)
  /\ queueDepth' = queueDepth + 1
  /\ step' = [step EXCEPT ![k] = "waiting"]
  /\ UNCHANGED <<cap, pending, rejected, control, ctxDone, result, finVars,
                 buf, peerVars, reader, writer, shutVars>>

(* send returns an error: context done, connection done or queue full.     *)
SendError(k) ==
  /\ step[k] = "registered"
  /\ ctxDone[k] \/ connDone \/ Len(sendCh) >= SendQueueSize
  /\ step' = [step EXCEPT ![k] = "failing"]
  /\ UNCHANGED <<cap, pending, rejected, queueVars, ctxDone, result, finVars,
                 buf, peerVars, reader, writer, shutVars>>

(* pc.fail(err) after a failed send. *)
SendFail(k) ==
  /\ step[k] = "failing"
  /\ Terminate(k, "fail")
  /\ UNCHANGED <<cap, pending, rejected, queueVars, callVars, peerVars, reader,
                 writer, shutVars>>

SendFailed(k) ==
  /\ step[k] = "failing"
  /\ chClosed(k)
  /\ step' = [step EXCEPT ![k] = IF IsStream(k) THEN "waiting" ELSE "returned"]
  /\ result' = [result EXCEPT ![k] = IF IsStream(k) THEN "none" ELSE "error"]
  /\ UNCHANGED <<cap, pending, rejected, queueVars, ctxDone, finVars, buf,
                 peerVars, reader, writer, shutVars>>

(* The context ends: retry budget, client hang-up.                         *)
CtxCancel(k) ==
  /\ step[k] # "idle"
  /\ ~ctxDone[k]
  /\ ctxDone' = [ctxDone EXCEPT ![k] = TRUE]
  /\ UNCHANGED <<cap, pending, rejected, queueVars, step, result, finVars, buf,
                 peerVars, reader, writer, shutVars>>

(* The watcher goroutine started once send succeeded. *)
WatchCtx(k) ==
  /\ step[k] \in {"waiting", "streaming", "writing", "returned"}
  /\ ctxDone[k]
  /\ Terminate(k, "fail")
  /\ UNCHANGED <<cap, pending, rejected, queueVars, callVars, peerVars, reader,
                 writer, shutVars>>

-----------------------------------------------------------------------------
(* The consumers: awaitResponse (and the select of LoadModel) for a call,  *)
(* proxyStream for a stream.  proxyStream waits for its first chunk        *)
(* ("waiting") or for the next one ("streaming"); it writes to its client  *)
(* outside the select ("writing", the result being what it returns next,   *)
(* "none" when it goes back to the select).  A stream's derived context is *)
(* cancelled by the deferred cancel() when proxyStream returns.            *)

InSelect(k) == step[k] \in {"waiting", "streaming"}

Return(k, r) ==
  /\ step' = [step EXCEPT ![k] = "returned"]
  /\ result' = [result EXCEPT ![k] = r]
  /\ ctxDone' = [ctxDone EXCEPT ![k] = @ \/ IsStream(k)]

(* w.Write and Flush. *)
Write(k, r) ==
  /\ step' = [step EXCEPT ![k] = "writing"]
  /\ result' = [result EXCEPT ![k] = r]

(* A stream whose client has seen a chunk is closed with data: [DONE]; an  *)
(* error response to a client that has seen nothing stays in the response  *)
(* buffer and does not hold the handler.                                   *)
EndWith(k, r) ==
  IF step[k] = "streaming" THEN Write(k, r) /\ UNCHANGED ctxDone ELSE Return(k, r)

ConsumeEvent(k) ==
  /\ InSelect(k)
  /\ buf[k] # <<>>
  /\ buf' = [buf EXCEPT ![k] = Tail(@)]
  /\ IF IsStream(k)
       THEN /\ Write(k, IF Head(buf[k]) = "done" THEN "done" ELSE "none")
            /\ UNCHANGED ctxDone
       ELSE Return(k, IF Head(buf[k]) = "ok" THEN "done" ELSE "error")
  /\ UNCHANGED <<cap, pending, rejected, queueVars, finVars, peerVars, reader,
                 writer, shutVars>>

(* The data channel is closed and drained: errConnClosed for a call, a     *)
(* completed stream for proxyStream.                                       *)
ConsumeClosed(k) ==
  /\ InSelect(k)
  /\ buf[k] = <<>> /\ chClosed(k)
  /\ EndWith(k, IF IsStream(k) THEN "done" ELSE "error")
  /\ UNCHANGED <<cap, pending, rejected, queueVars, finVars, buf, peerVars,
                 reader, writer, shutVars>>

ConsumeErr(k) ==
  /\ InSelect(k)
  /\ err[k]
  /\ err' = [err EXCEPT ![k] = FALSE]
  /\ EndWith(k, "error")
  /\ UNCHANGED <<cap, pending, rejected, queueVars, fin, outcome, buf, peerVars,
                 reader, writer, shutVars>>

(* The client hung up, or a call's context ended: nothing is written.      *)
ConsumeCtx(k) ==
  /\ InSelect(k)
  /\ ctxDone[k]
  /\ Return(k, "error")
  /\ UNCHANGED <<cap, pending, rejected, queueVars, finVars, buf, peerVars,
                 reader, writer, shutVars>>

(* Mutant: the idle timer does not bound the first byte. *)
IdleTimeoutAfterFirstChunk(k) ==
  /\ IsStream(k) /\ step[k] = "streaming"
  /\ Write(k, "error")
  /\ ctxDone' = [ctxDone EXCEPT ![k] = TRUE]
  /\ UNCHANGED <<cap, pending, rejected, queueVars, finVars, buf, peerVars,
                 reader, writer, shutVars>>

(* proxyStream's idle timer: cancel() comes before the write.              *)
IdleTimeout(k) ==
  /\ IsStream(k)
  /\ \/ step[k] = "streaming" /\ Write(k, "error")
                               /\ ctxDone' = [ctxDone EXCEPT ![k] = TRUE]
     \/ step[k] = "waiting" /\ Return(k, "error")
  /\ UNCHANGED <<cap, pending, rejected, queueVars, finVars, buf, peerVars,
                 reader, writer, shutVars>>

(* The write to the client returns.  No http.Server of the repository sets *)
(* a WriteTimeout and no case of the select is looked at meanwhile, so a   *)
(* client that stays connected and does not read may put this off forever. *)
WriteReturns(k) ==
  /\ step[k] = "writing"
  /\ IF result[k] = "none"
       THEN step' = [step EXCEPT ![k] = "streaming"] /\ UNCHANGED <<ctxDone, result>>
       ELSE Return(k, result[k])
  /\ UNCHANGED <<cap, pending, rejected, queueVars, finVars, buf, peerVars,
                 reader, writer, shutVars>>

Consume(k) ==
  ConsumeEvent(k) \/ ConsumeClosed(k) \/ ConsumeErr(k) \/ ConsumeCtx(k)

-----------------------------------------------------------------------------
(* The reader loop: readerLoop -> dispatch -> routeResponse / failPending  *)
(* -> pc.handle.                                                           *)

(* ReceiveJSON returns a message for a request the worker has seen.        *)
Receive(k, m) ==
  /\ reader.at = "idle"
  /\ ~connDone
  /\ k \in wire
  /\ received[k] < MaxMsgs
  /\ received' = [received EXCEPT ![k] = @ + 1]
  /\ answered' = IF m = "final" THEN answered \cup {k} ELSE answered
  /\ reader' = [at |-> "dispatch", call |-> k, msg |-> m]
  /\ UNCHANGED <<cap, pending, rejected, queueVars, callVars, finVars, buf,
                 wire, writer, shutVars>>

(* The lookup in c.pending under pendingMu; the lock is dropped before     *)
(* pc.handle runs.  An unknown ID is ignored.                              *)
Lookup ==
  /\ reader.at = "dispatch"
  /\ reader' = IF reader.call \in pending
                 THEN [reader EXCEPT !.at =
                        IF reader.msg = "error"
                            \/ (IsStream(reader.call) /\ reader.msg = "finalErr")
                          THEN "fail"
                          ELSE IF IsStream(reader.call) /\ reader.msg = "empty"
                            THEN "complete"
                            ELSE "deliver"]
                 ELSE Idle
  /\ UNCHANGED <<cap, pending, rejected, queueVars, callVars, finVars, buf,
                 peerVars, writer, shutVars>>

(* Mutant: a response that carries an error is taken for an answer. *)
EventOfUnchecked(m, k) ==
  CASE IsStream(k) -> "data"
    [] OTHER       -> "ok"

(* What a delivered message puts on the data channel, and where the        *)
(* handler goes after the select.                                          *)
EventOf(m, k) ==
  IF IsStream(k) THEN "data" ELSE IF m = "final" THEN "ok" ELSE "bad"

AfterDeliver ==
  IF reader.msg = "chunk" THEN Idle ELSE [reader EXCEPT !.at = "complete"]

(* callPendingHandler has no case for a chunk. *)
IgnoreChunk ==
  /\ reader.at = "deliver"
  /\ reader.msg = "chunk" /\ ~IsStream(reader.call)
  /\ reader' = Idle
  /\ UNCHANGED <<cap, pending, rejected, queueVars, callVars, finVars, buf,
                 peerVars, writer, shutVars>>

Delivering(k) ==
  /\ reader.at = "deliver"
  /\ reader.call = k
  /\ IsStream(k) \/ reader.msg # "chunk"

(* select case: the channel has room. *)
DeliverSend(k) ==
  /\ Delivering(k)
  /\ ~chClosed(k)
  /\ Len(buf[k]) < BufCap(k)
  /\ buf' = [buf EXCEPT ![k] = Append(@, EventOf(reader.msg, k))]
  /\ reader' = AfterDeliver
  /\ UNCHANGED <<cap, pending, rejected, queueVars, callVars, finVars,
                 peerVars, writer, shutVars>>

(* select case: <-pc.doneCh. *)
DeliverDone(k) ==
  /\ Delivering(k)
  /\ chClosed(k)
  /\ reader' = AfterDeliver
  /\ UNCHANGED <<cap, pending, rejected, queueVars, callVars, finVars, buf,
                 peerVars, writer, shutVars>>

(* select default: a stream drops the chunk, a call is failed. *)
DeliverDefault(k) ==
  /\ Delivering(k)
  /\ ~chClosed(k)
  /\ Len(buf[k]) >= BufCap(k)
  /\ reader' = IF IsStream(k) THEN AfterDeliver ELSE [reader EXCEPT !.at = "fail"]
  /\ UNCHANGED <<cap, pending, rejected, queueVars, callVars, finVars, buf,
                 peerVars, writer, shutVars>>

(* select picks the send case of a channel finish has closed: the reader   *)
(* goroutine panics.  The deferred shutdown still runs, and net/http       *)
(* recovers the panic of a connection's goroutine.                         *)
DeliverPanic(k) ==
  /\ Delivering(k)
  /\ chClosed(k)
  /\ reader' = [reader EXCEPT !.at = "panicked"]
  /\ UNCHANGED <<cap, pending, rejected, queueVars, callVars, finVars, buf,
                 peerVars, writer, shutVars>>

Deliver(k) ==
  DeliverSend(k) \/ DeliverDone(k) \/ DeliverDefault(k) \/ DeliverPanic(k)

(* pc.fail, completeStream or completeCall run by the reader. *)
ReaderTerminate(k) ==
  /\ reader.at \in {"complete", "fail"}
  /\ reader.call = k
  /\ Terminate(k, reader.at)
  /\ UNCHANGED <<cap, pending, rejected, queueVars, callVars, peerVars, reader,
                 writer, shutVars>>

(* closeOnce.Do returns: the call is over, whoever ended it. *)
ReaderResume ==
  /\ reader.at \in {"complete", "fail"}
  /\ chClosed(reader.call)
  /\ reader' = Idle
  /\ UNCHANGED <<cap, pending, rejected, queueVars, callVars, finVars, buf,
                 peerVars, writer, shutVars>>

-----------------------------------------------------------------------------
(* The writer loop and the other users of sendCh.                          *)

(* enqueue: welcome, ping or close; dropped when the queue is full.        *)
EnqueueControl ==
  /\ control < MaxControl
  /\ Len(sendCh) < SendQueueSize
  /\ control' = control + 1
  /\ sendCh' = Append(sendCh, Ctl)
  /\ UNCHANGED <<cap, pending, rejected, queueDepth, callVars, finVars, buf,
                 peerVars, reader, writer, shutVars>>

(* A frame is taken off the queue and written. *)
WriteFrame ==
  /\ writer = "running"
  /\ ~connDone
  /\ sendCh # <<>>
  /\ sendCh' = Tail(sendCh)
  /\ queueDepth' = queueDepth - 1
  /\ wire' = IF Head(sendCh) \in Call THEN wire \cup {Head(sendCh)} ELSE wire
  /\ UNCHANGED <<cap, pending, rejected, control, callVars, finVars, buf,
                 received, answered, reader, writer, shutVars>>

(* The write fails: the writer shuts the connection down and exits.        *)
WriteError ==
  /\ writer = "running"
  /\ sendCh # <<>>
  /\ sendCh' = Tail(sendCh)
  /\ queueDepth' = queueDepth - 1
  /\ writer' = "exited"
  /\ shut' = IF shut = "open" THEN "closing" ELSE shut
  /\ UNCHANGED <<cap, pending, rejected, control, callVars, finVars, buf,
                 peerVars, reader, todo>>

WriterExit ==
  /\ writer = "running"
  /\ connDone
  /\ writer' = "exited"
  /\ UNCHANGED <<cap, pending, rejected, queueVars, callVars, finVars, buf,
                 peerVars, reader, shutVars>>

-----------------------------------------------------------------------------
(* shutdown: read error or deadline, close requested by the worker, the    *)
(* grace period of enqueueClose, the reader's deferred call.               *)

ShutdownBegin ==
  /\ shut = "open"
  /\ shut' = "closing"
  /\ UNCHANGED <<cap, pending, rejected, queueVars, callVars, finVars, buf,
                 peerVars, reader, writer, todo>>

(* Mutant: the map is emptied before it is copied. *)
ShutdownDrainLoses ==
  /\ shut = "closing"
  /\ shut' = "failing"
  /\ todo' = {}
  /\ pending' = {}
  /\ UNCHANGED <<cap, rejected, queueVars, callVars, finVars, buf, peerVars,
                 reader, writer>>

(* The pending map is swapped for an empty one under pendingMu. *)
ShutdownDrain ==
  /\ shut = "closing"
  /\ shut' = "failing"
  /\ todo' = pending
  /\ pending' = {}
  /\ UNCHANGED <<cap, rejected, queueVars, callVars, finVars, buf, peerVars,
                 reader, writer>>

ShutdownFail(k) ==
  /\ k \in todo
  /\ Terminate(k, "fail")
  /\ UNCHANGED <<cap, pending, rejected, queueVars, callVars, peerVars, reader,
                 writer, shutVars>>

ShutdownNext(k) ==
  /\ k \in todo
  /\ chClosed(k)
  /\ todo' = todo \ {k}
  /\ UNCHANGED <<cap, pending, rejected, queueVars, callVars, finVars, buf,
                 peerVars, reader, writer, shut>>

(* All snapshotted calls are over; the worker is deregistered (see WSHub). *)
ShutdownEnd ==
  /\ shut = "failing"
  /\ todo = {}
  /\ shut' = "done"
  /\ UNCHANGED <<cap, pending, rejected, queueVars, callVars, finVars, buf,
                 peerVars, reader, writer, todo>>

(* A capabilities message moves the worker's cap (SetWorkerMaxInFlight).   *)
SetWorkerMaxInFlight(n) ==
  /\ n # cap
  /\ cap' = n
  /\ UNCHANGED <<pending, rejected, queueVars, callVars, finVars, buf,
                 peerVars, reader, writer, shutVars>>

-----------------------------------------------------------------------------

HandlerStep(k) ==
  \/ Register(k) \/ RegisterRejected(k) \/ SendEnqueue(k) \/ SendError(k)
  \/ SendFail(k) \/ SendFailed(k) \/ CtxCancel(k) \/ WatchCtx(k)
  \/ Consume(k) \/ IdleTimeout(k) \/ WriteReturns(k) \/ Finish(k)

ReaderStep ==
  \/ \E k \in Call, m \in Msg : Receive(k, m)
  \/ Lookup \/ IgnoreChunk \/ ReaderResume
  \/ \E k \in Call : Deliver(k) \/ ReaderTerminate(k)

WriterStep == EnqueueControl \/ WriteFrame \/ WriteError \/ WriterExit

ShutdownStep ==
  \/ ShutdownBegin \/ ShutdownDrain \/ ShutdownEnd
  \/ \E k \in Call : ShutdownFail(k) \/ ShutdownNext(k)

Next ==
  \/ \E k \in Call : HandlerStep(k)
  \/ ReaderStep
  \/ WriterStep
  \/ ShutdownStep
  \/ \E n \in Caps : SetWorkerMaxInFlight(n)

Spec == Init /\ [][Next]_vars

(* Fairness: goroutines that can run do run, a request's context ends (the *)
(* retry budget bounds every Complete), the idle timer of a silent stream  *)
(* fires.  Nothing is assumed of the worker, of the socket or of the       *)
(* clients: Register, Receive, the writes (to the worker and, by           *)
(* WriteReturns, to the client) and ShutdownBegin are not fair.            *)
Fairness ==
  /\ \A k \in Call :
       /\ WF_vars(SendEnqueue(k) \/ SendError(k))
       /\ WF_vars(SendFail(k) \/ SendFailed(k))
       /\ WF_vars(~IsStream(k) /\ CtxCancel(k))
       /\ WF_vars(WatchCtx(k))
       /\ WF_vars(Consume(k))
       /\ WF_vars(IdleTimeout(k))
       /\ WF_vars(Finish(k))
  /\ WF_vars(Lookup \/ IgnoreChunk \/ ReaderResume
              \/ \E k \in Call : Deliver(k) \/ ReaderTerminate(k))
  /\ WF_vars(reader.at = "panicked" /\ ShutdownBegin)
  /\ WF_vars(ShutdownDrain \/ ShutdownEnd
              \/ \E k \in Call : ShutdownFail(k) \/ ShutdownNext(k))

FairSpec == Spec /\ Fairness

-----------------------------------------------------------------------------
(* Properties.                                                             *)

(* The type invariant: every channel stays within its capacity, and a      *)
(* call's data channel only ever carries events of its own flavour.        *)
TypeOK ==
  /\ cap \in Caps
  /\ pending \subseteq Call
  /\ rejected \in Nat
  /\ sendCh \in Seq(Call \cup {Ctl}) /\ Len(sendCh) <= SendQueueSize
  /\ queueDepth \in Int
  /\ control \in 0..MaxControl
  /\ step \in [Call -> {"idle", "registered", "failing", "waiting", "streaming",
                    "writing", "returned"}]
  /\ ctxDone \in [Call -> BOOLEAN]
  /\ fin \in [Call -> {"open", "claimed", "removed", "closed"}]
  /\ outcome \in [Call -> {"none", "complete", "fail"}]
  /\ err \in [Call -> BOOLEAN]
  /\ buf \in [Call -> Seq({"data", "done", "ok", "bad"})]
  /\ \A k \in Call : Len(buf[k]) <= BufCap(k)
  /\ result \in [Call -> {"none", "done", "error"}]
  /\ wire \subseteq Call
  /\ received \in [Call -> 0..MaxMsgs]
  /\ answered \subseteq Call
  /\ reader \in [at : {"idle", "dispatch", "deliver", "complete", "fail", "panicked"},
                 call : Call \cup {NoCall}, msg : Msg \cup {"none"}]
  /\ (reader.at # "idle" => reader.call \in Call)
  /\ writer \in {"running", "exited"}
  /\ shut \in {"open", "closing", "failing", "done"}
  /\ todo \subseteq Call

(* addPending checks the cap in the same critical section that inserts:    *)
(* however registrations, completions, shutdown and cap changes interleave *)
(* the calls in flight grow only while they are below the cap in force.    *)
(* They exceed it only after the cap itself was lowered.                   *)
InFlightCap ==
  [][Cardinality(pending') > Cardinality(pending)
       => Cardinality(pending') <= cap /\ cap' = cap]_vars

(* A call in the map is not over, and a call that is not over is in the    *)
(* map or in the snapshot shutdown is failing: no interleaving of          *)
(* addPending, finish and the map swap in shutdown loses a call.           *)
NoOrphanedCall ==
  \A k \in Call :
    /\ k \in pending => step[k] # "idle" /\ fin[k] \in {"open", "claimed"}
    /\ step[k] # "idle" /\ fin[k] = "open" => k \in pending \cup todo

(* Complete and LoadModel only succeed with the worker's answer to that    *)
(* very call, whatever arrives late, twice or for a call already ended.    *)
SuccessNeedsAnswer ==
  \A k \in Call \ StreamCall : result[k] = "done" => k \in answered

(* Refinement: the pending map is what is in flight, a call that left the  *)
(* map or never entered it is over.                                        *)
Contract == INSTANCE InFlightContract WITH
              Call <- Call, Caps <- Caps, cap <- cap,
              inFlight <- pending, over <- started \ pending

(* The pending map keeps the in-flight contract: admission only below the  *)
(* cap, every admitted call ends once and is never re-admitted.            *)
ImplementsContract == Contract!Spec

(* The client of a stream is connected and never reads what is written.    *)
ClientBlocks(k) == [](step[k] = "writing")

(* Every call that was admitted returns to its caller: answers, context,   *)
(* idle timer and shutdown leave no way to wait forever, not even for a    *)
(* call registered after its connection was drained.  The one exception is *)
(* a stream whose client stops reading, for which the code has no timeout. *)
EveryCallReturns ==
  \A k \in Call : (step[k] = "registered") ~> (step[k] = "returned" \/ ClientBlocks(k))

(* Every unit of the worker's in-flight cap that was taken comes back,     *)
(* unless it is held by a stream whose client stops reading.               *)
CapacityComesBack ==
  \A k \in Call : (k \in pending) ~> (k \notin pending \/ ClientBlocks(k))

-----------------------------------------------------------------------------
(* What comments of the code say and the code does not do.                 *)

(* ws_pending.go: a chunk for a consumer that is full or done is dropped;  *)
(* the reader loop goes on.                                                *)
ReaderSurvives == reader.at # "panicked"

(* handlers_chat.go: the trace record of a stream ends as "done" on a      *)
(* normal completion, any error, timeout or cancel is "error".             *)
FailedStreamTracedAsError ==
  \A k \in StreamCall : result[k] = "done" => outcome[k] = "complete"

=============================================================================
