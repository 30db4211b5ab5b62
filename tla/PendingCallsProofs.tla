------------------------- MODULE PendingCallsProofs -------------------------
(***************************************************************************)
(* Proofs about PendingCalls, for every set of calls, every set of caps    *)
(* and every queue and buffer size.                                        *)
(***************************************************************************)
EXTENDS PendingCalls, FiniteSetTheorems, TLAPS

(* A sequence loses its head or gains an element and stays a sequence over *)
(* the same set.                                                           *)
LEMMA SeqStep ==
  ASSUME NEW S, NEW q \in Seq(S)
  PROVE  /\ q # <<>> => Head(q) \in S /\ Tail(q) \in Seq(S) /\ Len(Tail(q)) = Len(q) - 1
         /\ \A x \in S : Append(q, x) \in Seq(S) /\ Len(Append(q, x)) = Len(q) + 1
         /\ Len(q) \in Nat
  OBVIOUS

(* Terminate, run by whichever goroutine, keeps fin, outcome, err and buf  *)
(* typed and buf within its channel's capacity.                            *)
LEMMA TerminateTypes ==
  ASSUME TypeOK, NEW k \in Call, NEW why \in {"complete", "fail"}, Terminate(k, why)
  PROVE  /\ fin' \in [Call -> {"open", "claimed", "removed", "closed"}]
         /\ outcome' \in [Call -> {"none", "complete", "fail"}]
         /\ err' \in [Call -> BOOLEAN]
         /\ buf' \in [Call -> Seq({"data", "done", "ok", "bad"})]
         /\ \A j \in Call : Len(buf'[j]) <= BufCap(j)
<1>1. fin' \in [Call -> {"open", "claimed", "removed", "closed"}]
  BY DEF TypeOK, Terminate
<1>2. outcome' \in [Call -> {"none", "complete", "fail"}]
  BY DEF TypeOK, Terminate
<1>3. err' \in [Call -> BOOLEAN]
  BY DEF TypeOK, Terminate
<1>4. WithSentinel(k) \in Seq({"data", "done", "ok", "bad"})
  BY SeqStep DEF TypeOK, WithSentinel
<1>5. Len(WithSentinel(k)) <= BufCap(k)
  <2>1. buf[k] \in Seq({"data", "done", "ok", "bad"}) /\ Len(buf[k]) <= BufCap(k)
    BY DEF TypeOK
  <2>2. BufCap(k) \in Nat
    BY PendingCallsAssumption DEF BufCap
  <2>3. Len(buf[k]) \in Nat
    BY <2>1
  <2>4. Len(Append(buf[k], "done")) = Len(buf[k]) + 1
    BY <2>1
  <2> QED
    BY <2>1, <2>2, <2>3, <2>4 DEF WithSentinel
<1>6. buf' \in [Call -> Seq({"data", "done", "ok", "bad"})]
  BY <1>4 DEF TypeOK, Terminate
<1>7. \A j \in Call : Len(buf'[j]) <= BufCap(j)
  BY <1>5 DEF TypeOK, Terminate
<1> QED
  BY <1>1, <1>2, <1>3, <1>6, <1>7

-----------------------------------------------------------------------------
(* Type correctness: every channel within its capacity, every goroutine at *)
(* one of its program points.                                              *)

LEMMA InitTypes == Init => TypeOK
  BY PendingCallsAssumption DEF Init, TypeOK, Idle, BufCap, Msg

LEMMA NextTypes == TypeOK /\ [Next]_vars => TypeOK'
<1> SUFFICES ASSUME TypeOK, [Next]_vars PROVE TypeOK'
  OBVIOUS
<1> USE DEF callVars, finVars, queueVars, peerVars, shutVars
<1>1. ASSUME NEW k \in Call, FinishRemove(k) PROVE TypeOK'
  BY <1>1 DEF TypeOK, FinishRemove
<1>2. ASSUME NEW k \in Call, FinishClose(k) PROVE TypeOK'
  BY <1>2 DEF TypeOK, FinishClose
<1>3. ASSUME NEW k \in Call, Register(k) PROVE TypeOK'
  BY <1>3 DEF NewCall, TypeOK, Register
<1>4. ASSUME NEW k \in Call, RegisterRejected(k) PROVE TypeOK'
  BY <1>4 DEF NewCall, TypeOK, RegisterRejected, IsStream
<1>5. ASSUME NEW k \in Call, SendEnqueue(k) PROVE TypeOK'
  <2>1. Append(sendCh, k) \in Seq(Call \cup {Ctl}) /\ Len(Append(sendCh, k)) <= SendQueueSize
    BY <1>5, PendingCallsAssumption DEF TypeOK, SendEnqueue
  <2> QED
    BY <1>5, <2>1 DEF TypeOK, SendEnqueue
<1>6. ASSUME NEW k \in Call, SendError(k) PROVE TypeOK'
  BY <1>6 DEF TypeOK, SendError
<1>7. ASSUME NEW k \in Call, SendFail(k) PROVE TypeOK'
  BY <1>7, TerminateTypes DEF TypeOK, SendFail
<1>8. ASSUME NEW k \in Call, SendFailed(k) PROVE TypeOK'
  BY <1>8 DEF TypeOK, SendFailed
<1>9. ASSUME NEW k \in Call, CtxCancel(k) PROVE TypeOK'
  BY <1>9 DEF TypeOK, CtxCancel
<1>10. ASSUME NEW k \in Call, WatchCtx(k) PROVE TypeOK'
  BY <1>10, TerminateTypes DEF TypeOK, WatchCtx
<1>11. ASSUME NEW k \in Call, ConsumeEvent(k) PROVE TypeOK'
  <2>1. Tail(buf[k]) \in Seq({"data", "done", "ok", "bad"}) /\ Len(Tail(buf[k])) <= BufCap(k)
    <3>1. buf[k] \in Seq({"data", "done", "ok", "bad"}) /\ buf[k] # <<>> /\ Len(buf[k]) <= BufCap(k)
      BY <1>11 DEF TypeOK, ConsumeEvent
    <3>2. BufCap(k) \in Nat
      BY PendingCallsAssumption DEF BufCap
    <3> QED
      BY <3>1, <3>2
  <2>2. /\ buf' \in [Call -> Seq({"data", "done", "ok", "bad"})]
        /\ \A j \in Call : Len(buf'[j]) <= BufCap(j)
    BY <1>11, <2>1 DEF TypeOK, ConsumeEvent
  <2>3. /\ step' \in [Call -> {"idle", "registered", "failing", "waiting", "streaming",
                           "writing", "returned"}]
        /\ ctxDone' \in [Call -> BOOLEAN]
        /\ result' \in [Call -> {"none", "done", "error"}]
    BY <1>11 DEF TypeOK, ConsumeEvent, InSelect, Write, Return, IsStream
  <2> QED
    BY <1>11, <2>2, <2>3 DEF TypeOK, ConsumeEvent
<1>12. ASSUME NEW k \in Call, ConsumeClosed(k) PROVE TypeOK'
  BY <1>12 DEF TypeOK, ConsumeClosed, InSelect, EndWith, Write, Return, IsStream
<1>13. ASSUME NEW k \in Call, ConsumeErr(k) PROVE TypeOK'
  BY <1>13 DEF TypeOK, ConsumeErr, InSelect, EndWith, Write, Return, IsStream
<1>14. ASSUME NEW k \in Call, ConsumeCtx(k) PROVE TypeOK'
  BY <1>14 DEF TypeOK, ConsumeCtx, InSelect, Return, IsStream
<1>15. ASSUME NEW k \in Call, IdleTimeout(k) PROVE TypeOK'
  BY <1>15 DEF TypeOK, IdleTimeout, Write, Return, IsStream
<1>16. ASSUME NEW k \in Call, NEW m \in Msg, Receive(k, m) PROVE TypeOK'
  BY <1>16, PendingCallsAssumption DEF TypeOK, Receive
<1>17. CASE Lookup
  BY <1>17 DEF TypeOK, Lookup, Idle
<1>18. CASE IgnoreChunk
  BY <1>18 DEF TypeOK, IgnoreChunk, Idle
<1>19. ASSUME NEW k \in Call, DeliverSend(k) PROVE TypeOK'
  <2>1. EventOf(reader.msg, k) \in {"data", "done", "ok", "bad"}
    BY DEF EventOf
  <2>2. /\ Append(buf[k], EventOf(reader.msg, k)) \in Seq({"data", "done", "ok", "bad"})
        /\ Len(Append(buf[k], EventOf(reader.msg, k))) <= BufCap(k)
    <3>1. buf[k] \in Seq({"data", "done", "ok", "bad"}) /\ Len(buf[k]) < BufCap(k)
      BY <1>19 DEF TypeOK, DeliverSend
    <3>2. BufCap(k) \in Nat
      BY PendingCallsAssumption DEF BufCap
    <3> QED
      BY <2>1, <3>1, <3>2
  <2>3. /\ buf' \in [Call -> Seq({"data", "done", "ok", "bad"})]
        /\ \A j \in Call : Len(buf'[j]) <= BufCap(j)
    BY <1>19, <2>2 DEF TypeOK, DeliverSend
  <2> QED
    BY <1>19, <2>3 DEF TypeOK, DeliverSend, Delivering, AfterDeliver, Idle
<1>20. ASSUME NEW k \in Call, DeliverDone(k) PROVE TypeOK'
  BY <1>20 DEF TypeOK, DeliverDone, Delivering, AfterDeliver, Idle
<1>21. ASSUME NEW k \in Call, DeliverDefault(k) PROVE TypeOK'
  BY <1>21 DEF TypeOK, DeliverDefault, Delivering, AfterDeliver, Idle
<1>22. ASSUME NEW k \in Call, DeliverPanic(k) PROVE TypeOK'
  BY <1>22 DEF TypeOK, DeliverPanic, Delivering, AfterDeliver, Idle
<1>23. ASSUME NEW k \in Call, ReaderTerminate(k) PROVE TypeOK'
  BY <1>23, TerminateTypes DEF TypeOK, ReaderTerminate
<1>24. CASE ReaderResume
  BY <1>24 DEF TypeOK, ReaderResume, Idle
<1>25. CASE EnqueueControl
  <2>1. Append(sendCh, Ctl) \in Seq(Call \cup {Ctl}) /\ Len(Append(sendCh, Ctl)) <= SendQueueSize
    BY <1>25, PendingCallsAssumption DEF TypeOK, EnqueueControl
  <2> QED
    BY <1>25, <2>1, PendingCallsAssumption DEF TypeOK, EnqueueControl
<1>26. CASE WriteFrame
  <2>1. Tail(sendCh) \in Seq(Call \cup {Ctl}) /\ Len(Tail(sendCh)) <= SendQueueSize
    BY <1>26, PendingCallsAssumption DEF TypeOK, WriteFrame
  <2> QED
    BY <1>26, <2>1 DEF TypeOK, WriteFrame
<1>27. CASE WriteError
  <2>1. Tail(sendCh) \in Seq(Call \cup {Ctl}) /\ Len(Tail(sendCh)) <= SendQueueSize
    BY <1>27, PendingCallsAssumption DEF TypeOK, WriteError
  <2> QED
    BY <1>27, <2>1 DEF TypeOK, WriteError
<1>28. CASE WriterExit
  BY <1>28 DEF TypeOK, WriterExit
<1>29. CASE ShutdownBegin
  BY <1>29 DEF TypeOK, ShutdownBegin
<1>30. CASE ShutdownDrain
  BY <1>30 DEF TypeOK, ShutdownDrain
<1>31. ASSUME NEW k \in Call, ShutdownFail(k) PROVE TypeOK'
  BY <1>31, TerminateTypes DEF TypeOK, ShutdownFail
<1>32. ASSUME NEW k \in Call, ShutdownNext(k) PROVE TypeOK'
  BY <1>32 DEF TypeOK, ShutdownNext
<1>33. CASE ShutdownEnd
  BY <1>33 DEF TypeOK, ShutdownEnd
<1>34. ASSUME NEW m \in Caps, SetWorkerMaxInFlight(m) PROVE TypeOK'
  BY <1>34 DEF TypeOK, SetWorkerMaxInFlight
<1>36. ASSUME NEW k \in Call, WriteReturns(k) PROVE TypeOK'
  BY <1>36 DEF TypeOK, WriteReturns, Return, IsStream
<1>35. CASE UNCHANGED vars
  BY <1>35 DEF TypeOK, vars
<1> QED
  BY <1>1, <1>2, <1>3, <1>4, <1>5, <1>6, <1>7, <1>8, <1>9, <1>10, <1>11,
     <1>12, <1>13, <1>14, <1>15, <1>16, <1>17, <1>18, <1>19, <1>20, <1>21,
     <1>22, <1>23, <1>24, <1>25, <1>26, <1>27, <1>28, <1>29, <1>30, <1>31,
     <1>32, <1>33, <1>34, <1>35, <1>36
     DEF Next, HandlerStep, Consume, Finish, ReaderStep, Deliver, WriterStep, ShutdownStep

(* Every channel of a connection stays within its capacity and carries     *)
(* only what its consumer expects; every goroutine stays at a known point. *)
THEOREM TypeCorrect == Spec => []TypeOK
  BY InitTypes, NextTypes, PTL DEF Spec

-----------------------------------------------------------------------------
(* The inductive invariant behind NoOrphanedCall.                          *)

(* Before a call registers, nobody holds a reference to it. *)
IdleUntouched ==
  \A k \in Call : step[k] = "idle" =>
    /\ fin[k] = "open"
    /\ k \notin pending /\ k \notin todo /\ k \notin wire
    /\ \A i \in 1..Len(sendCh) : sendCh[i] # k
    /\ reader.at # "idle" => reader.call # k

(* The snapshot is empty until shutdown takes it. *)
NoEarlySnapshot == shut \in {"open", "closing"} => todo = {}

(* A call in the map has not been through finish. *)
PendingUnfinished == \A k \in pending : fin[k] \in {"open", "claimed"}

(* A call nobody ended is in the map or in the snapshot. *)
OpenIsTracked ==
  \A k \in Call : step[k] # "idle" /\ fin[k] = "open" => k \in pending \/ k \in todo

InFlightInv ==
  /\ TypeOK
  /\ IdleUntouched
  /\ NoEarlySnapshot
  /\ PendingUnfinished
  /\ OpenIsTracked

(* The inductive invariant behind SuccessNeedsAnswer: a success on its way *)
(* to the consumer of a single-response call came from the worker.         *)
AnswerInv ==
  /\ TypeOK
  /\ reader.at # "idle" /\ reader.msg = "final" => reader.call \in answered
  /\ \A k \in Call \ StreamCall :
       /\ \A i \in 1..Len(buf[k]) : buf[k][i] # "done" /\ (buf[k][i] = "ok" => k \in answered)
       /\ result[k] = "done" => k \in answered

LEMMA InFlightInit == Init => InFlightInv
  BY InitTypes DEF Init, InFlightInv, IdleUntouched, NoEarlySnapshot,
                   PendingUnfinished, OpenIsTracked, Idle

LEMMA InFlightNext == InFlightInv /\ [Next]_vars => InFlightInv'
<1> DEFINE Parts == IdleUntouched /\ NoEarlySnapshot /\ PendingUnfinished /\ OpenIsTracked
<1> SUFFICES ASSUME TypeOK, Parts, [Next]_vars PROVE Parts'
  BY NextTypes DEF InFlightInv
<1> USE DEF Parts, TypeOK, IdleUntouched, NoEarlySnapshot, PendingUnfinished,
            OpenIsTracked, callVars, finVars, queueVars, peerVars, shutVars
<1>1. ASSUME NEW k \in Call, FinishRemove(k) PROVE Parts'
  BY <1>1 DEF FinishRemove
<1>2. ASSUME NEW k \in Call, FinishClose(k) PROVE Parts'
  BY <1>2 DEF FinishClose
<1>3. ASSUME NEW k \in Call, Register(k) PROVE Parts'
  BY <1>3 DEF NewCall, Register
<1>4. ASSUME NEW k \in Call, RegisterRejected(k) PROVE Parts'
  BY <1>4 DEF NewCall, RegisterRejected, IsStream
<1>5. ASSUME NEW k \in Call, SendEnqueue(k) PROVE Parts'
  BY <1>5 DEF SendEnqueue
<1>6. ASSUME NEW k \in Call, SendError(k) PROVE Parts'
  BY <1>6 DEF SendError
<1>7. ASSUME NEW k \in Call, SendFail(k) PROVE Parts'
  BY <1>7 DEF SendFail, Terminate
<1>8. ASSUME NEW k \in Call, SendFailed(k) PROVE Parts'
  BY <1>8 DEF SendFailed, chClosed, IsStream
<1>9. ASSUME NEW k \in Call, CtxCancel(k) PROVE Parts'
  BY <1>9 DEF CtxCancel
<1>10. ASSUME NEW k \in Call, WatchCtx(k) PROVE Parts'
  BY <1>10 DEF WatchCtx, Terminate
<1>11. ASSUME NEW k \in Call, ConsumeEvent(k) PROVE Parts'
  BY <1>11 DEF ConsumeEvent, InSelect, Write, Return, IsStream
<1>12. ASSUME NEW k \in Call, ConsumeClosed(k) PROVE Parts'
  BY <1>12 DEF ConsumeClosed, InSelect, EndWith, Write, Return, IsStream
<1>13. ASSUME NEW k \in Call, ConsumeErr(k) PROVE Parts'
  BY <1>13 DEF ConsumeErr, InSelect, EndWith, Write, Return, IsStream
<1>14. ASSUME NEW k \in Call, ConsumeCtx(k) PROVE Parts'
  BY <1>14 DEF ConsumeCtx, InSelect, Return, IsStream
<1>15. ASSUME NEW k \in Call, IdleTimeout(k) PROVE Parts'
  BY <1>15 DEF IdleTimeout, Write, Return, IsStream
<1>16. ASSUME NEW k \in Call, NEW m \in Msg, Receive(k, m) PROVE Parts'
  BY <1>16 DEF Receive
<1>17. CASE Lookup
  BY <1>17 DEF Lookup, Idle
<1>18. CASE IgnoreChunk
  BY <1>18 DEF IgnoreChunk, Idle
<1>19. ASSUME NEW k \in Call, DeliverSend(k) PROVE Parts'
  BY <1>19 DEF DeliverSend, Delivering, AfterDeliver, Idle
<1>20. ASSUME NEW k \in Call, DeliverDone(k) PROVE Parts'
  BY <1>20 DEF DeliverDone, Delivering, AfterDeliver, Idle
<1>21. ASSUME NEW k \in Call, DeliverDefault(k) PROVE Parts'
  BY <1>21 DEF DeliverDefault, Delivering, AfterDeliver, Idle
<1>22. ASSUME NEW k \in Call, DeliverPanic(k) PROVE Parts'
  BY <1>22 DEF DeliverPanic, Delivering, AfterDeliver, Idle
<1>23. ASSUME NEW k \in Call, ReaderTerminate(k) PROVE Parts'
  BY <1>23 DEF ReaderTerminate, Terminate
<1>24. CASE ReaderResume
  BY <1>24 DEF ReaderResume, Idle
<1>25. CASE EnqueueControl
  BY <1>25, PendingCallsAssumption DEF EnqueueControl
<1>26. CASE WriteFrame
  BY <1>26 DEF WriteFrame
<1>27. CASE WriteError
  BY <1>27 DEF WriteError
<1>28. CASE WriterExit
  BY <1>28 DEF WriterExit
<1>29. CASE ShutdownBegin
  BY <1>29 DEF ShutdownBegin
<1>30. CASE ShutdownDrain
  BY <1>30 DEF ShutdownDrain
<1>31. ASSUME NEW k \in Call, ShutdownFail(k) PROVE Parts'
  BY <1>31 DEF ShutdownFail, Terminate
<1>32. ASSUME NEW k \in Call, ShutdownNext(k) PROVE Parts'
  BY <1>32 DEF ShutdownNext, chClosed
<1>33. CASE ShutdownEnd
  BY <1>33 DEF ShutdownEnd
<1>34. ASSUME NEW m \in Caps, SetWorkerMaxInFlight(m) PROVE Parts'
  BY <1>34 DEF SetWorkerMaxInFlight
<1>36. ASSUME NEW k \in Call, WriteReturns(k) PROVE Parts'
  BY <1>36 DEF WriteReturns, Return, IsStream
<1>35. CASE UNCHANGED vars
  BY <1>35 DEF vars
<1> QED
  BY <1>1, <1>2, <1>3, <1>4, <1>5, <1>6, <1>7, <1>8, <1>9, <1>10, <1>11,
     <1>12, <1>13, <1>14, <1>15, <1>16, <1>17, <1>18, <1>19, <1>20, <1>21,
     <1>22, <1>23, <1>24, <1>25, <1>26, <1>27, <1>28, <1>29, <1>30, <1>31,
     <1>32, <1>33, <1>34, <1>35, <1>36
     DEF Next, HandlerStep, Consume, Finish, ReaderStep, Deliver, WriterStep, ShutdownStep

LEMMA InFlightInvariant == Spec => []InFlightInv
  BY InFlightInit, InFlightNext, PTL DEF Spec

(* No interleaving of addPending, finish and the map swap in shutdown      *)
(* loses a call or keeps one that is over: whatever calls, caps and queue  *)
(* sizes there are.                                                        *)
THEOREM NoCallOrphaned == Spec => []NoOrphanedCall
<1>1. InFlightInv => NoOrphanedCall
  BY DEF InFlightInv, IdleUntouched, PendingUnfinished, OpenIsTracked, TypeOK,
         NoOrphanedCall
<1> QED
  BY <1>1, InFlightInvariant, PTL

-----------------------------------------------------------------------------
(* The in-flight cap.  Only Register adds to the map, and it has looked at *)
(* the map's size in the same critical section.                            *)

LEMMA SmallerMap ==
  ASSUME NEW S, NEW R, IsFiniteSet(S), R \subseteq S
  PROVE  /\ IsFiniteSet(R)
         /\ Cardinality(R) \in Nat /\ Cardinality(S) \in Nat
         /\ Cardinality(R) <= Cardinality(S)
  BY FS_Subset, FS_CardinalityType

(* What a step does to the pending map: it admits one call below the cap,  *)
(* or the map shrinks or stays.                                            *)
LEMMA PendingStep ==
  ASSUME TypeOK, [Next]_vars
  PROVE  \/ pending' \subseteq pending
         \/ \E k \in Call : /\ pending' = pending \cup {k} /\ cap' = cap
                           /\ Cardinality(pending) < cap
<1>1. ASSUME NEW k \in Call, Register(k)
      PROVE  pending' = pending \cup {k} /\ cap' = cap /\ Cardinality(pending) < cap
  <2>1. IsFiniteSet(pending) /\ Cardinality(pending) \in Nat
    BY SmallerMap, PendingCallsAssumption DEF TypeOK
  <2> QED
    BY <1>1, <2>1, PendingCallsAssumption DEF NewCall, Register, AtCap, TypeOK
<1>2. ASSUME NEW k \in Call, HandlerStep(k), ~Register(k)
      PROVE  pending' \subseteq pending
  BY <1>2 DEF NewCall, HandlerStep, RegisterRejected, SendEnqueue, SendError, SendFail, SendFailed,
     CtxCancel, WatchCtx, Consume, ConsumeEvent, ConsumeClosed, ConsumeErr, ConsumeCtx,
     IdleTimeout, WriteReturns, Finish, FinishRemove, FinishClose
<1>3. CASE ReaderStep
  BY <1>3 DEF ReaderStep, Receive, Lookup, IgnoreChunk, ReaderResume, Deliver, DeliverSend,
     DeliverDone, DeliverDefault, DeliverPanic, ReaderTerminate
<1>4. CASE WriterStep
  BY <1>4 DEF WriterStep, EnqueueControl, WriteFrame, WriteError, WriterExit
<1>5. CASE ShutdownStep
  BY <1>5 DEF ShutdownStep, ShutdownBegin, ShutdownDrain, ShutdownEnd, ShutdownFail,
     ShutdownNext
<1>6. CASE (\E m \in Caps : SetWorkerMaxInFlight(m)) \/ UNCHANGED vars
  BY <1>6 DEF SetWorkerMaxInFlight, vars
<1> QED
  BY <1>1, <1>2, <1>3, <1>4, <1>5, <1>6 DEF Next

(* The cap of a connection holds at every admission, for every set of caps *)
(* and however often they change.                                          *)
THEOREM InFlightCapHolds == Spec => InFlightCap
<1> DEFINE Step == Cardinality(pending') > Cardinality(pending)
                     => Cardinality(pending') <= cap /\ cap' = cap
<1>1. TypeOK /\ [Next]_vars => [Step]_vars
  <2> SUFFICES ASSUME TypeOK, [Next]_vars PROVE Step
    OBVIOUS
  <2>1. IsFiniteSet(pending) /\ Cardinality(pending) \in Nat
    BY SmallerMap, PendingCallsAssumption DEF TypeOK
  <2>2. CASE pending' \subseteq pending
    <3>1. Cardinality(pending') \in Nat /\ Cardinality(pending') <= Cardinality(pending)
      BY <2>1, <2>2, SmallerMap
    <3> QED
      BY <2>1, <3>1
  <2>3. CASE \E k \in Call : /\ pending' = pending \cup {k} /\ cap' = cap
                            /\ Cardinality(pending) < cap
    <3>1. PICK k \in Call : /\ pending' = pending \cup {k} /\ cap' = cap
                           /\ Cardinality(pending) < cap
      BY <2>3
    <3>2. Cardinality(pending') \in Nat /\ Cardinality(pending') <= Cardinality(pending) + 1
      BY <2>1, <3>1, FS_AddElement
    <3> QED
      BY <2>1, <3>1, <3>2, PendingCallsAssumption DEF TypeOK
  <2> QED
    BY <2>2, <2>3, PendingStep
<1> QED
  BY <1>1, TypeCorrect, PTL DEF Spec, InFlightCap

-----------------------------------------------------------------------------
(* SuccessNeedsAnswer.                                                     *)

(* The [DONE] sentinel is for streams only. *)
LEMMA TerminateKeepsAnswers ==
  ASSUME AnswerInv, NEW k \in Call, NEW why \in {"complete", "fail"}, Terminate(k, why)
  PROVE  \A j \in Call \ StreamCall : buf'[j] = buf[j]
  BY DEF AnswerInv, TypeOK, Terminate, WithSentinel, IsStream

LEMMA AnswerNext == AnswerInv /\ [Next]_vars => AnswerInv'
<1> DEFINE Parts ==
      /\ reader.at # "idle" /\ reader.msg = "final" => reader.call \in answered
      /\ \A j \in Call \ StreamCall :
           /\ \A i \in 1..Len(buf[j]) :
                buf[j][i] # "done" /\ (buf[j][i] = "ok" => j \in answered)
           /\ result[j] = "done" => j \in answered
<1> SUFFICES ASSUME AnswerInv, TypeOK, Parts, [Next]_vars PROVE Parts'
  BY NextTypes DEF AnswerInv
<1> USE DEF TypeOK, callVars, finVars, queueVars, peerVars, shutVars
<1>1. ASSUME NEW k \in Call, FinishRemove(k) PROVE Parts'
  BY <1>1 DEF FinishRemove
<1>2. ASSUME NEW k \in Call, FinishClose(k) PROVE Parts'
  BY <1>2 DEF FinishClose
<1>3. ASSUME NEW k \in Call, Register(k) PROVE Parts'
  BY <1>3 DEF NewCall, Register
<1>4. ASSUME NEW k \in Call, RegisterRejected(k) PROVE Parts'
  BY <1>4 DEF NewCall, RegisterRejected, IsStream
<1>5. ASSUME NEW k \in Call, SendEnqueue(k) PROVE Parts'
  BY <1>5 DEF SendEnqueue
<1>6. ASSUME NEW k \in Call, SendError(k) PROVE Parts'
  BY <1>6 DEF SendError
<1>7. ASSUME NEW k \in Call, SendFail(k) PROVE Parts'
  BY <1>7, TerminateKeepsAnswers DEF SendFail
<1>8. ASSUME NEW k \in Call, SendFailed(k) PROVE Parts'
  BY <1>8 DEF SendFailed, chClosed, IsStream
<1>9. ASSUME NEW k \in Call, CtxCancel(k) PROVE Parts'
  BY <1>9 DEF CtxCancel
<1>10. ASSUME NEW k \in Call, WatchCtx(k) PROVE Parts'
  BY <1>10, TerminateKeepsAnswers DEF WatchCtx
<1>11. ASSUME NEW k \in Call, ConsumeEvent(k) PROVE Parts'
  <2>1. buf[k] \in Seq({"data", "done", "ok", "bad"}) /\ buf[k] # <<>>
    BY <1>11 DEF ConsumeEvent
  <2>2. /\ Head(buf[k]) = buf[k][1] /\ Len(buf[k]) \in Nat /\ 1 \in 1..Len(buf[k])
        /\ Len(Tail(buf[k])) = Len(buf[k]) - 1
        /\ \A i \in 1..Len(Tail(buf[k])) : Tail(buf[k])[i] = buf[k][i + 1]
    BY <2>1
  <2>3. \A j \in Call \ StreamCall : \A i \in 1..Len(buf'[j]) :
          buf'[j][i] # "done" /\ (buf'[j][i] = "ok" => j \in answered)
    BY <1>11, <2>2 DEF ConsumeEvent
  <2>4. \A j \in Call \ StreamCall : result'[j] = "done" => j \in answered
    <3>1. \/ result' = result
          \/ Head(buf[k]) \in {"done", "ok"} /\ result' = [result EXCEPT ![k] = "done"]
          \/ result' = [result EXCEPT ![k] = "none"]
          \/ result' = [result EXCEPT ![k] = "error"]
      BY <1>11 DEF ConsumeEvent, Write, Return
    <3>2. k \notin StreamCall /\ Head(buf[k]) \in {"done", "ok"} => k \in answered
      BY <2>2
    <3> QED
      BY <3>1, <3>2
  <2> QED
    BY <1>11, <2>3, <2>4 DEF ConsumeEvent
<1>12. ASSUME NEW k \in Call, ConsumeClosed(k) PROVE Parts'
  BY <1>12 DEF ConsumeClosed, InSelect, EndWith, Write, Return, IsStream
<1>13. ASSUME NEW k \in Call, ConsumeErr(k) PROVE Parts'
  BY <1>13 DEF ConsumeErr, InSelect, EndWith, Write, Return, IsStream
<1>14. ASSUME NEW k \in Call, ConsumeCtx(k) PROVE Parts'
  BY <1>14 DEF ConsumeCtx, InSelect, Return, IsStream
<1>15. ASSUME NEW k \in Call, IdleTimeout(k) PROVE Parts'
  BY <1>15 DEF IdleTimeout, Write, Return, IsStream
<1>16. ASSUME NEW k \in Call, NEW m \in Msg, Receive(k, m) PROVE Parts'
  BY <1>16 DEF Receive
<1>17. CASE Lookup
  BY <1>17 DEF Lookup, Idle
<1>18. CASE IgnoreChunk
  BY <1>18 DEF IgnoreChunk, Idle
<1>19. ASSUME NEW k \in Call, DeliverSend(k) PROVE Parts'
  <2>1. buf[k] \in Seq({"data", "done", "ok", "bad"}) /\ Len(buf[k]) \in Nat
    BY DEF TypeOK
  <2>2. /\ Len(Append(buf[k], EventOf(reader.msg, k))) = Len(buf[k]) + 1
        /\ \A i \in 1..(Len(buf[k]) + 1) :
             Append(buf[k], EventOf(reader.msg, k))[i] =
               IF i = Len(buf[k]) + 1 THEN EventOf(reader.msg, k) ELSE buf[k][i]
    BY <2>1
  <2>3. k \notin StreamCall =>
          EventOf(reader.msg, k) # "done" /\ (EventOf(reader.msg, k) = "ok" => k \in answered)
    BY <1>19 DEF DeliverSend, Delivering, EventOf, IsStream
  <2>4. \A j \in Call \ StreamCall : \A i \in 1..Len(buf'[j]) :
          buf'[j][i] # "done" /\ (buf'[j][i] = "ok" => j \in answered)
    BY <1>19, <2>1, <2>2, <2>3 DEF DeliverSend
  <2> QED
    BY <1>19, <2>4 DEF DeliverSend, Delivering, AfterDeliver, Idle
<1>20. ASSUME NEW k \in Call, DeliverDone(k) PROVE Parts'
  BY <1>20 DEF DeliverDone, Delivering, AfterDeliver, Idle
<1>21. ASSUME NEW k \in Call, DeliverDefault(k) PROVE Parts'
  BY <1>21 DEF DeliverDefault, Delivering, AfterDeliver, Idle
<1>22. ASSUME NEW k \in Call, DeliverPanic(k) PROVE Parts'
  BY <1>22 DEF DeliverPanic, Delivering, AfterDeliver, Idle
<1>23. ASSUME NEW k \in Call, ReaderTerminate(k) PROVE Parts'
  BY <1>23, TerminateKeepsAnswers DEF ReaderTerminate
<1>24. CASE ReaderResume
  BY <1>24 DEF ReaderResume, Idle
<1>25. CASE EnqueueControl
  BY <1>25 DEF EnqueueControl
<1>26. CASE WriteFrame
  BY <1>26 DEF WriteFrame
<1>27. CASE WriteError
  BY <1>27 DEF WriteError
<1>28. CASE WriterExit
  BY <1>28 DEF WriterExit
<1>29. CASE ShutdownBegin
  BY <1>29 DEF ShutdownBegin
<1>30. CASE ShutdownDrain
  BY <1>30 DEF ShutdownDrain
<1>31. ASSUME NEW k \in Call, ShutdownFail(k) PROVE Parts'
  BY <1>31, TerminateKeepsAnswers DEF ShutdownFail
<1>32. ASSUME NEW k \in Call, ShutdownNext(k) PROVE Parts'
  BY <1>32 DEF ShutdownNext, chClosed
<1>33. CASE ShutdownEnd
  BY <1>33 DEF ShutdownEnd
<1>34. ASSUME NEW m \in Caps, SetWorkerMaxInFlight(m) PROVE Parts'
  BY <1>34 DEF SetWorkerMaxInFlight
<1>36. ASSUME NEW k \in Call, WriteReturns(k) PROVE Parts'
  BY <1>36 DEF WriteReturns, Return, IsStream
<1>35. CASE UNCHANGED vars
  BY <1>35 DEF vars
<1> QED
  BY <1>1, <1>2, <1>3, <1>4, <1>5, <1>6, <1>7, <1>8, <1>9, <1>10, <1>11,
     <1>12, <1>13, <1>14, <1>15, <1>16, <1>17, <1>18, <1>19, <1>20, <1>21,
     <1>22, <1>23, <1>24, <1>25, <1>26, <1>27, <1>28, <1>29, <1>30, <1>31,
     <1>32, <1>33, <1>34, <1>35, <1>36
     DEF Next, HandlerStep, Consume, Finish, ReaderStep, Deliver, WriterStep, ShutdownStep

(* Complete and LoadModel succeed only with the worker's own answer to     *)
(* that call, however many messages arrive late, twice or after the end.   *)
THEOREM NoFalseSuccess == Spec => []SuccessNeedsAnswer
<1>1. Init => AnswerInv
  BY InitTypes DEF Init, AnswerInv, Idle
<1>2. AnswerInv => SuccessNeedsAnswer
  BY DEF AnswerInv, SuccessNeedsAnswer
<1> QED
  BY <1>1, <1>2, AnswerNext, PTL DEF Spec

-----------------------------------------------------------------------------
(* Refinement of InFlightContract.                                         *)

(* A step that leaves cap, the map and the idle calls alone is a stutter.  *)
LEMMA ContractStutter ==
  ASSUME pending' = pending, cap' = cap,
         \A k \in Call : step'[k] = "idle" <=> step[k] = "idle"
  PROVE  UNCHANGED Contract!contractVars
  BY DEF Contract!contractVars, started

(* Calls leaving the map end. *)
LEMMA ContractEnd ==
  ASSUME InFlightInv, NEW S \in SUBSET Call, pending' = pending \ S, cap' = cap,
         step' = step
  PROVE  [Contract!Next]_(Contract!contractVars)
<1>1. started' = started /\ pending \subseteq started
  BY DEF started, InFlightInv, IdleUntouched, TypeOK
<1>2. CASE S \cap pending = {}
  BY <1>1, <1>2 DEF Contract!contractVars
<1>3. CASE S \cap pending # {}
  <2>1. Contract!End(S \cap pending)
    BY <1>1, <1>3 DEF Contract!End
  <2> QED
    BY <2>1 DEF Contract!Next
<1> QED
  BY <1>2, <1>3

LEMMA ContractStep ==
  ASSUME InFlightInv, [Next]_vars
  PROVE  [Contract!Next]_(Contract!contractVars)
<1> USE DEF callVars, finVars, queueVars, peerVars, shutVars
<1>0. TypeOK
  BY DEF InFlightInv
<1>1. ASSUME NEW k \in Call, Register(k) PROVE Contract!Next
  <2>1. k \notin pending /\ k \notin started
    BY <1>1 DEF NewCall, Register, InFlightInv, IdleUntouched, started
  <2>2. started' = started \cup {k}
    BY <1>0, <1>1 DEF NewCall, Register, started, TypeOK
  <2>3. Cardinality(pending) < cap
    <3>1. Cardinality(pending) \in Nat /\ cap \in Nat
      BY <1>0, SmallerMap, PendingCallsAssumption DEF TypeOK
    <3> QED
      BY <1>1, <3>1 DEF NewCall, Register, AtCap
  <2>4. k \in Contract!New
    BY <2>1 DEF Contract!New
  <2>5. pending' = pending \cup {k} /\ cap' = cap /\ started' \ pending' = started \ pending
    BY <1>1, <2>1, <2>2 DEF NewCall, Register
  <2>6. Contract!Admit(k)
    BY <2>3, <2>4, <2>5 DEF Contract!Admit, Contract!Cardinality, Cardinality
  <2> QED
    BY <2>6 DEF Contract!Next
<1>2. ASSUME NEW k \in Call, RegisterRejected(k) PROVE Contract!Next
  <2>1. k \notin pending /\ k \notin started
    BY <1>2 DEF NewCall, RegisterRejected, InFlightInv, IdleUntouched, started
  <2>2. started' = started \cup {k}
    BY <1>0, <1>2 DEF NewCall, RegisterRejected, started, TypeOK
  <2>3. k \in Contract!New
    BY <2>1 DEF Contract!New
  <2>4. /\ pending' = pending /\ cap' = cap
        /\ started' \ pending' = (started \ pending) \cup {k}
    BY <1>2, <2>1, <2>2 DEF NewCall, RegisterRejected
  <2>5. Contract!Refuse(k)
    BY <1>2, <2>3, <2>4 DEF NewCall, RegisterRejected, AtCap, Contract!Refuse, Contract!Cardinality, Cardinality
  <2> QED
    BY <2>5 DEF Contract!Next
<1>3. ASSUME NEW k \in Call, FinishRemove(k) PROVE [Contract!Next]_(Contract!contractVars)
  <2>1. pending' = pending \ {k} /\ cap' = cap /\ step' = step
    BY <1>3 DEF FinishRemove
  <2> QED
    BY <2>1, ContractEnd
<1>4. ASSUME ShutdownDrain PROVE [Contract!Next]_(Contract!contractVars)
  <2>1. pending' = pending \ Call /\ cap' = cap /\ step' = step
    BY <1>0, <1>4 DEF ShutdownDrain, TypeOK
  <2> QED
    BY <2>1, ContractEnd
<1>5. ASSUME NEW m \in Caps, SetWorkerMaxInFlight(m) PROVE Contract!Next
  <2>1. Contract!SetCap(m)
    BY <1>5 DEF SetWorkerMaxInFlight, Contract!SetCap, started
  <2> QED
    BY <2>1 DEF Contract!Next
<1>6. ASSUME NEW k \in Call, HandlerStep(k),
             ~Register(k), ~RegisterRejected(k), ~FinishRemove(k)
      PROVE  UNCHANGED Contract!contractVars
  <2>1. /\ pending' = pending /\ cap' = cap
        /\ \A j \in Call : step'[j] = "idle" <=> step[j] = "idle"
    BY <1>0, <1>6 DEF TypeOK, HandlerStep, SendEnqueue, SendError, SendFail, SendFailed,
       CtxCancel, WatchCtx, Consume, ConsumeEvent, ConsumeClosed, ConsumeErr, ConsumeCtx,
       InSelect, EndWith, Write, IdleTimeout, WriteReturns, Return, Finish, FinishClose
  <2> QED
    BY <2>1, ContractStutter
<1>7. ASSUME ReaderStep \/ WriterStep PROVE UNCHANGED Contract!contractVars
  <2>1. pending' = pending /\ cap' = cap /\ step' = step
    BY <1>7 DEF ReaderStep, Receive, Lookup, IgnoreChunk, ReaderResume, Deliver, DeliverSend,
       DeliverDone, DeliverDefault, DeliverPanic, ReaderTerminate, WriterStep,
       EnqueueControl, WriteFrame, WriteError, WriterExit
  <2> QED
    BY <2>1, ContractStutter
<1>8. ASSUME ShutdownStep, ~ShutdownDrain PROVE UNCHANGED Contract!contractVars
  <2>1. pending' = pending /\ cap' = cap /\ step' = step
    BY <1>8 DEF ShutdownStep, ShutdownBegin, ShutdownEnd, ShutdownFail, ShutdownNext
  <2> QED
    BY <2>1, ContractStutter
<1>9. ASSUME UNCHANGED vars PROVE UNCHANGED Contract!contractVars
  <2>1. pending' = pending /\ cap' = cap /\ step' = step
    BY <1>9 DEF vars
  <2> QED
    BY <2>1, ContractStutter
<1> QED
  BY <1>1, <1>2, <1>3, <1>4, <1>5, <1>6, <1>7, <1>8, <1>9 DEF Next

(* The pending map implements the in-flight contract: admission only below *)
(* the cap, no call ended twice, none admitted again after it ended.       *)
THEOREM PendingMapKeepsContract == Spec => ImplementsContract
<1>1. Init => Contract!Init
  BY DEF Init, Contract!Init, started
<1>2. InFlightInv /\ [Next]_vars => [Contract!Next]_(Contract!contractVars)
  BY ContractStep
<1> QED
  BY <1>1, <1>2, InFlightInvariant, PTL DEF Spec, ImplementsContract, Contract!Spec
=============================================================================
