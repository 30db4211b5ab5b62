-------------------------- MODULE RelayLinkProofs ---------------------------
(***************************************************************************)
(* Proofs about RelayLink, for every set of calls and caps, every queue    *)
(* and buffer size and any number of sessions, messages and events.        *)
(***************************************************************************)
EXTENDS RelayLink, FiniteSetTheorems, TLAPS

(* closeOnce, run by whichever goroutine, keeps a call's state typed and   *)
(* its channel within its capacity.                                        *)
LEMMA TerminateTypes ==
  ASSUME CallsTyped, NEW k \in Call, NEW why, Terminate(k, why)
  PROVE  CallsTyped'
<1> DEFINE b == IF why = "complete" /\ IsStream(k) /\ Len(call[k].buf) < DataBuf
                  THEN Append(call[k].buf, "done") ELSE call[k].buf
<1>1. call[k] \in CallState /\ Len(call[k].buf) <= DataBuf
  BY DEF CallsTyped
<1>2. call[k].buf \in Seq(Chunk) /\ Len(call[k].buf) \in Nat /\ DataBuf \in Nat
  BY <1>1, RelayLinkAssumption DEF CallState
<1>3. b \in Seq(Chunk) /\ Len(b) <= DataBuf
  BY <1>1, <1>2 DEF Chunk
<1>4. call' = [call EXCEPT ![k] = [call[k] EXCEPT !.fin = "claimed", !.buf = b]]
  BY DEF Terminate, Terminated, CallsTyped, CallState
<1> HIDE DEF b
<1>5. [call[k] EXCEPT !.fin = "claimed", !.buf = b] \in CallState
  BY <1>1, <1>3 DEF CallState
<1> QED
  BY <1>3, <1>4, <1>5 DEF CallsTyped, CallState

-----------------------------------------------------------------------------
(* Type correctness.                                                       *)

LEMMA InitTypes == Init => TypeOK
<1> SUFFICES ASSUME Init PROVE TypeOK
  OBVIOUS
<1>1. LinkTyped
  BY RelayLinkAssumption DEF Init, LinkTyped, IdleReader, Session, NoConn
<1>2. HubTyped
  BY RelayLinkAssumption DEF Init, HubTyped
<1>3. CallsTyped
  BY RelayLinkAssumption DEF Init, CallsTyped, CallState, Chunk
<1> QED
  BY <1>1, <1>2, <1>3 DEF TypeOK

(* Which actions touch no call. *)
LEMMA CallsAlone ==
  ASSUME \/ DialOk \/ Redial \/ EchoPing \/ HandleRelayRegister \/ ReaderLeaves
         \/ ReaderStart \/ CleanupSnapshot \/ CleanupEnd
         \/ \E n \in Caps : SetWorkerMaxInFlight(n)
         \/ \E s \in Session : WriterStart(s) \/ WriteFrame(s) \/ WriteError(s) \/ WriterExit(s)
         \/ \E k \in Call, m \in {"chunk", "final", "error"} : Receive(k, m)
         \/ UNCHANGED vars
  PROVE  call' = call
  BY DEF DialOk, Redial, EchoPing, HandleRelayRegister, ReaderLeaves, ReaderStart,
         CleanupSnapshot, CleanupEnd, SetWorkerMaxInFlight, WriterStart, WriteFrame,
         WriteError, WriterExit, Receive, vars

(* Which actions touch neither the link nor its loops: those of a call. *)
LEMMA LinkAlone ==
  ASSUME NEW k \in Call, CallStep(k)
  PROVE  UNCHANGED <<linkVars, reader, writer, wire, received>>
  BY DEF CallStep, Register, RegisterRejected, RegisterBlocked, HandlerWorks, CheckConnected,
         EnqueueRelay, EnqueueError, SendFail, SendFailed, StreamReturns, ConsumeEvent,
         ConsumeEnd, WriteReturns, CtxEnds, WatchCtx, Finish, FinishRemove, FinishCount, hubVars, peerVars

(* A handler goes on, or returns, with its channel as it was. *)
LEMMA HandlerMoves ==
  ASSUME CallsTyped, NEW k \in Call, ConsumeEnd(k) \/ WriteReturns(k)
  PROVE  /\ call' \in [Call -> CallState]
         /\ call[k].step \notin {"idle", "blocked"} /\ call'[k].step \notin {"idle", "blocked"}
         /\ call'[k].fin = call[k].fin /\ call'[k].buf = call[k].buf
         /\ \A j \in Call \ {k} : call'[j] = call[j]
<1>1. /\ call[k].step \in {"waiting", "writing", "closing"}
      /\ \/ call' = Returned(k)
         \/ \E x \in {"waiting", "closing"} : call' = Writes(k, x)
  BY DEF ConsumeEnd, WriteReturns
<1>2. CASE call' = Returned(k)
  BY <1>1, <1>2 DEF CallsTyped, CallState, Returned
<1>3. ASSUME NEW x \in {"waiting", "closing"}, call' = Writes(k, x)
      PROVE  /\ call' \in [Call -> CallState] /\ call'[k].step = x
             /\ call'[k].fin = call[k].fin /\ call'[k].buf = call[k].buf
             /\ \A j \in Call \ {k} : call'[j] = call[j]
  BY <1>3 DEF CallsTyped, CallState, Writes
<1> QED
  BY <1>1, <1>2, <1>3

LEMMA CallsTypedNext == LinkTyped /\ CallsTyped /\ [Next]_vars => CallsTyped'
<1> SUFFICES ASSUME LinkTyped, CallsTyped, [Next]_vars PROVE CallsTyped'
  OBVIOUS
<1>1. ASSUME NEW k \in Call, FinishRemove(k) PROVE CallsTyped'
  BY <1>1 DEF CallsTyped, CallState, FinishRemove
<1>2. ASSUME NEW k \in Call, FinishCount(k) PROVE CallsTyped'
  BY <1>2 DEF CallsTyped, CallState, FinishCount
<1>3. ASSUME NEW k \in Call, Register(k) PROVE CallsTyped'
  BY <1>3 DEF CallsTyped, CallState, Register
<1>4. ASSUME NEW k \in Call, RegisterBlocked(k) PROVE CallsTyped'
  BY <1>4 DEF CallsTyped, CallState, RegisterBlocked
<1>5. ASSUME NEW k \in Call, RegisterRejected(k) PROVE CallsTyped'
  BY <1>5 DEF CallsTyped, CallState, RegisterRejected
<1>6. ASSUME NEW k \in Call, CheckConnected(k) PROVE CallsTyped'
  BY <1>6 DEF CallsTyped, CallState, CheckConnected
<1>7. ASSUME NEW k \in Call, EnqueueRelay(k) PROVE CallsTyped'
  BY <1>7 DEF CallsTyped, CallState, EnqueueRelay
<1>8. ASSUME NEW k \in Call, EnqueueError(k) PROVE CallsTyped'
  BY <1>8 DEF CallsTyped, CallState, EnqueueError
<1>9. ASSUME NEW k \in Call, SendFail(k) PROVE CallsTyped'
  BY <1>9, TerminateTypes DEF SendFail
<1>10. ASSUME NEW k \in Call, SendFailed(k) PROVE CallsTyped'
  BY <1>10 DEF CallsTyped, CallState, SendFailed
<1>11. ASSUME NEW k \in Call, StreamReturns(k) PROVE CallsTyped'
  BY <1>11 DEF CallsTyped, CallState, StreamReturns
<1>12. ASSUME NEW k \in Call, CtxEnds(k) PROVE CallsTyped'
  BY <1>12 DEF CallsTyped, CallState, CtxEnds
<1>13. ASSUME NEW k \in Call, WatchCtx(k) PROVE CallsTyped'
  BY <1>13, TerminateTypes DEF WatchCtx
<1>14. ASSUME NEW k \in Call, ConsumeEvent(k) PROVE CallsTyped'
  <2>1. /\ call[k] \in CallState /\ call[k].buf \in Seq(Chunk) /\ call[k].buf # <<>>
        /\ Len(call[k].buf) <= DataBuf
    BY <1>14 DEF CallsTyped, CallState, ConsumeEvent
  <2>2. Tail(call[k].buf) \in Seq(Chunk) /\ Len(Tail(call[k].buf)) <= DataBuf
    BY <2>1, RelayLinkAssumption
  <2>3. PICK c \in {Returned(k), Writes(k, "writing"), Writes(k, "closing")} :
          call' = [c EXCEPT ![k].buf = Tail(@)]
    BY <1>14 DEF ConsumeEvent
  <2>4. c \in [Call -> CallState] /\ \A j \in Call : c[j].buf = call[j].buf
    <3>1. Returned(k) \in [Call -> CallState]
      BY DEF CallsTyped, CallState, Returned
    <3>2. \A j \in Call : Returned(k)[j].buf = call[j].buf
      BY DEF CallsTyped, CallState, Returned
    <3>3. \A x \in {"writing", "closing"} :
            /\ Writes(k, x) \in [Call -> CallState]
            /\ \A j \in Call : Writes(k, x)[j].buf = call[j].buf
      BY DEF CallsTyped, CallState, Writes
    <3> QED
      BY <2>3, <3>1, <3>2, <3>3
  <2> QED
    BY <2>2, <2>3, <2>4 DEF CallsTyped, CallState
<1>15. ASSUME NEW k \in Call, ConsumeEnd(k) \/ WriteReturns(k) PROVE CallsTyped'
  BY <1>15, HandlerMoves DEF CallsTyped
<1>16. ASSUME NEW s \in Session, WriterFail(s) PROVE CallsTyped'
  <2>1. PICK k \in writer[s].todo : UNCHANGED call \/ Terminate(k, "fail")
    BY <1>16 DEF WriterFail
  <2>2. k \in Call
    BY <2>1 DEF LinkTyped
  <2> QED
    BY <2>1, <2>2, TerminateTypes DEF CallsTyped
<1>17. ASSUME NEW k \in Call, Deliver(k) PROVE CallsTyped'
  <2>1. CASE UNCHANGED call
    BY <2>1 DEF CallsTyped
  <2>2. CASE /\ Len(call[k].buf) < DataBuf
             /\ call' = [call EXCEPT ![k].buf = Append(@, IF IsStream(k) THEN "data" ELSE "ok")]
    <3>1. call[k].buf \in Seq(Chunk)
      BY DEF CallsTyped, CallState
    <3>2. PICK x \in Chunk : call' = [call EXCEPT ![k].buf = Append(@, x)]
      BY <2>2 DEF Chunk
    <3>3. Append(call[k].buf, x) \in Seq(Chunk) /\ Len(Append(call[k].buf, x)) <= DataBuf
      BY <2>2, <3>1, RelayLinkAssumption
    <3> QED
      BY <3>2, <3>3 DEF CallsTyped, CallState
  <2> QED
    BY <1>17, <2>1, <2>2 DEF Deliver
<1>18. ASSUME NEW k \in Call, ReaderTerminate(k) PROVE CallsTyped'
  BY <1>18, TerminateTypes DEF ReaderTerminate, CallsTyped
<1>19. CASE CleanupFail
  <2>1. PICK k \in reader.todo : UNCHANGED call \/ Terminate(k, "fail")
    BY <1>19 DEF CleanupFail
  <2>2. k \in Call
    BY <2>1 DEF LinkTyped
  <2> QED
    BY <2>1, <2>2, TerminateTypes DEF CallsTyped
<1>20. CASE UNCHANGED call
  BY <1>20 DEF CallsTyped
<1> QED
  BY <1>1, <1>2, <1>3, <1>4, <1>5, <1>6, <1>7, <1>8, <1>9, <1>10, <1>11, <1>12,
     <1>13, <1>14, <1>15, <1>16, <1>17, <1>18, <1>19, <1>20, CallsAlone
     DEF Next, CallStep, HandlerWorks, Finish, WriterStep, ReaderWorks

LEMMA LinkTypedNext == LinkTyped /\ HubTyped /\ [Next]_vars => LinkTyped'
<1> SUFFICES ASSUME LinkTyped, HubTyped, [Next]_vars PROVE LinkTyped'
  OBVIOUS
<1> USE DEF linkVars
<1>0. pending \subseteq Call
  BY DEF HubTyped
<1>1. ASSUME NEW k \in Call, CallStep(k) PROVE LinkTyped'
  BY <1>1, LinkAlone DEF LinkTyped
<1>2. CASE DialOk
  <2>1. session' \in 0..MaxDials /\ session' \in Session /\ session' # 0
        /\ session' = session + 1
    BY <1>2, RelayLinkAssumption DEF LinkTyped, DialOk, Session
  <2>2. writer' = [writer EXCEPT ![session'].at = "spawned"]
    BY <1>2, <2>1 DEF DialOk
  <2> QED
    BY <1>2, <2>1, <2>2 DEF LinkTyped, DialOk, IdleReader
<1>3. CASE Redial
  BY <1>3 DEF LinkTyped, Redial
<1>4. ASSUME NEW s \in Session, WriterStart(s) PROVE LinkTyped'
  BY <1>4 DEF LinkTyped, WriterStart
<1>5. ASSUME NEW s \in Session, WriteFrame(s) PROVE LinkTyped'
  BY <1>5 DEF LinkTyped, WriteFrame
<1>6. ASSUME NEW s \in Session, WriteError(s) PROVE LinkTyped'
  BY <1>0, <1>6 DEF LinkTyped, WriteError
<1>7. ASSUME NEW s \in Session, WriterFail(s) PROVE LinkTyped'
  <2>1. \/ writer' = writer
        \/ \E k \in Call : writer' = [writer EXCEPT ![s].todo = @ \ {k}]
    BY <1>7 DEF WriterFail, LinkTyped
  <2> QED
    BY <1>7, <2>1 DEF LinkTyped, WriterFail
<1>8. ASSUME NEW s \in Session, WriterExit(s) PROVE LinkTyped'
  BY <1>8, RelayLinkAssumption DEF LinkTyped, WriterExit, WriterAt, Release, NoConn
<1>9. CASE ReaderStart
  BY <1>9 DEF LinkTyped, ReaderStart, ReaderAt
<1>10. ASSUME NEW k \in Call, NEW m \in {"chunk", "final", "error"}, Receive(k, m)
       PROVE  LinkTyped'
  BY <1>10 DEF LinkTyped, Receive
<1>11. ASSUME NEW k \in Call, Deliver(k) PROVE LinkTyped'
  <2>1. reader' \in {AfterDeliver, [reader EXCEPT !.at = "fail"], [reader EXCEPT !.at = "crashed"]}
    BY <1>11 DEF Deliver
  <2> QED
    BY <1>11, <2>1 DEF LinkTyped, Deliver, AfterDeliver, IdleReader
<1>12. ASSUME NEW k \in Call, ReaderTerminate(k) PROVE LinkTyped'
  BY <1>12 DEF LinkTyped, ReaderTerminate, IdleReader
<1>13. CASE EchoPing
  BY <1>13 DEF LinkTyped, EchoPing, ReadOther, ReaderAt
<1>14. CASE HandleRelayRegister
  BY <1>14 DEF LinkTyped, HandleRelayRegister, ReadOther, ReaderAt
<1>15. ASSUME NEW n \in Caps, SetWorkerMaxInFlight(n) PROVE LinkTyped'
  BY <1>15 DEF LinkTyped, SetWorkerMaxInFlight
<1>16. CASE ReaderLeaves
  BY <1>16, RelayLinkAssumption DEF LinkTyped, ReaderLeaves, Release, ReaderAt, NoConn
<1>17. CASE CleanupSnapshot
  BY <1>0, <1>17 DEF LinkTyped, CleanupSnapshot
<1>18. CASE CleanupFail
  <2>1. \/ reader' = reader
        \/ \E k \in Call : reader' = [reader EXCEPT !.todo = @ \ {k}]
    BY <1>18 DEF CleanupFail, LinkTyped
  <2> QED
    BY <1>18, <2>1 DEF LinkTyped, CleanupFail
<1>19. CASE CleanupEnd
  <2>1. session \in Session
    BY <1>19 DEF LinkTyped, CleanupEnd, Session
  <2> QED
    BY <1>19, <2>1 DEF LinkTyped, CleanupEnd, ReaderAt
<1>20. CASE UNCHANGED vars
  BY <1>20 DEF LinkTyped, vars
<1> QED
  BY <1>1, <1>2, <1>3, <1>4, <1>5, <1>6, <1>7, <1>8, <1>9, <1>10, <1>11, <1>12,
     <1>13, <1>14, <1>15, <1>16, <1>17, <1>18, <1>19, <1>20
     DEF Next, WriterStep, ReaderWorks

LEMMA HubTypedNext == HubTyped /\ [Next]_vars => HubTyped'
<1> SUFFICES ASSUME HubTyped, [Next]_vars PROVE HubTyped'
  OBVIOUS
<1> USE DEF hubVars, peerVars
<1>1. ASSUME NEW k \in Call, FinishRemove(k) \/ FinishCount(k) PROVE HubTyped'
  BY <1>1 DEF HubTyped, FinishRemove, FinishCount
<1>2. ASSUME NEW k \in Call, Register(k) \/ RegisterBlocked(k) \/ RegisterRejected(k)
      PROVE  HubTyped'
  BY <1>2, RelayLinkAssumption
     DEF HubTyped, Register, RegisterBlocked, RegisterRejected, Event
<1>3. ASSUME NEW k \in Call, EnqueueRelay(k) PROVE HubTyped'
  <2>1. /\ Append(sendCh, k) \in Seq(Call \cup {Ctl})
        /\ Len(Append(sendCh, k)) <= SendQueueSize
    BY <1>3, RelayLinkAssumption DEF HubTyped, EnqueueRelay
  <2> QED
    BY <1>3, <2>1 DEF HubTyped, EnqueueRelay
<1>4. ASSUME NEW k \in Call,
             \/ CheckConnected(k) \/ EnqueueError(k) \/ SendFail(k) \/ SendFailed(k)
             \/ StreamReturns(k) \/ ConsumeEvent(k) \/ ConsumeEnd(k) \/ WriteReturns(k) \/ CtxEnds(k)
             \/ WatchCtx(k) \/ Deliver(k) \/ ReaderTerminate(k)
      PROVE  HubTyped'
  BY <1>4 DEF HubTyped, CheckConnected, EnqueueError, SendFail, SendFailed, StreamReturns,
     ConsumeEvent, ConsumeEnd, WriteReturns, CtxEnds, WatchCtx, Deliver, ReaderTerminate
<1>5. CASE DialOk
  BY <1>5, RelayLinkAssumption DEF HubTyped, DialOk, Event
<1>6. ASSUME NEW s \in Session, WriteFrame(s) PROVE HubTyped'
  <2>1. /\ Tail(sendCh) \in Seq(Call \cup {Ctl}) /\ Len(Tail(sendCh)) <= SendQueueSize
        /\ Head(sendCh) \in Call \cup {Ctl}
    BY <1>6, RelayLinkAssumption DEF HubTyped, WriteFrame
  <2> QED
    BY <1>6, <2>1 DEF HubTyped, WriteFrame
<1>7. ASSUME NEW s \in Session, WriteError(s) PROVE HubTyped'
  <2>1. Tail(sendCh) \in Seq(Call \cup {Ctl}) /\ Len(Tail(sendCh)) <= SendQueueSize
    BY <1>7, RelayLinkAssumption DEF HubTyped, WriteError
  <2> QED
    BY <1>7, <2>1 DEF HubTyped, WriteError
<1>8. ASSUME NEW s \in Session, WriterStart(s) \/ WriterFail(s) \/ WriterExit(s)
      PROVE  HubTyped'
  BY <1>8 DEF HubTyped, WriterStart, WriterFail, WriterExit
<1>9. ASSUME NEW k \in Call, NEW m \in {"chunk", "final", "error"}, Receive(k, m)
      PROVE  HubTyped'
  BY <1>9, RelayLinkAssumption DEF HubTyped, Receive
<1>10. Queued \in Seq(Call \cup {Ctl}) /\ Len(Queued) <= SendQueueSize
  BY RelayLinkAssumption DEF HubTyped, Queued
<1>11. CASE EchoPing
  BY <1>10, <1>11, RelayLinkAssumption DEF HubTyped, EchoPing, ReadOther, Event
<1>12. CASE HandleRelayRegister
  <2>1. conns' \in BOOLEAN /\ sendCh' \in {sendCh, Queued}
    BY <1>12 DEF HubTyped, HandleRelayRegister
  <2> QED
    BY <1>10, <1>12, <2>1, RelayLinkAssumption
       DEF HubTyped, HandleRelayRegister, ReadOther, Event
<1>13. ASSUME NEW n \in Caps, SetWorkerMaxInFlight(n) PROVE HubTyped'
  BY <1>13, RelayLinkAssumption DEF HubTyped, SetWorkerMaxInFlight, ReadOther, Event
<1>14. CASE \/ Redial \/ ReaderStart \/ ReaderLeaves \/ CleanupSnapshot \/ CleanupFail
            \/ CleanupEnd
  BY <1>14 DEF HubTyped, Redial, ReaderStart, ReaderLeaves, CleanupSnapshot, CleanupFail,
     CleanupEnd
<1>15. CASE UNCHANGED vars
  BY <1>15 DEF HubTyped, vars
<1> QED
  BY <1>1, <1>2, <1>3, <1>4, <1>5, <1>6, <1>7, <1>8, <1>9, <1>11, <1>12, <1>13,
     <1>14, <1>15
     DEF Next, CallStep, HandlerWorks, Finish, WriterStep, ReaderWorks

LEMMA NextTypes == TypeOK /\ [Next]_vars => TypeOK'
  BY CallsTypedNext, LinkTypedNext, HubTypedNext DEF TypeOK

(* relaySendCh and every call's channel stay within their capacity and     *)
(* carry only what their readers expect, over any number of sessions, and  *)
(* every goroutine stays at a known point.                                 *)
THEOREM TypeCorrect == Spec => []TypeOK
  BY InitTypes, NextTypes, PTL DEF Spec

-----------------------------------------------------------------------------
(* The inductive invariant behind CountMatchesCalls and the contract.      *)

(* The calls some loop has in hand: looked up for a message, or in a       *)
(* snapshot taken when a link failed.                                      *)
LookedUp == IF reader.at \in {"deliver", "complete", "fail"} THEN {reader.call} ELSE {}
Snapshots == reader.todo \cup (UNION {writer[s].todo : s \in Session})
InHand == LookedUp \cup Snapshots

(* Before a call registers, nobody can end it: it is in no map, no         *)
(* snapshot and no loop's hands.                                           *)
IdleUntouched ==
  \A k \in Call \ started :
    call[k].fin = "open" /\ k \notin pending /\ k \notin InHand

(* The map holds the calls that finish has not removed. *)
PendingIsUnfinished ==
  \A k \in started : (call[k].fin \in {"open", "claimed"}) <=> (k \in pending)

(* A call in the map is registered. *)
LEMMA PendingStarted ==
  ASSUME IdleUntouched, HubTyped PROVE pending \subseteq started
  BY DEF IdleUntouched, HubTyped

(* How a step moves the books: the handlers that have registered, the      *)
(* calls counted for them, the counter and the cap.                        *)
Quiet == UNCHANGED <<started, Counted, inFlight, cap>>
Admitted(k) ==
  /\ inFlight < cap /\ inFlight' = inFlight + 1
  /\ started' = started \cup {k} /\ Counted' = Counted \cup {k} /\ cap' = cap
Refused(k) ==
  /\ inFlight >= cap /\ inFlight' = inFlight
  /\ started' = started \cup {k} /\ Counted' = Counted /\ cap' = cap
Ended(k) ==
  /\ inFlight' = IF inFlight <= 0 THEN inFlight ELSE inFlight - 1
  /\ started' = started /\ Counted' = Counted \ {k} /\ cap' = cap
Recapped == UNCHANGED <<started, Counted, inFlight>> /\ cap' \in Caps

LEMMA TerminateQuiet ==
  ASSUME CallsTyped, NEW k \in started, NEW why, Terminate(k, why)
  PROVE  started' = started /\ Counted' = Counted
  BY DEF CallsTyped, CallState, started, Counted, Terminate, Terminated

(* Handing a message to a call moves neither its handler nor its end. *)
LEMMA DeliverEndsNothing ==
  ASSUME CallsTyped, NEW k \in Call, Deliver(k)
  PROVE  \A j \in Call : call'[j].step = call[j].step /\ call'[j].fin = call[j].fin
<1>1. call' = call \/ \E b : call' = [call EXCEPT ![k].buf = b]
  BY DEF Deliver
<1>2. ASSUME NEW b, call' = [call EXCEPT ![k].buf = b], NEW j \in Call
      PROVE  call'[j].step = call[j].step /\ call'[j].fin = call[j].fin
  <2>1. [call[k] EXCEPT !.buf = b].step = call[k].step /\ [call[k] EXCEPT !.buf = b].fin = call[k].fin
    BY DEF CallsTyped, CallState
  <2>2. call'[j] = IF j = k THEN [call[k] EXCEPT !.buf = b] ELSE call[j]
    BY <1>2 DEF CallsTyped
  <2> QED
    BY <2>1, <2>2
<1> QED
  BY <1>1, <1>2

LEMMA BooksStep ==
  ASSUME TypeOK, IdleUntouched, [Next]_vars
  PROVE  \/ Quiet \/ Recapped
         \/ \E k \in Call \ started : Admitted(k) \/ Refused(k)
         \/ \E k \in Counted : Ended(k)
<1> USE DEF hubVars
<1>0. CallsTyped /\ LinkTyped
  BY DEF TypeOK
<1>1. ASSUME NEW k \in Call, FinishRemove(k) PROVE Quiet
  BY <1>0, <1>1 DEF FinishRemove, Quiet, started, Counted, CallsTyped, CallState
<1>2. ASSUME NEW k \in Call, FinishCount(k) PROVE k \in Counted /\ Ended(k)
  <2>1. k \in started
    BY <1>2 DEF FinishCount, IdleUntouched
  <2> QED
    BY <1>0, <1>2, <2>1 DEF FinishCount, Ended, started, Counted, CallsTyped, CallState
<1>3. ASSUME NEW k \in Call, Register(k) PROVE k \notin started /\ Admitted(k)
  <2>1. k \notin started /\ call[k].fin = "open"
    BY <1>3 DEF Register, IdleUntouched, started
  <2>2. started' = started \cup {k} /\ Counted' = Counted \cup {k}
    BY <1>0, <1>3, <2>1 DEF Register, started, Counted, CallsTyped, CallState
  <2> QED
    BY <1>3, <2>1, <2>2 DEF Register, Admitted
<1>4. ASSUME NEW k \in Call, RegisterBlocked(k) PROVE Quiet
  BY <1>0, <1>4 DEF RegisterBlocked, Quiet, started, Counted, CallsTyped, CallState
<1>5. ASSUME NEW k \in Call, RegisterRejected(k) PROVE k \notin started /\ Refused(k)
  <2>1. k \notin started
    BY <1>5 DEF RegisterRejected, started
  <2>2. started' = started \cup {k} /\ Counted' = Counted
    BY <1>0, <1>5, <2>1 DEF RegisterRejected, started, Counted, CallsTyped, CallState
  <2> QED
    BY <1>5, <2>1, <2>2 DEF RegisterRejected, Refused
<1>6. ASSUME NEW k \in Call, CheckConnected(k) PROVE Quiet
  BY <1>0, <1>6 DEF CheckConnected, Quiet, started, Counted, CallsTyped, CallState
<1>7. ASSUME NEW k \in Call, EnqueueRelay(k) PROVE Quiet
  BY <1>0, <1>7 DEF EnqueueRelay, Quiet, started, Counted, CallsTyped, CallState
<1>8. ASSUME NEW k \in Call, EnqueueError(k) PROVE Quiet
  BY <1>0, <1>8 DEF EnqueueError, Quiet, started, Counted, CallsTyped, CallState
<1>9. ASSUME NEW k \in Call, SendFail(k) PROVE Quiet
  <2>1. k \in started
    BY <1>9 DEF SendFail, started
  <2> QED
    BY <1>0, <1>9, <2>1, TerminateQuiet DEF SendFail, Quiet
<1>10. ASSUME NEW k \in Call, SendFailed(k) PROVE Quiet
  BY <1>0, <1>10 DEF SendFailed, Quiet, started, Counted, CallsTyped, CallState
<1>11. ASSUME NEW k \in Call, StreamReturns(k) PROVE Quiet
  BY <1>0, <1>11 DEF StreamReturns, Quiet, started, Counted, CallsTyped, CallState
<1>12. ASSUME NEW k \in Call, CtxEnds(k) PROVE Quiet
  BY <1>0, <1>12 DEF CtxEnds, Quiet, started, Counted, CallsTyped, CallState
<1>13. ASSUME NEW k \in Call, WatchCtx(k) PROVE Quiet
  <2>1. k \in started
    BY <1>13 DEF WatchCtx, started
  <2> QED
    BY <1>0, <1>13, <2>1, TerminateQuiet DEF WatchCtx, Quiet
<1>14. ASSUME NEW k \in Call, ConsumeEvent(k) PROVE Quiet
  BY <1>0, <1>14 DEF ConsumeEvent, Writes, Returned, Quiet, started, Counted, CallsTyped, CallState
<1>15. ASSUME NEW k \in Call, ConsumeEnd(k) \/ WriteReturns(k) PROVE Quiet
  <2>1. UNCHANGED <<inFlight, cap>>
    BY <1>15 DEF ConsumeEnd, WriteReturns, hubVars
  <2>2. started' = started /\ Counted' = Counted
    BY <1>0, <1>15, HandlerMoves DEF started, Counted
  <2> QED
    BY <2>1, <2>2 DEF Quiet
<1>16. ASSUME NEW s \in Session, WriterFail(s) PROVE Quiet
  <2>1. PICK k \in writer[s].todo : UNCHANGED call \/ Terminate(k, "fail")
    BY <1>16 DEF WriterFail
  <2>2. k \in started
    BY <1>0, <2>1 DEF IdleUntouched, InHand, Snapshots, LinkTyped
  <2>3. started' = started /\ Counted' = Counted
    BY <1>0, <2>1, <2>2, TerminateQuiet DEF started, Counted
  <2> QED
    BY <1>16, <2>3 DEF WriterFail, Quiet
<1>17. ASSUME NEW k \in Call, Deliver(k) PROVE Quiet
  <2>1. started' = started /\ Counted' = Counted
    BY <1>0, <1>17, DeliverEndsNothing DEF started, Counted
  <2> QED
    BY <1>17, <2>1 DEF Deliver, Quiet
<1>18. ASSUME NEW k \in Call, ReaderTerminate(k) PROVE Quiet
  <2>1. k \in started
    <3>1. reader.at \in {"deliver", "complete", "fail"} /\ reader.call = k
      BY <1>18 DEF ReaderTerminate
    <3> QED
      BY <3>1 DEF IdleUntouched, InHand, LookedUp
  <2>2. started' = started /\ Counted' = Counted
    BY <1>0, <1>18, <2>1, TerminateQuiet DEF ReaderTerminate, started, Counted
  <2> QED
    BY <1>18, <2>2 DEF ReaderTerminate, Quiet
<1>19. CASE CleanupFail
  <2>1. PICK k \in reader.todo : UNCHANGED call \/ Terminate(k, "fail")
    BY <1>19 DEF CleanupFail
  <2>2. k \in started
    BY <1>0, <2>1 DEF IdleUntouched, InHand, Snapshots, LinkTyped
  <2>3. started' = started /\ Counted' = Counted
    BY <1>0, <2>1, <2>2, TerminateQuiet DEF started, Counted
  <2> QED
    BY <1>19, <2>3 DEF CleanupFail, Quiet
<1>20. CASE \/ DialOk \/ Redial \/ EchoPing \/ HandleRelayRegister \/ ReaderLeaves
            \/ ReaderStart \/ CleanupSnapshot \/ CleanupEnd
            \/ \E s \in Session : WriterStart(s) \/ WriteFrame(s) \/ WriteError(s) \/ WriterExit(s)
            \/ \E k \in Call, m \in {"chunk", "final", "error"} : Receive(k, m)
            \/ UNCHANGED vars
  <2>1. call' = call
    BY <1>20, CallsAlone
  <2>2. UNCHANGED <<inFlight, cap>>
    BY <1>20 DEF DialOk, Redial, EchoPing, HandleRelayRegister, ReaderLeaves, ReaderStart,
       CleanupSnapshot, CleanupEnd, WriterStart, WriteFrame, WriteError, WriterExit, Receive,
       vars
  <2> QED
    BY <2>1, <2>2 DEF Quiet, started, Counted
<1>21. ASSUME NEW n \in Caps, SetWorkerMaxInFlight(n) PROVE Recapped
  BY <1>21 DEF SetWorkerMaxInFlight, Recapped, started, Counted
<1> QED
  BY <1>1, <1>2, <1>3, <1>4, <1>5, <1>6, <1>7, <1>8, <1>9, <1>10, <1>11, <1>12,
     <1>13, <1>14, <1>15, <1>16, <1>17, <1>18, <1>19, <1>20, <1>21
     DEF Next, CallStep, HandlerWorks, Finish, WriterStep, ReaderWorks

(* A loop takes in hand only what is in the map. *)
LEMMA HandsStep ==
  ASSUME TypeOK, [Next]_vars
  PROVE  InHand' \subseteq InHand \cup pending
<1> USE DEF linkVars
<1>0. LinkTyped
  BY DEF TypeOK
<1>1. SUFFICES /\ reader'.todo \subseteq reader.todo \cup pending
               /\ \A s \in Session : writer'[s].todo \subseteq writer[s].todo \cup pending
               /\ LookedUp' \subseteq LookedUp \cup pending
  BY DEF InHand, Snapshots
<1>3. ASSUME NEW k \in Call, CallStep(k) PROVE UNCHANGED <<reader, writer>>
  BY <1>3, LinkAlone
<1>4. \A s \in Session : writer'[s].todo \subseteq writer[s].todo \cup pending
  <2>1. CASE DialOk
    BY <1>0, <2>1 DEF DialOk, LinkTyped
  <2>2. ASSUME NEW s \in Session, WriterStart(s) PROVE \A r \in Session : writer'[r].todo = writer[r].todo
    BY <1>0, <2>2 DEF WriterStart, LinkTyped
  <2>3. ASSUME NEW s \in Session, WriteError(s)
        PROVE  \A r \in Session : writer'[r].todo \subseteq writer[r].todo \cup pending
    BY <1>0, <2>3 DEF WriteError, LinkTyped
  <2>4. ASSUME NEW s \in Session, WriterFail(s)
        PROVE  \A r \in Session : writer'[r].todo \subseteq writer[r].todo
    <3>1. writer' = writer \/ \E k : writer' = [writer EXCEPT ![s].todo = @ \ {k}]
      BY <2>4 DEF WriterFail
    <3> QED
      BY <1>0, <3>1 DEF LinkTyped
  <2>5. ASSUME NEW s \in Session, WriterExit(s) PROVE \A r \in Session : writer'[r].todo = writer[r].todo
    BY <1>0, <2>5 DEF WriterExit, WriterAt, LinkTyped
  <2>6. CASE writer' = writer
    BY <2>6
  <2>7. ASSUME \/ Redial \/ ReaderWorks \/ ReaderLeaves \/ EchoPing \/ HandleRelayRegister
               \/ \E n \in Caps : SetWorkerMaxInFlight(n)
               \/ \E k \in Call, m \in {"chunk", "final", "error"} : Receive(k, m)
               \/ \E s \in Session : WriteFrame(s)
               \/ UNCHANGED vars
        PROVE  writer' = writer
    BY <2>7 DEF Redial, ReaderWorks, ReaderStart, Deliver, ReaderTerminate, CleanupSnapshot,
       CleanupFail, CleanupEnd, ReaderLeaves, EchoPing, HandleRelayRegister,
       SetWorkerMaxInFlight, Receive, WriteFrame, vars
  <2> QED
    BY <1>3, <2>1, <2>2, <2>3, <2>4, <2>5, <2>6, <2>7 DEF Next, WriterStep
<1>5. reader'.todo \subseteq reader.todo \cup pending /\ LookedUp' \subseteq LookedUp \cup pending
  <2> USE DEF LookedUp
  <2>1. CASE DialOk
    BY <1>0, <2>1 DEF DialOk, IdleReader, LinkTyped
  <2>2. ASSUME NEW s \in Session, WriterStep(s) PROVE reader' = reader
    BY <2>2 DEF WriterStep, WriterStart, WriteFrame, WriteError, WriterFail, WriterExit
  <2>3. ASSUME NEW k \in Call, NEW m \in {"chunk", "final", "error"}, Receive(k, m)
        PROVE  reader'.todo = reader.todo /\ LookedUp' \subseteq LookedUp \cup pending
    <3>1. \/ reader' = reader
          \/ /\ k \in pending
             /\ \E x \in {"fail", "deliver"} :
                  reader' = [reader EXCEPT !.at = x, !.call = k, !.msg = m]
      BY <2>3 DEF Receive
    <3> QED
      BY <1>0, <3>1 DEF LinkTyped
  <2>4. ASSUME NEW k \in Call, Deliver(k)
        PROVE  reader'.todo \subseteq reader.todo /\ LookedUp' \subseteq LookedUp
    <3>1. reader' \in {IdleReader, [reader EXCEPT !.at = "complete"],
                       [reader EXCEPT !.at = "fail"], [reader EXCEPT !.at = "crashed"]}
      BY <2>4 DEF Deliver, AfterDeliver
    <3>2. reader.at = "deliver"
      BY <2>4 DEF Deliver
    <3> QED
      BY <1>0, <3>1, <3>2 DEF LinkTyped, IdleReader
  <2>5. ASSUME NEW k \in Call, ReaderTerminate(k)
        PROVE  reader'.todo \subseteq reader.todo /\ LookedUp' \subseteq LookedUp
    BY <1>0, <2>5 DEF ReaderTerminate, LinkTyped, IdleReader
  <2>6. CASE ReaderStart \/ ReaderLeaves \/ EchoPing \/ HandleRelayRegister \/ CleanupEnd
    <3>1. \/ reader' = reader
          \/ \E x \in {"crashed", "reading", "leaving", "stuck", "cleanup", "exited"} :
               reader' = [reader EXCEPT !.at = x]
      BY <2>6 DEF ReaderStart, ReaderLeaves, EchoPing, HandleRelayRegister, CleanupEnd, ReaderAt
    <3> QED
      BY <1>0, <3>1 DEF LinkTyped
  <2>7. CASE CleanupSnapshot
    BY <1>0, <2>7 DEF CleanupSnapshot, LinkTyped
  <2>8. CASE CleanupFail
    <3>1. reader' = reader \/ \E k : reader' = [reader EXCEPT !.todo = @ \ {k}]
      BY <2>8 DEF CleanupFail
    <3> QED
      BY <1>0, <3>1 DEF LinkTyped
  <2>9. ASSUME Redial \/ UNCHANGED vars \/ \E n \in Caps : SetWorkerMaxInFlight(n)
        PROVE  reader' = reader
    BY <2>9 DEF Redial, vars, SetWorkerMaxInFlight
  <2>10. CASE reader' = reader
    BY <2>10
  <2> QED
    BY <1>3, <2>1, <2>2, <2>3, <2>4, <2>5, <2>6, <2>7, <2>8, <2>9, <2>10 DEF Next, ReaderWorks
<1> QED
  BY <1>4, <1>5

(* The map and finish move together. *)
LEMMA MapStep ==
  ASSUME TypeOK, IdleUntouched, PendingIsUnfinished, [Next]_vars
  PROVE  /\ \A k \in Call \ started' : call'[k].fin = "open" /\ k \notin pending'
         /\ PendingIsUnfinished'
<1> DEFINE Goal == /\ \A j \in Call \ started' : call'[j].fin = "open" /\ j \notin pending'
                   /\ PendingIsUnfinished'
<1>0. CallsTyped /\ LinkTyped
  BY DEF TypeOK
<1>1. ASSUME pending' = pending,
             \A j \in Call : call'[j].fin = call[j].fin /\ call'[j].step = call[j].step
      PROVE  Goal
  <2>1. started' = started /\ started \subseteq Call
    BY <1>1 DEF started
  <2> QED
    BY <1>1, <2>1 DEF IdleUntouched, PendingIsUnfinished
<1> USE DEF IdleUntouched, PendingIsUnfinished, started, hubVars
<1>2. ASSUME NEW k \in started, NEW why, Terminate(k, why), pending' = pending PROVE Goal
  BY <1>0, <1>2 DEF Terminate, Terminated, CallsTyped, CallState
<1>3. ASSUME NEW k \in Call, FinishRemove(k) PROVE Goal
  BY <1>0, <1>3 DEF FinishRemove, CallsTyped, CallState
<1>4. ASSUME NEW k \in Call, FinishCount(k) PROVE Goal
  BY <1>0, <1>4 DEF FinishCount, CallsTyped, CallState
<1>5. ASSUME NEW k \in Call, Register(k) PROVE Goal
  BY <1>0, <1>5 DEF Register, CallsTyped, CallState
<1>6. ASSUME NEW k \in Call, RegisterBlocked(k) PROVE Goal
  BY <1>0, <1>6 DEF RegisterBlocked, CallsTyped, CallState
<1>7. ASSUME NEW k \in Call, RegisterRejected(k) PROVE Goal
  BY <1>0, <1>7 DEF RegisterRejected, CallsTyped, CallState
<1>8. ASSUME NEW k \in Call, CheckConnected(k) PROVE Goal
  BY <1>0, <1>8 DEF CheckConnected, CallsTyped, CallState
<1>9. ASSUME NEW k \in Call, EnqueueRelay(k) PROVE Goal
  BY <1>0, <1>9 DEF EnqueueRelay, CallsTyped, CallState
<1>10. ASSUME NEW k \in Call, EnqueueError(k) PROVE Goal
  BY <1>0, <1>10 DEF EnqueueError, CallsTyped, CallState
<1>11. ASSUME NEW k \in Call, SendFail(k) PROVE Goal
  BY <1>2, <1>11 DEF SendFail
<1>12. ASSUME NEW k \in Call, SendFailed(k) PROVE Goal
  BY <1>0, <1>12 DEF SendFailed, CallsTyped, CallState
<1>13. ASSUME NEW k \in Call, StreamReturns(k) PROVE Goal
  BY <1>0, <1>13 DEF StreamReturns, CallsTyped, CallState
<1>14. ASSUME NEW k \in Call, CtxEnds(k) PROVE Goal
  BY <1>0, <1>14 DEF CtxEnds, CallsTyped, CallState
<1>15. ASSUME NEW k \in Call, WatchCtx(k) PROVE Goal
  BY <1>2, <1>15 DEF WatchCtx
<1>16. ASSUME NEW k \in Call, ConsumeEvent(k) PROVE Goal
  BY <1>0, <1>16 DEF ConsumeEvent, Writes, Returned, CallsTyped, CallState
<1>17. ASSUME NEW k \in Call, ConsumeEnd(k) \/ WriteReturns(k) PROVE Goal
  BY <1>0, <1>17, HandlerMoves DEF ConsumeEnd, WriteReturns
<1>18. ASSUME NEW s \in Session, WriterFail(s) PROVE Goal
  <2>1. PICK k \in writer[s].todo : UNCHANGED call \/ Terminate(k, "fail")
    BY <1>18 DEF WriterFail
  <2>2. k \in started
    BY <1>0, <2>1 DEF InHand, Snapshots, LinkTyped
  <2>3. pending' = pending
    BY <1>18 DEF WriterFail
  <2> QED
    BY <1>1, <1>2, <2>1, <2>2, <2>3
<1>19. ASSUME NEW k \in Call, Deliver(k) PROVE Goal
  <2>1. pending' = pending
    BY <1>19 DEF Deliver
  <2>2. \A j \in Call : call'[j].step = call[j].step /\ call'[j].fin = call[j].fin
    BY <1>0, <1>19, DeliverEndsNothing
  <2> QED
    BY <1>1, <2>1, <2>2
<1>20. ASSUME NEW k \in Call, ReaderTerminate(k) PROVE Goal
  <2>1. reader.at \in {"deliver", "complete", "fail"} /\ reader.call = k /\ pending' = pending
    BY <1>20 DEF ReaderTerminate
  <2>2. k \in started
    BY <2>1 DEF InHand, LookedUp
  <2>3. UNCHANGED call \/ Terminate(k, reader.at)
    BY <1>20 DEF ReaderTerminate
  <2> QED
    BY <1>1, <1>2, <2>1, <2>2, <2>3
<1>21. CASE CleanupFail
  <2>1. PICK k \in reader.todo : UNCHANGED call \/ Terminate(k, "fail")
    BY <1>21 DEF CleanupFail
  <2>2. k \in started
    BY <1>0, <2>1 DEF InHand, Snapshots, LinkTyped
  <2>3. pending' = pending
    BY <1>21 DEF CleanupFail
  <2> QED
    BY <1>1, <1>2, <2>1, <2>2, <2>3
<1>22. CASE \/ DialOk \/ Redial \/ EchoPing \/ HandleRelayRegister \/ ReaderLeaves
            \/ ReaderStart \/ CleanupSnapshot \/ CleanupEnd
            \/ \E n \in Caps : SetWorkerMaxInFlight(n)
            \/ \E s \in Session : WriterStart(s) \/ WriteFrame(s) \/ WriteError(s) \/ WriterExit(s)
            \/ \E k \in Call, m \in {"chunk", "final", "error"} : Receive(k, m)
            \/ UNCHANGED vars
  <2>1. call' = call
    BY <1>22, CallsAlone
  <2>2. pending' = pending
    BY <1>22 DEF DialOk, Redial, EchoPing, HandleRelayRegister, ReaderLeaves, ReaderStart,
       CleanupSnapshot, CleanupEnd, SetWorkerMaxInFlight, WriterStart, WriteFrame, WriteError,
       WriterExit, Receive, vars
  <2> QED
    BY <1>1, <2>1, <2>2
<1> QED
  BY <1>3, <1>4, <1>5, <1>6, <1>7, <1>8, <1>9, <1>10, <1>11, <1>12, <1>13, <1>14,
     <1>15, <1>16, <1>17, <1>18, <1>19, <1>20, <1>21, <1>22
     DEF Next, CallStep, HandlerWorks, Finish, WriterStep, ReaderWorks

-----------------------------------------------------------------------------
(* The count and the contract.                                             *)

LinkInv == TypeOK /\ IdleUntouched /\ CountMatchesCalls

LEMMA LinkInit == Init => LinkInv
<1> SUFFICES ASSUME Init PROVE LinkInv
  OBVIOUS
<1>1. started = {} /\ Counted = {}
  BY DEF Init, started, Counted
<1>2. CountMatchesCalls
  BY <1>1, FS_EmptySet DEF Init, CountMatchesCalls
<1>3. IdleUntouched
  BY DEF Init, IdleUntouched, InHand, LookedUp, Snapshots, IdleReader
<1> QED
  BY <1>2, <1>3, InitTypes DEF LinkInv

LEMMA CountedFinite ==
  IsFiniteSet(Counted) /\ Cardinality(Counted) \in Nat /\ Counted \subseteq started
<1>1. Counted \subseteq Call /\ Counted \subseteq started
  BY DEF Counted, started
<1> QED
  BY <1>1, FS_Subset, FS_CardinalityType, RelayLinkAssumption

LEMMA LinkNext == LinkInv /\ [Next]_vars => LinkInv'
<1> SUFFICES ASSUME LinkInv, [Next]_vars PROVE LinkInv'
  OBVIOUS
<1>0. /\ TypeOK /\ IdleUntouched /\ PendingIsUnfinished
      /\ inFlight = Cardinality(Counted) /\ TypeOK'
  BY NextTypes DEF LinkInv, CountMatchesCalls, PendingIsUnfinished
<1>1. /\ \A k \in Call \ started' : call'[k].fin = "open" /\ k \notin pending'
      /\ PendingIsUnfinished'
  BY <1>0, MapStep
<1>2. started \subseteq started'
  BY <1>0, BooksStep DEF Quiet, Recapped, Admitted, Refused, Ended
<1>3. IdleUntouched'
  <2>1. \A k \in Call \ started' : k \notin InHand /\ k \notin pending
    BY <1>0, <1>2 DEF IdleUntouched
  <2> QED
    BY <1>0, <1>1, <2>1, HandsStep DEF IdleUntouched
<1>4. inFlight' = Cardinality(Counted')
  <2>1. CASE Quiet \/ Recapped \/ \E k \in Call : Refused(k)
    BY <1>0, <2>1 DEF Quiet, Recapped, Refused
  <2>2. ASSUME NEW k \in Call \ started, Admitted(k) PROVE inFlight' = Cardinality(Counted')
    <3>1. k \notin Counted
      BY CountedFinite
    <3> QED
      BY <1>0, <2>2, <3>1, CountedFinite, FS_AddElement DEF Admitted
  <2>3. ASSUME NEW k \in Counted, Ended(k) PROVE inFlight' = Cardinality(Counted')
    <3>1. Cardinality(Counted \ {k}) = Cardinality(Counted) - 1
      BY <2>3, CountedFinite, FS_RemoveElement
    <3>2. Cardinality(Counted \ {k}) \in Nat
      BY CountedFinite, FS_Subset, FS_CardinalityType
    <3> QED
      BY <1>0, <2>3, <3>1, <3>2, CountedFinite DEF Ended
  <2> QED
    BY <1>0, <2>1, <2>2, <2>3, BooksStep
<1> QED
  BY <1>0, <1>1, <1>3, <1>4 DEF LinkInv, CountMatchesCalls, PendingIsUnfinished

LEMMA LinkInvariant == Spec => []LinkInv
  BY LinkInit, LinkNext, PTL DEF Spec

(* The relay's per-worker counter equals the number of calls that still    *)
(* owe it a unit, and relayPending holds exactly the calls nobody has      *)
(* removed, at every point between the two critical sections of finish and *)
(* over any number of sessions.                                            *)
THEOREM CountIsExact == Spec => []CountMatchesCalls
  BY LinkInvariant, PTL DEF LinkInv

LEMMA ContractStep ==
  ASSUME LinkInv, [Next]_vars
  PROVE  [Contract!Next]_(Contract!contractVars)
<1>0. /\ TypeOK /\ IdleUntouched /\ inFlight = Cardinality(Counted)
      /\ Counted \subseteq started /\ started \subseteq Call
  BY CountedFinite DEF LinkInv, CountMatchesCalls, started
<1>1. CASE Quiet
  BY <1>1 DEF Quiet, Contract!contractVars
<1>2. CASE Recapped
  <2>1. Contract!SetCap(cap')
    BY <1>2 DEF Recapped, Contract!SetCap
  <2> QED
    BY <1>2, <2>1 DEF Recapped, Contract!Next
<1>3. ASSUME NEW k \in Call \ started, Admitted(k) PROVE Contract!Next
  <2>1. k \in Contract!New /\ started' \ Counted' = started \ Counted
    BY <1>0, <1>3 DEF Contract!New, Admitted
  <2>2. Contract!Admit(k)
    BY <1>0, <1>3, <2>1 DEF Admitted, Contract!Admit, Contract!Cardinality, Cardinality
  <2> QED
    BY <2>2 DEF Contract!Next
<1>4. ASSUME NEW k \in Call \ started, Refused(k) PROVE Contract!Next
  <2>1. k \in Contract!New /\ started' \ Counted' = (started \ Counted) \cup {k}
    BY <1>0, <1>4 DEF Contract!New, Refused
  <2>2. Contract!Refuse(k)
    BY <1>0, <1>4, <2>1 DEF Refused, Contract!Refuse, Contract!Cardinality, Cardinality
  <2> QED
    BY <2>2 DEF Contract!Next
<1>5. ASSUME NEW k \in Counted, Ended(k) PROVE Contract!Next
  <2>1. {k} \in SUBSET Call /\ started' \ Counted' = (started \ Counted) \cup {k}
    BY <1>0, <1>5 DEF Ended
  <2>2. Contract!End({k})
    BY <1>5, <2>1 DEF Ended, Contract!End
  <2> QED
    BY <2>1, <2>2 DEF Contract!Next
<1> QED
  BY <1>0, <1>1, <1>2, <1>3, <1>4, <1>5, BooksStep

(* The calls made over the relay implement the same in-flight contract as  *)
(* those over a direct connection: admission below the cap, one end each,  *)
(* no way back, although their books are two variables kept in two         *)
(* critical sections.                                                      *)
THEOREM RelayKeepsContract == Spec => ImplementsContract
<1>1. Init => Contract!Init
  <2>1. ASSUME Init PROVE started = {} /\ Counted = {} /\ cap \in Caps
    BY <2>1, RelayLinkAssumption DEF Init, started, Counted
  <2> QED
    BY <2>1 DEF Contract!Init
<1>2. LinkInv /\ [Next]_vars => [Contract!Next]_(Contract!contractVars)
  BY ContractStep
<1> QED
  BY <1>1, <1>2, LinkInvariant, PTL DEF Spec, ImplementsContract, Contract!Spec

-----------------------------------------------------------------------------
(* The in-flight cap.                                                      *)

(* registerRelayCall checks the cap in the critical section that counts:   *)
(* the calls in flight to a worker behind the relay grow only while they   *)
(* are below the cap in force.  They exceed it only after the cap itself   *)
(* was lowered, and then until enough of them have ended.                  *)
RelayInFlightCap == [][inFlight' > inFlight => inFlight' <= cap /\ cap' = cap]_vars

(* The cap of a relay worker holds at every admission, for every set of    *)
(* caps, however often they change and sessions come and go.               *)
THEOREM RelayCapHolds == Spec => RelayInFlightCap
<1>1. LinkInv /\ [Next]_vars
        => [inFlight' > inFlight => inFlight' <= cap /\ cap' = cap]_vars
  <2> SUFFICES ASSUME LinkInv, [Next]_vars, inFlight' > inFlight
               PROVE  inFlight' <= cap /\ cap' = cap
    OBVIOUS
  <2>1. inFlight \in Nat /\ cap \in Nat
    BY RelayLinkAssumption DEF LinkInv, TypeOK, HubTyped
  <2>2. \/ inFlight < cap /\ inFlight' = inFlight + 1 /\ cap' = cap
        \/ inFlight' \in Nat /\ inFlight' <= inFlight
    BY <2>1, BooksStep DEF LinkInv, Quiet, Admitted, Refused, Ended, Recapped
  <2> QED
    BY <2>1, <2>2
<1> QED
  BY <1>1, LinkInvariant, PTL DEF Spec, RelayInFlightCap

-----------------------------------------------------------------------------
(* The sockets of successive sessions.                                     *)

(* The only socket the router holds is the one it has published: neither a *)
(* redial nor a writer loop left over from an earlier session leaks one or *)
(* takes the published one down unnoticed.                                 *)
OneSocket == open = {relayConn} \ {NoConn}

Ending == {"cleanup", "failing", "exited"}

(* What is published belongs to the latest session, whose reader is still  *)
(* at work: it unpublishes before it closes done, and runRelay dials after.*)
SocketInv ==
  /\ OneSocket
  /\ done \subseteq 1 .. session /\ relayConn \in {NoConn, session}
  /\ runner = "dial" => session = 0 \/ session \in done
  /\ session \in done \/ reader.at \in Ending => relayConn = NoConn

(* Steps that leave the link alone do not start the reader's clean-up. *)
LEMMA SocketsAlone ==
  ASSUME TypeOK,
         \/ \E k \in Call : CallStep(k)
         \/ \E s \in Session : WriterStart(s) \/ WriteFrame(s) \/ WriteError(s) \/ WriterFail(s)
         \/ \E k \in Call, m \in {"chunk", "final", "error"} : Receive(k, m)
         \/ EchoPing \/ HandleRelayRegister \/ \E n \in Caps : SetWorkerMaxInFlight(n)
         \/ ReaderStart \/ (\E k \in Call : Deliver(k) \/ ReaderTerminate(k))
         \/ CleanupSnapshot \/ CleanupFail \/ UNCHANGED vars
  PROVE  UNCHANGED linkVars /\ (reader'.at \in Ending => reader.at \in Ending)
<1> USE DEF linkVars
<1>1. CASE \E k \in Call : CallStep(k)
  BY <1>1, LinkAlone
<1>2. CASE \E s \in Session : WriterStart(s) \/ WriteFrame(s) \/ WriteError(s) \/ WriterFail(s)
  BY <1>2 DEF WriterStart, WriteFrame, WriteError, WriterFail
<1>3. CASE \E k \in Call, m \in {"chunk", "final", "error"} : Receive(k, m)
  BY <1>3 DEF Receive, Ending, TypeOK, LinkTyped
<1>4. CASE EchoPing \/ HandleRelayRegister \/ \E n \in Caps : SetWorkerMaxInFlight(n)
  BY <1>4 DEF EchoPing, HandleRelayRegister, SetWorkerMaxInFlight, ReaderAt, Ending, TypeOK, LinkTyped
<1>5. CASE ReaderStart
  BY <1>5 DEF ReaderStart, ReaderAt, Ending, TypeOK, LinkTyped
<1>6. ASSUME NEW k \in Call, Deliver(k)
      PROVE  UNCHANGED linkVars /\ (reader'.at \in Ending => reader.at \in Ending)
  <2>1. reader' \in {AfterDeliver, [reader EXCEPT !.at = "fail"], [reader EXCEPT !.at = "crashed"]}
    BY <1>6 DEF Deliver
  <2> QED
    BY <1>6, <2>1 DEF Deliver, AfterDeliver, IdleReader, Ending, TypeOK, LinkTyped
<1>7. ASSUME NEW k \in Call, ReaderTerminate(k)
      PROVE  UNCHANGED linkVars /\ (reader'.at \in Ending => reader.at \in Ending)
  BY <1>7 DEF ReaderTerminate, IdleReader, Ending
<1>8. CASE CleanupSnapshot
  BY <1>8 DEF CleanupSnapshot, Ending
<1>9. CASE CleanupFail
  <2>1. \/ reader' = reader
        \/ \E k \in Call : reader' = [reader EXCEPT !.todo = @ \ {k}]
    BY <1>9 DEF CleanupFail, TypeOK, LinkTyped
  <2>2. reader'.at = reader.at
    BY <2>1 DEF TypeOK, LinkTyped
  <2> QED
    BY <1>9, <2>2 DEF CleanupFail
<1>10. CASE UNCHANGED vars
  BY <1>10 DEF vars
<1> QED
  BY <1>1, <1>2, <1>3, <1>4, <1>5, <1>6, <1>7, <1>8, <1>9, <1>10

LEMMA SocketNext ==
  ASSUME TypeOK, SocketInv, [Next]_vars
  PROVE  SocketInv'
<1>0. session \in Nat /\ relayConn \in Nat
  BY RelayLinkAssumption DEF TypeOK, LinkTyped
<1>1. CASE DialOk
  <2>1. relayConn = NoConn
    BY <1>0, <1>1 DEF DialOk, SocketInv, NoConn
  <2>2. /\ session' = session + 1 /\ relayConn' = session + 1 /\ open' = open \cup {session + 1}
        /\ done' = done /\ runner' = "wait" /\ reader'.at = "spawned"
    BY <1>1 DEF DialOk, IdleReader
  <2>3. session + 1 \notin done /\ done \subseteq 1 .. session + 1 /\ session + 1 # NoConn
    BY <1>0 DEF SocketInv, NoConn
  <2>4. open = {}
    BY <2>1 DEF SocketInv, OneSocket
  <2> QED
    BY <2>2, <2>3, <2>4 DEF SocketInv, OneSocket, Ending
<1>2. CASE Redial
  BY <1>2 DEF Redial, SocketInv, OneSocket
<1>3. ASSUME NEW s \in Session, WriterExit(s) PROVE SocketInv'
  BY <1>3 DEF WriterExit, Release, SocketInv, OneSocket
<1>4. CASE ReaderLeaves
  <2>1. /\ relayConn' = IF relayConn = session THEN NoConn ELSE relayConn
        /\ open' = open \ {session} /\ UNCHANGED <<runner, session, done>>
    BY <1>4 DEF ReaderLeaves, Release
  <2>2. relayConn' = NoConn /\ open' = {}
    BY <2>1 DEF SocketInv, OneSocket
  <2> QED
    BY <2>1, <2>2 DEF SocketInv, OneSocket
<1>5. CASE CleanupEnd
  <2>1. done' = done \cup {session} /\ UNCHANGED <<runner, session, relayConn, open>>
        /\ reader.at \in Ending
    BY <1>5 DEF CleanupEnd, Ending
  <2>2. session \in 1 .. session
    BY <1>0, <1>5 DEF CleanupEnd, TypeOK, LinkTyped
  <2> QED
    BY <2>1, <2>2 DEF SocketInv, OneSocket
<1>6. CASE UNCHANGED linkVars /\ (reader'.at \in Ending => reader.at \in Ending)
  BY <1>6 DEF linkVars, SocketInv, OneSocket
<1> QED
  BY <1>1, <1>2, <1>3, <1>4, <1>5, <1>6, SocketsAlone
     DEF Next, WriterStep, ReaderWorks

(* At every moment, for any number of sessions, the sockets the router has *)
(* open are those it has published: none, or the latest session's          *)
(* (DialRelay, relayReaderLoop and relayWriterLoop of ws_relay.go).        *)
THEOREM NoSocketLeaked == Spec => []OneSocket
<1>1. Init => SocketInv
  BY DEF Init, SocketInv, OneSocket, NoConn
<1>2. TypeOK /\ SocketInv /\ [Next]_vars => SocketInv'
  BY SocketNext
<1>3. SocketInv => OneSocket
  BY DEF SocketInv
<1> QED
  BY <1>1, <1>2, <1>3, TypeCorrect, PTL DEF Spec

-----------------------------------------------------------------------------
(* What arrives in a call's channel.                                       *)

Asked(k) == k \in wire /\ received[k] > 0

(* Whatever a caller finds in its channel, the end marker included, comes  *)
(* from a message of the worker about this call, read after the request    *)
(* went out: no clean-up, late frame or second session makes up an answer. *)
DataIsAnswer == \A k \in Call : call[k].buf # <<>> => Asked(k)

(* So does what the reader has in hand. *)
AnswerInv ==
  /\ DataIsAnswer
  /\ reader.at \in {"deliver", "complete"} => reader.call \in Call /\ Asked(reader.call)

HandsOver(k) == reader.at \in {"deliver", "complete"} /\ reader.call = k

LEMMA TerminateFills ==
  ASSUME CallsTyped, NEW k \in Call, NEW why, Terminate(k, why)
  PROVE  /\ \A j \in Call \ {k} : call'[j] = call[j]
         /\ why # "complete" => call'[k].buf = call[k].buf
  BY DEF CallsTyped, CallState, Terminate, Terminated

(* Only the reader puts something into a channel. *)
LEMMA ChannelStep ==
  ASSUME TypeOK, [Next]_vars, NEW j \in Call, call'[j].buf # <<>>
  PROVE  call[j].buf # <<>> \/ HandsOver(j)
<1>0. CallsTyped /\ LinkTyped
  BY DEF TypeOK
<1>1. CASE call'[j].buf = call[j].buf
  BY <1>1
<1>a1. ASSUME NEW k \in Call, FinishRemove(k) PROVE call'[j].buf = call[j].buf
  BY <1>0, <1>a1 DEF FinishRemove, CallsTyped, CallState
<1>a2. ASSUME NEW k \in Call, FinishCount(k) PROVE call'[j].buf = call[j].buf
  BY <1>0, <1>a2 DEF FinishCount, CallsTyped, CallState
<1>a3. ASSUME NEW k \in Call, Register(k) PROVE call'[j].buf = call[j].buf
  BY <1>0, <1>a3 DEF Register, CallsTyped, CallState
<1>a4. ASSUME NEW k \in Call, RegisterBlocked(k) PROVE call'[j].buf = call[j].buf
  BY <1>0, <1>a4 DEF RegisterBlocked, CallsTyped, CallState
<1>a5. ASSUME NEW k \in Call, RegisterRejected(k) PROVE call'[j].buf = call[j].buf
  BY <1>0, <1>a5 DEF RegisterRejected, CallsTyped, CallState
<1>a6. ASSUME NEW k \in Call, CheckConnected(k) PROVE call'[j].buf = call[j].buf
  BY <1>0, <1>a6 DEF CheckConnected, CallsTyped, CallState
<1>a7. ASSUME NEW k \in Call, EnqueueRelay(k) PROVE call'[j].buf = call[j].buf
  BY <1>0, <1>a7 DEF EnqueueRelay, CallsTyped, CallState
<1>a8. ASSUME NEW k \in Call, EnqueueError(k) PROVE call'[j].buf = call[j].buf
  BY <1>0, <1>a8 DEF EnqueueError, CallsTyped, CallState
<1>a9. ASSUME NEW k \in Call, SendFailed(k) PROVE call'[j].buf = call[j].buf
  BY <1>0, <1>a9 DEF SendFailed, CallsTyped, CallState
<1>a10. ASSUME NEW k \in Call, StreamReturns(k) PROVE call'[j].buf = call[j].buf
  BY <1>0, <1>a10 DEF StreamReturns, CallsTyped, CallState
<1>a11. ASSUME NEW k \in Call, CtxEnds(k) PROVE call'[j].buf = call[j].buf
  BY <1>0, <1>a11 DEF CtxEnds, CallsTyped, CallState
<1>a12. ASSUME NEW k \in Call, ConsumeEnd(k) \/ WriteReturns(k) PROVE call'[j].buf = call[j].buf
  BY <1>0, <1>a12, HandlerMoves
<1>6. ASSUME NEW k \in Call, Terminate(k, "fail") PROVE call'[j].buf = call[j].buf
  BY <1>0, <1>6, TerminateFills
<1>7. ASSUME NEW k \in Call, ConsumeEvent(k) PROVE call[j].buf # <<>>
  <2>1. k # j => call'[j] = call[j]
    BY <1>0, <1>7 DEF ConsumeEvent, Writes, Returned, CallsTyped, CallState
  <2>2. call[k].buf # <<>>
    BY <1>7 DEF ConsumeEvent
  <2> QED
    BY <2>1, <2>2
<1>8. ASSUME NEW k \in Call, Deliver(k) PROVE call[j].buf # <<>> \/ HandsOver(j)
  <2>1. k # j => call'[j] = call[j]
    BY <1>0, <1>8 DEF Deliver, CallsTyped
  <2>2. reader.at = "deliver" /\ reader.call = k
    BY <1>8 DEF Deliver
  <2> QED
    BY <2>1, <2>2 DEF HandsOver
<1>9. ASSUME NEW k \in Call, ReaderTerminate(k) PROVE call[j].buf # <<>> \/ HandsOver(j)
  <2>1. reader.call = k /\ (call' = call \/ Terminate(k, reader.at))
    BY <1>9 DEF ReaderTerminate
  <2>2. CASE call' = call
    BY <2>2
  <2>3. CASE Terminate(k, reader.at)
    BY <1>0, <2>1, <2>3, TerminateFills DEF HandsOver
  <2> QED
    BY <2>1, <2>2, <2>3
<1>10. CASE (\E s \in Session : WriterFail(s)) \/ CleanupFail
  <2>1. \E k \in Call : UNCHANGED call \/ Terminate(k, "fail")
    BY <1>0, <1>10 DEF WriterFail, CleanupFail, LinkTyped
  <2> QED
    BY <2>1, <1>6
<1>11. ASSUME NEW k \in Call, SendFail(k) \/ WatchCtx(k) PROVE call'[j].buf = call[j].buf
  BY <1>6, <1>11 DEF SendFail, WatchCtx
<1>12. CASE call' = call
  BY <1>12
<1> QED
  BY <1>1, <1>a1, <1>a2, <1>a3, <1>a4, <1>a5, <1>a6, <1>a7, <1>a8, <1>a9, <1>a10, <1>a11, <1>a12,
     <1>7, <1>8, <1>9, <1>10, <1>11, <1>12, CallsAlone
     DEF Next, CallStep, HandlerWorks, Finish, WriterStep, ReaderWorks

(* What was asked and answered stays so. *)
LEMMA AskedStays ==
  ASSUME TypeOK, [Next]_vars, NEW k \in Call, Asked(k)
  PROVE  Asked(k)'
<1>1. received \in [Call -> 0 .. MaxMsgs] /\ MaxMsgs \in Nat /\ wire \subseteq Call
  BY RelayLinkAssumption DEF TypeOK, HubTyped
<1>2. CASE UNCHANGED <<wire, received>>
  BY <1>2 DEF Asked
<1>3. ASSUME NEW s \in Session, WriteFrame(s) PROVE Asked(k)'
  BY <1>3 DEF WriteFrame, Asked
<1>4. ASSUME NEW i \in Call, NEW m \in {"chunk", "final", "error"}, Receive(i, m) PROVE Asked(k)'
  BY <1>1, <1>4 DEF Receive, Asked
<1> QED
  BY <1>2, <1>3, <1>4, LinkAlone
     DEF Next, WriterStep, ReaderWorks, peerVars, vars, DialOk, Redial, WriterStart, WriteError,
         WriterFail, WriterExit, EchoPing, HandleRelayRegister, SetWorkerMaxInFlight, ReaderStart,
         Deliver, ReaderTerminate, CleanupSnapshot, CleanupFail, CleanupEnd, ReaderLeaves

(* The reader takes a message in hand when it has read it. *)
LEMMA ReaderHand ==
  ASSUME TypeOK, [Next]_vars, reader'.at \in {"deliver", "complete"}
  PROVE  \/ reader.at \in {"deliver", "complete"} /\ reader'.call = reader.call
         \/ (reader.call \in Call /\ Asked(reader.call))'
<1> DEFINE Same == reader.at \in {"deliver", "complete"} /\ reader'.call = reader.call
<1>0. LinkTyped
  BY DEF TypeOK
<1>1. CASE reader' = reader
  BY <1>1
<1>2. ASSUME NEW k \in Call, NEW m \in {"chunk", "final", "error"}, Receive(k, m)
      PROVE  Same \/ (reader.call \in Call /\ Asked(reader.call))'
  <2>1. received \in [Call -> 0 .. MaxMsgs] /\ MaxMsgs \in Nat
    BY RelayLinkAssumption DEF TypeOK, HubTyped
  <2>2. k \in wire' /\ received'[k] > 0
    BY <1>2, <2>1 DEF Receive
  <2>3. reader' = reader \/ reader'.call = k
    BY <1>0, <1>2 DEF Receive, LinkTyped
  <2> QED
    BY <1>1, <2>2, <2>3 DEF Asked
<1>3. ASSUME NEW k \in Call, Deliver(k) PROVE Same
  <2>1. reader' \in {AfterDeliver, [reader EXCEPT !.at = "fail"], [reader EXCEPT !.at = "crashed"]}
    BY <1>3 DEF Deliver
  <2>2. reader.at = "deliver"
    BY <1>3 DEF Deliver
  <2> QED
    BY <1>0, <2>1, <2>2 DEF AfterDeliver, IdleReader, LinkTyped
<1>4. ASSUME NEW k \in Call, ReaderTerminate(k) PROVE Same
  BY <1>4 DEF ReaderTerminate, IdleReader
<1>5. CASE DialOk \/ ReaderStart \/ EchoPing \/ HandleRelayRegister \/ CleanupSnapshot \/ CleanupEnd
           \/ ReaderLeaves
  BY <1>0, <1>5 DEF DialOk, ReaderStart, EchoPing, HandleRelayRegister, CleanupSnapshot, CleanupEnd,
     ReaderLeaves, ReaderAt, IdleReader, LinkTyped
<1>6. CASE CleanupFail
  <2>1. \/ reader' = reader
        \/ \E k \in Call : reader' = [reader EXCEPT !.todo = @ \ {k}]
    BY <1>0, <1>6 DEF CleanupFail, LinkTyped
  <2> QED
    BY <1>0, <2>1 DEF LinkTyped
<1> QED
  BY <1>1, <1>2, <1>3, <1>4, <1>5, <1>6, LinkAlone
     DEF Next, WriterStep, ReaderWorks, vars, Redial, WriterStart, WriteFrame, WriteError,
         WriterFail, WriterExit, SetWorkerMaxInFlight

(* A caller is never handed data, a result or an end of stream that its    *)
(* worker did not send, over any number of dropped and redialled sessions. *)
THEOREM NothingMadeUp == Spec => []DataIsAnswer
<1>1. Init => AnswerInv
  BY DEF Init, AnswerInv, DataIsAnswer, IdleReader
<1>2. TypeOK /\ AnswerInv /\ [Next]_vars => AnswerInv'
  <2> SUFFICES ASSUME TypeOK, AnswerInv, [Next]_vars PROVE AnswerInv'
    OBVIOUS
  <2>1. \A k \in Call : call'[k].buf # <<>> => Asked(k)'
    BY ChannelStep, AskedStays DEF AnswerInv, DataIsAnswer, HandsOver
  <2>2. reader'.at \in {"deliver", "complete"} => (reader.call \in Call /\ Asked(reader.call))'
    BY ReaderHand, AskedStays DEF AnswerInv
  <2> QED
    BY <2>1, <2>2 DEF AnswerInv, DataIsAnswer
<1>3. AnswerInv => DataIsAnswer
  BY DEF AnswerInv
<1> QED
  BY <1>1, <1>2, <1>3, TypeCorrect, PTL DEF Spec

=============================================================================
