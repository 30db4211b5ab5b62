----------------------------- MODULE RelayLink ------------------------------
(***************************************************************************)
(* The router's link to the relay (pkg/router/ws_relay.go) and the calls   *)
(* relayWorkerClient makes over it to one worker (ws_stats.go).            *)
(*                                                                         *)
(* Goroutines: runRelay, which dials one session after the other; per      *)
(* session a reader loop and a writer loop, which read their connection    *)
(* from the shared relayConn field when they start; per call the HTTP      *)
(* handler and the watcher of its context.  Only one reader is alive at a  *)
(* time (the next session is dialled when the reader has closed done), but *)
(* writers of two sessions may overlap, and all share relaySendCh.         *)
(* A panic of the reader ends the router: no recover is above it.          *)
(***************************************************************************)
EXTENDS Integers, Sequences, FiniteSets

CONSTANTS
  Call,          \* the calls made to the worker through the relay client
  StreamCall,    \* those made by Stream
  Caps,          \* the values maxInFlightFor may return for the worker
  DefaultCap,    \* the one it returns until the worker reports its own
  SendQueueSize, \* capacity of relaySendCh
  DataBuf,       \* capacity of a call's chunkCh or respCh
  MaxDials,      \* bound: sessions dialled
  MaxMsgs,       \* bound: messages the relay delivers per call
  MaxEvents      \* bound: calls, sessions, registers, pings and capability
                 \* messages together

Ctl == "control frame"
NoCall == "no call"
NoConn == 0
Session == 1..MaxDials

ASSUME RelayLinkAssumption ==
  /\ IsFiniteSet(Call) /\ Ctl \notin Call /\ NoCall \notin Call
  /\ StreamCall \subseteq Call
  /\ Caps \subseteq Nat \ {0} /\ DefaultCap \in Caps
  /\ SendQueueSize \in Nat \ {0} /\ DataBuf \in Nat \ {0}
  /\ MaxDials \in Nat /\ MaxMsgs \in Nat /\ MaxEvents \in Nat

VARIABLES
  runner,     \* runRelay: "dial" or "wait"
  session,    \* sessions dialled so far
  relayConn,  \* h.relayConn: the session published, NoConn for nil
  open,       \* sessions whose socket this router has not closed
  done,       \* sessions whose done channel is closed
  reader,     \* the reader loop of the latest session
  writer,     \* per session, its writer loop, the connection it captured
              \* and the calls it has yet to fail
  sendCh,     \* h.relaySendCh
  pending,    \* h.relayPending
  inFlight,   \* h.relayInFlight of the worker
  cap,        \* h.maxInFlightFor(worker)
  conns,      \* h.conns has a synthetic connection of the worker
  call,       \* per call: handler, context, progress of closeOnce, channel
  wire,       \* calls whose request went out on an open socket
  received,   \* messages read for a call
  events      \* calls made, sessions dialled, control messages read

vars == <<runner, session, relayConn, open, done, reader, writer, sendCh,
          pending, inFlight, cap, conns, call, wire, received, events>>

linkVars == <<runner, session, relayConn, open, done>>
hubVars  == <<pending, inFlight, cap, conns>>
peerVars == <<wire, received>>

IsStream(k) == k \in StreamCall
IdleReader == [at |-> "reading", call |-> NoCall, msg |-> "none", todo |-> {}]
(* The environment's events are bounded. *)
Event == events < MaxEvents /\ events' = events + 1
ReaderAt(x) == reader' = [reader EXCEPT !.at = x]
(* finish has closed pc.doneCh and the data channel. *)
Over(k) == call[k].fin = "closed"

Init ==
  /\ runner = "dial" /\ session = 0 /\ relayConn = NoConn
  /\ open = {} /\ done = {}
  /\ reader = [IdleReader EXCEPT !.at = "exited"]
  /\ writer = [s \in Session |-> [at |-> "none", conn |-> NoConn, todo |-> {}]]
  /\ sendCh = <<>>
  /\ pending = {} /\ inFlight = 0 /\ cap = DefaultCap /\ conns \in BOOLEAN
  /\ call = [k \in Call |-> [step |-> "idle", ctx |-> FALSE, fin |-> "open",
                             buf |-> <<>>]]
  /\ wire = {} /\ received = [k \in Call |-> 0] /\ events = 0

-----------------------------------------------------------------------------
(* closeOnce of a pendingCall and finish for a call kept by the hub.  What *)
(* errCh carries is left out: whoever reads it returns, as does whoever    *)
(* finds the data channel closed a moment later.                           *)

Terminated(k, why) ==
  [call EXCEPT ![k].fin = "claimed",
               ![k].buf = IF why = "complete" /\ IsStream(k) /\ Len(@) < DataBuf
                            THEN Append(@, "done") ELSE @]

Terminate(k, why) == call[k].fin = "open" /\ call' = Terminated(k, why)

(* A handler waits for h.mu inside registerRelayCall and so keeps           *)
(* relayPendingMu.                                                          *)
Locked == \E k \in Call : call[k].step = "blocked"

(* The relayPending entry goes under relayPendingMu... *)
FinishRemove(k) ==
  /\ call[k].fin = "claimed" /\ ~Locked
  /\ call' = [call EXCEPT ![k].fin = "removed"]
  /\ pending' = pending \ {k}
  /\ UNCHANGED <<linkVars, reader, writer, sendCh, inFlight, cap, conns, peerVars, events>>

(* ... and the count in a second critical section, decrementRelayInFlight; *)
(* closing the channels right after it opens nothing a select could not    *)
(* have met before.                                                        *)
FinishCount(k) ==
  /\ call[k].fin = "removed" /\ ~Locked
  /\ call' = [call EXCEPT ![k].fin = "closed"]
  /\ inFlight' = IF inFlight <= 0 THEN inFlight ELSE inFlight - 1
  /\ UNCHANGED <<linkVars, reader, writer, sendCh, pending, cap, conns, peerVars, events>>

Finish(k) == FinishRemove(k) \/ FinishCount(k)

-----------------------------------------------------------------------------
(* relayWorkerClient: Complete, LoadModel, Stream.                         *)

(* registerRelayCall / registerRelayStream: cap check, count and insertion *)
(* in one critical section of relayPendingMu, which reads the cap under    *)
(* h.mu.                                                                   *)
Register(k) ==
  /\ call[k].step = "idle" /\ reader.at # "stuck" /\ Event
  /\ inFlight < cap
  /\ inFlight' = inFlight + 1
  /\ pending' = pending \cup {k}
  /\ call' = [call EXCEPT ![k].step = "registered"]
  /\ UNCHANGED <<linkVars, reader, writer, sendCh, cap, conns, peerVars>>

(* The reader holds h.mu for ever: maxInFlightFor does not return. *)
RegisterBlocked(k) ==
  /\ call[k].step = "idle" /\ reader.at = "stuck" /\ ~Locked /\ Event
  /\ call' = [call EXCEPT ![k].step = "blocked"]
  /\ UNCHANGED <<linkVars, reader, writer, sendCh, hubVars, peerVars>>

(* errRateLimited: returned by Complete and LoadModel, put on errCh with   *)
(* chunkCh closed by Stream.                                               *)
RegisterRejected(k) ==
  /\ call[k].step = "idle" /\ reader.at # "stuck" /\ Event
  /\ inFlight >= cap
  /\ call' = [call EXCEPT
       ![k].fin = "closed",
       ![k].step = IF IsStream(k) THEN "waiting" ELSE "returned"]
  /\ UNCHANGED <<linkVars, reader, writer, sendCh, hubVars, peerVars>>

(* enqueueRelay: relayConnected is read before the non-blocking send, so   *)
(* the frame may go into the queue of a link that is down by now.          *)
CheckConnected(k) ==
  /\ call[k].step = "registered"
  /\ call' = [call EXCEPT ![k].step =
                IF relayConn = NoConn THEN "failing" ELSE "enqueue"]
  /\ UNCHANGED <<linkVars, reader, writer, sendCh, hubVars, peerVars, events>>

EnqueueRelay(k) ==
  /\ call[k].step = "enqueue"
  /\ Len(sendCh) < SendQueueSize
  /\ sendCh' = Append(sendCh, k)
  /\ call' = [call EXCEPT ![k].step = IF IsStream(k) THEN "sent" ELSE "waiting"]
  /\ UNCHANGED <<linkVars, reader, writer, hubVars, peerVars, events>>

EnqueueError(k) ==
  /\ call[k].step = "enqueue"
  /\ call[k].ctx \/ Len(sendCh) >= SendQueueSize
  /\ call' = [call EXCEPT ![k].step = "failing"]
  /\ UNCHANGED <<linkVars, reader, writer, sendCh, hubVars, peerVars, events>>

SendFail(k) ==
  /\ call[k].step = "failing"
  /\ Terminate(k, "fail")
  /\ UNCHANGED <<linkVars, reader, writer, sendCh, hubVars, peerVars, events>>

SendFailed(k) ==
  /\ call[k].step = "failing" /\ Over(k)
  /\ call' = [call EXCEPT
       ![k].ctx = TRUE,
       ![k].step = IF IsStream(k) THEN "waiting" ELSE "returned"]
  /\ UNCHANGED <<linkVars, reader, writer, sendCh, hubVars, peerVars, events>>

(* Stream returns its channels, and its deferred cancel ends the context   *)
(* its own watcher looks at.                                               *)
StreamReturns(k) ==
  /\ call[k].step = "sent"
  /\ call' = [call EXCEPT ![k].step = "waiting", ![k].ctx = TRUE]
  /\ UNCHANGED <<linkVars, reader, writer, sendCh, hubVars, peerVars, events>>

(* maxRelayCallTimeout, the retry budget or the client's hang-up. *)
CtxEnds(k) ==
  /\ call[k].step \notin {"idle", "blocked"} /\ ~call[k].ctx
  /\ call' = [call EXCEPT ![k].ctx = TRUE]
  /\ UNCHANGED <<linkVars, reader, writer, sendCh, hubVars, peerVars, events>>

(* Mutant: the watcher goes away with the handler. *)
WatchCtxWaiting(k) ==
  /\ call[k].step \in {"sent", "waiting", "writing", "closing"}
  /\ call[k].ctx
  /\ Terminate(k, "fail")
  /\ UNCHANGED <<linkVars, reader, writer, sendCh, hubVars, peerVars, events>>

WatchCtx(k) ==
  /\ call[k].step \in {"sent", "waiting", "writing", "closing", "returned"}
  /\ call[k].ctx
  /\ Terminate(k, "fail")
  /\ UNCHANGED <<linkVars, reader, writer, sendCh, hubVars, peerVars, events>>

Returned(k) == [call EXCEPT ![k].step = "returned", ![k].ctx = TRUE]

(* proxyStream is in a write to its client, of a chunk or of what ends the *)
(* stream.                                                                 *)
Writes(k, x) == [call EXCEPT ![k].step = x]

(* awaitResponse, the select of LoadModel, or proxyStream. *)
ConsumeEvent(k) ==
  /\ call[k].step = "waiting" /\ call[k].buf # <<>>
  /\ call' = [IF ~IsStream(k) THEN Returned(k)
              ELSE Writes(k, IF Head(call[k].buf) = "data" THEN "writing" ELSE "closing")
                EXCEPT ![k].buf = Tail(@)]
  /\ UNCHANGED <<linkVars, reader, writer, sendCh, hubVars, peerVars, events>>

(* The context or a stream's idle timer ends, or the closed channel is     *)
(* drained; a stream is closed with [DONE], unless its client is gone or   *)
(* has seen no chunk.                                                      *)
ConsumeEnd(k) ==
  /\ call[k].step = "waiting"
  /\ call[k].ctx \/ IsStream(k) \/ (Over(k) /\ call[k].buf = <<>>)
  /\ call' = Returned(k) \/ (IsStream(k) /\ call' = Writes(k, "closing"))
  /\ UNCHANGED <<linkVars, reader, writer, sendCh, hubVars, peerVars, events>>

(* The client has read what was written, or is gone.  No server sets a     *)
(* WriteTimeout, and the idle timer is not looked at meanwhile.            *)
WriteReturns(k) ==
  /\ \/ call[k].step = "writing" /\ call' = Writes(k, "waiting")
     \/ call[k].step = "closing" /\ call' = Returned(k)
  /\ UNCHANGED <<linkVars, reader, writer, sendCh, hubVars, peerVars, events>>

-----------------------------------------------------------------------------
(* runRelay and DialRelay.                                                 *)

(* router_ready was written; the connection and a fresh done channel are   *)
(* published and both loops are started.                                   *)
DialOk ==
  /\ runner = "dial" /\ session < MaxDials /\ Event
  /\ session' = session + 1
  /\ relayConn' = session + 1
  /\ open' = open \cup {session + 1}
  /\ reader' = [IdleReader EXCEPT !.at = "spawned"]
  /\ writer' = [writer EXCEPT ![session + 1].at = "spawned"]
  /\ runner' = "wait"
  /\ UNCHANGED <<done, sendCh, hubVars, call, peerVars>>

Redial ==
  /\ runner = "wait" /\ session \in done
  /\ runner' = "dial"
  /\ UNCHANGED <<session, relayConn, open, done, reader, writer, sendCh,
                 hubVars, call, peerVars, events>>

-----------------------------------------------------------------------------
(* relayWriterLoop of session s.                                           *)

WriterAt(s, x) == writer' = [writer EXCEPT ![s].at = x]

(* The deferred clean-up of both loops: unpublish the connection if it is  *)
(* still the published one, close its socket.                              *)
Release(c) ==
  /\ relayConn' = IF relayConn = c THEN NoConn ELSE relayConn
  /\ open' = open \ {c}

(* The loop owns whatever is published when it first runs. *)
WriterStart(s) ==
  /\ writer[s].at = "spawned"
  /\ writer' = [writer EXCEPT ![s].conn = relayConn,
                              ![s].at = IF relayConn = NoConn THEN "exited" ELSE "running"]
  /\ UNCHANGED <<linkVars, reader, sendCh, hubVars, call, peerVars, events>>

WriteFrame(s) ==
  /\ writer[s].at = "running" /\ sendCh # <<>>
  /\ writer[s].conn \in open
  /\ sendCh' = Tail(sendCh)
  /\ wire' = IF Head(sendCh) = Ctl THEN wire ELSE wire \cup {Head(sendCh)}
  /\ UNCHANGED <<linkVars, reader, writer, hubVars, call, received, events>>

(* The write fails: failAllRelayPending takes its snapshot. *)
WriteError(s) ==
  /\ writer[s].at = "running" /\ sendCh # <<>> /\ ~Locked
  /\ sendCh' = Tail(sendCh)
  /\ writer' = [writer EXCEPT ![s].at = "failing", ![s].todo = pending]
  /\ UNCHANGED <<linkVars, reader, hubVars, call, peerVars, events>>

WriterFail(s) ==
  \E k \in writer[s].todo :
    /\ IF Over(k) THEN /\ writer' = [writer EXCEPT ![s].todo = @ \ {k}]
                       /\ UNCHANGED call
                  ELSE Terminate(k, "fail") /\ UNCHANGED writer
    /\ UNCHANGED <<linkVars, reader, sendCh, hubVars, peerVars, events>>

WriterExit(s) ==
  /\ \/ writer[s].at = "failing" /\ writer[s].todo = {}
     \/ writer[s].at = "running" /\ s \in done
  /\ WriterAt(s, "exited")
  /\ Release(writer[s].conn)
  /\ UNCHANGED <<runner, session, done, reader, sendCh, hubVars, call, peerVars, events>>

WriterStep(s) ==
  WriterStart(s) \/ WriteFrame(s) \/ WriteError(s) \/ WriterFail(s) \/ WriterExit(s)

-----------------------------------------------------------------------------
(* relayReaderLoop.                                                        *)

(* A nil connection is dereferenced by SetReadDeadline. *)
ReaderStart ==
  /\ reader.at = "spawned"
  /\ ReaderAt(IF relayConn = NoConn THEN "crashed" ELSE "reading")
  /\ UNCHANGED <<linkVars, writer, sendCh, hubVars, call, peerVars, events>>

(* ReceiveJSON and routeRelayResponse: the call is looked up under         *)
(* relayPendingMu and handled after it.  A message of no pending call goes *)
(* on to the synthetic connection's dispatch, which knows none of these.   *)
Receive(k, m) ==
  /\ reader.at = "reading" /\ session \in open
  /\ k \in wire /\ received[k] < MaxMsgs
  /\ received' = [received EXCEPT ![k] = @ + 1]
  /\ reader' =
       IF k \notin pending \/ (m = "chunk" /\ ~IsStream(k))
         THEN reader
         ELSE [reader EXCEPT !.at = IF m = "error" THEN "fail" ELSE "deliver",
                             !.call = k, !.msg = m]
  /\ UNCHANGED <<linkVars, writer, sendCh, hubVars, call, wire, events>>

AfterDeliver == IF reader.msg = "chunk" THEN IdleReader
                                        ELSE [reader EXCEPT !.at = "complete"]

(* The select of the pending handlers; a send on the closed channel of a   *)
(* call that is over panics.                                               *)
Deliver(k) ==
  /\ reader.at = "deliver" /\ reader.call = k
  /\ \/ /\ ~Over(k) /\ Len(call[k].buf) < DataBuf
        /\ call' = [call EXCEPT ![k].buf = Append(@, IF IsStream(k) THEN "data" ELSE "ok")]
        /\ reader' = AfterDeliver
     \/ /\ ~Over(k) /\ Len(call[k].buf) >= DataBuf
        /\ reader' = IF IsStream(k) THEN AfterDeliver ELSE [reader EXCEPT !.at = "fail"]
        /\ UNCHANGED call
     \/ /\ Over(k)
        /\ reader' \in {AfterDeliver, [reader EXCEPT !.at = "crashed"]}
        /\ UNCHANGED call
  /\ UNCHANGED <<linkVars, writer, sendCh, hubVars, peerVars, events>>

(* completeStream, completeCall or fail, and closeOnce.Do returning. *)
ReaderTerminate(k) ==
  /\ reader.at \in {"complete", "fail"} /\ reader.call = k
  /\ IF Over(k) THEN reader' = IdleReader /\ UNCHANGED call
                ELSE Terminate(k, reader.at) /\ UNCHANGED reader
  /\ UNCHANGED <<linkVars, writer, sendCh, hubVars, peerVars, events>>

ReadOther ==
  /\ reader.at = "reading" /\ session \in open
  /\ Event

(* relayConnected and the non-blocking send of enqueueRelay and enqueue. *)
Queued == IF relayConn # NoConn /\ Len(sendCh) < SendQueueSize
            THEN Append(sendCh, Ctl) ELSE sendCh

(* The ping echo; an echo that cannot be queued ends the loop. *)
EchoPing ==
  /\ ReadOther
  /\ sendCh' = Queued
  /\ ReaderAt(IF Queued = sendCh THEN "leaving" ELSE "reading")
  /\ UNCHANGED <<linkVars, writer, hubVars, call, wire, received>>

(* handleRelayRegister under h.mu.  When the worker has a connection       *)
(* already, enqueueClose -> enqueue locks h.mu again while the relay is    *)
(* connected; otherwise the close frame goes to the old connection.  The   *)
(* welcome goes through relaySendCh, or to a queue nobody reads.           *)
HandleRelayRegister ==
  /\ ReadOther
  /\ IF conns /\ relayConn # NoConn
       THEN ReaderAt("stuck") /\ UNCHANGED <<conns, sendCh>>
       ELSE conns' = TRUE /\ sendCh' = Queued /\ UNCHANGED reader
  /\ UNCHANGED <<linkVars, writer, pending, inFlight, cap, call, wire, received>>

(* A capabilities message is dispatched to the synthetic connection. *)
SetWorkerMaxInFlight(n) ==
  /\ ReadOther
  /\ conns /\ cap' = n
  /\ UNCHANGED <<linkVars, reader, writer, sendCh, pending, inFlight, conns, call,
                 wire, received>>

(* The deferred clean-up: at any time while reading the connection may     *)
(* fail, be closed by the writer or run into its deadline.                 *)
ReaderLeaves ==
  /\ reader.at \in {"reading", "leaving"}
  /\ Release(session)
  /\ ReaderAt("cleanup")
  /\ UNCHANGED <<runner, session, done, writer, sendCh, hubVars, call, peerVars, events>>

CleanupSnapshot ==
  /\ reader.at = "cleanup"
  /\ reader' = [reader EXCEPT !.at = "failing", !.todo = pending]
  /\ UNCHANGED <<linkVars, writer, sendCh, hubVars, call, peerVars, events>>

CleanupFail ==
  \E k \in reader.todo :
    /\ IF Over(k) THEN /\ reader' = [reader EXCEPT !.todo = @ \ {k}]
                       /\ UNCHANGED call
                  ELSE Terminate(k, "fail") /\ UNCHANGED reader
    /\ UNCHANGED <<linkVars, writer, sendCh, hubVars, peerVars, events>>

(* Mutant: a dropped link resets the in-flight count. *)
CleanupEndResets ==
  /\ reader.at = "failing" /\ reader.todo = {}
  /\ ReaderAt("exited")
  /\ done' = done \cup {session}
  /\ inFlight' = 0
  /\ UNCHANGED <<runner, session, relayConn, open, writer, sendCh, pending,
                 cap, conns, call, peerVars, events>>

(* Mutant: the loop returns without closing done. *)
CleanupEndSilent ==
  /\ reader.at = "failing" /\ reader.todo = {}
  /\ ReaderAt("exited")
  /\ UNCHANGED <<linkVars, writer, sendCh, hubVars, call, peerVars, events>>

(* cleanupRelayMetrics drops entries that are zero, which changes no count *)
(* the hub reads; then done is closed.                                     *)
CleanupEnd ==
  /\ reader.at = "failing" /\ reader.todo = {}
  /\ ReaderAt("exited")
  /\ done' = done \cup {session}
  /\ UNCHANGED <<runner, session, relayConn, open, writer, sendCh, hubVars,
                 call, peerVars, events>>

-----------------------------------------------------------------------------

(* What the HTTP handler of a registered call does. *)
HandlerWorks(k) ==
  \/ CheckConnected(k) \/ EnqueueRelay(k) \/ EnqueueError(k) \/ SendFail(k)
  \/ SendFailed(k) \/ StreamReturns(k) \/ ConsumeEvent(k) \/ ConsumeEnd(k)

CallStep(k) ==
  \/ Register(k) \/ RegisterRejected(k) \/ RegisterBlocked(k) \/ HandlerWorks(k)
  \/ WriteReturns(k) \/ CtxEnds(k) \/ WatchCtx(k) \/ Finish(k)

(* What the reader does once it has something in hand. *)
ReaderWorks ==
  \/ ReaderStart
  \/ (\E k \in Call : Deliver(k) \/ ReaderTerminate(k))
  \/ CleanupSnapshot \/ CleanupFail \/ CleanupEnd

Next ==
  /\ reader.at # "crashed"
  /\ \/ \E k \in Call : CallStep(k)
     \/ DialOk \/ Redial
     \/ \E s \in Session : WriterStep(s)
     \/ \E k \in Call, m \in {"chunk", "final", "error"} : Receive(k, m)
     \/ EchoPing \/ HandleRelayRegister \/ \E n \in Caps : SetWorkerMaxInFlight(n)
     \/ ReaderWorks \/ ReaderLeaves

Spec == Init /\ [][Next]_vars

Alive == reader.at # "crashed"

(* Goroutines that can run do run; a closed socket ends the read; the hard *)
(* cap ends a call's context and the idle timer a stream's wait.  Nothing  *)
(* is assumed of the relay, of dialling or of the clients, whose reading   *)
(* WriteReturns waits for.                                                 *)
Fairness ==
  /\ \A k \in Call :
       /\ WF_vars(Alive /\ HandlerWorks(k))
       /\ WF_vars(Alive /\ CtxEnds(k))
       /\ WF_vars(Alive /\ WatchCtx(k))
       /\ WF_vars(Alive /\ Finish(k))
  /\ WF_vars(Alive /\ ReaderWorks)
  /\ WF_vars(Alive /\ (reader.at = "leaving" \/ session \notin open) /\ ReaderLeaves)
  /\ \A s \in Session : WF_vars(Alive /\ (WriterFail(s) \/ WriterExit(s)))
  /\ WF_vars(Alive /\ Redial)

FairSpec == Spec /\ Fairness

-----------------------------------------------------------------------------
(* Properties.                                                             *)

(* A call's handler, its context, how far finish got, its data channel. *)
Chunk == {"data", "done", "ok"}
CallState == [step : {"idle", "blocked", "registered", "enqueue", "failing", "sent",
                      "waiting", "writing", "closing", "returned"},
              ctx : BOOLEAN, fin : {"open", "claimed", "removed", "closed"},
              buf : Seq(Chunk)]

LinkTyped ==
  /\ runner \in {"dial", "wait"}
  /\ session \in 0..MaxDials /\ relayConn \in 0..MaxDials
  /\ open \subseteq Session /\ done \subseteq Session
  /\ reader \in [at : {"spawned", "reading", "deliver", "complete", "fail", "stuck",
                       "leaving", "cleanup", "failing", "exited", "crashed"},
                 call : Call \cup {NoCall},
                 msg : {"none", "chunk", "final", "error"}, todo : SUBSET Call]
  /\ writer \in [Session -> [at : {"none", "spawned", "running", "failing", "exited"},
                             conn : 0..MaxDials, todo : SUBSET Call]]
  /\ session = 0 => reader.at = "exited"

HubTyped ==
  /\ sendCh \in Seq(Call \cup {Ctl}) /\ Len(sendCh) <= SendQueueSize
  /\ pending \subseteq Call /\ inFlight \in Nat /\ cap \in Caps /\ conns \in BOOLEAN
  /\ wire \subseteq Call /\ received \in [Call -> 0..MaxMsgs] /\ events \in 0..MaxEvents

CallsTyped ==
  /\ call \in [Call -> CallState]
  /\ \A k \in Call : Len(call[k].buf) <= DataBuf

(* The type invariant: the queue and the data channels keep their          *)
(* capacity, and a count is never negative.                                *)
TypeOK == LinkTyped /\ HubTyped /\ CallsTyped

started == {k \in Call : call[k].step \notin {"idle", "blocked"}}
Counted == {k \in started : call[k].fin \in {"open", "claimed", "removed"}}

Contract == INSTANCE InFlightContract WITH
              Call <- Call, Caps <- Caps, cap <- cap,
              inFlight <- Counted, over <- started \ Counted

(* The per-worker counter is raised where a call is registered and lowered *)
(* by whichever goroutine ends it, in another critical section than the    *)
(* one that removes the call from the map; sessions come and go meanwhile. *)
(* It still admits exactly as many calls as the cap allows, each once: the *)
(* relay keeps the contract of a direct connection.                        *)
ImplementsContract == Contract!Spec

(* A call that is not over can be failed by the session's clean-up: it is  *)
(* in the map, and the counter knows exactly the calls still to be given   *)
(* back.                                                                   *)
CountMatchesCalls ==
  /\ inFlight = Cardinality(Counted)
  /\ \A k \in started : (call[k].fin \in {"open", "claimed"}) <=> (k \in pending)

(* The client of a stream is connected and never reads what is written.    *)
ClientBlocks(k) == [](call[k].step \in {"writing", "closing"})

(* maxRelayCallTimeout: every call returns to its caller and gives its     *)
(* unit of the cap back, although the link may drop before or after the    *)
(* snapshot and frames may be lost.  A stream whose client stops reading   *)
(* gives its unit back and waits for the client; a hub that has locked     *)
(* itself up (see ReRegistrationCompletes) keeps calls.                    *)
EveryRelayCallReturns ==
  \A k \in Call : (call[k].step = "registered")
                    ~> \/ (call[k].step = "returned" \/ ClientBlocks(k)) /\ Over(k)
                       \/ reader.at = "stuck" \/ ~Alive

(* A session that lost its socket is wound up and runRelay notices, unless *)
(* the reader waits for the lock it holds.                                 *)
DroppedLinkIsRedialled ==
  \A s \in Session : (s <= session /\ s \notin open)
      ~> (\/ s \in done /\ (runner # "wait" \/ session > s)
          \/ reader.at = "stuck" \/ ~Alive)

-----------------------------------------------------------------------------
(* What comments of the code say and the code does not do.                 *)

(* ws_relay.go: a newer relay connection of a worker supersedes the old    *)
(* one.                                                                    *)
ReRegistrationCompletes == reader.at # "stuck"

(* ws_relay.go: an old writer loop can never touch a successor's           *)
(* connection.                                                             *)
WriterKeepsToItsSession ==
  \A s \in Session : writer[s].at = "running" => writer[s].conn = s

=============================================================================
