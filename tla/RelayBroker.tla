---------------------------- MODULE RelayBroker -----------------------------
(***************************************************************************)
(* The relay process (cmd/relay/main.go): it accepts the connections of    *)
(* workers and of one router and passes the workers' frames on, buffering  *)
(* them in workerQueue while no router is connected.                       *)
(*                                                                         *)
(* Goroutines: per worker connection and per router connection the handler *)
(* (a "task" below, which registers, flushes the buffer and then reads),   *)
(* and per router connection a writer and a ping loop.  routerMu guards    *)
(* the published connection and its queue, mu the map and the buffer; what *)
(* is read under one lock is used after it.  Frames from the router to the *)
(* workers are written through without touching this state.                *)
(***************************************************************************)
EXTENDS Integers, Sequences, FiniteSets, SequencesExt

CONSTANTS
  WConn,         \* worker connections
  Worker,        \* worker IDs
  WorkerOf,      \* the ID each connection registers
  SendQueueSize, \* wsutil.SendQueueSize: cap of workerQueue and of the queues
  MaxRouters,    \* bound: router connections accepted
  MaxFrames,     \* bound: frames a worker sends after its register
  MaxEvents      \* bound: connections made and lost, worker frames, pings

ASSUME RelayBrokerAssumption ==
  /\ IsFiniteSet(WConn) /\ WorkerOf \in [WConn -> Worker]
  /\ SendQueueSize \in Nat \ {0}
  /\ MaxRouters \in Nat /\ MaxFrames \in Nat /\ MaxEvents \in Nat

None == "none"
Router == 1..MaxRouters
Frame == WConn \X (0..MaxFrames)
Ping == <<"ping", 0>>
RegisterOf(c) == <<c, 0>>

(* Connections of workers and of routers, and pings and frames, differ. *)
ASSUME ConnAssumption ==
  WConn \cap Router = {} /\ None \notin WConn /\ Ping \notin Frame

NoTask == [at |-> "idle", frame |-> Ping, ch |-> 0, items |-> <<>>]

VARIABLES
  workers,   \* r.workers
  queue,     \* r.workerQueue
  link,      \* r.routerConn and r.routerSendCh, 0 for nil
  chan,      \* per router connection, its outbound queue
  writer,    \* per router connection, its writer loop
  sock,      \* router sockets the relay has not closed
  task,      \* the handlers: where they are and what they hold
  delivered, \* per frame, how often it was written to a router
  bounced,   \* frames a full or absent queue refused once
  events     \* how many of those have happened

vars == <<workers, queue, link, chan, writer, sock, task, delivered, bounced, events>>
outVars == <<chan, writer, sock, delivered>>

Proc == WConn \cup Router

Init ==
  /\ workers = [w \in Worker |-> None]
  /\ queue = <<>> /\ link = [conn |-> 0, ch |-> 0]
  /\ chan = [s \in Router |-> <<>>] /\ writer = [s \in Router |-> "none"]
  /\ sock = {} /\ task = [p \in Proc |-> NoTask]
  /\ delivered = [f \in Frame |-> 0] /\ bounced = {} /\ events = 0

(* What the environment does is bounded. *)
Event == events < MaxEvents /\ events' = events + 1
Lost(s) == IF s \in sock THEN Event ELSE UNCHANGED events
Goto(p, x) == task' = [task EXCEPT ![p].at = x, ![p].ch = 0]
IsRegister(f) == f[2] = 0
(* A send on a nil or a full channel takes the select's default. *)
Room(ch) == ch # 0 /\ Len(chan[ch]) < SendQueueSize

-----------------------------------------------------------------------------
(* handleWorker and workerReadLoop.                                        *)

(* The register enters the map and is forwarded like any other frame. *)
HandleWorker(c) ==
  /\ task[c].at = "idle" /\ Event
  /\ workers' = [workers EXCEPT ![WorkerOf[c]] = c]
  /\ task' = [task EXCEPT ![c] = [NoTask EXCEPT !.at = "check", !.frame = RegisterOf(c)]]
  /\ UNCHANGED <<queue, link, bounced, outVars>>

ReadFrame(c) ==
  /\ task[c].at = "read" /\ Event /\ task[c].frame[2] < MaxFrames
  /\ task' = [task EXCEPT ![c].at = "check", ![c].frame = <<c, @[2] + 1>>]
  /\ UNCHANGED <<workers, queue, link, bounced, outVars>>

(* Mutant: the entry outlives its connection. *)
WorkerGoneKeepsEntry(c) ==
  /\ task[c].at = "read" /\ Event
  /\ Goto(c, "gone")
  /\ UNCHANGED <<workers, queue, link, bounced, outVars>>

(* The read fails, or the echo of a heartbeat does.  The entry is deleted  *)
(* whichever connection of the worker it is.                               *)
WorkerGone(c) ==
  /\ task[c].at = "read" /\ Event
  /\ workers' = [workers EXCEPT ![WorkerOf[c]] = None]
  /\ Goto(c, "gone")
  /\ UNCHANGED <<queue, link, bounced, outVars>>

CheckRouter(c) ==
  /\ task[c].at = "check"
  /\ Goto(c, IF link.conn = 0 THEN "buffer" ELSE "enqueue")
  /\ UNCHANGED <<workers, queue, link, bounced, outVars, events>>

(* Mutant: the register is forwarded or buffered and nothing is flushed. *)
AfterSendNoFlush(f) == "read"

(* A register is followed by a flush. *)
AfterSend(f) == IF IsRegister(f) THEN "flush" ELSE "read"

(* What is not sent is buffered by handleWorker and lost by the read loop. *)
Refused(c) ==
  /\ Goto(c, IF IsRegister(task[c].frame) THEN "buffer" ELSE "read")
  /\ bounced' = bounced \cup {task[c].frame}

(* enqueueRouter reads the connection and its queue under routerMu ... *)
EnqueueRouter(c) ==
  /\ task[c].at = "enqueue"
  /\ IF link.conn = 0
       THEN Refused(c)
       ELSE /\ task' = [task EXCEPT ![c].at = "send", ![c].ch = link.ch]
            /\ UNCHANGED bounced
  /\ UNCHANGED <<workers, queue, link, outVars, events>>

(* ... and sends after it, whatever became of the writer. *)
SendToRouter(c) ==
  /\ task[c].at = "send"
  /\ IF Room(task[c].ch)
       THEN /\ chan' = [chan EXCEPT ![task[c].ch] = Append(@, task[c].frame)]
            /\ Goto(c, AfterSend(task[c].frame)) /\ UNCHANGED bounced
       ELSE Refused(c) /\ UNCHANGED chan
  /\ UNCHANGED <<workers, queue, link, writer, sock, delivered, events>>

BufferWorkerMessage(c) ==
  /\ task[c].at = "buffer"
  /\ queue' = Append(IF Len(queue) >= SendQueueSize THEN Tail(queue) ELSE queue,
                     task[c].frame)
  /\ Goto(c, AfterSend(task[c].frame))
  /\ UNCHANGED <<workers, link, bounced, outVars, events>>

-----------------------------------------------------------------------------
(* flushBufferedMessages of a worker's or a router's handler.              *)

FlushBegin(p) ==
  /\ task[p].at = "flush"
  /\ task' = [task EXCEPT ![p].at = IF link.conn = 0 THEN "read" ELSE "take",
                          ![p].ch = IF link.conn = 0 THEN 0 ELSE link.ch]
  /\ UNCHANGED <<workers, queue, link, bounced, outVars, events>>

FlushTake(p) ==
  /\ task[p].at = "take"
  /\ IF queue = <<>> THEN Goto(p, "read")
       ELSE task' = [task EXCEPT ![p].at = "put", ![p].items = queue]
  /\ queue' = <<>>
  /\ UNCHANGED <<workers, link, bounced, outVars, events>>

(* Mutant: the frame just sent is kept for the next flush too. *)
RebufferedFromLast(p) == queue \o task[p].items \o SubSeq(task[p].items, 1, 1)

(* The rest is appended to the buffer without a look at its cap. *)
Rebuffered(p) == queue \o task[p].items

FlushPut(p) ==
  /\ task[p].at = "put" /\ task[p].items # <<>>
  /\ LET items == task[p].items  ch == task[p].ch IN
     IF Room(ch)
       THEN /\ chan' = [chan EXCEPT ![ch] = Append(@, Head(items))]
            /\ task' = [task EXCEPT ![p].items = Tail(items)]
            /\ UNCHANGED <<queue, bounced>>
       ELSE /\ queue' = Rebuffered(p)
            /\ bounced' = bounced \cup ToSet(items)
            /\ task' = [task EXCEPT ![p].items = <<>>]
            /\ UNCHANGED chan
  /\ UNCHANGED <<workers, link, writer, sock, delivered, events>>

FlushEnd(p) ==
  /\ task[p].at = "put" /\ task[p].items = <<>>
  /\ Goto(p, "read")
  /\ UNCHANGED <<workers, queue, link, bounced, outVars, events>>

-----------------------------------------------------------------------------
(* handleRouter, routerReadLoop, routerWriterLoop, relayPingLoop.          *)

(* The old socket is closed; connection and queue are published together   *)
(* and the writer is started before the flush.                             *)
HandleRouter(s) ==
  /\ task[s].at = "idle" /\ Event /\ (s > 1 => task[s - 1].at # "idle")
  /\ link' = [conn |-> s, ch |-> s]
  /\ sock' = (sock \ {link.conn}) \cup {s}
  /\ writer' = [writer EXCEPT ![s] = "running"]
  /\ Goto(s, "flush")
  /\ UNCHANGED <<workers, queue, chan, delivered, bounced>>

(* Mutant: the clean-up of a superseded connection unpublishes the new one. *)
UnpublishedAlways(s) == [link EXCEPT !.conn = 0]

Unpublished(s) == [link EXCEPT !.conn = IF @ = s THEN 0 ELSE @]

(* The read fails or times out: unpublish, close the socket and done. *)
RouterGone(s) ==
  /\ task[s].at = "read"
  /\ link' = Unpublished(s)
  /\ Lost(s)
  /\ sock' = sock \ {s}
  /\ Goto(s, "gone")
  /\ UNCHANGED <<workers, queue, chan, writer, delivered, bounced>>

WriteFrame(s) ==
  /\ writer[s] = "running" /\ chan[s] # <<>> /\ s \in sock
  /\ chan' = [chan EXCEPT ![s] = Tail(@)]
  /\ delivered' = IF Head(chan[s]) = Ping THEN delivered
                  ELSE [delivered EXCEPT ![Head(chan[s])] = @ + 1]
  /\ UNCHANGED <<workers, queue, link, writer, sock, task, bounced, events>>

WriteFails(s) ==
  /\ writer[s] = "running" /\ chan[s] # <<>>
  /\ chan' = [chan EXCEPT ![s] = Tail(@)]
  /\ Lost(s)
  /\ sock' = sock \ {s}
  /\ writer' = [writer EXCEPT ![s] = "leaving"]
  /\ UNCHANGED <<workers, queue, link, task, delivered, bounced>>

(* Mutant: done is not closed, or the writer does not look at it. *)
WriterStopsNever(s) == writer[s] = "leaving"

WriterStops(s) ==
  writer[s] = "leaving" \/ (writer[s] = "running" /\ task[s].at = "gone")

(* What is left in the queue is not drained. *)
WriterExits(s) ==
  /\ WriterStops(s)
  /\ writer' = [writer EXCEPT ![s] = "exited"]
  /\ link' = [link EXCEPT !.ch = IF @ = s THEN 0 ELSE @]
  /\ UNCHANGED <<workers, queue, chan, sock, task, delivered, bounced, events>>

(* Pings go to the published queue, whosever loop sends them; losing one   *)
(* has no consequence, so reading the queue and sending are one step.      *)
RelayPing(s) ==
  /\ task[s].at = "read" /\ Event
  /\ link.conn # 0 /\ Room(link.ch)
  /\ chan' = [chan EXCEPT ![link.ch] = Append(@, Ping)]
  /\ UNCHANGED <<workers, queue, link, writer, sock, task, delivered, bounced>>

-----------------------------------------------------------------------------

Works(p) == FlushBegin(p) \/ FlushTake(p) \/ FlushPut(p) \/ FlushEnd(p)
Forwards(c) ==
  CheckRouter(c) \/ EnqueueRouter(c) \/ SendToRouter(c) \/ BufferWorkerMessage(c)

Next ==
  \/ \E c \in WConn : HandleWorker(c) \/ ReadFrame(c) \/ Forwards(c) \/ WorkerGone(c)
  \/ \E p \in Proc : Works(p)
  \/ \E s \in Router : \/ HandleRouter(s) \/ RouterGone(s) \/ RelayPing(s)
                       \/ WriteFrame(s) \/ WriteFails(s) \/ WriterExits(s)

Spec == Init /\ [][Next]_vars

(* A handler that has something to do does it, a read on a closed socket   *)
(* fails, a writer whose done is closed sees it.  Workers and routers may  *)
(* stay, leave and come as they like.                                      *)
Fairness ==
  /\ \A p \in Proc : WF_vars(Works(p))
  /\ \A s \in Router : /\ WF_vars(s \notin sock /\ RouterGone(s))
                       /\ WF_vars(WriterExits(s))

FairSpec == Spec /\ Fairness

-----------------------------------------------------------------------------
(* Properties.                                                             *)

TaskState == [at : {"idle", "check", "enqueue", "send", "buffer", "flush", "take", "put",
                    "read", "gone"},
              frame : Frame \cup {Ping}, ch : 0..MaxRouters, items : Seq(Frame)]

(* The type invariant: outbound queues never exceed their capacity.        *)
TypeOK ==
  /\ workers \in [Worker -> WConn \cup {None}]
  /\ queue \in Seq(Frame)
  /\ link \in [conn : 0..MaxRouters, ch : 0..MaxRouters]
  /\ chan \in [Router -> Seq(Frame \cup {Ping})]
  /\ \A s \in Router : Len(chan[s]) <= SendQueueSize
  /\ writer \in [Router -> {"none", "running", "leaving", "exited"}]
  /\ sock \subseteq Router /\ bounced \subseteq Frame /\ events \in 0..MaxEvents
  /\ task \in [Proc -> TaskState]
  /\ delivered \in [Frame -> Nat]

(* The places a frame can be in: the buffer, the hands of the handler that *)
(* read it, the hands of whoever flushes, the queue of a router connection *)
(* and the wire.                                                           *)
Place == {<<"buffer", 0>>, <<"wire", 0>>} \cup ({"hand"} \X WConn)
           \cup ({"flush"} \X Proc) \cup ({"queue"} \X Router)
HandOf(c) == IF task[c].at \in {"check", "enqueue", "send", "buffer"}
               THEN {task[c].frame} ELSE {}
Held(l) ==
  CASE l[1] = "buffer" -> ToSet(queue)
    [] l[1] = "wire"   -> {f \in Frame : delivered[f] > 0}
    [] l[1] = "hand"   -> HandOf(l[2])
    [] l[1] = "flush"  -> ToSet(task[l[2]].items)
    [] l[1] = "queue"  -> ToSet(chan[l[2]]) \ {Ping}

Once(seq) == \A i, j \in 1..Len(seq) : seq[i] = seq[j] /\ seq[i] # Ping => i = j
Apart == \A l, m \in Place : l # m => Held(l) \cap Held(m) = {}

(* A frame moves between those places and is never in two of them, nor     *)
(* twice in one: no inference result or register reaches a router twice,   *)
(* although flushes of several handlers overlap and put back what they     *)
(* could not send.                                                         *)
NoFrameTwice ==
  /\ Apart
  /\ Once(queue) /\ (\A p \in Proc : Once(task[p].items)) /\ (\A s \in Router : Once(chan[s]))
  /\ \A f \in Frame : delivered[f] <= 1

(* A newer router supersedes the older one, whose reader and writer end    *)
(* afterwards: their clean-up takes neither the connection nor the queue   *)
(* away from the successor.                                                *)
SuccessorKeepsLink ==
  \A s \in Router :
    (/\ task[s].at \in {"flush", "take", "put", "read"}
     /\ \A t \in Router : t > s => task[t].at = "idle")
      => /\ link.conn = s
         /\ link.ch = s \/ (link.ch = 0 /\ writer[s] = "exited")

(* A register that was buffered because no router was there is flushed by  *)
(* the worker's handler or by the router's, whichever comes second: it is  *)
(* never left in the buffer beside a connected router, unless a full queue *)
(* or one without a writer refused it.                                     *)
RegisterNotStranded ==
  \A c \in WConn :
    (/\ RegisterOf(c) \in ToSet(queue) \ bounced
     /\ task[c].at = "read"
     /\ link.conn # 0)
      => task[link.conn].at \in {"flush", "take"}

(* The relay does not route to a connection whose read loop has ended.     *)
NoRouteToEndedConnection ==
  \A w \in Worker : workers[w] # None => task[workers[w]].at # "gone"

(* A router connection that lost its socket is wound up: it is no longer   *)
(* published and its reader and its writer have returned.                  *)
LostRouterIsReleased ==
  \A s \in Router :
    (task[s].at # "idle" /\ s \notin sock)
      ~> (task[s].at = "gone" /\ writer[s] = "exited" /\ link.conn # s)

-----------------------------------------------------------------------------
(* What a comment of the code says and the code does not do.               *)

(* main.go on routerWriterLoop: enqueueRouter can never deliver a frame    *)
(* into a channel whose writer has gone.                                   *)
NoFrameForAGoneWriter ==
  [][\A s \in Router : writer[s] = "exited" => Len(chan'[s]) <= Len(chan[s])]_vars

=============================================================================
