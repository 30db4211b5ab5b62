------------------------- MODULE RelayBrokerProofs --------------------------
(***************************************************************************)
(* Proofs about the relay process, for any number of worker and router     *)
(* connections and any capacity of its buffer and queues.                  *)
(***************************************************************************)
EXTENDS RelayBroker, TLAPS

-----------------------------------------------------------------------------
(* What a step does to the handlers: one of them moves.                    *)

TaskTyped == task \in [Proc -> TaskState]

Moved(p, a, f, i) ==
  /\ task' \in [Proc -> TaskState]
  /\ task'[p].at = a /\ task'[p].frame = f /\ task'[p].items = i
  /\ \A q \in Proc : q # p => task'[q] = task[q]

LEMMA Bounds ==
  /\ MaxRouters \in Nat /\ MaxFrames \in Nat /\ MaxEvents \in Nat
  /\ SendQueueSize \in Nat /\ SendQueueSize > 0
  /\ 0 \in 0..MaxRouters /\ Router \subseteq 0..MaxRouters /\ 0 \notin Router
  /\ \A c \in 0..MaxRouters : c # 0 => c \in Router
  /\ WConn \subseteq Proc /\ Router \subseteq Proc
  BY RelayBrokerAssumption DEF Router, Proc

LEMMA Moving ==
  ASSUME TaskTyped, NEW p \in Proc, NEW t \in TaskState, task' = [task EXCEPT ![p] = t]
  PROVE  Moved(p, t.at, t.frame, t.items)
  BY DEF TaskTyped, Moved

LEMMA GotoMoves ==
  ASSUME TaskTyped, NEW p \in Proc, NEW x, Goto(p, x),
         x \in {"buffer", "enqueue", "flush", "read", "gone"}
  PROVE  Moved(p, x, task[p].frame, task[p].items)
<1> DEFINE t == [task[p] EXCEPT !.at = x, !.ch = 0]
<1>1. task[p] \in TaskState
  BY DEF TaskTyped
<1>2. t \in TaskState /\ t.at = x /\ t.frame = task[p].frame /\ t.items = task[p].items
  BY <1>1, Bounds DEF TaskState
<1>3. task' = [task EXCEPT ![p] = t]
  BY DEF Goto, TaskTyped
<1> HIDE DEF t
<1> QED
  BY <1>2, <1>3, Moving

LEMMA HandleWorkerMoves ==
  ASSUME TaskTyped, NEW c \in WConn, HandleWorker(c)
  PROVE  task[c].at = "idle" /\ Moved(c, "check", RegisterOf(c), <<>>)
<1> DEFINE t == [NoTask EXCEPT !.at = "check", !.frame = RegisterOf(c)]
<1>0. 0 \in 0..MaxFrames /\ RegisterOf(c) \in Frame
  BY Bounds DEF RegisterOf, Frame
<1>1. <<>> \in Seq(Frame)
  OBVIOUS
<1>2. t \in TaskState /\ t.at = "check" /\ t.frame = RegisterOf(c) /\ t.items = <<>>
  BY <1>0, <1>1, Bounds DEF TaskState, NoTask
<1>3. task' = [task EXCEPT ![c] = t] /\ task[c].at = "idle" /\ c \in Proc
  BY Bounds DEF HandleWorker
<1> HIDE DEF t
<1> QED
  BY <1>2, <1>3, Moving

LEMMA ReadFrameMoves ==
  ASSUME TaskTyped, NEW c \in WConn, ReadFrame(c), task[c].frame \in {c} \X (0..MaxFrames)
  PROVE  /\ task[c].at = "read"
         /\ <<c, task[c].frame[2] + 1>> \in Frame
         /\ Moved(c, "check", <<c, task[c].frame[2] + 1>>, task[c].items)
<1> DEFINE f == <<c, task[c].frame[2] + 1>>
           t == [task[c] EXCEPT !.at = "check", !.frame = f]
<1>0. c \in Proc /\ task[c] \in TaskState
  BY Bounds DEF TaskTyped
<1>1. task[c].frame[2] \in 0..MaxFrames /\ task[c].frame[2] < MaxFrames /\ task[c].at = "read"
  BY DEF ReadFrame
<1>2. task[c].frame[2] + 1 \in 0..MaxFrames
  BY <1>1, Bounds
<1>3. f \in Frame
  BY <1>2 DEF Frame
<1>4. task' = [task EXCEPT ![c] = t]
  BY <1>0 DEF ReadFrame, TaskTyped, TaskState
<1> HIDE DEF f
<1>5. t \in TaskState /\ t.at = "check" /\ t.frame = f /\ t.items = task[c].items
  BY <1>0, <1>3 DEF TaskState
<1> HIDE DEF t
<1>6. Moved(c, "check", f, task[c].items)
  BY <1>0, <1>4, <1>5, Moving
<1> QED
  BY <1>1, <1>3, <1>6 DEF f

LEMMA EnqueueMoves ==
  ASSUME TaskTyped, NEW c \in WConn, task' = [task EXCEPT ![c].at = "send", ![c].ch = link.ch],
         link.ch \in 0..MaxRouters
  PROVE  Moved(c, "send", task[c].frame, task[c].items)
<1> DEFINE t == [task[c] EXCEPT !.at = "send", !.ch = link.ch]
<1>0. c \in Proc /\ task[c] \in TaskState
  BY Bounds DEF TaskTyped
<1>1. task' = [task EXCEPT ![c] = t]
  BY <1>0 DEF TaskTyped
<1>2. t \in TaskState /\ t.at = "send" /\ t.frame = task[c].frame /\ t.items = task[c].items
  BY <1>0 DEF TaskState
<1> HIDE DEF t
<1> QED
  BY <1>0, <1>1, <1>2, Moving

LEMMA FlushBeginMoves ==
  ASSUME TaskTyped, NEW p \in Proc, FlushBegin(p), link.ch \in 0..MaxRouters
  PROVE  Moved(p, IF link.conn = 0 THEN "read" ELSE "take", task[p].frame, task[p].items)
<1> DEFINE a == IF link.conn = 0 THEN "read" ELSE "take"
           h == IF link.conn = 0 THEN 0 ELSE link.ch
           t == [task[p] EXCEPT !.at = a, !.ch = h]
<1>0. task[p] \in TaskState
  BY DEF TaskTyped
<1>1. task' = [task EXCEPT ![p] = t]
  BY <1>0 DEF FlushBegin, TaskTyped
<1>2. a \in {"read", "take"} /\ h \in 0..MaxRouters
  BY Bounds
<1> HIDE DEF a, h
<1>3. t \in TaskState /\ t.at = a /\ t.frame = task[p].frame /\ t.items = task[p].items
  BY <1>0, <1>2 DEF TaskState
<1> HIDE DEF t
<1>4. Moved(p, a, task[p].frame, task[p].items)
  BY <1>1, <1>3, Moving
<1> QED
  BY <1>4 DEF a

(* The items in hand are exchanged. *)
LEMMA ItemsMove ==
  ASSUME TaskTyped, NEW p \in Proc, NEW i \in Seq(Frame), NEW a \in {"put"},
         \/ task' = [task EXCEPT ![p].at = a, ![p].items = i]
         \/ task[p].at = a /\ task' = [task EXCEPT ![p].items = i]
  PROVE  Moved(p, a, task[p].frame, i)
<1> DEFINE t == [task[p] EXCEPT !.at = a, !.items = i]
<1>0. task[p] \in TaskState
  BY DEF TaskTyped
<1>1. task' = [task EXCEPT ![p] = t]
  <2>1. CASE task' = [task EXCEPT ![p].at = a, ![p].items = i]
    BY <2>1, <1>0 DEF TaskTyped
  <2>2. CASE task[p].at = a /\ task' = [task EXCEPT ![p].items = i]
    <3>1. [task[p] EXCEPT !.items = i] = t
      BY <2>2, <1>0 DEF TaskState
    <3> HIDE DEF t
    <3> QED
      BY <2>2, <3>1
  <2> QED
    BY <2>1, <2>2
<1>2. t \in TaskState /\ t.at = a /\ t.frame = task[p].frame /\ t.items = i
  BY <1>0 DEF TaskState
<1> HIDE DEF t
<1> QED
  BY <1>1, <1>2, Moving

-----------------------------------------------------------------------------
(* The shape of the handlers' state.                                       *)

(* The handler of a router connection only flushes and reads. *)
RouterTask == \A s \in Router : task[s].at \in {"idle", "flush", "take", "put", "read", "gone"}

(* A worker's handler is concerned with frames of its own connection. *)
WorkerTask == \A c \in WConn : task[c].at # "idle" => task[c].frame \in {c} \X (0..MaxFrames)

(* Only a flush has items in hand. *)
HandsEmpty == \A p \in Proc : task[p].at # "put" => task[p].items = <<>>

TaskShape == TaskTyped /\ RouterTask /\ WorkerTask /\ HandsEmpty
Shape == TypeOK /\ TaskShape

LEMMA MovedShape ==
  ASSUME TaskShape, NEW p \in Proc, NEW a, NEW f, NEW i, Moved(p, a, f, i),
         p \in Router => a \in {"idle", "flush", "take", "put", "read", "gone"},
         p \in WConn => f \in {p} \X (0..MaxFrames),
         a # "put" => i = <<>>
  PROVE  TaskShape'
<1>1. TaskTyped'
  BY DEF Moved, TaskTyped
<1>2. RouterTask' /\ WorkerTask' /\ HandsEmpty'
  BY Bounds DEF Moved, TaskShape, RouterTask, WorkerTask, HandsEmpty
<1> QED
  BY <1>1, <1>2 DEF TaskShape

(* What each operation of a worker's handler does to its task. *)
LEMMA WorkerSteps ==
  ASSUME Shape, NEW c \in WConn
  PROVE  /\ HandleWorker(c) => task[c].at = "idle" /\ Moved(c, "check", RegisterOf(c), <<>>)
         /\ ReadFrame(c) => /\ task[c].at = "read"
                            /\ <<c, task[c].frame[2] + 1>> \in Frame
                            /\ Moved(c, "check", <<c, task[c].frame[2] + 1>>, <<>>)
         /\ WorkerGone(c) => task[c].at = "read" /\ Moved(c, "gone", task[c].frame, <<>>)
         /\ CheckRouter(c) =>
              /\ task[c].at = "check"
              /\ Moved(c, IF link.conn = 0 THEN "buffer" ELSE "enqueue", task[c].frame, <<>>)
         /\ Refused(c) /\ task[c].at \in {"enqueue", "send"} =>
              Moved(c, IF IsRegister(task[c].frame) THEN "buffer" ELSE "read", task[c].frame, <<>>)
         /\ BufferWorkerMessage(c) =>
              task[c].at = "buffer" /\ Moved(c, AfterSend(task[c].frame), task[c].frame, <<>>)
<1>0. TaskTyped /\ c \in Proc /\ WorkerTask /\ HandsEmpty
  BY Bounds DEF Shape, TaskShape
<1>1. task[c].at # "put" => task[c].items = <<>>
  BY <1>0 DEF HandsEmpty
<1>2. HandleWorker(c) => task[c].at = "idle" /\ Moved(c, "check", RegisterOf(c), <<>>)
  BY <1>0, HandleWorkerMoves
<1>3. ReadFrame(c) => /\ task[c].at = "read"
                      /\ <<c, task[c].frame[2] + 1>> \in Frame
                      /\ Moved(c, "check", <<c, task[c].frame[2] + 1>>, <<>>)
  <2> SUFFICES ASSUME ReadFrame(c)
               PROVE  /\ task[c].at = "read"
                      /\ <<c, task[c].frame[2] + 1>> \in Frame
                      /\ Moved(c, "check", <<c, task[c].frame[2] + 1>>, <<>>)
    OBVIOUS
  <2>1. task[c].at = "read"
    BY DEF ReadFrame
  <2>2. task[c].frame \in {c} \X (0..MaxFrames) /\ task[c].items = <<>>
    BY <1>0, <1>1, <2>1 DEF WorkerTask
  <2> QED
    BY <1>0, <2>1, <2>2, ReadFrameMoves
<1>4. WorkerGone(c) => task[c].at = "read" /\ Moved(c, "gone", task[c].frame, <<>>)
  BY <1>0, <1>1, GotoMoves DEF WorkerGone
<1>5. CheckRouter(c) =>
        /\ task[c].at = "check"
        /\ Moved(c, IF link.conn = 0 THEN "buffer" ELSE "enqueue", task[c].frame, <<>>)
  BY <1>0, <1>1, GotoMoves DEF CheckRouter
<1>6. Refused(c) /\ task[c].at \in {"enqueue", "send"} =>
        Moved(c, IF IsRegister(task[c].frame) THEN "buffer" ELSE "read", task[c].frame, <<>>)
  BY <1>0, <1>1, GotoMoves DEF Refused
<1>7. BufferWorkerMessage(c) =>
        task[c].at = "buffer" /\ Moved(c, AfterSend(task[c].frame), task[c].frame, <<>>)
  BY <1>0, <1>1, GotoMoves DEF BufferWorkerMessage, AfterSend
<1> QED
  BY <1>2, <1>3, <1>4, <1>5, <1>6, <1>7

(* The two sends of a worker's handler, which a queue may refuse. *)
LEMMA SendSteps ==
  ASSUME Shape, NEW c \in WConn
  PROVE  /\ EnqueueRouter(c) =>
              /\ task[c].at = "enqueue"
              /\ \/ Refused(c)
                 \/ Moved(c, "send", task[c].frame, <<>>) /\ bounced' = bounced
         /\ SendToRouter(c) =>
              /\ task[c].at = "send"
              /\ \/ Refused(c) /\ chan' = chan
                 \/ /\ Room(task[c].ch) /\ bounced' = bounced
                    /\ chan' = [chan EXCEPT ![task[c].ch] = Append(@, task[c].frame)]
                    /\ Moved(c, AfterSend(task[c].frame), task[c].frame, <<>>)
<1>0. TaskTyped /\ c \in Proc /\ HandsEmpty /\ link.ch \in 0..MaxRouters
  BY Bounds DEF Shape, TaskShape, TypeOK
<1>1. task[c].at # "put" => task[c].items = <<>>
  BY <1>0 DEF HandsEmpty
<1>2. ASSUME EnqueueRouter(c)
      PROVE  /\ task[c].at = "enqueue"
             /\ \/ Refused(c)
                \/ Moved(c, "send", task[c].frame, <<>>) /\ bounced' = bounced
  BY <1>0, <1>1, <1>2, EnqueueMoves DEF EnqueueRouter
<1>3. ASSUME SendToRouter(c)
      PROVE  /\ task[c].at = "send"
             /\ \/ Refused(c) /\ chan' = chan
                \/ /\ Room(task[c].ch) /\ bounced' = bounced
                   /\ chan' = [chan EXCEPT ![task[c].ch] = Append(@, task[c].frame)]
                   /\ Moved(c, AfterSend(task[c].frame), task[c].frame, <<>>)
  <2>1. task[c].at = "send"
    BY <1>3 DEF SendToRouter
  <2>2. Goto(c, AfterSend(task[c].frame)) => Moved(c, AfterSend(task[c].frame), task[c].frame, <<>>)
    BY <1>0, <1>1, <2>1, GotoMoves DEF AfterSend
  <2> QED
    BY <1>3, <2>1, <2>2 DEF SendToRouter
<1> QED
  BY <1>2, <1>3

(* What a flush does to the task of the handler that runs it. *)
LEMMA FlushSteps ==
  ASSUME Shape, NEW p \in Proc
  PROVE  /\ FlushBegin(p) =>
              /\ task[p].at = "flush"
              /\ Moved(p, IF link.conn = 0 THEN "read" ELSE "take", task[p].frame, <<>>)
         /\ FlushTake(p) =>
              /\ task[p].at = "take"
              /\ \/ queue = <<>> /\ Moved(p, "read", task[p].frame, <<>>)
                 \/ Moved(p, "put", task[p].frame, queue)
         /\ FlushPut(p) =>
              /\ task[p].at = "put" /\ task[p].items # <<>>
              /\ \/ /\ Room(task[p].ch) /\ queue' = queue /\ bounced' = bounced
                    /\ chan' = [chan EXCEPT ![task[p].ch] = Append(@, Head(task[p].items))]
                    /\ Moved(p, "put", task[p].frame, Tail(task[p].items))
                 \/ /\ queue' = queue \o task[p].items /\ chan' = chan
                    /\ bounced' = bounced \cup ToSet(task[p].items)
                    /\ Moved(p, "put", task[p].frame, <<>>)
         /\ FlushEnd(p) =>
              task[p].at = "put" /\ task[p].items = <<>> /\ Moved(p, "read", task[p].frame, <<>>)
<1>0. /\ TaskTyped /\ HandsEmpty /\ link.ch \in 0..MaxRouters /\ queue \in Seq(Frame)
      /\ task[p].items \in Seq(Frame)
  BY DEF Shape, TaskShape, TypeOK, TaskState
<1>1. task[p].at # "put" => task[p].items = <<>>
  BY <1>0 DEF HandsEmpty
<1>2. ASSUME FlushBegin(p)
      PROVE  /\ task[p].at = "flush"
             /\ Moved(p, IF link.conn = 0 THEN "read" ELSE "take", task[p].frame, <<>>)
  <2>1. task[p].at = "flush"
    BY <1>2 DEF FlushBegin
  <2> QED
    BY <1>0, <1>1, <1>2, <2>1, FlushBeginMoves
<1>3. ASSUME FlushTake(p)
      PROVE  /\ task[p].at = "take"
             /\ \/ queue = <<>> /\ Moved(p, "read", task[p].frame, <<>>)
                \/ Moved(p, "put", task[p].frame, queue)
  <2>1. task[p].at = "take"
    BY <1>3 DEF FlushTake
  <2>2. CASE queue = <<>>
    BY <1>0, <1>1, <1>3, <2>1, <2>2, GotoMoves DEF FlushTake
  <2>3. CASE queue # <<>>
    BY <1>0, <1>3, <2>1, <2>3, ItemsMove DEF FlushTake
  <2> QED
    BY <2>1, <2>2, <2>3
<1>4. ASSUME FlushPut(p)
      PROVE  /\ task[p].at = "put" /\ task[p].items # <<>>
             /\ \/ /\ Room(task[p].ch) /\ queue' = queue /\ bounced' = bounced
                   /\ chan' = [chan EXCEPT ![task[p].ch] = Append(@, Head(task[p].items))]
                   /\ Moved(p, "put", task[p].frame, Tail(task[p].items))
                \/ /\ queue' = queue \o task[p].items /\ chan' = chan
                   /\ bounced' = bounced \cup ToSet(task[p].items)
                   /\ Moved(p, "put", task[p].frame, <<>>)
  <2>1. task[p].at = "put" /\ task[p].items # <<>>
    BY <1>4 DEF FlushPut
  <2>2. Tail(task[p].items) \in Seq(Frame) /\ <<>> \in Seq(Frame)
    BY <1>0, <2>1
  <2>3. CASE Room(task[p].ch)
    <3>1. /\ queue' = queue /\ bounced' = bounced
          /\ chan' = [chan EXCEPT ![task[p].ch] = Append(@, Head(task[p].items))]
          /\ task' = [task EXCEPT ![p].items = Tail(task[p].items)]
      BY <1>4, <2>3 DEF FlushPut
    <3> QED
      BY <1>0, <2>1, <2>2, <2>3, <3>1, ItemsMove
  <2>4. CASE ~Room(task[p].ch)
    <3>1. /\ queue' = queue \o task[p].items /\ chan' = chan
          /\ bounced' = bounced \cup ToSet(task[p].items)
          /\ task' = [task EXCEPT ![p].items = <<>>]
      BY <1>4, <2>4 DEF FlushPut, Rebuffered
    <3> QED
      BY <1>0, <2>1, <2>2, <3>1, ItemsMove
  <2> QED
    BY <2>3, <2>4
<1>5. ASSUME FlushEnd(p)
      PROVE  task[p].at = "put" /\ task[p].items = <<>> /\ Moved(p, "read", task[p].frame, <<>>)
  <2>1. task[p].at = "put" /\ task[p].items = <<>> /\ Goto(p, "read")
    BY <1>5 DEF FlushEnd
  <2>2. Moved(p, "read", task[p].frame, task[p].items)
    BY <1>0, <2>1, GotoMoves
  <2> QED
    BY <2>1, <2>2
<1> QED
  BY <1>2, <1>3, <1>4, <1>5

LEMMA RouterSteps ==
  ASSUME Shape, NEW s \in Router
  PROVE  /\ HandleRouter(s) => task[s].at = "idle" /\ Moved(s, "flush", task[s].frame, <<>>)
         /\ RouterGone(s) => task[s].at = "read" /\ Moved(s, "gone", task[s].frame, <<>>)
         /\ RelayPing(s) \/ WriteFrame(s) \/ WriteFails(s) \/ WriterExits(s) => task' = task
<1>0. TaskTyped /\ s \in Proc /\ HandsEmpty
  BY Bounds DEF Shape, TaskShape
<1>1. task[s].at # "put" => task[s].items = <<>>
  BY <1>0 DEF HandsEmpty
<1>2. HandleRouter(s) => task[s].at = "idle" /\ Moved(s, "flush", task[s].frame, <<>>)
  BY <1>0, <1>1, GotoMoves DEF HandleRouter
<1>3. RouterGone(s) => task[s].at = "read" /\ Moved(s, "gone", task[s].frame, <<>>)
  BY <1>0, <1>1, GotoMoves DEF RouterGone
<1>4. RelayPing(s) \/ WriteFrame(s) \/ WriteFails(s) \/ WriterExits(s) => task' = task
  BY DEF RelayPing, WriteFrame, WriteFails, WriterExits
<1> QED
  BY <1>2, <1>3, <1>4

(* Every step either leaves the handlers alone or moves one of them as the *)
(* lemmas above say.                                                       *)
LEMMA StepCases ==
  ASSUME Next
  PROVE  \/ \E c \in WConn : \/ HandleWorker(c) \/ ReadFrame(c) \/ WorkerGone(c) \/ CheckRouter(c)
                             \/ EnqueueRouter(c) \/ SendToRouter(c) \/ BufferWorkerMessage(c)
         \/ \E p \in Proc : FlushBegin(p) \/ FlushTake(p) \/ FlushPut(p) \/ FlushEnd(p)
         \/ \E s \in Router : \/ HandleRouter(s) \/ RouterGone(s) \/ RelayPing(s)
                              \/ WriteFrame(s) \/ WriteFails(s) \/ WriterExits(s)
  BY DEF Next, Works, Forwards

LEMMA TaskShapeStep == Shape /\ [Next]_vars => TaskShape'
<1> SUFFICES ASSUME Shape, [Next]_vars PROVE TaskShape'
  OBVIOUS
<1>0. TaskShape
  BY DEF Shape
<1>1. ASSUME NEW c \in WConn,
             \/ HandleWorker(c) \/ ReadFrame(c) \/ WorkerGone(c) \/ CheckRouter(c)
             \/ EnqueueRouter(c) \/ SendToRouter(c) \/ BufferWorkerMessage(c)
      PROVE  TaskShape'
  <2>1. c \in Proc /\ c \notin Router
    BY Bounds, ConnAssumption
  <2>2. task[c].at # "idle" => task[c].frame \in {c} \X (0..MaxFrames)
    BY <1>0 DEF TaskShape, WorkerTask
  <2>3. RegisterOf(c) \in {c} \X (0..MaxFrames)
    BY Bounds DEF RegisterOf
  <2>4. ASSUME <<c, task[c].frame[2] + 1>> \in Frame
        PROVE  <<c, task[c].frame[2] + 1>> \in {c} \X (0..MaxFrames)
    BY <2>4 DEF Frame
  <2>5. PICK a \in {"check", "gone", "buffer", "enqueue", "read", "send", "flush"},
             f \in {c} \X (0..MaxFrames) : Moved(c, a, f, <<>>)
    BY <1>1, <2>2, <2>3, <2>4, WorkerSteps, SendSteps DEF AfterSend
  <2> QED
    BY <1>0, <2>1, <2>5, MovedShape
<1>2. ASSUME NEW p \in Proc, FlushBegin(p) \/ FlushTake(p) \/ FlushPut(p) \/ FlushEnd(p)
      PROVE  TaskShape'
  <2>1. task[p].at # "idle"
    BY <1>2 DEF FlushBegin, FlushTake, FlushPut, FlushEnd
  <2>2. p \in WConn => task[p].frame \in {p} \X (0..MaxFrames)
    BY <1>0, <2>1 DEF TaskShape, WorkerTask
  <2>3. PICK a \in {"read", "take", "put"} : \E i : Moved(p, a, task[p].frame, i) /\ (a # "put" => i = <<>>)
    BY <1>2, FlushSteps
  <2> QED
    BY <1>0, <2>2, <2>3, MovedShape
<1>3. ASSUME NEW s \in Router,
             \/ HandleRouter(s) \/ RouterGone(s) \/ RelayPing(s)
             \/ WriteFrame(s) \/ WriteFails(s) \/ WriterExits(s)
      PROVE  TaskShape'
  <2>1. s \in Proc /\ s \notin WConn
    BY Bounds, ConnAssumption
  <2>2. CASE task' = task
    BY <1>0, <2>2 DEF TaskShape, TaskTyped, RouterTask, WorkerTask, HandsEmpty
  <2>3. CASE \E a \in {"flush", "gone"} : Moved(s, a, task[s].frame, <<>>)
    BY <1>0, <2>1, <2>3, MovedShape
  <2> QED
    BY <1>3, <2>2, <2>3, RouterSteps
<1>4. CASE UNCHANGED vars
  BY <1>0, <1>4 DEF TaskShape, TaskTyped, RouterTask, WorkerTask, HandsEmpty, vars
<1> QED
  BY <1>1, <1>2, <1>3, <1>4, StepCases

-----------------------------------------------------------------------------
(* The type invariant, variable by variable.                               *)

LEMMA HandIsFrame ==
  ASSUME Shape, NEW c \in WConn, task[c].at # "idle"
  PROVE  task[c].frame \in Frame /\ task[c].frame[1] = c /\ task[c].frame[2] \in 0..MaxFrames
  BY DEF Shape, TaskShape, WorkerTask, Frame

LEMMA QueueTyped == Shape /\ [Next]_vars => queue' \in Seq(Frame)
<1> SUFFICES ASSUME Shape, [Next]_vars PROVE queue' \in Seq(Frame)
  OBVIOUS
<1>0. queue \in Seq(Frame) /\ \A p \in Proc : task[p].items \in Seq(Frame)
  BY DEF Shape, TypeOK, TaskState
<1>1. ASSUME NEW c \in WConn, BufferWorkerMessage(c)
      PROVE  queue' \in Seq(Frame)
  <2>1. task[c].frame \in Frame
    BY <1>1, HandIsFrame DEF BufferWorkerMessage
  <2>2. Len(queue) >= SendQueueSize => queue # <<>>
    BY <1>0, Bounds
  <2>3. (IF Len(queue) >= SendQueueSize THEN Tail(queue) ELSE queue) \in Seq(Frame)
    BY <1>0, <2>2
  <2> QED
    BY <1>1, <2>1, <2>3 DEF BufferWorkerMessage
<1>2. ASSUME NEW p \in Proc, FlushPut(p)
      PROVE  queue' \in Seq(Frame)
  <2>1. queue' = queue \/ queue' = queue \o task[p].items
    BY <1>2, FlushSteps
  <2>2. queue \o task[p].items \in Seq(Frame)
    BY <1>0
  <2> QED
    BY <1>0, <2>1, <2>2
<1>3. CASE queue' = queue \/ queue' = <<>>
  <2>1. <<>> \in Seq(Frame)
    OBVIOUS
  <2> QED
    BY <1>0, <1>3, <2>1
<1> QED
  BY <1>1, <1>2, <1>3, StepCases DEF HandleWorker, ReadFrame, WorkerGone, CheckRouter,
     EnqueueRouter, SendToRouter, FlushBegin, FlushTake, FlushEnd, HandleRouter, RouterGone,
     RelayPing, WriteFrame, WriteFails, WriterExits, vars

ChanTyped == /\ chan \in [Router -> Seq(Frame \cup {Ping})]
             /\ \A s \in Router : Len(chan[s]) <= SendQueueSize

LEMMA ChanAppend ==
  ASSUME ChanTyped, NEW h \in 0..MaxRouters, Room(h), NEW m \in Frame \cup {Ping},
         chan' = [chan EXCEPT ![h] = Append(@, m)]
  PROVE  ChanTyped' /\ h \in Router /\ chan'[h] = Append(chan[h], m)
<1>1. h \in Router
  BY Bounds DEF Room
<1>2. chan[h] \in Seq(Frame \cup {Ping}) /\ Len(chan[h]) < SendQueueSize
  BY <1>1 DEF ChanTyped, Room
<1>3. Append(chan[h], m) \in Seq(Frame \cup {Ping}) /\ Len(Append(chan[h], m)) <= SendQueueSize
  BY <1>2, Bounds
<1> QED
  BY <1>1, <1>3 DEF ChanTyped

LEMMA ChanTail ==
  ASSUME ChanTyped, NEW s \in Router, chan[s] # <<>>, chan' = [chan EXCEPT ![s] = Tail(@)]
  PROVE  ChanTyped' /\ chan'[s] = Tail(chan[s])
<1>1. chan[s] \in Seq(Frame \cup {Ping}) /\ Len(chan[s]) <= SendQueueSize
  BY DEF ChanTyped
<1>2. Tail(chan[s]) \in Seq(Frame \cup {Ping}) /\ Len(Tail(chan[s])) <= SendQueueSize
  BY <1>1, Bounds
<1> QED
  BY <1>2 DEF ChanTyped

(* The four ways a queue changes. *)
LEMMA ChanSteps ==
  ASSUME Shape, [Next]_vars
  PROVE  \/ chan' = chan
         \/ \E h \in 0..MaxRouters, m \in Frame \cup {Ping} :
              Room(h) /\ chan' = [chan EXCEPT ![h] = Append(@, m)]
         \/ \E s \in Router : chan[s] # <<>> /\ chan' = [chan EXCEPT ![s] = Tail(@)]
<1>0. link.ch \in 0..MaxRouters /\ \A p \in Proc : task[p].ch \in 0..MaxRouters
  BY DEF Shape, TypeOK, TaskState
<1>1. ASSUME NEW c \in WConn, SendToRouter(c)
      PROVE  \/ chan' = chan
             \/ \E h \in 0..MaxRouters, m \in Frame \cup {Ping} :
                  Room(h) /\ chan' = [chan EXCEPT ![h] = Append(@, m)]
  <2>1. task[c].frame \in Frame /\ task[c].ch \in 0..MaxRouters
    BY <1>0, <1>1, HandIsFrame, Bounds DEF SendToRouter
  <2> QED
    BY <1>1, <2>1, SendSteps
<1>2. ASSUME NEW p \in Proc, FlushPut(p)
      PROVE  \/ chan' = chan
             \/ \E h \in 0..MaxRouters, m \in Frame \cup {Ping} :
                  Room(h) /\ chan' = [chan EXCEPT ![h] = Append(@, m)]
  <2>1. task[p].items \in Seq(Frame) /\ task[p].items # <<>>
    BY <1>2 DEF FlushPut, Shape, TypeOK, TaskState
  <2>2. Head(task[p].items) \in Frame \cup {Ping}
    BY <2>1
  <2> QED
    BY <1>0, <1>2, <2>2, FlushSteps
<1>3. ASSUME NEW s \in Router, RelayPing(s)
      PROVE  \E h \in 0..MaxRouters, m \in Frame \cup {Ping} :
                  Room(h) /\ chan' = [chan EXCEPT ![h] = Append(@, m)]
  BY <1>0, <1>3 DEF RelayPing
<1>4. ASSUME NEW s \in Router, WriteFrame(s) \/ WriteFails(s)
      PROVE  chan[s] # <<>> /\ chan' = [chan EXCEPT ![s] = Tail(@)]
  BY <1>4 DEF WriteFrame, WriteFails
<1>5. ASSUME NEW c \in WConn,
             \/ HandleWorker(c) \/ ReadFrame(c) \/ WorkerGone(c) \/ CheckRouter(c)
             \/ EnqueueRouter(c) \/ BufferWorkerMessage(c)
      PROVE  chan' = chan
  BY <1>5 DEF HandleWorker, ReadFrame, WorkerGone, CheckRouter, EnqueueRouter,
     BufferWorkerMessage, outVars
<1>6. ASSUME NEW p \in Proc, FlushBegin(p) \/ FlushTake(p) \/ FlushEnd(p)
      PROVE  chan' = chan
  BY <1>6 DEF FlushBegin, FlushTake, FlushEnd, outVars
<1>7. ASSUME NEW s \in Router, HandleRouter(s) \/ RouterGone(s) \/ WriterExits(s)
      PROVE  chan' = chan
  BY <1>7 DEF HandleRouter, RouterGone, WriterExits
<1>8. UNCHANGED vars => chan' = chan
  BY DEF vars
<1> QED
  BY <1>1, <1>2, <1>3, <1>4, <1>5, <1>6, <1>7, <1>8, StepCases

LEMMA ChanTypedStep == Shape /\ [Next]_vars => ChanTyped'
<1> SUFFICES ASSUME Shape, [Next]_vars PROVE ChanTyped'
  OBVIOUS
<1>1. ChanTyped
  BY DEF Shape, TypeOK, ChanTyped
<1>2. chan' = chan => ChanTyped'
  BY <1>1 DEF ChanTyped
<1> QED
  BY <1>1, <1>2, ChanSteps, ChanAppend, ChanTail

LEMMA BooksTyped ==
  ASSUME Shape, [Next]_vars
  PROVE  /\ workers' \in [Worker -> WConn \cup {None}]
         /\ link' \in [conn : 0..MaxRouters, ch : 0..MaxRouters]
         /\ writer' \in [Router -> {"none", "running", "leaving", "exited"}]
         /\ sock' \subseteq Router
<1>0. /\ workers \in [Worker -> WConn \cup {None}]
      /\ link \in [conn : 0..MaxRouters, ch : 0..MaxRouters]
      /\ writer \in [Router -> {"none", "running", "leaving", "exited"}]
      /\ sock \subseteq Router
  BY DEF Shape, TypeOK
<1>1. ASSUME NEW c \in WConn,
             \/ HandleWorker(c) \/ ReadFrame(c) \/ WorkerGone(c) \/ CheckRouter(c)
             \/ EnqueueRouter(c) \/ SendToRouter(c) \/ BufferWorkerMessage(c)
      PROVE  /\ workers' \in [Worker -> WConn \cup {None}]
             /\ link' = link /\ writer' = writer /\ sock' = sock
  <2>1. WorkerOf[c] \in Worker
    BY RelayBrokerAssumption
  <2>2. workers' = workers \/ \E x \in {c, None} : workers' = [workers EXCEPT ![WorkerOf[c]] = x]
    BY <1>1 DEF HandleWorker, ReadFrame, WorkerGone, CheckRouter, EnqueueRouter, SendToRouter,
       BufferWorkerMessage
  <2>3. link' = link /\ writer' = writer /\ sock' = sock
    BY <1>1 DEF HandleWorker, ReadFrame, WorkerGone, CheckRouter, EnqueueRouter, SendToRouter,
       BufferWorkerMessage, outVars
  <2> QED
    BY <1>0, <2>1, <2>2, <2>3
<1>2. ASSUME NEW p \in Proc, FlushBegin(p) \/ FlushTake(p) \/ FlushPut(p) \/ FlushEnd(p)
      PROVE  UNCHANGED <<workers, link, writer, sock>>
  BY <1>2 DEF FlushBegin, FlushTake, FlushPut, FlushEnd, outVars
<1>3. ASSUME NEW s \in Router,
             \/ HandleRouter(s) \/ RouterGone(s) \/ RelayPing(s)
             \/ WriteFrame(s) \/ WriteFails(s) \/ WriterExits(s)
      PROVE  /\ workers' = workers /\ link' \in [conn : 0..MaxRouters, ch : 0..MaxRouters]
             /\ writer' \in [Router -> {"none", "running", "leaving", "exited"}]
             /\ sock' \subseteq Router
  <2>1. s \in 0..MaxRouters /\ 0 \in 0..MaxRouters
    BY Bounds
  <2>2. workers' = workers
    BY <1>3 DEF HandleRouter, RouterGone, RelayPing, WriteFrame, WriteFails, WriterExits
  <2>3. link' \in [conn : 0..MaxRouters, ch : 0..MaxRouters]
    BY <1>0, <1>3, <2>1 DEF HandleRouter, RouterGone, RelayPing, WriteFrame, WriteFails, WriterExits, Unpublished
  <2>4. writer' \in [Router -> {"none", "running", "leaving", "exited"}]
    BY <1>0, <1>3 DEF HandleRouter, RouterGone, RelayPing, WriteFrame, WriteFails, WriterExits
  <2>5. sock' \subseteq Router
    BY <1>0, <1>3 DEF HandleRouter, RouterGone, RelayPing, WriteFrame, WriteFails, WriterExits
  <2> QED
    BY <2>2, <2>3, <2>4, <2>5
<1>4. UNCHANGED vars => UNCHANGED <<workers, link, writer, sock>>
  BY DEF vars
<1> QED
  BY <1>0, <1>1, <1>2, <1>3, <1>4, StepCases

LEMMA CountsTyped ==
  ASSUME Shape, [Next]_vars
  PROVE  /\ bounced' \subseteq Frame /\ events' \in 0..MaxEvents
         /\ delivered' \in [Frame -> Nat]
<1>0. bounced \subseteq Frame /\ events \in 0..MaxEvents /\ delivered \in [Frame -> Nat]
  BY DEF Shape, TypeOK
<1>1. events' = events \/ Event
  BY StepCases DEF HandleWorker, ReadFrame, WorkerGone, CheckRouter, EnqueueRouter, SendToRouter,
     BufferWorkerMessage, FlushBegin, FlushTake, FlushPut, FlushEnd, HandleRouter, RouterGone,
     RelayPing, WriteFrame, WriteFails, WriterExits, Lost, vars
<1>2. events' \in 0..MaxEvents
  <2>1. events' = events \/ (events < MaxEvents /\ events' = events + 1)
    BY <1>1 DEF Event
  <2> QED
    BY <1>0, <2>1, Bounds
<1>3. bounced' = bounced \/ bounced' \subseteq Frame
  <2>1. ASSUME NEW c \in WConn, EnqueueRouter(c) \/ SendToRouter(c)
        PROVE  bounced' \subseteq Frame
    <3>1. task[c].frame \in Frame
      BY <2>1, HandIsFrame DEF EnqueueRouter, SendToRouter
    <3> QED
      BY <1>0, <2>1, <3>1 DEF EnqueueRouter, SendToRouter, Refused
  <2>2. ASSUME NEW p \in Proc, FlushPut(p)
        PROVE  bounced' \subseteq Frame
    <3>1. task[p].items \in Seq(Frame)
      BY DEF Shape, TypeOK, TaskState
    <3>2. ToSet(task[p].items) \subseteq Frame
      BY <3>1 DEF ToSet
    <3> QED
      BY <1>0, <2>2, <3>2, FlushSteps
  <2>3. ASSUME NEW c \in WConn,
               \/ HandleWorker(c) \/ ReadFrame(c) \/ WorkerGone(c) \/ CheckRouter(c)
               \/ BufferWorkerMessage(c)
        PROVE  bounced' = bounced
    BY <2>3 DEF HandleWorker, ReadFrame, WorkerGone, CheckRouter, BufferWorkerMessage
  <2>4. ASSUME NEW p \in Proc, FlushBegin(p) \/ FlushTake(p) \/ FlushEnd(p)
        PROVE  bounced' = bounced
    BY <2>4 DEF FlushBegin, FlushTake, FlushEnd
  <2>5. ASSUME NEW s \in Router,
               \/ HandleRouter(s) \/ RouterGone(s) \/ RelayPing(s)
               \/ WriteFrame(s) \/ WriteFails(s) \/ WriterExits(s)
        PROVE  bounced' = bounced
    BY <2>5 DEF HandleRouter, RouterGone, RelayPing, WriteFrame, WriteFails, WriterExits
  <2>6. UNCHANGED vars => bounced' = bounced
    BY DEF vars
  <2> QED
    BY <2>1, <2>2, <2>3, <2>4, <2>5, <2>6, StepCases
<1>4. delivered' = delivered \/ \E f : delivered' = [delivered EXCEPT ![f] = @ + 1]
  BY StepCases DEF HandleWorker, ReadFrame, WorkerGone, CheckRouter, EnqueueRouter, SendToRouter,
     BufferWorkerMessage, FlushBegin, FlushTake, FlushPut, FlushEnd, HandleRouter, RouterGone,
     RelayPing, WriteFrame, WriteFails, WriterExits, outVars, vars
<1>5. delivered' \in [Frame -> Nat]
  BY <1>0, <1>4
<1> QED
  BY <1>0, <1>2, <1>3, <1>5

LEMMA ShapeInit == Init => Shape
<1> SUFFICES ASSUME Init PROVE Shape
  OBVIOUS
<1>1. NoTask \in TaskState /\ NoTask.at = "idle" /\ NoTask.items = <<>>
  <2>1. <<>> \in Seq(Frame)
    OBVIOUS
  <2> QED
    BY <2>1, Bounds DEF NoTask, TaskState
<1>2. task = [p \in Proc |-> NoTask]
  BY DEF Init
<1>3. TaskShape
  BY <1>1, <1>2, Bounds DEF TaskShape, TaskTyped, RouterTask, WorkerTask, HandsEmpty
<1>4. \A s \in Router : Len(chan[s]) <= SendQueueSize
  BY Bounds DEF Init
<1>5. TypeOK
  BY <1>1, <1>2, <1>4, Bounds DEF Init, TypeOK
<1> QED
  BY <1>3, <1>5 DEF Shape

LEMMA ShapeStep == Shape /\ [Next]_vars => Shape'
<1> SUFFICES ASSUME Shape, [Next]_vars PROVE Shape'
  OBVIOUS
<1>1. TaskShape'
  BY TaskShapeStep
<1>2. TypeOK'
  BY <1>1, QueueTyped, ChanTypedStep, BooksTyped, CountsTyped DEF TypeOK, TaskShape, TaskTyped, ChanTyped
<1> QED
  BY <1>1, <1>2 DEF Shape

(* The relay's state keeps its type: in particular no queue of a router    *)
(* connection ever holds more than its capacity, although handlers, pings  *)
(* and flushes send to it without waiting for its writer.                  *)
THEOREM TypeCorrect == Spec => []TypeOK
<1>1. Shape => TypeOK
  BY DEF Shape
<1> QED
  BY <1>1, ShapeInit, ShapeStep, PTL DEF Spec

-----------------------------------------------------------------------------
(* Routing: the map points to connections that are still read.             *)

Routed == \A w \in Worker : workers[w] # None =>
            /\ workers[w] \in WConn /\ WorkerOf[workers[w]] = w
            /\ task[workers[w]].at # "gone"

(* Only a worker's own read loop ends its handler. *)
LEMMA GoneOnlyByRead ==
  ASSUME Shape, [Next]_vars, NEW c \in WConn, task'[c].at = "gone"
  PROVE  task[c].at = "gone" \/ WorkerGone(c)
<1>0. c \in Proc /\ c \notin Router
  BY Bounds, ConnAssumption
<1>1. ASSUME NEW d \in WConn,
             \/ HandleWorker(d) \/ ReadFrame(d) \/ CheckRouter(d)
             \/ EnqueueRouter(d) \/ SendToRouter(d) \/ BufferWorkerMessage(d)
      PROVE  task[c].at = "gone"
  <2>1. PICK a \in {"check", "buffer", "enqueue", "read", "send", "flush"} :
               \E f : Moved(d, a, f, <<>>)
    BY <1>1, WorkerSteps, SendSteps DEF AfterSend
  <2> QED
    BY <1>0, <2>1 DEF Moved
<1>2. ASSUME NEW d \in WConn, WorkerGone(d)
      PROVE  task[c].at = "gone" \/ WorkerGone(c)
  BY <1>0, <1>2, WorkerSteps DEF Moved
<1>3. ASSUME NEW p \in Proc, FlushBegin(p) \/ FlushTake(p) \/ FlushPut(p) \/ FlushEnd(p)
      PROVE  task[c].at = "gone"
  <2>1. PICK a \in {"read", "take", "put"} : \E i : Moved(p, a, task[p].frame, i)
    BY <1>3, FlushSteps
  <2> QED
    BY <1>0, <2>1 DEF Moved
<1>4. ASSUME NEW s \in Router,
             \/ HandleRouter(s) \/ RouterGone(s) \/ RelayPing(s)
             \/ WriteFrame(s) \/ WriteFails(s) \/ WriterExits(s)
      PROVE  task[c].at = "gone"
  BY <1>0, <1>4, RouterSteps DEF Moved
<1>5. UNCHANGED vars => task[c].at = "gone"
  BY DEF vars
<1> QED
  BY <1>1, <1>2, <1>3, <1>4, <1>5, StepCases

LEMMA RoutedStep == Shape /\ Routed /\ [Next]_vars => Routed'
<1> SUFFICES ASSUME Shape, Routed, [Next]_vars PROVE Routed'
  OBVIOUS
<1>0. workers \in [Worker -> WConn \cup {None}] /\ WorkerOf \in [WConn -> Worker]
  BY RelayBrokerAssumption DEF Shape, TypeOK
<1>1. ASSUME NEW c \in WConn, HandleWorker(c)
      PROVE  Routed'
  <2>1. workers' = [workers EXCEPT ![WorkerOf[c]] = c] /\ WorkerOf[c] \in Worker
    BY <1>0, <1>1 DEF HandleWorker
  <2>2. task'[c].at = "check" /\ \A d \in WConn : d # c => task'[d] = task[d]
    BY <1>1, WorkerSteps, Bounds DEF Moved
  <2> QED
    BY <1>0, <2>1, <2>2 DEF Routed
<1>2. ASSUME NEW c \in WConn, WorkerGone(c)
      PROVE  Routed'
  <2>1. workers' = [workers EXCEPT ![WorkerOf[c]] = None] /\ WorkerOf[c] \in Worker
    BY <1>0, <1>2 DEF WorkerGone
  <2>2. \A d \in WConn : d # c => task'[d] = task[d]
    BY <1>2, WorkerSteps, Bounds DEF Moved
  <2> QED
    BY <1>0, <2>1, <2>2 DEF Routed
<1>3. CASE workers' = workers /\ ~\E c \in WConn : WorkerGone(c)
  <2>1. \A c \in WConn : task'[c].at = "gone" => task[c].at = "gone"
    BY <1>3, GoneOnlyByRead
  <2> QED
    BY <1>3, <2>1 DEF Routed
<1>4. workers' = workers \/ \E c \in WConn : HandleWorker(c) \/ WorkerGone(c)
  BY StepCases DEF ReadFrame, CheckRouter, EnqueueRouter, SendToRouter,
     BufferWorkerMessage, FlushBegin, FlushTake, FlushPut, FlushEnd, HandleRouter, RouterGone,
     RelayPing, WriteFrame, WriteFails, WriterExits, vars
<1> QED
  BY <1>1, <1>2, <1>3, <1>4

(* A frame for a worker is never written to a connection whose read loop   *)
(* has ended, whatever connections of the same worker come and go: the     *)
(* entry belongs to a connection of that worker, and the loop that ends    *)
(* removes it.                                                             *)
THEOREM RoutesAreLive == Spec => []NoRouteToEndedConnection
<1>1. Init => Routed
  BY DEF Init, Routed
<1>2. Routed => NoRouteToEndedConnection
  BY DEF Routed, NoRouteToEndedConnection
<1> QED
  BY <1>1, <1>2, ShapeInit, ShapeStep, RoutedStep, PTL DEF Spec

-----------------------------------------------------------------------------
(* The published router connection.                                        *)

Latest(s) == task[s].at # "idle" /\ \A t \in Router : t > s => task[t].at = "idle"

(* Routers are accepted one after the other. *)
Ordered == \A s, t \in Router : s < t /\ task[t].at # "idle" => task[s].at # "idle"

(* What is published belongs to the latest router connection. *)
LinkLatest ==
  /\ link.conn # 0 => Latest(link.conn)
  /\ link.ch # 0 => Latest(link.ch)

LinkInv == Ordered /\ LinkLatest /\ SuccessorKeepsLink

(* What a step of anyone else leaves alone. *)
LEMMA LinkFrame ==
  ASSUME Shape, LinkInv, link' = link,
         \A s \in Router : /\ task'[s].at = "idle" <=> task[s].at = "idle"
                           /\ task'[s].at \in {"flush", "take", "put", "read"}
                                => task[s].at \in {"flush", "take", "put", "read"}
                           /\ writer[s] = "exited" => writer'[s] = "exited"
  PROVE  LinkInv'
<1>0. link.conn \in 0..MaxRouters /\ link.ch \in 0..MaxRouters
  BY DEF Shape, TypeOK
<1>1. \A s \in Router : Latest(s)' <=> Latest(s)
  BY DEF Latest
<1>2. Ordered'
  BY DEF LinkInv, Ordered
<1>3. LinkLatest'
  BY <1>0, <1>1, Bounds DEF LinkInv, LinkLatest
<1>4. SuccessorKeepsLink'
  BY DEF LinkInv, SuccessorKeepsLink
<1> QED
  BY <1>2, <1>3, <1>4 DEF LinkInv

LEMMA LinkStep == Shape /\ LinkInv /\ [Next]_vars => LinkInv'
<1> SUFFICES ASSUME Shape, LinkInv, [Next]_vars PROVE LinkInv'
  OBVIOUS
<1>0. /\ link \in [conn : 0..MaxRouters, ch : 0..MaxRouters]
      /\ writer \in [Router -> {"none", "running", "leaving", "exited"}]
      /\ \A s \in Router : s \in Proc /\ s \notin WConn /\ s \in Nat
      /\ Router = 1..MaxRouters /\ MaxRouters \in Nat
  <2>1. /\ link \in [conn : 0..MaxRouters, ch : 0..MaxRouters]
        /\ writer \in [Router -> {"none", "running", "leaving", "exited"}]
    BY DEF Shape, TypeOK
  <2>2. Router = 1..MaxRouters /\ MaxRouters \in Nat
    BY Bounds DEF Router
  <2>3. \A s \in Router : s \in Nat
    BY <2>2
  <2>4. \A s \in Router : s \in Proc /\ s \notin WConn
    BY Bounds, ConnAssumption
  <2> QED
    BY <2>1, <2>2, <2>3, <2>4
<1>1. ASSUME NEW c \in WConn,
             \/ HandleWorker(c) \/ ReadFrame(c) \/ WorkerGone(c) \/ CheckRouter(c)
             \/ EnqueueRouter(c) \/ SendToRouter(c) \/ BufferWorkerMessage(c)
      PROVE  LinkInv'
  <2>1. \E a, f : Moved(c, a, f, <<>>)
    BY <1>1, WorkerSteps, SendSteps
  <2>2. \A s \in Router : task'[s] = task[s]
    BY <1>0, <2>1 DEF Moved
  <2>3. link' = link /\ writer' = writer
    BY <1>1 DEF HandleWorker, ReadFrame, WorkerGone, CheckRouter, EnqueueRouter, SendToRouter,
       BufferWorkerMessage, outVars
  <2> QED
    BY <2>2, <2>3, LinkFrame
<1>2. ASSUME NEW p \in Proc, FlushBegin(p) \/ FlushTake(p) \/ FlushPut(p) \/ FlushEnd(p)
      PROVE  LinkInv'
  <2>1. PICK a \in {"read", "take", "put"} : \E i : Moved(p, a, task[p].frame, i)
    BY <1>2, FlushSteps
  <2>2. task[p].at \in {"flush", "take", "put"}
    BY <1>2, FlushSteps
  <2>3. link' = link /\ writer' = writer
    BY <1>2 DEF FlushBegin, FlushTake, FlushPut, FlushEnd, outVars
  <2>4. \A s \in Router : /\ task'[s].at = "idle" <=> task[s].at = "idle"
                          /\ task'[s].at \in {"flush", "take", "put", "read"}
                                => task[s].at \in {"flush", "take", "put", "read"}
    BY <1>0, <2>1, <2>2 DEF Moved
  <2> QED
    BY <2>3, <2>4, LinkFrame
<1>3. ASSUME NEW s \in Router, HandleRouter(s)
      PROVE  LinkInv'
  <2>1. task[s].at = "idle" /\ Moved(s, "flush", task[s].frame, <<>>)
    BY <1>3, RouterSteps
  <2>2. task'[s].at = "flush" /\ \A t \in Router : t # s => task'[t] = task[t]
    BY <1>0, <2>1 DEF Moved
  <2>3. link'.conn = s /\ link'.ch = s /\ (s > 1 => task[s - 1].at # "idle")
    BY <1>3 DEF HandleRouter
  <2>4. \A t \in Router : t > s => task[t].at = "idle"
    BY <1>0, <2>1 DEF LinkInv, Ordered
  <2>5. \A t \in Router : t < s => task[t].at # "idle"
    <3>1. ASSUME NEW t \in Router, t < s PROVE task[t].at # "idle"
      <4>1. s - 1 \in Router /\ task[s - 1].at # "idle" /\ (t = s - 1 \/ t < s - 1)
        BY <1>0, <2>3, <3>1
      <4> QED
        BY <4>1 DEF LinkInv, Ordered
    <3> QED
      BY <3>1
  <2>6. Ordered'
    BY <1>0, <2>2, <2>4, <2>5 DEF Ordered
  <2>7. LinkLatest'
    BY <1>0, <2>2, <2>3, <2>4 DEF LinkLatest, Latest
  <2>8. SuccessorKeepsLink'
    BY <1>0, <2>2, <2>3, <2>4 DEF SuccessorKeepsLink
  <2> QED
    BY <2>6, <2>7, <2>8 DEF LinkInv
<1>4. ASSUME NEW s \in Router, RouterGone(s)
      PROVE  LinkInv'
  <2>1. task[s].at = "read" /\ Moved(s, "gone", task[s].frame, <<>>)
    BY <1>4, RouterSteps
  <2>2. task'[s].at = "gone" /\ \A t \in Router : t # s => task'[t] = task[t]
    BY <1>0, <2>1 DEF Moved
  <2>3. link'.conn = (IF link.conn = s THEN 0 ELSE link.conn) /\ link'.ch = link.ch /\ writer' = writer
    BY <1>0, <1>4 DEF RouterGone, Unpublished
  <2>4. \A t \in Router : task'[t].at = "idle" <=> task[t].at = "idle"
    BY <2>1, <2>2
  <2>5. \A t \in Router : Latest(t)' <=> Latest(t)
    BY <2>4 DEF Latest
  <2>6. Ordered'
    BY <2>4 DEF LinkInv, Ordered
  <2>7. LinkLatest'
    BY <1>0, <2>3, <2>5, Bounds DEF LinkInv, LinkLatest
  <2>8. SuccessorKeepsLink'
    BY <1>0, <2>2, <2>3, <2>4 DEF LinkInv, SuccessorKeepsLink
  <2> QED
    BY <2>6, <2>7, <2>8 DEF LinkInv
<1>5. ASSUME NEW s \in Router, RelayPing(s) \/ WriteFrame(s) \/ WriteFails(s)
      PROVE  LinkInv'
  <2>1. task' = task /\ link' = link
    BY <1>5 DEF RelayPing, WriteFrame, WriteFails
  <2>2. \A t \in Router : writer[t] = "exited" => writer'[t] = "exited"
    BY <1>0, <1>5 DEF RelayPing, WriteFrame, WriteFails
  <2> QED
    BY <2>1, <2>2, LinkFrame
<1>6. ASSUME NEW s \in Router, WriterExits(s)
      PROVE  LinkInv'
  <2>1. /\ task' = task /\ link'.conn = link.conn
        /\ link'.ch = (IF link.ch = s THEN 0 ELSE link.ch)
        /\ writer'[s] = "exited" /\ \A t \in Router : t # s => writer'[t] = writer[t]
    BY <1>0, <1>6 DEF WriterExits
  <2>2. Ordered' /\ LinkLatest'
    BY <2>1 DEF LinkInv, Ordered, LinkLatest, Latest
  <2>3. SuccessorKeepsLink'
    BY <1>0, <2>1 DEF LinkInv, SuccessorKeepsLink
  <2> QED
    BY <2>2, <2>3 DEF LinkInv
<1>7. CASE UNCHANGED vars
  BY <1>7, LinkFrame DEF vars
<1> QED
  BY <1>1, <1>2, <1>3, <1>4, <1>5, <1>6, <1>7, StepCases

LEMMA LinkInit == Init => LinkInv
<1> SUFFICES ASSUME Init PROVE LinkInv
  OBVIOUS
<1>1. link.conn = 0 /\ link.ch = 0 /\ \A s \in Router : task[s].at = "idle"
  BY Bounds DEF Init, NoTask
<1> QED
  BY <1>1 DEF LinkInv, Ordered, LinkLatest, SuccessorKeepsLink

(* A newer router supersedes an older one in any interleaving with the     *)
(* older connection's reader and writer: their late clean-up never takes   *)
(* the connection or the queue away from the successor.                    *)
THEOREM SuccessorStaysPublished == Spec => []SuccessorKeepsLink
<1>1. LinkInv => SuccessorKeepsLink
  BY DEF LinkInv
<1> QED
  BY <1>1, ShapeInit, ShapeStep, LinkInit, LinkStep, PTL DEF Spec

-----------------------------------------------------------------------------
(* Buffered registers are flushed.                                         *)

(* The registers in the buffer that no queue has refused. *)
Fresh(c) == RegisterOf(c) \in ToSet(queue) \ bounced

(* Such a register has a flush to come: its own handler's, or the          *)
(* connected router's, or that of the next router to connect.              *)
FlushToCome ==
  \A c \in WConn :
    Fresh(c) => \/ task[c].at \in {"flush", "take"}
                \/ link.conn = 0
                \/ task[link.conn].at \in {"flush", "take"}

(* Only the register's own handler puts it into the buffer without its     *)
(* having been refused, and then goes on to flush.                         *)
LEMMA FreshFrom ==
  ASSUME Shape, [Next]_vars, NEW c \in WConn, Fresh(c)'
  PROVE  Fresh(c) \/ task'[c].at = "flush"
<1>0. /\ queue \in Seq(Frame) /\ \A p \in Proc : task[p].items \in Seq(Frame)
  BY DEF Shape, TypeOK, TaskState
<1>1. ASSUME NEW d \in WConn, BufferWorkerMessage(d)
      PROVE  Fresh(c) \/ task'[c].at = "flush"
  <2> DEFINE rest == IF Len(queue) >= SendQueueSize THEN Tail(queue) ELSE queue
  <2>1. queue' = Append(rest, task[d].frame) /\ bounced' = bounced
    BY <1>1 DEF BufferWorkerMessage
  <2>2. rest \in Seq(Frame) /\ ToSet(rest) \subseteq ToSet(queue)
    <3>1. Len(queue) >= SendQueueSize => queue # <<>>
      BY <1>0, Bounds
    <3>2. CASE rest = queue
      BY <1>0, <3>2
    <3>3. CASE rest = Tail(queue) /\ queue # <<>>
      <4>1. Tail(queue) \in Seq(Frame) /\ Len(Tail(queue)) = Len(queue) - 1
            /\ \A i \in 1..(Len(queue) - 1) : Tail(queue)[i] = queue[i + 1]
        BY <1>0, <3>3
      <4>2. ToSet(Tail(queue)) \subseteq ToSet(queue)
        BY <1>0, <4>1 DEF ToSet
      <4> QED
        BY <3>3, <4>1, <4>2
    <3> QED
      BY <3>1, <3>2, <3>3
  <2> HIDE DEF rest
  <2>3. ToSet(queue') \subseteq ToSet(queue) \cup {task[d].frame}
    <3>1. ToSet(Append(rest, task[d].frame)) \subseteq ToSet(rest) \cup {task[d].frame}
      BY <2>2 DEF ToSet
    <3> QED
      BY <2>1, <2>2, <3>1
  <2>4. task[d].at = "buffer" /\ Moved(d, AfterSend(task[d].frame), task[d].frame, <<>>)
    BY <1>1, WorkerSteps
  <2>5. CASE RegisterOf(c) = task[d].frame
    <3>1. d = c
      BY <2>4, <2>5, HandIsFrame DEF RegisterOf
    <3>2. AfterSend(task[d].frame) = "flush"
      BY <2>5 DEF AfterSend, IsRegister, RegisterOf
    <3> QED
      BY <2>4, <3>1, <3>2 DEF Moved
  <2>6. CASE RegisterOf(c) # task[d].frame
    BY <2>1, <2>3, <2>6 DEF Fresh
  <2> QED
    BY <2>5, <2>6
<1>2. ASSUME NEW p \in Proc, FlushPut(p)
      PROVE  Fresh(c)
  <2>1. \/ queue' = queue /\ bounced' = bounced
        \/ queue' = queue \o task[p].items /\ bounced' = bounced \cup ToSet(task[p].items)
    BY <1>2, FlushSteps
  <2>2. ToSet(queue \o task[p].items) \subseteq ToSet(queue) \cup ToSet(task[p].items)
    BY <1>0 DEF ToSet
  <2> QED
    BY <2>1, <2>2 DEF Fresh
<1>3. CASE queue' = <<>>
  <2>1. Len(queue') = 0
    BY <1>3
  <2>2. ToSet(queue') = {}
    BY <1>3 DEF ToSet
  <2> QED
    BY <2>2 DEF Fresh
<1>4. CASE queue' = queue /\ bounced \subseteq bounced'
  BY <1>4 DEF Fresh
<1>5. ASSUME NEW d \in WConn,
             \/ HandleWorker(d) \/ ReadFrame(d) \/ WorkerGone(d) \/ CheckRouter(d)
             \/ EnqueueRouter(d) \/ SendToRouter(d)
      PROVE  queue' = queue /\ bounced \subseteq bounced'
  BY <1>5 DEF HandleWorker, ReadFrame, WorkerGone, CheckRouter, EnqueueRouter, SendToRouter, Refused
<1>6. ASSUME NEW p \in Proc, FlushBegin(p) \/ FlushTake(p) \/ FlushEnd(p)
      PROVE  queue' = <<>> \/ (queue' = queue /\ bounced \subseteq bounced')
  BY <1>6 DEF FlushBegin, FlushTake, FlushEnd
<1>7. ASSUME NEW s \in Router,
             \/ HandleRouter(s) \/ RouterGone(s) \/ RelayPing(s)
             \/ WriteFrame(s) \/ WriteFails(s) \/ WriterExits(s)
      PROVE  queue' = queue /\ bounced \subseteq bounced'
  BY <1>7 DEF HandleRouter, RouterGone, RelayPing, WriteFrame, WriteFails, WriterExits
<1>8. UNCHANGED vars => queue' = queue /\ bounced \subseteq bounced'
  BY DEF vars
<1> QED
  BY <1>1, <1>2, <1>3, <1>4, <1>5, <1>6, <1>7, <1>8, StepCases

(* A handler gives up its flush by emptying the buffer, or because no      *)
(* router is connected.                                                    *)
LEMMA FlushKept ==
  ASSUME Shape, [Next]_vars, NEW p \in Proc, task[p].at \in {"flush", "take"}
  PROVE  \/ task'[p].at \in {"flush", "take"}
         \/ queue' = <<>>
         \/ link.conn = 0 /\ link' = link
<1>1. ASSUME NEW c \in WConn,
             \/ HandleWorker(c) \/ ReadFrame(c) \/ WorkerGone(c) \/ CheckRouter(c)
             \/ EnqueueRouter(c) \/ SendToRouter(c) \/ BufferWorkerMessage(c)
      PROVE  task'[p].at \in {"flush", "take"}
  <2>1. c # p /\ \E a, f : Moved(c, a, f, <<>>)
    BY <1>1, WorkerSteps, SendSteps
  <2> QED
    BY <2>1 DEF Moved
<1>2. ASSUME NEW q \in Proc, FlushBegin(q)
      PROVE  task'[p].at \in {"flush", "take"} \/ (link.conn = 0 /\ link' = link)
  <2>1. Moved(q, IF link.conn = 0 THEN "read" ELSE "take", task[q].frame, <<>>) /\ link' = link
    BY <1>2, FlushSteps DEF FlushBegin
  <2> QED
    BY <2>1 DEF Moved
<1>3. ASSUME NEW q \in Proc, FlushTake(q)
      PROVE  queue' = <<>>
  BY <1>3 DEF FlushTake
<1>4. ASSUME NEW q \in Proc, FlushPut(q) \/ FlushEnd(q)
      PROVE  task'[p].at \in {"flush", "take"}
  <2>1. q # p /\ \E a, i : Moved(q, a, task[q].frame, i)
    BY <1>4, FlushSteps
  <2> QED
    BY <2>1 DEF Moved
<1>5. ASSUME NEW s \in Router,
             \/ HandleRouter(s) \/ RouterGone(s) \/ RelayPing(s)
             \/ WriteFrame(s) \/ WriteFails(s) \/ WriterExits(s)
      PROVE  task'[p].at \in {"flush", "take"}
  <2>1. task' = task \/ (s # p /\ \E a : Moved(s, a, task[s].frame, <<>>))
    BY <1>5, RouterSteps
  <2> QED
    BY <2>1 DEF Moved
<1>6. UNCHANGED vars => task'[p].at \in {"flush", "take"}
  BY DEF vars
<1> QED
  BY <1>1, <1>2, <1>3, <1>4, <1>5, <1>6, StepCases

(* The published connection changes to none, or to one about to flush. *)
LEMMA ConnSteps ==
  ASSUME Shape, [Next]_vars
  PROVE  \/ link'.conn = link.conn \/ link'.conn = 0
         \/ link'.conn \in Router /\ task'[link'.conn].at = "flush"
<1>0. link \in [conn : 0..MaxRouters, ch : 0..MaxRouters]
  BY DEF Shape, TypeOK
<1>1. ASSUME NEW s \in Router, HandleRouter(s)
      PROVE  link'.conn \in Router /\ task'[link'.conn].at = "flush"
  BY <1>1, RouterSteps DEF HandleRouter, Moved
<1>2. ASSUME NEW s \in Router, RouterGone(s) \/ WriterExits(s)
      PROVE  link'.conn = link.conn \/ link'.conn = 0
  BY <1>0, <1>2 DEF RouterGone, WriterExits, Unpublished
<1>3. ASSUME NEW s \in Router, RelayPing(s) \/ WriteFrame(s) \/ WriteFails(s)
      PROVE  link' = link
  BY <1>3 DEF RelayPing, WriteFrame, WriteFails
<1>4. ASSUME NEW c \in WConn,
             \/ HandleWorker(c) \/ ReadFrame(c) \/ WorkerGone(c) \/ CheckRouter(c)
             \/ EnqueueRouter(c) \/ SendToRouter(c) \/ BufferWorkerMessage(c)
      PROVE  link' = link
  BY <1>4 DEF HandleWorker, ReadFrame, WorkerGone, CheckRouter, EnqueueRouter, SendToRouter,
     BufferWorkerMessage
<1>5. ASSUME NEW p \in Proc, FlushBegin(p) \/ FlushTake(p) \/ FlushPut(p) \/ FlushEnd(p)
      PROVE  link' = link
  BY <1>5 DEF FlushBegin, FlushTake, FlushPut, FlushEnd
<1>6. UNCHANGED vars => link' = link
  BY DEF vars
<1> QED
  BY <1>1, <1>2, <1>3, <1>4, <1>5, <1>6, StepCases

LEMMA FlushToComeStep == Shape /\ FlushToCome /\ [Next]_vars => FlushToCome'
<1> SUFFICES ASSUME Shape, FlushToCome, [Next]_vars, NEW c \in WConn, Fresh(c)'
             PROVE  \/ task'[c].at \in {"flush", "take"}
                    \/ link'.conn = 0
                    \/ task'[link'.conn].at \in {"flush", "take"}
  BY DEF FlushToCome
<1>0. c \in Proc /\ link.conn \in 0..MaxRouters
      /\ (link.conn # 0 => link.conn \in Proc)
  BY Bounds DEF Shape, TypeOK
<1>1. queue' # <<>>
  <2>1. queue' = <<>> => ToSet(queue') = {}
    BY DEF ToSet
  <2> QED
    BY <2>1 DEF Fresh
<1>2. CASE link.conn = 0
  BY <1>2, ConnSteps
<1>3. CASE link.conn # 0 /\ Fresh(c)
  <2>1. task[c].at \in {"flush", "take"} \/ task[link.conn].at \in {"flush", "take"}
    BY <1>3 DEF FlushToCome
  <2>2. task'[c].at \in {"flush", "take"} \/ task'[link.conn].at \in {"flush", "take"}
    BY <1>0, <1>1, <1>3, <2>1, FlushKept
  <2> QED
    BY <2>2, ConnSteps
<1>4. CASE ~Fresh(c)
  BY <1>4, FreshFrom
<1> QED
  BY <1>2, <1>3, <1>4

(* A register that was buffered because no router was there does not stay  *)
(* behind in the buffer next to a connected router, in whatever order the  *)
(* worker and the router connect, check, buffer and flush, unless a full   *)
(* queue or one without a writer refused it.                               *)
THEOREM RegisterReachesRouter == Spec => []RegisterNotStranded
<1>1. Init => FlushToCome
  BY DEF Init, FlushToCome
<1>2. FlushToCome => RegisterNotStranded
  BY DEF FlushToCome, RegisterNotStranded, Fresh
<1> QED
  BY <1>1, <1>2, ShapeInit, ShapeStep, FlushToComeStep, PTL DEF Spec

-----------------------------------------------------------------------------
(* A frame is in one place at a time.                                      *)

(* Sequences without repeated frames. *)

LEMMA OnceAppend ==
  ASSUME NEW S, NEW q \in Seq(S), Once(q), NEW m \in S, m = Ping \/ m \notin ToSet(q)
  PROVE  Once(Append(q, m)) /\ ToSet(Append(q, m)) = ToSet(q) \cup {m}
<1> DEFINE n == Append(q, m)
<1>1. /\ Len(q) \in Nat /\ Len(n) = Len(q) + 1 /\ n[Len(q) + 1] = m
      /\ DOMAIN q = 1..Len(q) /\ DOMAIN n = 1..(Len(q) + 1)
      /\ \A i \in 1..Len(q) : n[i] = q[i]
  OBVIOUS
<1> HIDE DEF n
<1>2. ToSet(n) = ToSet(q) \cup {m}
  BY <1>1 DEF ToSet
<1>3. \A i \in 1..Len(q) : q[i] \in ToSet(q)
  BY <1>1 DEF ToSet
<1>4. Once(n)
  BY <1>1, <1>3 DEF Once
<1> QED
  BY <1>2, <1>4 DEF n

LEMMA OnceTail ==
  ASSUME NEW S, NEW q \in Seq(S), Once(q), q # <<>>
  PROVE  /\ Once(Tail(q)) /\ ToSet(Tail(q)) \subseteq ToSet(q)
         /\ Head(q) \in ToSet(q) /\ (Head(q) # Ping => Head(q) \notin ToSet(Tail(q)))
<1> DEFINE n == Tail(q)
<1>1. /\ Len(q) \in Nat /\ Len(q) > 0 /\ Len(n) = Len(q) - 1 /\ Head(q) = q[1]
      /\ DOMAIN q = 1..Len(q) /\ DOMAIN n = 1..(Len(q) - 1)
      /\ \A i \in 1..(Len(q) - 1) : n[i] = q[i + 1]
  OBVIOUS
<1> HIDE DEF n
<1>2. ToSet(n) \subseteq ToSet(q) /\ Head(q) \in ToSet(q)
  BY <1>1 DEF ToSet
<1>3. Head(q) # Ping => Head(q) \notin ToSet(n)
  BY <1>1 DEF ToSet, Once
<1>4. Once(n)
  <2> SUFFICES ASSUME NEW i \in 1..Len(n), NEW j \in 1..Len(n), n[i] = n[j], n[i] # Ping
               PROVE  i = j
    BY DEF Once
  <2>1. i + 1 \in 1..Len(q) /\ j + 1 \in 1..Len(q) /\ q[i + 1] = q[j + 1] /\ q[i + 1] # Ping
    BY <1>1
  <2>2. i + 1 = j + 1
    BY <2>1 DEF Once
  <2> QED
    BY <1>1, <2>2
<1> QED
  BY <1>2, <1>3, <1>4 DEF n

LEMMA OnceConcat ==
  ASSUME NEW S, NEW q \in Seq(S), NEW r \in Seq(S), Once(q), Once(r),
         ToSet(q) \cap ToSet(r) = {}
  PROVE  Once(q \o r) /\ ToSet(q \o r) = ToSet(q) \cup ToSet(r)
<1> DEFINE n == q \o r
<1>1. /\ Len(q) \in Nat /\ Len(r) \in Nat /\ Len(n) = Len(q) + Len(r)
      /\ DOMAIN q = 1..Len(q) /\ DOMAIN r = 1..Len(r) /\ DOMAIN n = 1..(Len(q) + Len(r))
      /\ \A i \in 1..Len(q) : n[i] = q[i]
      /\ \A i \in 1..Len(r) : n[Len(q) + i] = r[i]
  OBVIOUS
<1>2. \A i \in 1..Len(n) : i \in 1..Len(q) \/ (i > Len(q) /\ i - Len(q) \in 1..Len(r) /\ n[i] = r[i - Len(q)])
  BY <1>1
<1> HIDE DEF n
<1>3. /\ \A i \in 1..Len(q) : n[i] \in ToSet(q)
      /\ \A i \in 1..Len(r) : r[i] \in ToSet(r)
  BY <1>1 DEF ToSet
<1>4. ToSet(n) \subseteq ToSet(q) \cup ToSet(r)
  <2> SUFFICES ASSUME NEW i \in 1..Len(n) PROVE n[i] \in ToSet(q) \cup ToSet(r)
    BY <1>1 DEF ToSet
  <2> QED
    BY <1>2, <1>3
<1>5. ToSet(q) \subseteq ToSet(n) /\ ToSet(r) \subseteq ToSet(n)
  <2>1. \A i \in 1..Len(n) : n[i] \in ToSet(n)
    BY <1>1 DEF ToSet
  <2>2. \A i \in 1..Len(q) : q[i] \in ToSet(n)
    BY <1>1, <2>1
  <2>3. \A i \in 1..Len(r) : r[i] \in ToSet(n)
    BY <1>1, <2>1
  <2>4. ToSet(q) \subseteq ToSet(n)
    BY <1>1, <2>2 DEF ToSet
  <2>5. ToSet(r) \subseteq ToSet(n)
    BY <1>1, <2>3 DEF ToSet
  <2> QED
    BY <2>4, <2>5
<1>6. Once(n)
  <2> SUFFICES ASSUME NEW i \in 1..Len(n), NEW j \in 1..Len(n), n[i] = n[j], n[i] # Ping
               PROVE  i = j
    BY DEF Once
  <2>1. CASE i \in 1..Len(q) /\ j \in 1..Len(q)
    BY <1>1, <2>1 DEF Once
  <2>2. CASE i > Len(q) /\ j > Len(q)
    <3>1. /\ i - Len(q) \in 1..Len(r) /\ n[i] = r[i - Len(q)]
          /\ j - Len(q) \in 1..Len(r) /\ n[j] = r[j - Len(q)]
      BY <1>1, <1>2, <2>2
    <3>2. i - Len(q) = j - Len(q)
      BY <3>1 DEF Once
    <3> QED
      BY <1>1, <3>2
  <2>3. CASE (i \in 1..Len(q)) # (j \in 1..Len(q))
    BY <1>1, <1>2, <1>3, <2>3
  <2> QED
    BY <1>1, <1>2, <2>1, <2>2, <2>3
<1> QED
  BY <1>4, <1>5, <1>6 DEF n

(* What is held where. *)

LEMMA Places ==
  /\ <<"buffer", 0>> \in Place /\ <<"wire", 0>> \in Place
  /\ \A c \in WConn : <<"hand", c>> \in Place
  /\ \A p \in Proc : <<"flush", p>> \in Place
  /\ \A s \in Router : <<"queue", s>> \in Place
  /\ \A l \in Place : \/ l = <<"buffer", 0>> \/ l = <<"wire", 0>>
                      \/ \E c \in WConn : l = <<"hand", c>>
                      \/ \E p \in Proc : l = <<"flush", p>>
                      \/ \E s \in Router : l = <<"queue", s>>
  BY DEF Place

LEMMA HeldAt ==
  /\ Held(<<"buffer", 0>>) = ToSet(queue)
  /\ Held(<<"wire", 0>>) = {f \in Frame : delivered[f] > 0}
  /\ \A c \in WConn : Held(<<"hand", c>>) = HandOf(c)
  /\ \A p \in Proc : Held(<<"flush", p>>) = ToSet(task[p].items)
  /\ \A s \in Router : Held(<<"queue", s>>) = ToSet(chan[s]) \ {Ping}
  BY DEF Held

LEMMA HeldAtPrimed ==
  /\ Held(<<"buffer", 0>>)' = ToSet(queue')
  /\ Held(<<"wire", 0>>)' = {f \in Frame : delivered'[f] > 0}
  /\ \A c \in WConn : Held(<<"hand", c>>)' = HandOf(c)'
  /\ \A p \in Proc : Held(<<"flush", p>>)' = ToSet(task'[p].items)
  /\ \A s \in Router : Held(<<"queue", s>>)' = ToSet(chan'[s]) \ {Ping}
  BY DEF Held

LEMMA ApartPairs ==
  ASSUME Apart
  PROVE  /\ \A c \in WConn : HandOf(c) \cap ToSet(queue) = {}
         /\ \A p \in Proc : ToSet(queue) \cap ToSet(task[p].items) = {}
         /\ \A c \in WConn, s \in Router : HandOf(c) \cap (ToSet(chan[s]) \ {Ping}) = {}
         /\ \A p \in Proc, s \in Router :
               ToSet(task[p].items) \cap (ToSet(chan[s]) \ {Ping}) = {}
         /\ \A s \in Router :
               (ToSet(chan[s]) \ {Ping}) \cap {f \in Frame : delivered[f] > 0} = {}
<1>0. \A l \in Place, m \in Place : l # m => Held(l) \cap Held(m) = {}
  BY DEF Apart
<1>1. \A c \in WConn : HandOf(c) \cap ToSet(queue) = {}
  <2> TAKE c \in WConn
  <2>1. <<"hand", c>> # <<"buffer", 0>>
    OBVIOUS
  <2>2. Held(<<"hand", c>>) \cap Held(<<"buffer", 0>>) = {}
    BY <1>0, <2>1, Places
  <2> QED
    BY <2>2, HeldAt
<1>2. \A p \in Proc : ToSet(queue) \cap ToSet(task[p].items) = {}
  <2> TAKE p \in Proc
  <2>1. <<"buffer", 0>> # <<"flush", p>>
    OBVIOUS
  <2>2. Held(<<"buffer", 0>>) \cap Held(<<"flush", p>>) = {}
    BY <1>0, <2>1, Places
  <2> QED
    BY <2>2, HeldAt
<1>3. \A c \in WConn, s \in Router : HandOf(c) \cap (ToSet(chan[s]) \ {Ping}) = {}
  <2> TAKE c \in WConn, s \in Router
  <2>1. <<"hand", c>> # <<"queue", s>>
    OBVIOUS
  <2>2. Held(<<"hand", c>>) \cap Held(<<"queue", s>>) = {}
    BY <1>0, <2>1, Places
  <2> QED
    BY <2>2, HeldAt
<1>4. \A p \in Proc, s \in Router :
        ToSet(task[p].items) \cap (ToSet(chan[s]) \ {Ping}) = {}
  <2> TAKE p \in Proc, s \in Router
  <2>1. <<"flush", p>> # <<"queue", s>>
    OBVIOUS
  <2>2. Held(<<"flush", p>>) \cap Held(<<"queue", s>>) = {}
    BY <1>0, <2>1, Places
  <2> QED
    BY <2>2, HeldAt
<1>5. \A s \in Router : (ToSet(chan[s]) \ {Ping}) \cap {f \in Frame : delivered[f] > 0} = {}
  <2> TAKE s \in Router
  <2>1. <<"queue", s>> # <<"wire", 0>>
    OBVIOUS
  <2>2. Held(<<"queue", s>>) \cap Held(<<"wire", 0>>) = {}
    BY <1>0, <2>1, Places
  <2> QED
    BY <2>2, HeldAt
<1> QED
  BY <1>1, <1>2, <1>3, <1>4, <1>5

Into(l, b, X) == IF l = b THEN X ELSE {}

(* The frames X go from a to b; elsewhere none are added. *)
Shift(a, b, X) ==
  /\ a \in Place /\ b \in Place /\ X \subseteq Held(a)
  /\ \A l \in Place : Held(l)' \subseteq Held(l) \cup Into(l, b, X)
  /\ a # b => Held(a)' \cap X = {}

LEMMA ShiftKeepsApart ==
  ASSUME Apart, NEW a, NEW b, NEW X, Shift(a, b, X)
  PROVE  Apart'
<1> SUFFICES ASSUME NEW l \in Place, NEW m \in Place, l # m, NEW f,
                    f \in Held(l)', f \in Held(m)'
             PROVE  FALSE
  BY DEF Apart, Place, Proc, Router
<1>1. /\ \A x \in Place, y \in Place : x # y => ~(f \in Held(x) /\ f \in Held(y))
  BY DEF Apart
<1>2. /\ f \in Held(l) \/ (l = b /\ f \in X)
      /\ f \in Held(m) \/ (m = b /\ f \in X)
  BY DEF Shift, Into
<1> QED
  BY <1>1, <1>2 DEF Shift

(* A frame f, of which nothing is anywhere, enters at b. *)
Born(b, f) ==
  /\ b \in Place /\ \A l \in Place : f \notin Held(l)
  /\ \A l \in Place : Held(l)' \subseteq Held(l) \cup Into(l, b, {f})

LEMMA BornKeepsApart ==
  ASSUME Apart, NEW b, NEW f, Born(b, f)
  PROVE  Apart'
<1> SUFFICES ASSUME NEW l \in Place, NEW m \in Place, l # m, NEW g,
                    g \in Held(l)', g \in Held(m)'
             PROVE  FALSE
  BY DEF Apart, Place, Proc, Router
<1>1. \A x \in Place, y \in Place : x # y => ~(g \in Held(x) /\ g \in Held(y))
  BY DEF Apart
<1>2. /\ g \in Held(l) \/ (l = b /\ g = f)
      /\ g \in Held(m) \/ (m = b /\ g = f)
  BY DEF Born, Into
<1> QED
  BY <1>1, <1>2 DEF Born

(* The inclusions, place by place. *)
LEMMA HeldBy ==
  ASSUME NEW b, NEW X,
         ToSet(queue') \subseteq ToSet(queue) \cup Into(<<"buffer", 0>>, b, X),
         \A f \in Frame : delivered'[f] > 0 =>
            delivered[f] > 0 \/ f \in Into(<<"wire", 0>>, b, X),
         \A c \in WConn : HandOf(c)' \subseteq HandOf(c) \cup Into(<<"hand", c>>, b, X),
         \A p \in Proc : ToSet(task'[p].items)
                           \subseteq ToSet(task[p].items) \cup Into(<<"flush", p>>, b, X),
         \A s \in Router : ToSet(chan'[s]) \ {Ping}
                             \subseteq (ToSet(chan[s]) \ {Ping}) \cup Into(<<"queue", s>>, b, X)
  PROVE  \A l \in Place : Held(l)' \subseteq Held(l) \cup Into(l, b, X)
<1> SUFFICES ASSUME NEW l \in Place
             PROVE  Held(l)' \subseteq Held(l) \cup Into(l, b, X)
  BY DEF Place, Proc, Router
<1>1. CASE l = <<"buffer", 0>>
  BY <1>1, HeldAt, HeldAtPrimed
<1>2. CASE l = <<"wire", 0>>
  BY <1>2, HeldAt, HeldAtPrimed
<1>3. ASSUME NEW c \in WConn, l = <<"hand", c>>
      PROVE  Held(l)' \subseteq Held(l) \cup Into(l, b, X)
  BY <1>3, HeldAt, HeldAtPrimed
<1>4. ASSUME NEW p \in Proc, l = <<"flush", p>>
      PROVE  Held(l)' \subseteq Held(l) \cup Into(l, b, X)
  BY <1>4, HeldAt, HeldAtPrimed
<1>5. ASSUME NEW s \in Router, l = <<"queue", s>>
      PROVE  Held(l)' \subseteq Held(l) \cup Into(l, b, X)
  BY <1>5, HeldAt, HeldAtPrimed
<1> QED
  BY <1>1, <1>2, <1>3, <1>4, <1>5, Places

(* Frames of connection c are numbered up to the one its handler read      *)
(* last.                                                                   *)
Known == \A l \in Place : \A f \in Held(l) :
           f \in Frame /\ task[f[1]].at # "idle" /\ f[2] <= task[f[1]].frame[2]

(* A handler that moved: what it holds in hand. *)
LEMMA MovedHolds ==
  ASSUME Shape, NEW p \in Proc, NEW a, NEW f, NEW i, Moved(p, a, f, i)
  PROVE  /\ \A c \in WConn : c # p => HandOf(c)' = HandOf(c)
         /\ \A q \in Proc : q # p => task'[q].items = task[q].items
         /\ task'[p].items = i
         /\ HandOf(p)' = IF a \in {"check", "enqueue", "send", "buffer"} THEN {f} ELSE {}
  BY Bounds DEF Moved, HandOf

LEMMA EmptyHolds == ToSet(<<>>) = {}
  BY DEF ToSet

PlaceInv == Shape /\ NoFrameTwice /\ Known

(* Steps that only hold less: the moves within a handler, refusals,        *)
(* dropped frames, pings and the end of connections.                       *)
LEMMA DropShifts ==
  ASSUME ToSet(queue') \subseteq ToSet(queue), delivered' = delivered,
         \A c \in WConn : HandOf(c)' \subseteq HandOf(c),
         \A p \in Proc : ToSet(task'[p].items) \subseteq ToSet(task[p].items),
         \A s \in Router : ToSet(chan'[s]) \ {Ping} \subseteq ToSet(chan[s]) \ {Ping}
  PROVE  Shift(<<"buffer", 0>>, <<"buffer", 0>>, {})
<1> DEFINE b == <<"buffer", 0>>
<1>0. \A l : Into(l, b, {}) = {}
  BY DEF Into
<1>1. \A l \in Place : Held(l)' \subseteq Held(l) \cup Into(l, b, {})
  <2> HIDE DEF b
  <2> QED
    BY <1>0, HeldBy
<1> QED
  BY <1>1, Places DEF Shift

(* Where the frames go, operation by operation. *)

LEMMA BornAtHand ==
  ASSUME PlaceInv, NEW c \in WConn, HandleWorker(c) \/ ReadFrame(c)
  PROVE  \E f \in Frame : /\ Born(<<"hand", c>>, f) /\ f[1] = c
                          /\ task'[c].frame = f /\ task'[c].at = "check"
<1>0. Shape /\ Known /\ c \in Proc
  BY Bounds DEF PlaceInv
<1>1. PICK f \in Frame : /\ Moved(c, "check", f, <<>>) /\ f[1] = c
                         /\ task[c].at = "idle" \/ f[2] > task[c].frame[2]
                         /\ task[c].at \in {"idle", "read"}
  <2>1. CASE HandleWorker(c)
    <3>1. RegisterOf(c) \in Frame /\ RegisterOf(c)[1] = c
      BY Bounds DEF RegisterOf, Frame
    <3> QED
      BY <1>0, <2>1, <3>1, WorkerSteps
  <2>2. CASE ReadFrame(c)
    <3> DEFINE f == <<c, task[c].frame[2] + 1>>
    <3>1. f \in Frame /\ Moved(c, "check", f, <<>>) /\ task[c].at = "read"
      BY <1>0, <2>2, WorkerSteps
    <3>2. task[c].frame[2] \in 0..MaxFrames
      BY <1>0, <3>1, HandIsFrame
    <3>3. f[1] = c /\ f[2] > task[c].frame[2]
      BY <3>2, Bounds
    <3> QED
      BY <3>1, <3>3
  <2> QED
    BY <2>1, <2>2
<1>2. /\ \A d \in WConn : d # c => HandOf(d)' = HandOf(d)
      /\ \A q \in Proc : q # c => task'[q].items = task[q].items
      /\ task'[c].items = <<>> /\ HandOf(c)' = {f}
  BY <1>0, <1>1, MovedHolds
<1>3. queue' = queue /\ chan' = chan /\ delivered' = delivered
  BY DEF HandleWorker, ReadFrame, outVars
<1>4. f \in Into(<<"hand", c>>, <<"hand", c>>, {f})
  BY DEF Into
<1> DEFINE b == <<"hand", c>>
<1>5. \A l \in Place : Held(l)' \subseteq Held(l) \cup Into(l, b, {f})
  <2> HIDE DEF b
  <2>1. HandOf(c)' \subseteq HandOf(c) \cup Into(<<"hand", c>>, b, {f})
    BY <1>2, <1>4 DEF b
  <2>2. \A d \in WConn : HandOf(d)' \subseteq HandOf(d) \cup Into(<<"hand", d>>, b, {f})
    BY <1>2, <2>1
  <2>3. \A p \in Proc : ToSet(task'[p].items)
                          \subseteq ToSet(task[p].items) \cup Into(<<"flush", p>>, b, {f})
    BY <1>2, EmptyHolds
  <2> QED
    BY <1>3, <2>2, <2>3, HeldBy
<1>6. \A l \in Place : f \notin Held(l)
  <2> SUFFICES ASSUME NEW l \in Place, f \in Held(l) PROVE FALSE
    OBVIOUS
  <2>1. task[c].at # "idle" /\ f[2] <= task[c].frame[2]
    BY <1>0, <1>1 DEF Known
  <2>2. f[2] \in 0..MaxFrames /\ task[c].frame[2] \in 0..MaxFrames
    BY <1>0, <2>1, HandIsFrame DEF Frame
  <2> QED
    BY <1>1, <2>1, <2>2, Bounds
<1>7. task'[c].frame = f /\ task'[c].at = "check"
  BY <1>1 DEF Moved
<1> QED
  BY <1>1, <1>5, <1>6, <1>7, Places DEF Born

(* A worker's handler that neither reads nor sends a frame. *)
LEMMA WorkerDrops ==
  ASSUME PlaceInv, NEW c \in WConn,
         \/ WorkerGone(c) \/ CheckRouter(c) \/ EnqueueRouter(c)
         \/ SendToRouter(c) /\ Refused(c) /\ chan' = chan
  PROVE  Shift(<<"buffer", 0>>, <<"buffer", 0>>, {})
<1>0. Shape /\ c \in Proc
  BY Bounds DEF PlaceInv
<1>1. task[c].at \in {"check", "enqueue", "send", "buffer"}
        \/ \E f : Moved(c, "gone", f, <<>>)
  BY <1>0, WorkerSteps, SendSteps
<1>2. \E a \in {"gone", "buffer", "enqueue", "read", "send"} : Moved(c, a, task[c].frame, <<>>)
  BY <1>0, WorkerSteps, SendSteps
<1>3. /\ \A d \in WConn : d # c => HandOf(d)' = HandOf(d)
      /\ \A q \in Proc : q # c => task'[q].items = task[q].items
      /\ task'[c].items = <<>> /\ HandOf(c)' \subseteq {task[c].frame}
  BY <1>0, <1>2, MovedHolds
<1>4. HandOf(c)' \subseteq HandOf(c)
  <2>1. CASE task[c].at \in {"check", "enqueue", "send", "buffer"}
    BY <1>3, <2>1 DEF HandOf
  <2>2. CASE \E f : Moved(c, "gone", f, <<>>)
    BY <1>0, <2>2, MovedHolds
  <2> QED
    BY <1>1, <2>1, <2>2
<1>5. queue' = queue /\ chan' = chan /\ delivered' = delivered
  BY DEF WorkerGone, CheckRouter, EnqueueRouter, SendToRouter, outVars
<1>6. \A d \in WConn : HandOf(d)' \subseteq HandOf(d)
  BY <1>3, <1>4
<1>7. \A p \in Proc : ToSet(task'[p].items) \subseteq ToSet(task[p].items)
  BY <1>3, EmptyHolds
<1> QED
  BY <1>5, <1>6, <1>7, DropShifts

LEMMA SendShifts ==
  ASSUME PlaceInv, NEW c \in WConn, SendToRouter(c), ~(Refused(c) /\ chan' = chan)
  PROVE  /\ task[c].ch \in Router
         /\ Shift(<<"hand", c>>, <<"queue", task[c].ch>>, {task[c].frame})
         /\ chan' = [chan EXCEPT ![task[c].ch] = Append(@, task[c].frame)]
<1> DEFINE h == task[c].ch
           f == task[c].frame
           b == <<"queue", h>>
<1>0. Shape /\ c \in Proc /\ ChanTyped
  BY Bounds DEF PlaceInv, Shape, TypeOK, ChanTyped
<1>1. /\ task[c].at = "send" /\ Room(h) /\ chan' = [chan EXCEPT ![h] = Append(@, f)]
      /\ Moved(c, AfterSend(f), f, <<>>)
  BY <1>0, SendSteps
<1>2. f \in Frame /\ h \in 0..MaxRouters
  BY <1>0, <1>1, HandIsFrame DEF Shape, TypeOK, TaskState
<1>3. h \in Router /\ chan'[h] = Append(chan[h], f)
  BY <1>0, <1>1, <1>2, ChanAppend
<1>4. /\ \A d \in WConn : d # c => HandOf(d)' = HandOf(d)
      /\ \A q \in Proc : q # c => task'[q].items = task[q].items
      /\ task'[c].items = <<>> /\ HandOf(c)' = {}
  BY <1>0, <1>1, MovedHolds DEF AfterSend
<1>5. HandOf(c) = {f}
  BY <1>1 DEF HandOf
<1>6. ToSet(chan'[h]) \subseteq ToSet(chan[h]) \cup {f}
  <2>1. chan[h] \in Seq(Frame \cup {Ping})
    BY <1>0, <1>3 DEF ChanTyped
  <2> HIDE DEF f, h
  <2>2. ToSet(Append(chan[h], f)) \subseteq ToSet(chan[h]) \cup {f}
    BY <2>1 DEF ToSet
  <2> QED
    BY <1>3, <2>2
<1>7. queue' = queue /\ delivered' = delivered
  BY DEF SendToRouter
<1>8. \A s \in Router : s # h => chan'[s] = chan[s]
  BY <1>0, <1>1 DEF ChanTyped
<1>9. \A l \in Place : Held(l)' \subseteq Held(l) \cup Into(l, b, {f})
  <2>1. Into(<<"queue", h>>, b, {f}) = {f}
    BY DEF Into
  <2> HIDE DEF b, f, h
  <2>2. \A d \in WConn : HandOf(d)' \subseteq HandOf(d) \cup Into(<<"hand", d>>, b, {f})
    BY <1>4
  <2>3. \A p \in Proc : ToSet(task'[p].items)
                          \subseteq ToSet(task[p].items) \cup Into(<<"flush", p>>, b, {f})
    BY <1>4, EmptyHolds
  <2>4. \A s \in Router : ToSet(chan'[s]) \ {Ping}
                            \subseteq (ToSet(chan[s]) \ {Ping}) \cup Into(<<"queue", s>>, b, {f})
    BY <1>6, <1>8, <2>1
  <2> QED
    BY <1>7, <2>2, <2>3, <2>4, HeldBy
<1>10. Held(<<"hand", c>>) = {f} /\ Held(<<"hand", c>>)' = {}
  BY <1>4, <1>5, HeldAt, HeldAtPrimed
<1>11. <<"hand", c>> \in Place /\ b \in Place
  BY <1>3, Places
<1> QED
  BY <1>1, <1>3, <1>9, <1>10, <1>11 DEF Shift

LEMMA BufferShifts ==
  ASSUME PlaceInv, NEW c \in WConn, BufferWorkerMessage(c)
  PROVE  /\ Shift(<<"hand", c>>, <<"buffer", 0>>, {task[c].frame})
         /\ Once(queue')
<1> DEFINE f == task[c].frame
           rest == IF Len(queue) >= SendQueueSize THEN Tail(queue) ELSE queue
           b == <<"buffer", 0>>
<1>0. Shape /\ c \in Proc /\ queue \in Seq(Frame) /\ Once(queue) /\ Apart
  BY Bounds DEF PlaceInv, Shape, TypeOK, NoFrameTwice
<1>1. task[c].at = "buffer" /\ Moved(c, AfterSend(f), f, <<>>)
  BY <1>0, WorkerSteps
<1>2. f \in Frame
  BY <1>0, <1>1, HandIsFrame
<1>3. /\ \A d \in WConn : d # c => HandOf(d)' = HandOf(d)
      /\ \A q \in Proc : q # c => task'[q].items = task[q].items
      /\ task'[c].items = <<>> /\ HandOf(c)' = {}
  BY <1>0, <1>1, MovedHolds DEF AfterSend
<1>4. HandOf(c) = {f}
  BY <1>1 DEF HandOf
<1>5. f \notin ToSet(queue)
  BY <1>0, <1>4, ApartPairs
<1>6. queue' = Append(rest, f) /\ chan' = chan /\ delivered' = delivered
  BY DEF BufferWorkerMessage, outVars
<1>7. rest \in Seq(Frame) /\ Once(rest) /\ ToSet(rest) \subseteq ToSet(queue)
  <2>1. Len(queue) >= SendQueueSize => queue # <<>>
    BY <1>0, Bounds
  <2>2. queue # <<>> => /\ Tail(queue) \in Seq(Frame) /\ Once(Tail(queue))
                        /\ ToSet(Tail(queue)) \subseteq ToSet(queue)
    BY <1>0, OnceTail
  <2> QED
    BY <1>0, <2>1, <2>2
<1> HIDE DEF rest, f
<1>8. Once(Append(rest, f)) /\ ToSet(Append(rest, f)) = ToSet(rest) \cup {f}
  BY <1>2, <1>5, <1>7, OnceAppend
<1>9. \A l \in Place : Held(l)' \subseteq Held(l) \cup Into(l, b, {f})
  <2>1. Into(<<"buffer", 0>>, b, {f}) = {f}
    BY DEF Into
  <2> HIDE DEF b
  <2>2. \A d \in WConn : HandOf(d)' \subseteq HandOf(d) \cup Into(<<"hand", d>>, b, {f})
    BY <1>3
  <2>3. \A p \in Proc : ToSet(task'[p].items)
                          \subseteq ToSet(task[p].items) \cup Into(<<"flush", p>>, b, {f})
    BY <1>3, EmptyHolds
  <2>4. ToSet(queue') \subseteq ToSet(queue) \cup Into(<<"buffer", 0>>, b, {f})
    BY <1>6, <1>7, <1>8, <2>1
  <2> QED
    BY <1>6, <2>2, <2>3, <2>4, HeldBy
<1>10. Held(<<"hand", c>>) = {f} /\ Held(<<"hand", c>>)' = {}
  BY <1>3, <1>4, HeldAt, HeldAtPrimed
<1>11. <<"hand", c>> \in Place /\ b \in Place
  BY Places
<1>12. Shift(<<"hand", c>>, b, {f}) /\ Once(queue')
  BY <1>6, <1>8, <1>9, <1>10, <1>11 DEF Shift
<1> QED
  BY <1>12 DEF f

(* A flush that takes the buffer, or ends, or finds nothing to do. *)
LEMMA TakeShifts ==
  ASSUME PlaceInv, NEW p \in Proc, FlushTake(p)
  PROVE  Shift(<<"buffer", 0>>, <<"flush", p>>, ToSet(queue))
<1> DEFINE b == <<"flush", p>>
           X == ToSet(queue)
<1>0. Shape
  BY DEF PlaceInv
<1>1. /\ task[p].at = "take"
      /\ \/ queue = <<>> /\ Moved(p, "read", task[p].frame, <<>>)
         \/ Moved(p, "put", task[p].frame, queue)
  BY <1>0, FlushSteps
<1>2. /\ \A d \in WConn : HandOf(d)' \subseteq HandOf(d)
      /\ \A q \in Proc : q # p => task'[q].items = task[q].items
      /\ task'[p].items = queue
  BY <1>0, <1>1, MovedHolds
<1>3. queue' = <<>> /\ chan' = chan /\ delivered' = delivered
  BY DEF FlushTake, outVars
<1>4. \A l \in Place : Held(l)' \subseteq Held(l) \cup Into(l, b, X)
  <2>1. Into(<<"flush", p>>, b, X) = X
    BY DEF Into
  <2>2. \A q \in Proc : ToSet(task'[q].items)
                          \subseteq ToSet(task[q].items) \cup Into(<<"flush", q>>, b, X)
    BY <1>2, <2>1
  <2> HIDE DEF b, X
  <2>3. ToSet(queue') \subseteq ToSet(queue) \cup Into(<<"buffer", 0>>, b, X)
    BY <1>3, EmptyHolds
  <2> QED
    BY <1>2, <1>3, <2>2, <2>3, HeldBy
<1>5. Held(<<"buffer", 0>>) = X /\ Held(<<"buffer", 0>>)' = {}
  BY <1>3, HeldAt, HeldAtPrimed, EmptyHolds
<1>6. <<"buffer", 0>> \in Place /\ b \in Place
  BY Places
<1> QED
  BY <1>4, <1>5, <1>6 DEF Shift

LEMMA FlushDrops ==
  ASSUME PlaceInv, NEW p \in Proc, FlushBegin(p) \/ FlushEnd(p)
  PROVE  Shift(<<"buffer", 0>>, <<"buffer", 0>>, {})
<1>0. Shape
  BY DEF PlaceInv
<1>1. \E a \in {"read", "take"} : Moved(p, a, task[p].frame, <<>>)
  BY <1>0, FlushSteps
<1>2. /\ \A d \in WConn : HandOf(d)' \subseteq HandOf(d)
      /\ \A q \in Proc : q # p => task'[q].items = task[q].items
      /\ task'[p].items = <<>>
  BY <1>0, <1>1, MovedHolds
<1>3. queue' = queue /\ chan' = chan /\ delivered' = delivered
  BY DEF FlushBegin, FlushEnd, outVars
<1>4. \A q \in Proc : ToSet(task'[q].items) \subseteq ToSet(task[q].items)
  BY <1>2, EmptyHolds
<1> QED
  BY <1>2, <1>3, <1>4, DropShifts

(* A flush sends its first item ... *)
LEMMA PutShifts ==
  ASSUME PlaceInv, NEW p \in Proc, FlushPut(p), Room(task[p].ch)
  PROVE  /\ task[p].ch \in Router /\ task[p].items # <<>>
         /\ Shift(<<"flush", p>>, <<"queue", task[p].ch>>, {Head(task[p].items)})
         /\ chan' = [chan EXCEPT ![task[p].ch] = Append(@, Head(task[p].items))]
         /\ task'[p].items = Tail(task[p].items) /\ queue' = queue
         /\ \A q \in Proc : q # p => task'[q] = task[q]
<1> DEFINE h == task[p].ch
           f == Head(task[p].items)
           b == <<"queue", h>>
<1>0. Shape /\ ChanTyped /\ task[p].items \in Seq(Frame) /\ Once(task[p].items)
      /\ h \in 0..MaxRouters
  BY DEF PlaceInv, Shape, TypeOK, ChanTyped, TaskState, NoFrameTwice
<1>1. /\ task[p].at = "put" /\ task[p].items # <<>>
      /\ queue' = queue /\ chan' = [chan EXCEPT ![h] = Append(@, f)] /\ delivered' = delivered
  BY DEF FlushPut
<1>2. f \in Frame /\ f \in ToSet(task[p].items) /\ f \notin ToSet(Tail(task[p].items))
      /\ ToSet(Tail(task[p].items)) \subseteq ToSet(task[p].items)
  <2>1. Head(task[p].items) \in Frame
    BY <1>0, <1>1
  <2> QED
    BY <1>0, <1>1, <2>1, OnceTail, ConnAssumption
<1>3. h \in Router /\ chan'[h] = Append(chan[h], f)
  BY <1>0, <1>1, <1>2, ChanAppend
<1>4. Moved(p, "put", task[p].frame, Tail(task[p].items))
  <2>1. task' = [task EXCEPT ![p].items = Tail(task[p].items)]
    BY DEF FlushPut
  <2>2. Tail(task[p].items) \in Seq(Frame)
    BY <1>0, <1>1
  <2>3. TaskTyped
    BY <1>0 DEF Shape, TaskShape
  <2> QED
    BY <1>1, <2>1, <2>2, <2>3, ItemsMove
<1>5. /\ \A d \in WConn : HandOf(d)' \subseteq HandOf(d)
      /\ \A q \in Proc : q # p => task'[q].items = task[q].items
      /\ task'[p].items = Tail(task[p].items)
  BY <1>0, <1>4, MovedHolds
<1>6. ToSet(chan'[h]) \subseteq ToSet(chan[h]) \cup {f}
  <2>1. chan[h] \in Seq(Frame \cup {Ping})
    BY <1>0, <1>3 DEF ChanTyped
  <2> HIDE DEF f, h
  <2>2. ToSet(Append(chan[h], f)) \subseteq ToSet(chan[h]) \cup {f}
    BY <2>1 DEF ToSet
  <2> QED
    BY <1>3, <2>2
<1>7. \A s \in Router : s # h => chan'[s] = chan[s]
  BY <1>0, <1>1 DEF ChanTyped
<1>8. \A l \in Place : Held(l)' \subseteq Held(l) \cup Into(l, b, {f})
  <2>1. Into(<<"queue", h>>, b, {f}) = {f}
    BY DEF Into
  <2> HIDE DEF b, f, h
  <2>2. \A q \in Proc : ToSet(task'[q].items)
                          \subseteq ToSet(task[q].items) \cup Into(<<"flush", q>>, b, {f})
    BY <1>2, <1>5
  <2>3. \A s \in Router : ToSet(chan'[s]) \ {Ping}
                            \subseteq (ToSet(chan[s]) \ {Ping}) \cup Into(<<"queue", s>>, b, {f})
    BY <1>6, <1>7, <2>1
  <2> QED
    BY <1>1, <1>5, <2>2, <2>3, HeldBy
<1>9. f \in Held(<<"flush", p>>) /\ f \notin Held(<<"flush", p>>)'
  BY <1>2, <1>5, HeldAt, HeldAtPrimed
<1>10. <<"flush", p>> \in Place /\ b \in Place
  BY <1>3, Places
<1>11. Shift(<<"flush", p>>, b, {f})
  BY <1>8, <1>9, <1>10 DEF Shift
<1>12. task'[p].items = Tail(task[p].items) /\ \A q \in Proc : q # p => task'[q] = task[q]
  BY <1>4 DEF Moved
<1> QED
  BY <1>1, <1>3, <1>11, <1>12

(* ... or puts the rest back. *)
LEMMA RebufferShifts ==
  ASSUME PlaceInv, NEW p \in Proc, FlushPut(p), ~Room(task[p].ch)
  PROVE  /\ Shift(<<"flush", p>>, <<"buffer", 0>>, ToSet(task[p].items))
         /\ Once(queue') /\ chan' = chan /\ task'[p].items = <<>>
         /\ \A q \in Proc : q # p => task'[q] = task[q]
<1> DEFINE b == <<"buffer", 0>>
           X == ToSet(task[p].items)
<1>0. /\ Shape /\ TaskTyped /\ queue \in Seq(Frame) /\ task[p].items \in Seq(Frame)
      /\ Once(queue) /\ Once(task[p].items) /\ Apart
  BY DEF PlaceInv, Shape, TaskShape, TypeOK, TaskState, NoFrameTwice
<1>1. /\ task[p].at = "put" /\ queue' = queue \o task[p].items /\ chan' = chan
      /\ delivered' = delivered /\ task' = [task EXCEPT ![p].items = <<>>]
  BY DEF FlushPut, Rebuffered
<1>2. Moved(p, "put", task[p].frame, <<>>)
  <2>1. <<>> \in Seq(Frame)
    OBVIOUS
  <2> QED
    BY <1>0, <1>1, <2>1, ItemsMove
<1>3. /\ \A d \in WConn : HandOf(d)' \subseteq HandOf(d)
      /\ \A q \in Proc : q # p => task'[q].items = task[q].items
      /\ task'[p].items = <<>>
  BY <1>0, <1>2, MovedHolds
<1>4. ToSet(queue) \cap X = {}
  BY <1>0, ApartPairs
<1>5. Once(queue') /\ ToSet(queue') = ToSet(queue) \cup X
  BY <1>0, <1>1, <1>4, OnceConcat
<1>6. \A l \in Place : Held(l)' \subseteq Held(l) \cup Into(l, b, X)
  <2>1. Into(<<"buffer", 0>>, b, X) = X
    BY DEF Into
  <2> HIDE DEF b, X
  <2>2. \A q \in Proc : ToSet(task'[q].items)
                          \subseteq ToSet(task[q].items) \cup Into(<<"flush", q>>, b, X)
    BY <1>3, EmptyHolds
  <2>3. ToSet(queue') \subseteq ToSet(queue) \cup Into(<<"buffer", 0>>, b, X)
    BY <1>5, <2>1
  <2> QED
    BY <1>1, <1>3, <2>2, <2>3, HeldBy
<1>7. Held(<<"flush", p>>) = X /\ Held(<<"flush", p>>)' = {}
  BY <1>3, HeldAt, HeldAtPrimed, EmptyHolds
<1>8. <<"flush", p>> \in Place /\ b \in Place
  BY Places
<1>9. Shift(<<"flush", p>>, b, X)
  BY <1>6, <1>7, <1>8 DEF Shift
<1>10. \A q \in Proc : q # p => task'[q] = task[q]
  BY <1>2 DEF Moved
<1> QED
  BY <1>1, <1>3, <1>5, <1>9, <1>10

LEMMA RouterDrops ==
  ASSUME PlaceInv, NEW s \in Router,
         \/ HandleRouter(s) \/ RouterGone(s) \/ RelayPing(s) \/ WriteFails(s) \/ WriterExits(s)
         \/ WriteFrame(s) /\ Head(chan[s]) = Ping
  PROVE  Shift(<<"buffer", 0>>, <<"buffer", 0>>, {})
<1>0. Shape /\ ChanTyped /\ (\A t \in Router : Once(chan[t])) /\ s \in Proc /\ s \notin WConn
      /\ link.ch \in 0..MaxRouters
  BY Bounds, ConnAssumption DEF PlaceInv, Shape, TypeOK, ChanTyped, NoFrameTwice
<1>1. queue' = queue /\ delivered' = delivered
  BY DEF HandleRouter, RouterGone, RelayPing, WriteFails, WriterExits, WriteFrame
<1>2. task' = task \/ \E a \in {"flush", "gone"} : Moved(s, a, task[s].frame, <<>>)
  BY <1>0, RouterSteps
<1>3. CASE task' = task
  <2>1. /\ \A c \in WConn : HandOf(c)' \subseteq HandOf(c)
        /\ \A p \in Proc : ToSet(task'[p].items) \subseteq ToSet(task[p].items)
    BY <1>3 DEF HandOf
  <2>2. \A t \in Router : ToSet(chan'[t]) \ {Ping} \subseteq ToSet(chan[t]) \ {Ping}
    <3>1. CASE chan' = chan
      BY <3>1
    <3>2. CASE RelayPing(s)
      <4>1. /\ link.ch \in Router /\ chan'[link.ch] = Append(chan[link.ch], Ping)
            /\ \A t \in Router : t # link.ch => chan'[t] = chan[t]
        BY <1>0, <3>2, ChanAppend DEF RelayPing, ChanTyped
      <4>2. chan[link.ch] \in Seq(Frame \cup {Ping}) /\ Once(chan[link.ch])
        BY <1>0, <4>1 DEF ChanTyped
      <4>3. ToSet(Append(chan[link.ch], Ping)) = ToSet(chan[link.ch]) \cup {Ping}
        BY <4>2, OnceAppend
      <4> QED
        BY <4>1, <4>3
    <3>3. CASE WriteFails(s) \/ WriteFrame(s)
      <4>1. chan[s] # <<>> /\ chan' = [chan EXCEPT ![s] = Tail(@)]
        BY <3>3 DEF WriteFails, WriteFrame
      <4>2. chan'[s] = Tail(chan[s]) /\ \A t \in Router : t # s => chan'[t] = chan[t]
        BY <1>0, <4>1, ChanTail DEF ChanTyped
      <4>3. chan[s] \in Seq(Frame \cup {Ping}) /\ Once(chan[s])
        BY <1>0 DEF ChanTyped
      <4>4. ToSet(Tail(chan[s])) \subseteq ToSet(chan[s])
        BY <4>1, <4>3, OnceTail
      <4> QED
        BY <4>2, <4>4
    <3> QED
      BY <3>1, <3>2, <3>3 DEF HandleRouter, RouterGone, WriterExits
  <2> QED
    BY <1>1, <2>1, <2>2, DropShifts
<1>4. ASSUME NEW a \in {"flush", "gone"}, Moved(s, a, task[s].frame, <<>>), task' # task
      PROVE  Shift(<<"buffer", 0>>, <<"buffer", 0>>, {})
  <2>1. /\ \A d \in WConn : HandOf(d)' \subseteq HandOf(d)
        /\ \A q \in Proc : q # s => task'[q].items = task[q].items
        /\ task'[s].items = <<>>
    BY <1>0, <1>4, MovedHolds
  <2>2. \A q \in Proc : ToSet(task'[q].items) \subseteq ToSet(task[q].items)
    BY <2>1, EmptyHolds
  <2>3. chan' = chan
    BY <1>4 DEF HandleRouter, RouterGone, RelayPing, WriteFails, WriterExits, WriteFrame
  <2> QED
    BY <1>1, <2>1, <2>2, <2>3, DropShifts
<1> QED
  BY <1>2, <1>3, <1>4

LEMMA WriteShifts ==
  ASSUME PlaceInv, NEW s \in Router, WriteFrame(s), Head(chan[s]) # Ping
  PROVE  /\ Shift(<<"queue", s>>, <<"wire", 0>>, {Head(chan[s])})
         /\ \A f \in Frame : delivered'[f] <= 1
<1> DEFINE g == Head(chan[s])
           b == <<"wire", 0>>
<1>0. /\ Shape /\ ChanTyped /\ Once(chan[s]) /\ chan[s] \in Seq(Frame \cup {Ping})
      /\ delivered \in [Frame -> Nat] /\ Apart /\ \A f \in Frame : delivered[f] <= 1
  BY DEF PlaceInv, Shape, TypeOK, ChanTyped, NoFrameTwice
<1>1. /\ chan[s] # <<>> /\ chan' = [chan EXCEPT ![s] = Tail(@)]
      /\ delivered' = [delivered EXCEPT ![g] = @ + 1]
      /\ queue' = queue /\ task' = task
  BY DEF WriteFrame
<1>2. /\ g \in Frame /\ g \in ToSet(chan[s]) /\ g \notin ToSet(Tail(chan[s]))
      /\ ToSet(Tail(chan[s])) \subseteq ToSet(chan[s])
  <2>1. Head(chan[s]) \in Frame \cup {Ping}
    BY <1>0, <1>1
  <2> QED
    BY <1>0, <1>1, <2>1, OnceTail
<1>3. chan'[s] = Tail(chan[s]) /\ \A t \in Router : t # s => chan'[t] = chan[t]
  BY <1>0, <1>1, ChanTail DEF ChanTyped
<1>4. delivered[g] = 0
  <2>1. ~(delivered[g] > 0)
    BY <1>0, <1>2, ApartPairs
  <2> QED
    BY <1>0, <1>2, <2>1
<1> HIDE DEF g
<1>5. \A f \in Frame : /\ delivered'[f] <= 1
                       /\ delivered'[f] > 0 => delivered[f] > 0 \/ f = g
  BY <1>0, <1>1, <1>2, <1>4
<1>6. \A l \in Place : Held(l)' \subseteq Held(l) \cup Into(l, b, {g})
  <2>1. Into(<<"wire", 0>>, b, {g}) = {g}
    BY DEF Into
  <2> HIDE DEF b
  <2>2. \A f \in Frame : delivered'[f] > 0 => delivered[f] > 0 \/ f \in Into(<<"wire", 0>>, b, {g})
    BY <1>5, <2>1
  <2>3. /\ \A c \in WConn : HandOf(c)' \subseteq HandOf(c) \cup Into(<<"hand", c>>, b, {g})
        /\ \A p \in Proc : ToSet(task'[p].items)
                             \subseteq ToSet(task[p].items) \cup Into(<<"flush", p>>, b, {g})
    BY <1>1 DEF HandOf
  <2>4. \A t \in Router : ToSet(chan'[t]) \ {Ping}
                            \subseteq (ToSet(chan[t]) \ {Ping}) \cup Into(<<"queue", t>>, b, {g})
    BY <1>2, <1>3
  <2> QED
    BY <1>1, <2>2, <2>3, <2>4, HeldBy
<1>7. g \in Held(<<"queue", s>>) /\ g \notin Held(<<"queue", s>>)'
  BY <1>2, <1>3, HeldAt, HeldAtPrimed DEF g
<1>8. <<"queue", s>> \in Place /\ b \in Place
  BY Places
<1>9. Shift(<<"queue", s>>, b, {g})
  BY <1>6, <1>7, <1>8 DEF Shift
<1> QED
  BY <1>5, <1>9 DEF g

(* Every step moves frames, loses them or brings in a new one. *)
LEMMA EveryStepShifts ==
  ASSUME PlaceInv, [Next]_vars
  PROVE  \/ \E a, b, X : Shift(a, b, X)
         \/ \E c \in WConn, f \in Frame : /\ Born(<<"hand", c>>, f) /\ f[1] = c
                                          /\ task'[c].frame = f /\ task'[c].at = "check"
<1>1. ASSUME UNCHANGED vars PROVE Shift(<<"buffer", 0>>, <<"buffer", 0>>, {})
  BY <1>1, DropShifts DEF vars, HandOf
<1>2. ASSUME NEW c \in WConn,
             \/ HandleWorker(c) \/ ReadFrame(c) \/ WorkerGone(c) \/ CheckRouter(c)
             \/ EnqueueRouter(c) \/ SendToRouter(c) \/ BufferWorkerMessage(c)
      PROVE  \/ \E a, b, X : Shift(a, b, X)
             \/ \E f \in Frame : /\ Born(<<"hand", c>>, f) /\ f[1] = c
                                 /\ task'[c].frame = f /\ task'[c].at = "check"
  BY <1>2, BornAtHand, WorkerDrops, SendShifts, BufferShifts
<1>3. ASSUME NEW p \in Proc, FlushBegin(p) \/ FlushTake(p) \/ FlushPut(p) \/ FlushEnd(p)
      PROVE  \E a, b, X : Shift(a, b, X)
  BY <1>3, FlushDrops, TakeShifts, PutShifts, RebufferShifts
<1>4. ASSUME NEW s \in Router,
             \/ HandleRouter(s) \/ RouterGone(s) \/ RelayPing(s)
             \/ WriteFrame(s) \/ WriteFails(s) \/ WriterExits(s)
      PROVE  \E a, b, X : Shift(a, b, X)
  BY <1>4, RouterDrops, WriteShifts
<1> QED
  BY <1>1, <1>2, <1>3, <1>4, StepCases

(* A handler never returns to its beginning, nor to an earlier frame. *)
LEMMA FramesGrow ==
  ASSUME Shape, [Next]_vars, NEW c \in WConn, task[c].at # "idle"
  PROVE  task'[c].at # "idle" /\ task[c].frame[2] <= task'[c].frame[2]
<1>0. c \in Proc /\ c \notin Router /\ task[c].frame[2] \in Nat
  <2>1. task[c].frame[2] \in 0..MaxFrames
    BY HandIsFrame
  <2> QED
    BY <2>1, Bounds, ConnAssumption
<1>1. CASE task'[c] = task[c]
  BY <1>0, <1>1
<1>2. ASSUME NEW a, NEW i, Moved(c, a, task[c].frame, i), a # "idle"
      PROVE  task'[c].at # "idle" /\ task[c].frame[2] <= task'[c].frame[2]
  BY <1>0, <1>2 DEF Moved
<1>3. CASE ReadFrame(c)
  <2> DEFINE f == <<c, task[c].frame[2] + 1>>
  <2>1. Moved(c, "check", f, <<>>)
    BY <1>3, WorkerSteps
  <2>2. f[2] = task[c].frame[2] + 1
    OBVIOUS
  <2> HIDE DEF f
  <2>3. task'[c].at = "check" /\ task'[c].frame[2] = task[c].frame[2] + 1
    BY <2>1, <2>2 DEF Moved
  <2> QED
    BY <1>0, <2>3
<1>4. ASSUME NEW d \in WConn,
             \/ HandleWorker(d) \/ ReadFrame(d) \/ WorkerGone(d) \/ CheckRouter(d)
             \/ EnqueueRouter(d) \/ SendToRouter(d) \/ BufferWorkerMessage(d)
      PROVE  \/ task'[c] = task[c] \/ ReadFrame(c)
             \/ \E a, i : Moved(c, a, task[c].frame, i) /\ a # "idle"
  <2>1. CASE d = c
    <3>1. ~HandleWorker(c)
      BY WorkerSteps
    <3>2. \/ ReadFrame(c)
          \/ \E a \in {"gone", "buffer", "enqueue", "read", "send", "flush"} :
               Moved(c, a, task[c].frame, <<>>)
      BY <1>4, <2>1, <3>1, WorkerSteps, SendSteps DEF AfterSend
    <3> QED
      BY <3>2
  <2>2. CASE d # c
    <3>1. \E a, f : Moved(d, a, f, <<>>)
      BY <1>4, WorkerSteps, SendSteps
    <3> QED
      BY <1>0, <2>2, <3>1 DEF Moved
  <2> QED
    BY <2>1, <2>2
<1>5. ASSUME NEW p \in Proc, FlushBegin(p) \/ FlushTake(p) \/ FlushPut(p) \/ FlushEnd(p)
      PROVE  \/ task'[c] = task[c]
             \/ \E a, i : Moved(c, a, task[c].frame, i) /\ a # "idle"
  <2>1. PICK a \in {"read", "take", "put"} : \E i : Moved(p, a, task[p].frame, i)
    BY <1>5, FlushSteps
  <2> QED
    BY <1>0, <2>1 DEF Moved
<1>6. ASSUME NEW s \in Router,
             \/ HandleRouter(s) \/ RouterGone(s) \/ RelayPing(s)
             \/ WriteFrame(s) \/ WriteFails(s) \/ WriterExits(s)
      PROVE  task'[c] = task[c]
  BY <1>0, <1>6, RouterSteps DEF Moved
<1>7. UNCHANGED vars => task'[c] = task[c]
  BY DEF vars
<1> QED
  BY <1>1, <1>2, <1>3, <1>4, <1>5, <1>6, <1>7, StepCases

LEMMA KnownStep == PlaceInv /\ [Next]_vars => Known'
<1> SUFFICES ASSUME PlaceInv, [Next]_vars, NEW l \in Place, NEW g \in Held(l)'
             PROVE  g \in Frame /\ task'[g[1]].at # "idle" /\ g[2] <= task'[g[1]].frame[2]
  BY DEF Known, Place, Proc, Router, Frame
<1>0. Shape /\ Known
  BY DEF PlaceInv
<1>1. CASE \E m \in Place : g \in Held(m)
  <2>1. g \in Frame /\ task[g[1]].at # "idle" /\ g[2] <= task[g[1]].frame[2]
    BY <1>0, <1>1 DEF Known
  <2>2. g[1] \in WConn /\ g[2] \in 0..MaxFrames
    BY <2>1 DEF Frame
  <2>3. task'[g[1]].at # "idle" /\ task[g[1]].frame[2] <= task'[g[1]].frame[2]
    BY <1>0, <2>1, <2>2, FramesGrow
  <2>4. g[2] \in Int /\ task[g[1]].frame[2] \in Int /\ task'[g[1]].frame[2] \in Int
    <3>1. task[g[1]].frame[2] \in 0..MaxFrames
      BY <1>0, <2>1, <2>2, HandIsFrame
    <3>2. task'[g[1]].frame[2] \in 0..MaxFrames
      BY <1>0, <2>2, <2>3, TaskShapeStep DEF TaskShape, WorkerTask
    <3> QED
      BY <2>2, <3>1, <3>2, Bounds
  <2> QED
    BY <2>1, <2>3, <2>4
<1>2. CASE \A m \in Place : g \notin Held(m)
  <2>1. ASSUME NEW a, NEW b, NEW X, Shift(a, b, X) PROVE FALSE
    BY <1>2, <2>1 DEF Shift, Into
  <2>2. PICK c \in WConn, f \in Frame : /\ Born(<<"hand", c>>, f) /\ f[1] = c
                                        /\ task'[c].frame = f /\ task'[c].at = "check"
    BY <2>1, EveryStepShifts
  <2>3. g = f
    BY <1>2, <2>2 DEF Born, Into
  <2>4. f[2] \in 0..MaxFrames
    BY DEF Frame
  <2>5. f[2] <= f[2]
    BY <2>4, Bounds
  <2> QED
    BY <2>2, <2>3, <2>5
<1> QED
  BY <1>1, <1>2

LEMMA OnceStep ==
  ASSUME PlaceInv, [Next]_vars
  PROVE  /\ Once(queue') /\ (\A p \in Proc : Once(task'[p].items))
         /\ \A s \in Router : Once(chan'[s])
<1>0. /\ Shape /\ Once(queue) /\ (\A p \in Proc : Once(task[p].items)) /\ queue \in Seq(Frame)
      /\ (\A s \in Router : Once(chan[s])) /\ Apart /\ ChanTyped
      /\ \A p \in Proc : task[p].items \in Seq(Frame)
  BY DEF PlaceInv, NoFrameTwice, Shape, TypeOK, ChanTyped, TaskState
<1>1. Once(<<>>)
  BY DEF Once
<1>2. ASSUME NEW h \in Router, NEW m \in Frame \cup {Ping}, m = Ping \/ m \notin ToSet(chan[h]),
             chan' = [chan EXCEPT ![h] = Append(@, m)]
      PROVE  \A s \in Router : Once(chan'[s])
  <2>1. chan[h] \in Seq(Frame \cup {Ping}) /\ Once(chan[h])
    BY <1>0 DEF ChanTyped
  <2>2. Once(Append(chan[h], m))
    BY <1>2, <2>1, OnceAppend
  <2>3. chan'[h] = Append(chan[h], m) /\ \A s \in Router : s # h => chan'[s] = chan[s]
    BY <1>0, <1>2 DEF ChanTyped
  <2> QED
    BY <1>0, <2>2, <2>3
<1>3. ASSUME NEW c \in WConn,
             \/ HandleWorker(c) \/ ReadFrame(c) \/ WorkerGone(c) \/ CheckRouter(c)
             \/ EnqueueRouter(c) \/ SendToRouter(c) \/ BufferWorkerMessage(c)
      PROVE  /\ Once(queue') /\ (\A p \in Proc : Once(task'[p].items))
             /\ \A s \in Router : Once(chan'[s])
  <2>1. \E a, f : Moved(c, a, f, <<>>)
    BY <1>0, <1>3, WorkerSteps, SendSteps
  <2>2. \A p \in Proc : Once(task'[p].items)
    BY <1>0, <1>1, <2>1 DEF Moved
  <2>3. Once(queue')
    <3>1. queue' = queue \/ BufferWorkerMessage(c)
      BY <1>3 DEF HandleWorker, ReadFrame, WorkerGone, CheckRouter, EnqueueRouter, SendToRouter
    <3> QED
      BY <1>0, <3>1, BufferShifts
  <2>4. \A s \in Router : Once(chan'[s])
    <3>1. CASE chan' = chan
      BY <1>0, <3>1
    <3>2. CASE SendToRouter(c) /\ chan' # chan
      <4>1. task[c].ch \in Router /\ chan' = [chan EXCEPT ![task[c].ch] = Append(@, task[c].frame)]
        BY <3>2, SendShifts
      <4>2. task[c].frame \in Frame /\ task[c].frame \in HandOf(c)
        BY <1>0, <3>2, HandIsFrame DEF SendToRouter, HandOf
      <4>3. task[c].frame \notin ToSet(chan[task[c].ch])
        BY <1>0, <4>1, <4>2, ApartPairs, ConnAssumption
      <4> QED
        BY <1>2, <4>1, <4>2, <4>3
    <3>3. chan' = chan \/ SendToRouter(c)
      BY <1>3 DEF HandleWorker, ReadFrame, WorkerGone, CheckRouter, EnqueueRouter,
         BufferWorkerMessage, outVars
    <3> QED
      BY <3>1, <3>2, <3>3
  <2> QED
    BY <2>2, <2>3, <2>4
<1>4. ASSUME NEW p \in Proc, FlushBegin(p) \/ FlushTake(p) \/ FlushEnd(p)
      PROVE  /\ Once(queue') /\ (\A q \in Proc : Once(task'[q].items))
             /\ \A s \in Router : Once(chan'[s])
  <2>1. chan' = chan /\ (queue' = queue \/ queue' = <<>>)
    BY <1>4 DEF FlushBegin, FlushTake, FlushEnd, outVars
  <2>2. \E a, i : Moved(p, a, task[p].frame, i) /\ (i = <<>> \/ i = queue)
    BY <1>0, <1>4, FlushSteps
  <2>3. \A q \in Proc : Once(task'[q].items)
    BY <1>0, <1>1, <2>2 DEF Moved
  <2> QED
    BY <1>0, <1>1, <2>1, <2>3
<1>5. ASSUME NEW p \in Proc, FlushPut(p)
      PROVE  /\ Once(queue') /\ (\A q \in Proc : Once(task'[q].items))
             /\ \A s \in Router : Once(chan'[s])
  <2>1. CASE Room(task[p].ch)
    <3>1. /\ task[p].ch \in Router /\ task[p].items # <<>>
          /\ chan' = [chan EXCEPT ![task[p].ch] = Append(@, Head(task[p].items))]
          /\ task'[p].items = Tail(task[p].items) /\ queue' = queue
          /\ \A q \in Proc : q # p => task'[q] = task[q]
      BY <1>5, <2>1, PutShifts
    <3>2. Once(Tail(task[p].items)) /\ Head(task[p].items) \in ToSet(task[p].items)
      BY <1>0, <3>1, OnceTail
    <3>3. Head(task[p].items) \in Frame
      BY <1>0, <3>1
    <3>4. Head(task[p].items) \notin ToSet(chan[task[p].ch])
      <4>1. ToSet(task[p].items) \cap (ToSet(chan[task[p].ch]) \ {Ping}) = {}
        BY <1>0, <3>1, ApartPairs
      <4>2. Head(task[p].items) # Ping
        BY <3>3, ConnAssumption
      <4> QED
        BY <3>2, <4>1, <4>2
    <3>5. \A s \in Router : Once(chan'[s])
      BY <1>2, <3>1, <3>3, <3>4
    <3>6. \A q \in Proc : Once(task'[q].items)
      BY <1>0, <3>1, <3>2
    <3> QED
      BY <1>0, <3>1, <3>5, <3>6
  <2>2. CASE ~Room(task[p].ch)
    BY <1>0, <1>1, <1>5, <2>2, RebufferShifts
  <2> QED
    BY <2>1, <2>2
<1>6. ASSUME NEW s \in Router,
             \/ HandleRouter(s) \/ RouterGone(s) \/ RelayPing(s)
             \/ WriteFrame(s) \/ WriteFails(s) \/ WriterExits(s)
      PROVE  /\ Once(queue') /\ (\A q \in Proc : Once(task'[q].items))
             /\ \A t \in Router : Once(chan'[t])
  <2>1. queue' = queue
    BY <1>6 DEF HandleRouter, RouterGone, RelayPing, WriteFails, WriterExits, WriteFrame
  <2>2. task' = task \/ \E a : Moved(s, a, task[s].frame, <<>>)
    BY <1>0, <1>6, RouterSteps
  <2>3. \A q \in Proc : Once(task'[q].items)
    BY <1>0, <1>1, <2>2 DEF Moved
  <2>4. \A t \in Router : Once(chan'[t])
    <3>1. CASE RelayPing(s)
      <4>1. link.ch \in Router /\ chan' = [chan EXCEPT ![link.ch] = Append(@, Ping)]
        BY <1>0, <3>1, Bounds DEF RelayPing, Room, Shape, TypeOK
      <4> QED
        BY <1>2, <4>1
    <3>2. CASE WriteFails(s) \/ WriteFrame(s)
      <4>1. chan[s] # <<>> /\ chan' = [chan EXCEPT ![s] = Tail(@)]
        BY <3>2 DEF WriteFails, WriteFrame
      <4>2. chan'[s] = Tail(chan[s]) /\ \A t \in Router : t # s => chan'[t] = chan[t]
        BY <1>0, <4>1, ChanTail DEF ChanTyped
      <4>3. chan[s] \in Seq(Frame \cup {Ping})
        BY <1>0 DEF ChanTyped
      <4>4. Once(Tail(chan[s]))
        BY <1>0, <4>1, <4>3, OnceTail
      <4> QED
        BY <1>0, <4>2, <4>4
    <3>3. CASE chan' = chan
      BY <1>0, <3>3
    <3> QED
      BY <1>6, <3>1, <3>2, <3>3 DEF HandleRouter, RouterGone, WriterExits
  <2> QED
    BY <1>0, <2>1, <2>3, <2>4
<1>7. CASE UNCHANGED vars
  BY <1>0, <1>7 DEF vars
<1> QED
  BY <1>3, <1>4, <1>5, <1>6, <1>7, StepCases

LEMMA DeliveredStep ==
  ASSUME PlaceInv, [Next]_vars, NEW f \in Frame
  PROVE  delivered'[f] <= 1
<1>1. delivered[f] <= 1
  BY DEF PlaceInv, NoFrameTwice
<1>2. ASSUME NEW s \in Router, WriteFrame(s), Head(chan[s]) # Ping
      PROVE  delivered'[f] <= 1
  BY <1>2, WriteShifts
<1>3. ASSUME NEW s \in Router,
             \/ HandleRouter(s) \/ RouterGone(s) \/ RelayPing(s) \/ WriteFails(s) \/ WriterExits(s)
             \/ WriteFrame(s) /\ Head(chan[s]) = Ping
      PROVE  delivered' = delivered
  BY <1>3 DEF HandleRouter, RouterGone, RelayPing, WriteFails, WriterExits, WriteFrame
<1>4. ASSUME NEW c \in WConn,
             \/ HandleWorker(c) \/ ReadFrame(c) \/ WorkerGone(c) \/ CheckRouter(c)
             \/ EnqueueRouter(c) \/ SendToRouter(c) \/ BufferWorkerMessage(c)
      PROVE  delivered' = delivered
  BY <1>4 DEF HandleWorker, ReadFrame, WorkerGone, CheckRouter, EnqueueRouter, SendToRouter,
     BufferWorkerMessage, outVars
<1>5. ASSUME NEW p \in Proc, FlushBegin(p) \/ FlushTake(p) \/ FlushPut(p) \/ FlushEnd(p)
      PROVE  delivered' = delivered
  BY <1>5 DEF FlushBegin, FlushTake, FlushPut, FlushEnd, outVars
<1>6. UNCHANGED vars => delivered' = delivered
  BY DEF vars
<1> QED
  BY <1>1, <1>2, <1>3, <1>4, <1>5, <1>6, StepCases

LEMMA PlaceInit == Init => PlaceInv
<1> SUFFICES ASSUME Init PROVE PlaceInv
  OBVIOUS
<1>1. /\ queue = <<>> /\ (\A p \in Proc : task[p].items = <<>> /\ task[p].at = "idle")
      /\ (\A s \in Router : chan[s] = <<>>) /\ \A f \in Frame : delivered[f] = 0
  BY DEF Init, NoTask
<1>2. \A l \in Place : Held(l) = {}
  <2> SUFFICES ASSUME NEW l \in Place PROVE Held(l) = {}
    OBVIOUS
  <2>1. {f \in Frame : delivered[f] > 0} = {}
    BY <1>1
  <2>2. \A c \in WConn : HandOf(c) = {}
    BY <1>1, Bounds DEF HandOf
  <2> QED
    BY <1>1, <2>1, <2>2, HeldAt, Places, EmptyHolds
<1>3. Once(<<>>)
  BY DEF Once
<1>4. Apart /\ Known
  BY <1>2 DEF Apart, Known
<1>5. \A f \in Frame : delivered[f] <= 1
  BY <1>1
<1>6. NoFrameTwice
  BY <1>1, <1>3, <1>4, <1>5 DEF NoFrameTwice
<1> QED
  BY <1>4, <1>6, ShapeInit DEF PlaceInv

LEMMA PlaceStep == PlaceInv /\ [Next]_vars => PlaceInv'
<1> SUFFICES ASSUME PlaceInv, [Next]_vars PROVE PlaceInv'
  OBVIOUS
<1>1. Shape' /\ Known'
  BY ShapeStep, KnownStep DEF PlaceInv
<1>2. Apart'
  BY EveryStepShifts, ShiftKeepsApart, BornKeepsApart DEF PlaceInv, NoFrameTwice
<1>3. NoFrameTwice'
  BY <1>2, OnceStep, DeliveredStep DEF NoFrameTwice, Proc, Router, Frame
<1> QED
  BY <1>1, <1>3 DEF PlaceInv

(* No inference result and no register reaches a router twice or is in two *)
(* places at once, for any number of workers and routers that come and go  *)
(* while flushes of several handlers overlap, put back what they could not *)
(* send and fill the queues of old and new connections.                    *)
THEOREM DeliveredAtMostOnce == Spec => []NoFrameTwice
<1>1. PlaceInv => NoFrameTwice
  BY DEF PlaceInv
<1> QED
  BY <1>1, PlaceInit, PlaceStep, PTL DEF Spec

=============================================================================
