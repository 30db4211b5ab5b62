---- MODULE MCScheduling ----
(* Workers that differ from a plain loaded one in one or two respects.  All ratios *)
(* are whole numbers of Unit.                                                       *)
EXTENDS Scheduling

Plain == [fresh |-> TRUE, model |-> "loaded", quant |-> "Q6", allowed |-> "empty",
          excluded |-> "empty", total |-> 4, free |-> 2, load |-> TRUE, queue |-> 0,
          inFlight |-> 0, max |-> 2, cap |-> 0, wait |-> 0, stats |-> FALSE, tps |-> 0]
Idle == [Plain EXCEPT !.model = "idle"]
Busy == [Plain EXCEPT !.inFlight = 1]

MCWorker ==
  {Plain, Idle, Busy, [Plain EXCEPT !.model = "none"], [Plain EXCEPT !.fresh = FALSE],
   [Idle EXCEPT !.inFlight = 1], [Idle EXCEPT !.inFlight = 2], [Idle EXCEPT !.load = FALSE],
   [Idle EXCEPT !.quant = "Q8"], [Idle EXCEPT !.inFlight = 2, !.stats = TRUE, !.tps = 200],
   [Plain EXCEPT !.quant = "Q4"], [Plain EXCEPT !.quant = "FP16"], [Plain EXCEPT !.quant = ""],
   [Plain EXCEPT !.allowed = "lists", !.excluded = "lists"], [Plain EXCEPT !.allowed = "omits"],
   [Plain EXCEPT !.excluded = "lists"], [Busy EXCEPT !.excluded = "omits"],
   [Plain EXCEPT !.total = 0], [Plain EXCEPT !.free = 0], [Plain EXCEPT !.free = 4],
   [Busy EXCEPT !.max = 0, !.cap = 4], [Busy EXCEPT !.max = 4, !.cap = 2], [Busy EXCEPT !.max = 0],
   [Plain EXCEPT !.load = FALSE, !.cap = 4], [Plain EXCEPT !.queue = 5], [Plain EXCEPT !.queue = 20],
   [Plain EXCEPT !.queue = -1], [Busy EXCEPT !.wait = 500], [Plain EXCEPT !.wait = 2000],
   [Plain EXCEPT !.wait = -1], [Plain EXCEPT !.stats = TRUE, !.tps = 50],
   [Busy EXCEPT !.stats = TRUE, !.tps = 200]}

MCRequest == {[quant |-> "", min |-> 0], [quant |-> "Q5", min |-> 0], [quant |-> "", min |-> 2]}

(* The command line's --scorer flags: heavier load, bonus and penalty, throughput, nothing. *)
MCWeights == {[queue |-> 50, depth |-> 5], [bonus |-> 20], [cold |-> 30], [tput |-> 40], [quant |-> 0]}
====
