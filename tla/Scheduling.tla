----------------------------- MODULE Scheduling -----------------------------
(***************************************************************************)
(* The choice of a worker: the weighted scorer and the filters of          *)
(* pkg/scheduler/scheduler.go, the view of a cached worker that            *)
(* pkg/router/dispatch.go hands them, and the scorer settings of           *)
(* pkg/router/server.go.  Failover builds the candidates; this module      *)
(* ranks them.                                                             *)
(*                                                                         *)
(* Floating-point numbers become whole ones: a ratio is in 1/Unit, a       *)
(* weight in percent.  Where a ratio is not a whole number of units it is  *)
(* rounded down, which keeps the order of two ratios.  The request's model *)
(* is one name, so a worker's catalogue is its state for that name.        *)
(***************************************************************************)
EXTENDS Integers, Sequences

CONSTANTS
  Worker,     \* what the cache and the hub may know of a worker
  Request,    \* what may be asked for besides the model
  Weights,    \* settings the command line may pass, 0 for "keep"
  MaxCands    \* bound: candidates

(* The fields the scorer computes with are Go integers.  A throughput is   *)
(* tokens over elapsed time (pkg/worker/inference_stats.go), so never      *)
(* negative.                                                               *)
Numeric(w) ==
  /\ w.total \in Int /\ w.free \in Int /\ w.queue \in Int /\ w.inFlight \in Int
  /\ w.max \in Int /\ w.cap \in Int /\ w.wait \in Int /\ w.tps \in Nat

Inputs ==
  /\ MaxCands \in Nat
  /\ \A w \in Worker : Numeric(w)
  /\ \A new \in Weights : \A k \in DOMAIN new : new[k] \in Int

ASSUME SchedulingAssumption == Inputs

VARIABLES
  weights,    \* s.scorerWeights
  scorer,     \* s.scorer: the weights it was built with
  pick        \* the selection under way, or NoPick: what it was called with, the
              \* scorer it read, the candidates passed and the best of them

schedulingVars == <<weights, scorer, pick>>

Unit == 20
Half == 10
Lesser(a, b) == IF a < b THEN a ELSE b
Clamp(x, top) == IF x < 0 THEN 0 ELSE Lesser(x, top)
Ratio(a, b) == Lesser((a * Unit) \div b, Unit)

-----------------------------------------------------------------------------
(* The settings.  A value of zero keeps the current one. *)

DefaultWeights == [quant |-> 40, vram |-> 25, gpu |-> 15, queue |-> 10, latency |-> 10,
                   bonus |-> 0, cold |-> 0, tput |-> 0, depth |-> 10]

Kept(old, new) == [k \in DOMAIN old |-> IF k \in DOMAIN new /\ new[k] > 0 THEN new[k] ELSE old[k]]

NoPick == [req |-> [quant |-> "", min |-> 0], cands |-> <<>>, by |-> DefaultWeights,
           at |-> 0, chosen |-> 0]

SchedulingInit == weights = DefaultWeights /\ scorer = DefaultWeights
        /\ pick = NoPick

(* SetScorerWeights and SetScorerThroughputWeight. *)
SetScorerWeights ==
  /\ \E new \in Weights :
       /\ weights' = Kept(weights, new)
       /\ scorer' = Kept(weights, new)
  /\ UNCHANGED pick

-----------------------------------------------------------------------------
(* toSchedulerWorker: -1 stands for unknown, except for the throughput,    *)
(* which is left at the zero of the struct.  The hub's cap wins over the   *)
(* one the worker reports.                                                 *)

ToSchedulerWorker(w) ==
  [fresh |-> w.fresh, model |-> w.model, quant |-> w.quant,
   allowed |-> w.allowed, excluded |-> w.excluded,
   total |-> w.total, free |-> IF w.total > 0 THEN w.free ELSE 0,
   gpu |-> -1,
   queue |-> IF w.load THEN w.queue ELSE -1,
   inFlight |-> IF w.load THEN w.inFlight ELSE -1,
   max |-> IF w.load /\ w.max > 0 THEN w.max ELSE IF w.cap > 0 THEN w.cap
           ELSE IF w.load THEN w.max ELSE -1,
   latency |-> IF w.load /\ w.wait >= 0 THEN w.wait ELSE -1,
   tps |-> IF w.stats THEN w.tps ELSE 0]

-----------------------------------------------------------------------------
(* Quantizations. *)

QuantCapability(q) ==
  CASE q = "FP16" -> 5 [] q = "Q8" -> 4 [] q = "Q6" -> 3 [] q = "Q5" -> 2 [] q = "Q4" -> 1
    [] OTHER -> 0

IsQuantizationCompatible(asked, actual) ==
  \/ asked = "" \/ asked = actual
  \/ /\ QuantCapability(asked) > 0
     /\ QuantCapability(actual) >= QuantCapability(asked)

QuantizationCompatibilityScore(asked, actual) ==
  IF asked \in {"", actual} THEN Unit
  ELSE IF QuantCapability(asked) > 0 /\ QuantCapability(actual) > QuantCapability(asked)
  THEN Lesser((4 * Unit) \div 5, (Unit * (QuantCapability(actual) - QuantCapability(asked))) \div 5)
  ELSE 0

-----------------------------------------------------------------------------
(* Score. *)

Scorable(s, r, w) ==
  /\ w.fresh /\ w.model # "none"
  /\ w.model = "loaded" \/ s.bonus > 0 \/ s.cold > 0
  /\ IsQuantizationCompatible(r.quant, w.quant)
  /\ r.min > 0 => w.free >= r.min

VRAMScore(w) == IF w.total > 0 THEN Ratio(w.free, w.total) ELSE Half
GPUScore(w) == IF w.gpu >= 0 THEN Clamp(Unit - Ratio(w.gpu, 100), Unit) ELSE Half

InFlightKnown(w) == w.inFlight >= 0 /\ w.max > 0

(* The worse of the queue depth and the in-flight ratio. *)
QueueScore(s, w) ==
  LET depth == IF w.queue >= 0 THEN Unit - Ratio(w.queue, s.depth) ELSE Half IN
  IF InFlightKnown(w) THEN Lesser(depth, Unit - Ratio(w.inFlight, w.max)) ELSE depth

LatencyScore(w) == IF w.latency >= 0 THEN Unit - Ratio(w.latency, 1000) ELSE Half

(* Mutant: the in-flight ratio lowers the penalty. *)
ColdLoadScoreInverted(w) ==
  IF w.model = "loaded" THEN 0
  ELSE IF InFlightKnown(w) THEN Unit - Ratio(w.inFlight, w.max) \div 2 ELSE Half

ColdLoadScore(w) ==
  IF w.model = "loaded" THEN 0
  ELSE IF InFlightKnown(w) THEN Half + Ratio(w.inFlight, w.max) \div 2 ELSE Half

ThroughputScore(s, w) ==
  IF s.tput = 0 THEN 0 ELSE IF w.tps < 0 THEN Half ELSE Ratio(w.tps, 100)

Score(s, r, w) ==
  Clamp(s.quant * QuantizationCompatibilityScore(r.quant, w.quant) + s.vram * VRAMScore(w)
          + s.gpu * GPUScore(w) + s.queue * QueueScore(s, w) + s.latency * LatencyScore(w)
          + (IF w.model = "loaded" THEN s.bonus * Unit ELSE 0) - s.cold * ColdLoadScore(w)
          + s.tput * ThroughputScore(s, w),
        100 * Unit)

-----------------------------------------------------------------------------
(* SelectWorker. *)

Willing(w) == IF w.allowed # "empty" THEN w.allowed = "lists" ELSE w.excluded # "lists"

Available(cands) == {i \in 1 .. Len(cands) : cands[i].fresh}
FilterByAllowedModels(cands, avail) == {i \in avail : Willing(cands[i])}

(* Mutant: a later candidate with the same score replaces an earlier one. *)
BestSoFarLast(s, r, cands, avail, b, i) ==
  IF i \in avail /\ Scorable(s, r, cands[i])
     /\ (b = 0 \/ Score(s, r, cands[i]) >= Score(s, r, cands[b]))
  THEN i ELSE b

(* One round of the loop: b is the index of the best so far, 0 for none. *)
BestSoFar(s, r, cands, avail, b, i) ==
  IF i \in avail /\ Scorable(s, r, cands[i])
     /\ (b = 0 \/ Score(s, r, cands[i]) > Score(s, r, cands[b]))
  THEN i ELSE b

(* scoreCandidates, over candidates sorted by ID: the scorer is read once, *)
(* and SelectWorker is called with it.                                     *)
ScoreCandidates ==
  /\ pick = NoPick
  /\ \E n \in 0 .. MaxCands, r \in Request : \E ws \in [1 .. n -> Worker] :
       pick' = [req |-> r, cands |-> [i \in 1 .. n |-> ToSchedulerWorker(ws[i])],
                by |-> scorer, at |-> 0, chosen |-> 0]
  /\ UNCHANGED <<weights, scorer>>

(* SelectWorker: the filters, then a round per candidate.  The scorer may  *)
(* be replaced in the meantime.                                            *)
SelectWorker ==
  LET avail == FilterByAllowedModels(pick.cands, Available(pick.cands)) IN
  /\ pick.at < Len(pick.cands)
  /\ pick' = [pick EXCEPT !.at = pick.at + 1,
                          !.chosen = BestSoFar(pick.by, pick.req, pick.cands, avail,
                                               pick.chosen, pick.at + 1)]
  /\ UNCHANGED <<weights, scorer>>

(* The dispatch goes on with the worker SelectWorker returned. *)
DispatchSelected ==
  /\ pick # NoPick /\ pick.at = Len(pick.cands)
  /\ pick' = NoPick /\ UNCHANGED <<weights, scorer>>

SchedulingNext == SetScorerWeights \/ ScoreCandidates \/ SelectWorker \/ DispatchSelected

SchedulingSpec == SchedulingInit /\ [][SchedulingNext]_schedulingVars

-----------------------------------------------------------------------------

Eligible(i) == Willing(pick.cands[i]) /\ Scorable(pick.by, pick.req, pick.cands[i])
ScoreOf(i) == Score(pick.by, pick.req, pick.cands[i])

(* The worker chosen is fresh, willing, able, and the lowest ID among the  *)
(* best: "Deterministic ordering so equal scores resolve to the lowest     *)
(* worker ID", though the loop, two filters and the errors of Score decide *)
(* it together.  No worker is chosen only when none qualifies.             *)
SelectedIsBest ==
  pick.at = Len(pick.cands) =>
    LET able == {i \in 1 .. Len(pick.cands) : Eligible(i)} IN
    IF able = {} THEN pick.chosen = 0
    ELSE /\ pick.chosen \in able
         /\ \A j \in able \ {pick.chosen} :
              \/ ScoreOf(pick.chosen) > ScoreOf(j)
              \/ ScoreOf(pick.chosen) = ScoreOf(j) /\ pick.chosen < j

(* a is known to be no worse than b in anything the scorer looks at. *)
NoWorse(a, b) ==
  /\ a.quant = b.quant /\ a.gpu = b.gpu
  /\ a.model = b.model \/ a.model = "loaded"
  /\ \/ a.total = 0 /\ b.total = 0
     \/ a.total > 0 /\ b.total > 0 /\ a.free * b.total >= b.free * a.total
  /\ a.queue = b.queue \/ (a.queue >= 0 /\ a.queue <= b.queue)
  /\ \/ ~InFlightKnown(a) /\ ~InFlightKnown(b)
     \/ InFlightKnown(a) /\ InFlightKnown(b) /\ a.inFlight * b.max <= b.inFlight * a.max
  /\ a.latency = b.latency \/ (a.latency >= 0 /\ a.latency <= b.latency)
  /\ a.tps >= b.tps

(* A worker that is no worse in any respect never scores less, whatever    *)
(* the weights: the load folded into the queue component and again into    *)
(* the cold-load penalty, the bonus and the clamping keep the order.       *)
BetterNeverScoresLess ==
  \A i, j \in 1 .. Len(pick.cands) :
    (Eligible(i) /\ Eligible(j) /\ NoWorse(pick.cands[i], pick.cands[j])) => ScoreOf(i) >= ScoreOf(j)

(* "Unknown (-1) is the scheduler's neutral sentinel": a worker without a  *)
(* throughput figure is not ranked below one that is slower than average   *)
(* and otherwise the same.                                                 *)
UnknownThroughputIsNeutral ==
  \A i, j \in 1 .. Len(pick.cands) :
    (Eligible(i) /\ Eligible(j) /\ NoWorse(pick.cands[j], pick.cands[i])
      /\ NoWorse([pick.cands[i] EXCEPT !.tps = 50], pick.cands[j]))
    => ScoreOf(i) >= ScoreOf(j)

=============================================================================
