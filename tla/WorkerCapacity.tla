--------------------------- MODULE WorkerCapacity ---------------------------
(***************************************************************************)
(* The worker's circuit breaker (pkg/worker/breaker.go) and concurrency    *)
(* estimator (pkg/worker/concurrency_estimator.go), each a record behind   *)
(* its own mutex: an operator below is one critical section and yields the *)
(* record it leaves behind.                                                *)
(*                                                                         *)
(* Time is abstracted to what the code asks of it: "cooled" says that an   *)
(* open circuit's cool-down has passed since the last failure, "settled"   *)
(* that the cap has not changed for a minute, "spike" that the samples     *)
(* kept have their 95th percentile above twice the baseline.               *)
(***************************************************************************)
EXTENDS Integers

CONSTANTS
  FailureThreshold, \* failures that open the circuit
  InitCap,          \* the backend's thread count, or DefaultInitCap
  DefaultInitCap,   \* the cap recovery aims at
  Http429Threshold, \* 429s in the window that lower the cap
  PersistedCaps     \* caps an earlier process may have left in the file

ASSUME WorkerCapacityAssumption ==
  /\ FailureThreshold \in Nat \ {0} /\ Http429Threshold \in Nat \ {0}
  /\ InitCap \in Nat \ {0} /\ DefaultInitCap \in Nat \ {0, 1}
  /\ PersistedCaps \subseteq Nat \ {0}

MinCap == 1
Breaker == [state : {"closed", "half-open", "open"}, failures : 0..FailureThreshold,
            cooled : BOOLEAN]
NewCircuitBreaker == [state |-> "closed", failures |-> 0, cooled |-> FALSE]

(* Mutant: the count survives the recovery. *)
RecordSuccessKeepsCount(cb) ==
  IF cb.state = "half-open" THEN [cb EXCEPT !.state = "closed"] ELSE cb

(* A success counts in the half-open state only: while the circuit is      *)
(* closed it leaves the failures there are.                                *)
RecordSuccess(cb) ==
  IF cb.state = "half-open" THEN [cb EXCEPT !.state = "closed", !.failures = 0] ELSE cb

(* Counts beyond the threshold are not told apart. *)
RecordFailure(cb) ==
  LET n == IF cb.failures < FailureThreshold THEN cb.failures + 1 ELSE cb.failures
  IN [state |-> IF n >= FailureThreshold THEN "open" ELSE cb.state,
      failures |-> n, cooled |-> FALSE]

CanExecute(cb) == cb.state # "open" \/ cb.cooled

(* Mutant: an open circuit stays open. *)
AfterCanExecuteStaysOpen(cb) == cb

(* An open circuit turns half-open for the caller that finds the cool-down *)
(* over; once half-open it lets every caller through.                      *)
AfterCanExecute(cb) ==
  IF cb.state = "open" /\ cb.cooled THEN [cb EXCEPT !.state = "half-open", !.cooled = FALSE]
                                   ELSE cb

-----------------------------------------------------------------------------

(* The caps a worker can have.  There is no ceiling: a cap persisted when  *)
(* the backend had more threads is taken as it is.                         *)
Cap == Nat \ {0}
Estimator == [cap : Cap, n429 : 0..Http429Threshold, spike : BOOLEAN]

(* LoadPersisted and NewConcurrencyEstimatorWithInit: the file, if there   *)
(* is one, overrides the seed.  The debounced persist has left some cap of *)
(* an earlier moment in it, and it starts over with every request.         *)
NewConcurrencyEstimator(persisted) ==
  [cap |-> IF persisted > 0 THEN persisted ELSE InitCap, n429 |-> 0, spike |-> FALSE]

(* 429s beyond the threshold are not told apart; the new sample may or may *)
(* not be a spike.                                                         *)
RecordRequest(e, status, spike) ==
  [e EXCEPT !.n429 = IF status = "e429" /\ @ < Http429Threshold THEN @ + 1 ELSE @,
            !.spike = spike]

SetCap(e, n) == [e EXCEPT !.cap = n]

RecordCircuitOpen(e) == SetCap(e, MinCap)

(* The cap before the circuit opened is not known any more: a cap of one   *)
(* for any other reason is raised too.                                     *)
RecordCircuitClosed(e) == IF e.cap = MinCap THEN SetCap(e, DefaultInitCap) ELSE e

(* 429s and a latency spike each take one from the cap. *)
Lowered(e, n) ==
  LET a == IF n >= Http429Threshold /\ e.cap > MinCap THEN e.cap - 1 ELSE e.cap
  IN IF e.spike /\ a > MinCap THEN a - 1 ELSE a

(* recompute, n being the 429s left in the ten-second window.  Recovery    *)
(* asks for none in the last thirty seconds and looks into that window; a  *)
(* cap just lowered is not settled.                                        *)
Recompute(e, n, settled) ==
  LET low == Lowered(e, n)
      raised == IF low < DefaultInitCap /\ settled /\ low = e.cap /\ n = 0
                  THEN low + 1 ELSE low
  IN [SetCap(e, raised) EXCEPT !.n429 = n]
=============================================================================
