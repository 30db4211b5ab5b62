-------------------------- MODULE InFlightContract --------------------------
(***************************************************************************)
(* What the router promises about a worker's in-flight calls, whatever the *)
(* transport: a call is refused or admitted, is admitted only while fewer  *)
(* than cap calls are in flight, and an admitted call ends exactly once    *)
(* and never comes back.  The cap may move at any time; the calls already  *)
(* admitted are left alone.  A lost connection ends several at once.       *)
(***************************************************************************)
EXTENDS Naturals, FiniteSets

CONSTANTS Call, Caps

VARIABLES
  cap,      \* the worker's current cap
  inFlight, \* admitted and not ended
  over      \* refused or ended

contractVars == <<cap, inFlight, over>>

Init ==
  /\ cap \in Caps
  /\ inFlight = {}
  /\ over = {}

New == Call \ (inFlight \cup over)

Admit(k) ==
  /\ k \in New
  /\ Cardinality(inFlight) < cap
  /\ inFlight' = inFlight \cup {k}
  /\ UNCHANGED <<cap, over>>

Refuse(k) ==
  /\ k \in New
  /\ Cardinality(inFlight) >= cap
  /\ over' = over \cup {k}
  /\ UNCHANGED <<cap, inFlight>>

End(S) ==
  /\ S # {} /\ S \subseteq inFlight
  /\ inFlight' = inFlight \ S
  /\ over' = over \cup S
  /\ UNCHANGED cap

SetCap(n) ==
  /\ cap' = n
  /\ UNCHANGED <<inFlight, over>>

Next ==
  \/ \E k \in Call : Admit(k) \/ Refuse(k)
  \/ \E S \in SUBSET Call : End(S)
  \/ \E n \in Caps : SetCap(n)

Spec == Init /\ [][Next]_contractVars
=============================================================================
