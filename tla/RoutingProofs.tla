--------------------------- MODULE RoutingProofs ----------------------------
(***************************************************************************)
(* The router's pure decisions.  ModelNames, for every set of names,       *)
(* prompts, flags, posted configurations and alias maps: the settings keep *)
(* their shape, GET then POST is the identity, a longer prompt is never    *)
(* sent lower, and the list of models leaves none out.  Scheduling, for    *)
(* all workers, requests, weights and numbers of candidates: scores are    *)
(* monotone and the best worker is selected.                               *)
(***************************************************************************)
EXTENDS ModelNames, Scheduling, FiniteSetTheorems, SequenceTheorems, TLAPS

-----------------------------------------------------------------------------
(* The classifier. *)

(* What the classifier reads of a configuration. *)
Readable(c) == c.simple \in Nat /\ c.medium \in Nat /\ c.four \in BOOLEAN /\ c.keywords \in BOOLEAN

(* The six cues are finitely many, so those of a prompt can be counted. *)
LEMMA CuesCounted ==
  ASSUME NEW p \in Prompt PROVE Cues(p) \in Nat
<1>1. IsFiniteSet({})
  BY FS_EmptySet
<1>2. IsFiniteSet({"code"})
  BY <1>1, FS_AddElement, {} \cup {"code"} = {"code"}
<1>3. IsFiniteSet({"code", "math"})
  BY <1>2, FS_AddElement, {"code"} \cup {"math"} = {"code", "math"}
<1>4. IsFiniteSet({"code", "math", "list"})
  BY <1>3, FS_AddElement, {"code", "math"} \cup {"list"} = {"code", "math", "list"}
<1>5. IsFiniteSet({"code", "math", "list", "nested"})
  BY <1>4, FS_AddElement, {"code", "math", "list"} \cup {"nested"} = {"code", "math", "list", "nested"}
<1>6. IsFiniteSet({"code", "math", "list", "nested", "fewshot"})
  BY <1>5, FS_AddElement,
     {"code", "math", "list", "nested"} \cup {"fewshot"} = {"code", "math", "list", "nested", "fewshot"}
<1>7. IsFiniteSet(Cue)
  BY <1>6, FS_AddElement,
     {"code", "math", "list", "nested", "fewshot"} \cup {"role"} = Cue DEF Cue
<1>8. p.cues \subseteq Cue
  BY PromptAssumption
<1>9. IsFiniteSet(p.cues)
  BY <1>7, <1>8, FS_Subset
<1> QED
  BY <1>9, FS_CardinalityType DEF Cues

(* The correction on top of the length is a number. *)
LEMMA AdjustmentIsInt ==
  ASSUME NEW c, Readable(c), NEW p \in Prompt PROVE Adjustment(c, p) \in Int
<1>1. Cues(p) \in Nat
  BY CuesCounted
<1>2. p.phrases \in Int /\ p.depth \in Int /\ p.keyword \in BOOLEAN
  BY PromptAssumption
<1> QED
  BY <1>1, <1>2 DEF Adjustment, ComputeSemanticAdjustment, PhraseBalance, Readable

(* Prompts with the same signals are corrected alike. *)
LEMMA SameAdjustment ==
  ASSUME NEW c, NEW p \in Prompt, NEW q \in Prompt, SameSignals(p, q)
  PROVE  Adjustment(c, p) = Adjustment(c, q) /\ p.long = q.long
<1>1. [p EXCEPT !.tokens = 0].long = p.long /\ [q EXCEPT !.tokens = 0].long = q.long
  BY PromptAssumption
<1>2. [p EXCEPT !.tokens = 0].cues = p.cues /\ [q EXCEPT !.tokens = 0].cues = q.cues
  BY PromptAssumption
<1>3. [p EXCEPT !.tokens = 0].phrases = p.phrases /\ [q EXCEPT !.tokens = 0].phrases = q.phrases
  BY PromptAssumption
<1>4. [p EXCEPT !.tokens = 0].depth = p.depth /\ [q EXCEPT !.tokens = 0].depth = q.depth
  BY PromptAssumption
<1>5. [p EXCEPT !.tokens = 0].keyword = p.keyword /\ [q EXCEPT !.tokens = 0].keyword = q.keyword
  BY PromptAssumption
<1>6. p.long = q.long /\ p.cues = q.cues /\ p.phrases = q.phrases /\ p.depth = q.depth /\ p.keyword = q.keyword
  BY <1>1, <1>2, <1>3, <1>4, <1>5 DEF SameSignals
<1> QED
  BY <1>6 DEF Adjustment, ComputeSemanticAdjustment, PhraseBalance, Cues

(* The length alone never gives the hard tier, so the baseline is on both  *)
(* ladders: at the bottom, one above it, or at the top.                    *)
LEMMA BaselineOnLadder ==
  ASSUME NEW c, Readable(c), NEW tokens \in Nat
  PROVE  /\ BaseIndex(c, tokens) \in 1 .. Top(c)
         /\ BaseIndex(c, tokens) = IF tokens < OrDefault(c.simple, 200) THEN 1
                                   ELSE IF tokens < OrDefault(c.medium, 600) THEN 2 ELSE Top(c)
<1> DEFINE tier == ClassifyByTokens(c, tokens)
           at == IF tokens < OrDefault(c.simple, 200) THEN 1
                 ELSE IF tokens < OrDefault(c.medium, 600) THEN 2 ELSE Top(c)
<1>1. c.four \in BOOLEAN /\ OrDefault(c.simple, 200) \in Int /\ OrDefault(c.medium, 600) \in Int
  BY DEF Readable, OrDefault
<1>2. at \in 1 .. Top(c)
  BY <1>1 DEF Top
<1>3. Ladder(c)[at] = tier
  BY <1>1 DEF Ladder, Top, ClassifyByTokens
<1>4. \A i, j \in 1 .. Top(c) : Ladder(c)[i] = Ladder(c)[j] => i = j
  <2>1. CASE c.four
    BY <2>1 DEF Ladder, Top
  <2>2. CASE ~c.four
    BY <2>2 DEF Ladder, Top
  <2> QED
    BY <2>1, <2>2, <1>1
<1> HIDE DEF tier, at
<1>5. BaseIndex(c, tokens) \in 1 .. Top(c) /\ Ladder(c)[BaseIndex(c, tokens)] = tier
  BY <1>2, <1>3 DEF BaseIndex, tier
<1>6. BaseIndex(c, tokens) = at
  BY <1>2, <1>3, <1>4, <1>5
<1> QED
  BY <1>5, <1>6 DEF at

(* Climbing a ladder never leads to a lower tier. *)
LEMMA LadderClimbs ==
  ASSUME NEW c, Readable(c), NEW i \in 1 .. Top(c), NEW j \in 1 .. Top(c), i <= j
  PROVE  Ladder(c)[i] <= Ladder(c)[j] /\ Ladder(c)[i] \in 0 .. 3
<1>1. CASE c.four
  BY <1>1 DEF Ladder, Top
<1>2. CASE ~c.four
  BY <1>2 DEF Ladder, Top
<1> QED
  BY <1>1, <1>2 DEF Readable

(* Same signals, more tokens: the same tier or a higher one, whatever the  *)
(* thresholds and in both ladders.                                         *)
LEMMA ClassifyMonotone ==
  ASSUME NEW c, Readable(c), NEW p \in Prompt, NEW q \in Prompt,
         SameSignals(p, q), p.tokens <= q.tokens
  PROVE  Classify(c, p) <= Classify(c, q)
<1> DEFINE s == EstimatedTokens(p)
           t == EstimatedTokens(q)
           adj == Adjustment(c, p)
           OnLadder(i) == IF i < 1 THEN 1 ELSE MinOf(i, Top(c))
<1>1. Adjustment(c, q) = adj /\ p.long = q.long /\ adj \in Int
  BY SameAdjustment, AdjustmentIsInt
<1>2. s \in Nat /\ t \in Nat /\ s <= t
  <2>1. p.tokens \in Nat /\ q.tokens \in Nat /\ p.long \in BOOLEAN
    BY PromptAssumption
  <2> QED
    BY <2>1, <1>1 DEF EstimatedTokens
<1>3. Top(c) \in {3, 4}
  BY DEF Top
<1>4. BaseIndex(c, s) \in 1 .. Top(c) /\ BaseIndex(c, t) \in 1 .. Top(c)
  BY <1>2, BaselineOnLadder
<1>5. BaseIndex(c, s) <= BaseIndex(c, t)
  <2>1. OrDefault(c.simple, 200) \in Int /\ OrDefault(c.medium, 600) \in Int
    BY DEF Readable, OrDefault
  <2>2. BaseIndex(c, s) = IF s < OrDefault(c.simple, 200) THEN 1
                          ELSE IF s < OrDefault(c.medium, 600) THEN 2 ELSE Top(c)
    BY <1>2, BaselineOnLadder
  <2>3. BaseIndex(c, t) = IF t < OrDefault(c.simple, 200) THEN 1
                          ELSE IF t < OrDefault(c.medium, 600) THEN 2 ELSE Top(c)
    BY <1>2, BaselineOnLadder
  <2> HIDE DEF s, t
  <2> QED
    BY <2>1, <2>2, <2>3, <1>2, <1>3
<1> HIDE DEF s, t, adj
<1>6. /\ OnLadder(BaseIndex(c, s) + adj) \in 1 .. Top(c)
      /\ OnLadder(BaseIndex(c, t) + adj) \in 1 .. Top(c)
      /\ OnLadder(BaseIndex(c, s) + adj) <= OnLadder(BaseIndex(c, t) + adj)
  BY <1>1, <1>3, <1>4, <1>5 DEF MinOf
<1>7. Ladder(c)[OnLadder(BaseIndex(c, s) + adj)] <= Ladder(c)[OnLadder(BaseIndex(c, t) + adj)]
  BY <1>6, LadderClimbs
<1> QED
  BY <1>7, <1>1 DEF Classify, s, t, adj

-----------------------------------------------------------------------------
(* The settings of the "auto" alias. *)

(* A pair of thresholds that a second POST would leave alone. *)
Settled(simple, medium) ==
  /\ simple \in 1 .. TokenCap /\ medium \in Nat /\ simple < medium
  /\ medium <= TokenCap \/ (medium = simple + 1 /\ simple = TokenCap)

(* A configuration that came from a POST and is not empty: no blank model, *)
(* no keywords, settled thresholds.                                        *)
FromPost(c) ==
  /\ c = [models |-> c.models, simple |-> c.simple, medium |-> c.medium,
          four |-> c.four, keywords |-> FALSE]
  /\ c.keywords = FALSE
  /\ DOMAIN c.models \subseteq Tier /\ DOMAIN c.models # {}
  /\ c.models \in [DOMAIN c.models -> Name \ {""}]
  /\ Settled(c.simple, c.medium)
  /\ c.four \in BOOLEAN

(* The cap is above both defaults. *)
LEMMA CapIsLarge == TokenCap \in Nat /\ TokenCap > 600
BY SMT DEF TokenCap

(* Ordering two capped thresholds settles them. *)
LEMMA OrderedSettles ==
  ASSUME NEW s \in 1 .. TokenCap, NEW m \in 1 .. TokenCap
  PROVE  Settled(s, IF m <= s THEN s + 1 ELSE m)
<1>1. CASE m <= s
  BY CapIsLarge, <1>1 DEF Settled
<1>2. CASE ~(m <= s)
  BY CapIsLarge, <1>2 DEF Settled
<1> QED
  BY <1>1, <1>2

(* Whatever numbers a body holds, the thresholds it leads to are settled. *)
LEMMA PostSettles ==
  ASSUME NEW d, d.simple \in Int, d.medium \in Int
  PROVE  Settled(Thresholds(d).simple, Thresholds(d).medium)
<1> DEFINE simple == MinOf(OrDefault(d.simple, 200), TokenCap)
           medium == MinOf(OrDefault(d.medium, 600), TokenCap)
<1>1. simple \in 1 .. TokenCap /\ medium \in 1 .. TokenCap
  BY CapIsLarge DEF MinOf, OrDefault
<1>2. Thresholds(d).simple = simple /\ Thresholds(d).medium = IF medium <= simple THEN simple + 1 ELSE medium
  BY DEF Thresholds
<1> HIDE DEF simple, medium
<1> QED
  BY <1>1, <1>2, OrderedSettles

(* Settled thresholds survive being posted again. *)
LEMMA SettledStays ==
  ASSUME NEW d, Settled(d.simple, d.medium)
  PROVE  Thresholds(d).simple = d.simple /\ Thresholds(d).medium = d.medium
<1>1. d.simple \in 1 .. TokenCap /\ d.medium \in Nat /\ d.simple < d.medium
  BY DEF Settled
<1>2. OrDefault(d.simple, 200) = d.simple /\ OrDefault(d.medium, 600) = d.medium
  BY CapIsLarge, <1>1 DEF OrDefault
<1>3. MinOf(d.simple, TokenCap) = d.simple
  BY CapIsLarge, <1>1 DEF MinOf
<1>4. CASE d.medium <= TokenCap
  BY CapIsLarge, <1>1, <1>2, <1>3, <1>4 DEF Thresholds, MinOf
<1>5. CASE d.medium = d.simple + 1 /\ d.simple = TokenCap
  BY CapIsLarge, <1>1, <1>2, <1>3, <1>5 DEF Thresholds, MinOf
<1> QED
  BY <1>4, <1>5 DEF Settled

(* A name that leads to a tier leads to one of the four. *)
LEMMA TierNumbers ==
  /\ \A t \in Tier : t >= 0
  /\ \A n : StringToTier(n) >= 0 => StringToTier(n) \in Tier
<1>1. \A t \in Tier : t >= 0
  BY DEF Tier
<1>2. ASSUME NEW n, StringToTier(n) >= 0 PROVE StringToTier(n) \in Tier
  <2>1. StringToTier(n) \in {0, 1, 2, 3} \/ StringToTier(n) = -1
    BY DEF StringToTier
  <2> QED
    BY <2>1, <1>2 DEF Tier
<1> QED
  BY <1>1, <1>2

(* Every body becomes the empty configuration or one with FromPost's form. *)
LEMMA PostBuilds ==
  ASSUME NEW d \in AutoPosts, NEW c \in BuildAutoRoutingConfig(d)
  PROVE  c = NoAuto \/ FromPost(c)
<1> DEFINE named == {n \in DOMAIN d.models : StringToTier(n) >= 0 /\ d.models[n] # ""}
           tiers == {StringToTier(n) : n \in named}
           Choices == {f \in [tiers -> Name] :
                         \A t \in tiers : \E n \in named : StringToTier(n) = t /\ d.models[n] = f[t]}
<1>1. CASE ~d.enabled \/ named = {}
  BY <1>1 DEF BuildAutoRoutingConfig
<1>2. CASE ~(~d.enabled \/ named = {})
  <2>1. PICK f \in Choices :
          c = [models |-> f, simple |-> Thresholds(d).simple, medium |-> Thresholds(d).medium,
               four |-> d.four, keywords |-> FALSE]
    BY <1>2 DEF BuildAutoRoutingConfig
  <2>2. tiers \subseteq Tier /\ tiers # {}
    <3>1. ASSUME NEW n, StringToTier(n) >= 0 PROVE StringToTier(n) \in Tier
      BY <3>1, TierNumbers
    <3> QED
      BY <3>1, <1>2
  <2>3. f \in [tiers -> Name \ {""}]
    <3>1. f \in [tiers -> Name] /\ \A t \in tiers : f[t] # ""
      OBVIOUS
    <3> HIDE DEF tiers, Choices
    <3> QED
      BY <3>1
  <2>4. d.four \in BOOLEAN /\ Settled(Thresholds(d).simple, Thresholds(d).medium)
    BY PostAssumption, PostSettles
  <2> HIDE DEF tiers, Choices, named
  <2>5. DOMAIN f = tiers
    BY <2>3
  <2>6. c.models = f /\ c.simple = Thresholds(d).simple /\ c.medium = Thresholds(d).medium
        /\ c.four = d.four /\ c.keywords = FALSE
    BY <2>1
  <2> QED
    BY <2>1, <2>2, <2>3, <2>4, <2>5, <2>6 DEF FromPost
<1> QED
  BY <1>1, <1>2

(* A tier's name leads back to the tier. *)
LEMMA TierNames ==
  /\ \A t \in Tier : StringToTier(TierToString(t)) = t
  /\ \A s, t \in Tier : TierToString(s) = TierToString(t) => s = t
<1>1. \A t \in Tier : t \in {0, 1, 2, 3}
  BY DEF Tier
<1>2. \A t \in Tier : StringToTier(TierToString(t)) = t
  BY <1>1 DEF StringToTier, TierToString
<1> QED
  BY <1>2

(* What GET answers for a posted configuration builds that configuration. *)
LEMMA RoundTrip ==
  ASSUME NEW c, c = NoAuto \/ FromPost(c)
  PROVE  BuildAutoRoutingConfig(ToAutoRoutingConfigDTO(c)) = {c}
<1>1. CASE c = NoAuto
  BY <1>1 DEF BuildAutoRoutingConfig, ToAutoRoutingConfigDTO
<1>2. CASE c # NoAuto
  <2> DEFINE d == ToAutoRoutingConfigDTO(c)
             T == DOMAIN c.models
             N == {TierToString(t) : t \in T}
             back == [n \in N |-> c.models[CHOOSE t \in T : TierToString(t) = n]]
  <2>1. FromPost(c)
    BY <1>2
  <2>2. /\ d.enabled = TRUE /\ d.models = back /\ d.four = c.four
        /\ d.simple = OrDefault(c.simple, 200) /\ d.medium = OrDefault(c.medium, 600)
    BY <1>2 DEF ToAutoRoutingConfigDTO
  <2>3. /\ T \subseteq Tier /\ T # {} /\ c.models \in [T -> Name \ {""}]
        /\ Settled(c.simple, c.medium)
        /\ c = [models |-> c.models, simple |-> c.simple, medium |-> c.medium,
                four |-> c.four, keywords |-> FALSE]
    BY <2>1 DEF FromPost
  <2>4. d.simple = c.simple /\ d.medium = c.medium
    <3>1. c.simple \in 1 .. TokenCap /\ c.medium \in Nat /\ c.simple < c.medium
      BY <2>3 DEF Settled
    <3> QED
      BY CapIsLarge, <2>2, <3>1 DEF OrDefault
  <2>5. Thresholds(d).simple = c.simple /\ Thresholds(d).medium = c.medium
    BY <2>3, <2>4, SettledStays
  <2> HIDE DEF d
  <2>6. ASSUME NEW t \in T
        PROVE  TierToString(t) \in N /\ back[TierToString(t)] = c.models[t]
               /\ StringToTier(TierToString(t)) = t
    <3>1. (CHOOSE u \in T : TierToString(u) = TierToString(t)) = t
      BY <2>3, TierNames
    <3> QED
      BY <3>1, <2>3, TierNames
  <2> DEFINE named == {n \in DOMAIN d.models : StringToTier(n) >= 0 /\ d.models[n] # ""}
             tiers == {StringToTier(n) : n \in named}
             Choices == {f \in [tiers -> Name] :
                           \A t \in tiers : \E n \in named : StringToTier(n) = t /\ d.models[n] = f[t]}
  <2>7. DOMAIN d.models = N
    BY <2>2
  <2>8. named = N
    <3>1. ASSUME NEW t \in T PROVE t >= 0 /\ c.models[t] # ""
      <4>1. t \in Tier /\ c.models[t] \in Name \ {""}
        BY <2>3
      <4>2. t >= 0
        BY <4>1, TierNumbers
      <4> QED
        BY <4>1, <4>2
    <3>2. ASSUME NEW n \in N PROVE StringToTier(n) >= 0 /\ d.models[n] # ""
      <4>1. PICK t \in T : n = TierToString(t)
        OBVIOUS
      <4> HIDE DEF N, back, T
      <4> QED
        BY <4>1, <2>2, <2>6, <3>1
    <3> HIDE DEF N
    <3> QED
      BY <2>7, <3>2
  <2>9. tiers = T
    <3>1. tiers = {StringToTier(n) : n \in N}
      BY <2>8
    <3>2. {StringToTier(n) : n \in N} \subseteq T
      BY <2>6
    <3>3. T \subseteq {StringToTier(n) : n \in N}
      <4> SUFFICES ASSUME NEW t \in T PROVE t \in {StringToTier(n) : n \in N}
        OBVIOUS
      <4>1. TierToString(t) \in N /\ StringToTier(TierToString(t)) = t
        BY <2>6
      <4> HIDE DEF N, T
      <4> QED
        BY <4>1
    <3> HIDE DEF tiers
    <3> QED
      BY <3>1, <3>2, <3>3
  <2>10. \A f : f \in Choices <=> f \in [T -> Name] /\ \A t \in T : f[t] = c.models[t]
    <3>1. ASSUME NEW t \in T, NEW v
          PROVE  (\E n \in N : StringToTier(n) = t /\ back[n] = v) <=> v = c.models[t]
      <4>1. ASSUME NEW n \in N, StringToTier(n) = t PROVE n = TierToString(t)
        <5>1. PICK u \in T : n = TierToString(u)
          OBVIOUS
        <5>2. u = t
          BY <5>1, <4>1, <2>6
        <5> QED
          BY <5>1, <5>2
      <4> HIDE DEF N, T, back
      <4> QED
        BY <4>1, <2>6
    <3>2. Choices = {f \in [T -> Name] : \A t \in T : \E n \in N : StringToTier(n) = t /\ d.models[n] = f[t]}
      BY <2>8, <2>9
    <3> HIDE DEF N, T, back, Choices
    <3> QED
      BY <3>1, <3>2, <2>2
  <2>11. Choices = {c.models}
    <3> HIDE DEF Choices, T
    <3>1. c.models \in [T -> Name]
      BY <2>3
    <3>2. c.models \in Choices
      BY <3>1, <2>10
    <3>3. ASSUME NEW f \in Choices PROVE f = c.models
      BY <3>1, <2>10
    <3> QED
      BY <3>2, <3>3
  <2>12. BuildAutoRoutingConfig(d) =
           {[models |-> f, simple |-> Thresholds(d).simple, medium |-> Thresholds(d).medium,
             four |-> d.four, keywords |-> FALSE] : f \in Choices}
    <3>1. ~(~d.enabled \/ named = {})
      <4>1. N # {}
        BY <2>3
      <4> QED
        BY <4>1, <2>2, <2>8
    <3> QED
      BY <3>1 DEF BuildAutoRoutingConfig
  <2> HIDE DEF Choices
  <2>13. BuildAutoRoutingConfig(d) =
           {[models |-> c.models, simple |-> c.simple, medium |-> c.medium,
             four |-> c.four, keywords |-> FALSE]}
    BY <2>12, <2>11, <2>5, <2>2
  <2> QED
    BY <2>13, <2>3 DEF d
<1> QED
  BY <1>1, <1>2

-----------------------------------------------------------------------------
(* Types. *)

(* AutoTyped, of any configuration. *)
Configured(c) ==
  /\ Readable(c)
  /\ DOMAIN c.models \subseteq Tier
  /\ \A t \in DOMAIN c.models : c.models[t] \in Name \cup {""}

(* No configuration at all is typed. *)
LEMMA EmptyTyped == Configured(NoAuto)
<1>1. Readable(NoAuto)
  BY DEF Readable, NoAuto
<1>2. NoAuto.models = NoModels
  BY DEF NoAuto
<1>3. DOMAIN NoModels = {}
  BY DEF NoModels
<1> QED
  BY <1>1, <1>2, <1>3 DEF Configured

(* So is one built from a body. *)
LEMMA PostTyped ==
  ASSUME NEW c, FromPost(c) PROVE Configured(c)
<1>1. /\ c.keywords = FALSE /\ DOMAIN c.models \subseteq Tier
      /\ c.models \in [DOMAIN c.models -> Name \ {""}]
      /\ Settled(c.simple, c.medium) /\ c.four \in BOOLEAN
  BY DEF FromPost
<1>2. c.simple \in 1 .. TokenCap /\ c.medium \in Nat
  BY <1>1 DEF Settled
<1>3. c.simple \in Nat
  BY <1>2, CapIsLarge
<1>4. \A t \in DOMAIN c.models : c.models[t] \in Name \cup {""}
  BY <1>1
<1> QED
  BY <1>1, <1>2, <1>3, <1>4 DEF Configured, Readable

(* A default is taken for a number that is not positive. *)
LEMMA DefaultIsNat ==
  ASSUME NEW n \in Int, NEW d \in Nat PROVE OrDefault(n, d) \in Nat
BY DEF OrDefault

(* Whatever the flags hold, the thresholds are numbers. *)
LEMMA DefaultsAreNat ==
  ASSUME NEW f \in AutoFlags PROVE OrDefault(f.simple, 200) \in Nat /\ OrDefault(f.medium, 600) \in Nat
<1>1. f.simple \in Int /\ f.medium \in Int
  BY FlagAssumption
<1>2. 200 \in Nat /\ 600 \in Nat
  OBVIOUS
<1> QED
  BY <1>1, <1>2, DefaultIsNat

(* So is one built from the command line. *)
LEMMA FlagsTyped ==
  ASSUME NEW f \in AutoFlags PROVE Configured(FlagsToConfig(f))
<1> DEFINE Of(n) == IF n \in DOMAIN f.models THEN f.models[n] ELSE ""
           tiers == {0, 1, 3} \cup (IF Of("hard") = "" THEN {} ELSE {2})
           table == [t \in tiers |-> IF t = 3 /\ Of("hardest") = "" THEN Of("complex")
                                     ELSE Of(TierToString(t))]
           c == [models |-> table, simple |-> OrDefault(f.simple, 200), medium |-> OrDefault(f.medium, 600),
                 four |-> f.four, keywords |-> f.keywords]
<1>1. CASE \A n \in DOMAIN f.models : f.models[n] = ""
  <2>1. FlagsToConfig(f) = NoAuto
    BY <1>1 DEF FlagsToConfig
  <2> QED
    BY <2>1, EmptyTyped
<1>2. CASE ~(\A n \in DOMAIN f.models : f.models[n] = "")
  <2>1. FlagsToConfig(f) = c
    BY <1>2 DEF FlagsToConfig
  <2>2. f.simple \in Int /\ f.medium \in Int /\ f.four \in BOOLEAN /\ f.keywords \in BOOLEAN
    BY FlagAssumption
  <2>3. \A n : Of(n) \in Name \cup {""}
    BY FlagAssumption
  <2>4. tiers \subseteq {0, 1, 2, 3}
    OBVIOUS
  <2> HIDE DEF Of, tiers
  <2>5. DOMAIN table = tiers /\ \A t \in tiers : table[t] \in Name \cup {""}
    BY <2>3
  <2> HIDE DEF table
  <2>6. /\ c.models = table /\ c.four = f.four /\ c.keywords = f.keywords
        /\ c.simple = OrDefault(f.simple, 200) /\ c.medium = OrDefault(f.medium, 600)
    OBVIOUS
  <2> HIDE DEF c
  <2>7. Readable(c)
    BY <2>2, <2>6, DefaultsAreNat DEF Readable
  <2>8. {0, 1, 2, 3} \subseteq Tier
    BY DEF Tier
  <2> QED
    <3>1. DOMAIN c.models \subseteq Tier
      <4>1. DOMAIN c.models = tiers
        BY <2>5, <2>6
      <4>2. tiers \subseteq Tier
        <5> HIDE DEF tiers
        <5> QED
          BY <2>4, <2>8
      <4> QED
        BY <4>1, <4>2
    <3>2. \A t \in DOMAIN c.models : c.models[t] \in Name \cup {""}
      BY <2>5, <2>6
    <3> QED
      BY <2>1, <2>7, <3>1, <3>2 DEF Configured
<1> QED
  BY <1>1, <1>2

(* Blank names do not survive into the alias map. *)
LEMMA AliasesBuilt ==
  ASSUME NEW raw \in AliasPosts
  PROVE  /\ DOMAIN BuildAliasConfig(raw) \subseteq Name
         /\ \A a \in DOMAIN BuildAliasConfig(raw) : BuildAliasConfig(raw)[a] \in Name \ {""}
BY AliasAssumption DEF BuildAliasConfig

-----------------------------------------------------------------------------
(* The invariant. *)

(* A configuration that was posted has the form a POST gives it. *)
PostedInv == posted => auto = NoAuto \/ FromPost(auto)

(* A listing that no POST disturbed hides the targets of the aliases as    *)
(* they are, keeps every loaded name it does not hide, and ends up with    *)
(* every alias.                                                            *)
ListInv ==
  (op.kind = "list" /\ op.stable) =>
    /\ op.hide = HideCanonical(aliases)
    /\ op.at # "hide" => op.loaded \ op.hide \subseteq op.names
    /\ op.at = "done" => DOMAIN aliases \subseteq op.names

Inv == TypeOK /\ PostedInv /\ ListInv

(* The settings' part of the invariant. *)
SettingsInv == AutoTyped /\ AliasesTyped /\ posted \in BOOLEAN /\ loaded \subseteq Name /\ PostedInv

(* The part about the request or listing under way. *)
OpInv == op \in {NoOp} \cup Requests \cup Listings /\ ListInv

(* The invariant is those two parts. *)
LEMMA InvParts == Inv <=> SettingsInv /\ OpInv
BY DEF Inv, SettingsInv, OpInv, TypeOK

(* The same after a step. *)
LEMMA InvPartsNext == ASSUME SettingsInv', OpInv' PROVE Inv'
BY DEF Inv, SettingsInv, OpInv, TypeOK

(* It holds at the start. *)
LEMMA InvInit == Init => Inv
<1> SUFFICES ASSUME Init PROVE Inv
  OBVIOUS
<1>1. PICK f \in AutoFlags : auto = FlagsToConfig(f)
  BY DEF Init
<1>2. AutoTyped
  BY <1>1, FlagsTyped DEF Configured, Readable, AutoTyped
<1>3. PICK raw \in AliasPosts : aliases = BuildAliasConfig(raw)
  BY DEF Init
<1>4. AliasesTyped
  BY <1>3, AliasesBuilt DEF AliasesTyped
<1>5. posted = FALSE /\ loaded = {} /\ op = NoOp
  BY DEF Init
<1>6. SettingsInv
  BY <1>2, <1>4, <1>5 DEF SettingsInv, PostedInv
<1>7. OpInv
  <2>1. NoOp.kind # "list"
    BY DEF NoOp
  <2> QED
    BY <2>1, <1>5 DEF OpInv, ListInv
<1> QED
  BY <1>6, <1>7, InvParts

(* A request under way, or nothing, satisfies the listing's part. *)
LEMMA NotListing ==
  /\ NoOp.kind = "none"
  /\ \A r \in Requests : r.kind = "request"
  /\ \A r \in Listings : r.kind = "list"
BY DEF NoOp, Requests, Listings

(* Settings that do not change keep their part. *)
LEMMA SettingsStay ==
  ASSUME SettingsInv, UNCHANGED <<auto, posted, aliases, loaded>> PROVE SettingsInv'
BY DEF SettingsInv, PostedInv, AutoTyped, AliasesTyped

(* A step that ends in no operation or in a request keeps the other part. *)
LEMMA NoListingLeft ==
  ASSUME op' = NoOp \/ op' \in Requests PROVE OpInv'
BY NotListing DEF OpInv, ListInv

(* Steps of the settings. *)

(* POST /meta/auto-routing leaves a configuration of the posted form. *)
LEMMA PostStep ==
  ASSUME Inv, HandleAutoRouting PROVE Inv'
<1>1. PICK d \in AutoPosts : auto' \in BuildAutoRoutingConfig(d)
  BY DEF HandleAutoRouting
<1>2. auto' = NoAuto \/ FromPost(auto')
  BY <1>1, PostBuilds
<1>3. posted' = TRUE /\ UNCHANGED <<aliases, loaded, op>>
  BY DEF HandleAutoRouting
<1>4. Configured(auto')
  BY <1>2, EmptyTyped, PostTyped
<1>5. AutoTyped'
  BY <1>4 DEF Configured, Readable, AutoTyped
<1>6. SettingsInv'
  BY <1>2, <1>3, <1>5, InvParts DEF SettingsInv, PostedInv, AliasesTyped
<1>7. OpInv'
  BY <1>3, InvParts DEF OpInv, ListInv
<1> QED
  BY <1>6, <1>7, InvPartsNext

(* POST of aliases leaves no blank and marks a listing under way. *)
LEMMA AliasStep ==
  ASSUME Inv, HandleSetAliases PROVE Inv'
<1>1. PICK raw \in AliasPosts : aliases' = BuildAliasConfig(raw)
  BY DEF HandleSetAliases
<1>2. AliasesTyped'
  BY <1>1, AliasesBuilt DEF AliasesTyped
<1>3. /\ UNCHANGED <<auto, posted, loaded>>
      /\ op' = IF op.kind = "list" THEN [op EXCEPT !.stable = FALSE] ELSE op
  BY DEF HandleSetAliases
<1>4. SettingsInv'
  BY <1>2, <1>3, InvParts DEF SettingsInv, PostedInv, AutoTyped
<1>5. op \in {NoOp} \cup Requests \cup Listings
  BY InvParts DEF OpInv
<1>6. CASE op.kind = "list"
  <2>1. op \in Listings
    BY <1>5, <1>6, NotListing
  <2>2. [op EXCEPT !.stable = FALSE] \in Listings /\ [op EXCEPT !.stable = FALSE].stable = FALSE
    BY <2>1 DEF Listings
  <2>3. op' \in Listings /\ op'.stable = FALSE
    BY <2>2, <1>3, <1>6
  <2>4. OpInv'
    BY <2>3 DEF OpInv, ListInv
  <2> QED
    BY <2>4, <1>4, InvPartsNext
<1>7. CASE op.kind # "list"
  <2>1. op' = NoOp \/ op' \in Requests
    BY <1>3, <1>5, <1>7, NotListing
  <2> QED
    BY <2>1, <1>4, InvPartsNext, NoListingLeft
<1> QED
  BY <1>6, <1>7

(* A change of the cache touches neither part. *)
LEMMA CacheStep ==
  ASSUME Inv, CacheChanges PROVE Inv'
<1>1. loaded' \in SUBSET Name /\ UNCHANGED <<auto, posted, aliases, op>>
  BY DEF CacheChanges
<1>2. SettingsInv'
  BY <1>1, InvParts DEF SettingsInv, PostedInv, AutoTyped, AliasesTyped
<1>3. OpInv'
  BY <1>1, InvParts DEF OpInv, ListInv
<1> QED
  BY <1>2, <1>3, InvPartsNext

(* Steps of a request: the name it ends up with is a model's name. *)

LEMMA RequestMoves ==
  ASSUME NEW r \in Requests, NEW at \in {"parsed", "resolved", "dispatch"}, NEW m \in Name
  PROVE  [r EXCEPT !.at = at, !.model = m] \in Requests /\ [r EXCEPT !.at = at] \in Requests
BY DEF Requests

(* A request only ever carries a name. *)
LEMMA RequestStep ==
  ASSUME Inv, ParseRequest \/ ResolveAuto \/ ResolveAlias \/ Dispatch PROVE Inv'
<1>1. UNCHANGED <<auto, posted, aliases, loaded>>
  BY DEF ParseRequest, ResolveAuto, ResolveAlias, Dispatch
<1>2. SettingsInv'
  BY <1>1, InvParts, SettingsStay
<1>3. op.kind = "request" => op \in Requests
  BY InvParts, NotListing DEF OpInv
<1>4. CASE ParseRequest
  <2>1. PICK n \in Name : op' = [kind |-> "request", at |-> "parsed", model |-> n]
    BY <1>4 DEF ParseRequest
  <2>2. op' \in Requests
    BY <2>1 DEF Requests
  <2> QED
    BY <2>2, <1>2, InvPartsNext, NoListingLeft
<1>5. CASE ResolveAuto
  <2>1. op \in Requests
    BY <1>3, <1>5 DEF ResolveAuto
  <2>2. [op EXCEPT !.at = "resolved"] \in Requests
    BY <2>1, RequestMoves DEF Requests
  <2>3. ASSUME NEW t, ResolveModel(auto, t) # ""
        PROVE  [op EXCEPT !.at = "resolved", !.model = ResolveModel(auto, t)] \in Requests
    <3>1. ResolveModel(auto, t) \in Name
      BY <2>3, InvParts DEF SettingsInv, AutoTyped, ResolveModel
    <3> QED
      BY <2>1, <3>1, RequestMoves
  <2>4. op' = NoOp \/ op' \in Requests
    <3>1. op' \in IF op.model # "auto" \/ ~AutoRoutingActive(auto) THEN {[op EXCEPT !.at = "resolved"]}
                  ELSE {IF ResolveModel(auto, t) = "" THEN NoOp
                        ELSE [op EXCEPT !.at = "resolved", !.model = ResolveModel(auto, t)] :
                          t \in {Classify(auto, p) : p \in Prompt}}
      BY <1>5 DEF ResolveAuto
    <3>2. CASE op' = [op EXCEPT !.at = "resolved"]
      BY <2>2, <3>2
    <3>3. CASE op' # [op EXCEPT !.at = "resolved"]
      <4>1. PICK t : op' = IF ResolveModel(auto, t) = "" THEN NoOp
                           ELSE [op EXCEPT !.at = "resolved", !.model = ResolveModel(auto, t)]
        BY <3>1, <3>3
      <4> QED
        BY <4>1, <2>3
    <3> QED
      BY <3>2, <3>3
  <2> QED
    BY <2>4, <1>2, InvPartsNext, NoListingLeft
<1>6. CASE ResolveAlias
  <2>1. op \in Requests
    BY <1>3, <1>6 DEF ResolveAlias
  <2>2. op.model \in Name
    BY <2>1 DEF Requests
  <2>3. ResolveAliasModel(aliases, op.model) \in Name
    BY <2>2, InvParts DEF SettingsInv, AliasesTyped, ResolveAliasModel
  <2>4. op' \in Requests
    BY <1>6, <2>1, <2>3, RequestMoves DEF ResolveAlias
  <2> QED
    BY <2>4, <1>2, InvPartsNext, NoListingLeft
<1>7. CASE Dispatch
  BY <1>7, <1>2, InvPartsNext, NoListingLeft DEF Dispatch
<1> QED
  BY <1>4, <1>5, <1>6, <1>7

(* Steps of a listing. *)

(* What the invariant says of a listing. *)
LEMMA ListingParts ==
  ASSUME Inv, op.kind = "list" PROVE op \in Listings /\ ListInv
BY InvParts, NotListing DEF OpInv

(* The first read fixes the names to hide. *)
LEMMA ListHideStep ==
  ASSUME Inv, ListHide PROVE OpInv'
<1>1. op' = [kind |-> "list", at |-> "hide", hide |-> HideCanonical(aliases), names |-> {},
             loaded |-> {}, stable |-> TRUE]
  BY DEF ListHide
<1>2. HideCanonical(aliases) \subseteq Name
  BY InvParts DEF SettingsInv, AliasesTyped, HideCanonical
<1>3. op' \in Listings
  BY <1>1, <1>2 DEF Listings
<1>4. op'.at = "hide" /\ op'.hide = HideCanonical(aliases)
  BY <1>1
<1>5. aliases' = aliases
  BY DEF ListHide
<1>6. ListInv'
  BY <1>4, <1>5 DEF ListInv, HideCanonical
<1> QED
  BY <1>3, <1>6 DEF OpInv

(* The second keeps every loaded name it does not hide. *)
LEMMA ListLoadedStep ==
  ASSUME Inv, ListLoaded PROVE OpInv'
<1> DEFINE ns == loaded \ op.hide
<1>1. op \in Listings /\ ListInv
  BY ListingParts DEF ListLoaded
<1>2. op' = [op EXCEPT !.at = "loaded", !.names = ns, !.loaded = loaded] /\ aliases' = aliases
  BY DEF ListLoaded
<1>3. loaded \in SUBSET Name /\ ns \in SUBSET (Name \cup {"auto"})
  BY InvParts DEF SettingsInv
<1> HIDE DEF ns
<1>4. /\ op' \in Listings /\ op'.at = "loaded" /\ op'.names = ns /\ op'.loaded = loaded
      /\ op'.hide = op.hide /\ op'.stable = op.stable
  BY <1>1, <1>2, <1>3 DEF Listings
<1>5. op.kind = "list"
  BY DEF ListLoaded
<1>6. ListInv'
  <2>1. HideCanonical(aliases)' = HideCanonical(aliases)
    BY <1>2
  <2> QED
    BY <1>1, <1>4, <1>5, <2>1 DEF ListInv, ns
<1> QED
  BY <1>4, <1>6 DEF OpInv

(* The third only adds. *)
LEMMA ListAutoStep ==
  ASSUME Inv, ListAuto PROVE OpInv'
<1> DEFINE more == IF AutoRoutingActive(auto) THEN {"auto"} ELSE {}
           ns == op.names \cup more
<1>1. op \in Listings /\ ListInv /\ op.kind = "list" /\ op.at = "loaded"
  BY ListingParts DEF ListAuto
<1>2. op' = [op EXCEPT !.at = "auto", !.names = ns] /\ aliases' = aliases
  BY DEF ListAuto
<1>3. ns \in SUBSET (Name \cup {"auto"}) /\ op.names \subseteq ns
  BY <1>1 DEF Listings
<1> HIDE DEF ns
<1>4. /\ op' \in Listings /\ op'.at = "auto" /\ op'.names = ns /\ op'.loaded = op.loaded
      /\ op'.hide = op.hide /\ op'.stable = op.stable
  BY <1>1, <1>2, <1>3 DEF Listings
<1>5. ListInv'
  <2>1. HideCanonical(aliases)' = HideCanonical(aliases)
    BY <1>2
  <2> QED
    BY <1>1, <1>3, <1>4, <2>1 DEF ListInv
<1> QED
  BY <1>4, <1>5 DEF OpInv

(* The fourth adds every alias, none being blank. *)
LEMMA ListAliasesStep ==
  ASSUME Inv, ListAliases PROVE OpInv'
<1> DEFINE more == IF ModelAliasesActive(aliases) THEN {a \in DOMAIN aliases : aliases[a] # ""} ELSE {}
           ns == op.names \cup more
<1>1. op \in Listings /\ ListInv /\ op.kind = "list" /\ op.at = "auto"
  BY ListingParts DEF ListAliases
<1>2. op' = [op EXCEPT !.at = "done", !.names = ns] /\ aliases' = aliases
  BY DEF ListAliases
<1>3. more = DOMAIN aliases /\ DOMAIN aliases \subseteq Name
  BY InvParts DEF SettingsInv, AliasesTyped, ModelAliasesActive
<1> HIDE DEF more
<1>4. ns \in SUBSET (Name \cup {"auto"}) /\ op.names \subseteq ns /\ DOMAIN aliases \subseteq ns
  BY <1>1, <1>3 DEF Listings
<1> HIDE DEF ns
<1>5. /\ op' \in Listings /\ op'.at = "done" /\ op'.names = ns /\ op'.loaded = op.loaded
      /\ op'.hide = op.hide /\ op'.stable = op.stable
  BY <1>1, <1>2, <1>4 DEF Listings
<1>6. ListInv'
  <2>1. HideCanonical(aliases)' = HideCanonical(aliases)
    BY <1>2
  <2>2. (DOMAIN aliases)' = DOMAIN aliases
    BY <1>2
  <2> QED
    BY <1>1, <1>4, <1>5, <2>1, <2>2 DEF ListInv
<1> QED
  BY <1>5, <1>6 DEF OpInv

(* Together: a listing's steps keep the invariant. *)
LEMMA ListStep ==
  ASSUME Inv, ListHide \/ ListLoaded \/ ListAuto \/ ListAliases \/ ListReply PROVE Inv'
<1>1. UNCHANGED <<auto, posted, aliases, loaded>>
  BY DEF ListHide, ListLoaded, ListAuto, ListAliases, ListReply
<1>2. SettingsInv'
  BY <1>1, InvParts, SettingsStay
<1>3. ListReply => OpInv'
  BY NoListingLeft DEF ListReply
<1>4. OpInv'
  BY <1>3, ListHideStep, ListLoadedStep, ListAutoStep, ListAliasesStep
<1> QED
  BY <1>2, <1>4, InvPartsNext

(* The invariant holds throughout. *)
LEMMA InvHolds == Spec => []Inv
<1>1. Init => Inv
  BY InvInit
<1>2. Inv /\ [Next]_vars => Inv'
  <2> SUFFICES ASSUME Inv, [Next]_vars PROVE Inv'
    OBVIOUS
  <2>1. CASE Next
    BY <2>1, PostStep, AliasStep, CacheStep, RequestStep, ListStep DEF Next
  <2>2. CASE UNCHANGED vars
    <3>1. SettingsInv'
      BY <2>2, InvParts, SettingsStay DEF vars
    <3>2. OpInv'
      BY <2>2, InvParts DEF OpInv, ListInv, vars
    <3> QED
      BY <3>1, <3>2, InvPartsNext
  <2> QED
    BY <2>1, <2>2
<1> QED
  BY <1>1, <1>2, PTL DEF Spec

-----------------------------------------------------------------------------
(* The theorems. *)

(* Type correctness: thresholds are never negative, the table only holds   *)
(* tiers the classifier knows, and every alias leads to a name.            *)
THEOREM TypeCorrect == Spec => []TypeOK
<1>1. Inv => TypeOK
  BY DEF Inv
<1> QED
  BY <1>1, InvHolds, PTL

(* GET /meta/auto-routing followed by POST of its answer changes nothing,  *)
(* once a configuration was posted (buildAutoRoutingConfig and             *)
(* toAutoRoutingConfigDTO).                                                *)
THEOREM GetThenPostIsIdentity == Spec => []PostedConfigRoundTrips
<1>1. Inv => PostedConfigRoundTrips
  BY RoundTrip DEF Inv, PostedInv, PostedConfigRoundTrips
<1> QED
  BY <1>1, InvHolds, PTL

(* Classify is monotone in the length of the prompt, for thresholds in any *)
(* order and in both ladders.                                              *)
THEOREM LongerNeverLower == Spec => []LongerPromptNeverSimpler
<1>1. Inv => LongerPromptNeverSimpler
  <2> SUFFICES ASSUME Inv PROVE LongerPromptNeverSimpler
    OBVIOUS
  <2>1. Readable(auto)
    BY DEF Inv, TypeOK, AutoTyped, Readable
  <2> QED
    BY <2>1, ClassifyMonotone DEF LongerPromptNeverSimpler
<1> QED
  BY <1>1, InvHolds, PTL

(* handleModelsList, undisturbed by a POST of aliases, offers a name for   *)
(* every loaded model the settings leave one for.                          *)
THEOREM ListIsComplete == Spec => []ListedNamesCoverLoaded
<1>1. Inv => ListedNamesCoverLoaded
  <2> SUFFICES ASSUME Inv, op.kind = "list", op.at = "done", op.stable,
                      NEW m \in op.loaded, ~NameTaken(m)
               PROVE  \E n \in op.names \ {"auto"} : ResolveAliasModel(aliases, n) = m
    BY DEF ListedNamesCoverLoaded
  <2>1. /\ op.hide = HideCanonical(aliases) /\ op.loaded \ op.hide \subseteq op.names
        /\ DOMAIN aliases \subseteq op.names
    BY ListingParts DEF ListInv
  <2>2. \A a \in DOMAIN aliases : aliases[a] # ""
    BY InvParts DEF SettingsInv, AliasesTyped
  <2>3. CASE Sources(m) \ {"auto"} # {}
    <3>1. PICK a \in DOMAIN aliases : a # "auto" /\ aliases[a] = m
      BY <2>3 DEF Sources
    <3>2. ResolveAliasModel(aliases, a) = m
      BY <3>1, <2>2 DEF ResolveAliasModel, ModelAliasesActive
    <3> QED
      BY <3>1, <3>2, <2>1
  <2>4. CASE Sources(m) \ {"auto"} = {}
    <3>1. m # "auto" /\ m \notin DOMAIN aliases /\ Sources(m) = {}
      BY <2>4 DEF NameTaken
    <3>2. m \notin HideCanonical(aliases)
      BY <3>1 DEF HideCanonical, Sources
    <3>3. m \in op.names
      BY <3>2, <2>1
    <3>4. ResolveAliasModel(aliases, m) = m
      BY <3>1 DEF ResolveAliasModel
    <3> QED
      BY <3>1, <3>3, <3>4
  <2> QED
    BY <2>3, <2>4
<1> QED
  BY <1>1, InvHolds, PTL

-----------------------------------------------------------------------------
(* The scorer: Scheduling. *)

LEMMA Quotient ==
  ASSUME NEW a \in Int, NEW b \in Int, b > 0
  PROVE  /\ a \div b \in Int /\ (a \div b) * b <= a
         /\ \A q \in Int : q * b <= a => q <= a \div b
OBVIOUS

LEMMA ScaledOrder ==
  ASSUME NEW s \in Int, s >= 0, NEW x \in Int, NEW y \in Int, x <= y
  PROVE  s * x \in Int /\ s * y \in Int /\ s * x <= s * y
OBVIOUS

LEMMA CancelFactor ==
  ASSUME NEW x \in Int, NEW y \in Int, NEW d \in Int, d > 0, x * d <= y * d
  PROVE  x <= y
OBVIOUS

LEMMA CrossOrder ==
  ASSUME NEW a \in Int, NEW b \in Int, b > 0, NEW c \in Int, NEW d \in Int, d > 0,
         c * b <= a * d, NEW p \in Int, p * d <= c * 20
  PROVE  p * b <= a * 20
<1>1. (p * d) * b <= (c * 20) * b
  BY ScaledOrder
<1>2. (c * 20) * b = (c * b) * 20 /\ (a * d) * 20 = (a * 20) * d
  OBVIOUS
<1>3. (p * b) * d = (p * d) * b
  OBVIOUS
<1>4. (p * b) * d <= (a * 20) * d
  BY <1>1, <1>2, <1>3
<1> QED
  BY <1>4, CancelFactor

(* A ratio is a whole number of units between 0 and Unit for a non-negative *)
(* numerator, and a larger fraction is not a smaller ratio.                 *)
LEMMA RatioBounds ==
  ASSUME NEW a \in Int, NEW b \in Int, b > 0
  PROVE  /\ Ratio(a, b) \in Int /\ Ratio(a, b) <= 20
         /\ a >= 0 => Ratio(a, b) >= 0
<1>1. a * 20 \in Int /\ (a * 20) \div b \in Int
  BY Quotient
<1>2. a >= 0 => (a * 20) \div b >= 0
  <2> SUFFICES ASSUME a >= 0 PROVE (a * 20) \div b >= 0
    OBVIOUS
  <2>1. 0 * b <= a * 20
    OBVIOUS
  <2> QED
    BY <1>1, <2>1, Quotient
<1> QED
  BY <1>1, <1>2 DEF Ratio, Lesser, Unit

LEMMA RatioOrder ==
  ASSUME NEW a \in Int, NEW b \in Int, b > 0, NEW c \in Int, NEW d \in Int, d > 0,
         c * b <= a * d
  PROVE  Ratio(c, d) <= Ratio(a, b)
<1> DEFINE p == (c * 20) \div d
           q == (a * 20) \div b
<1>1. p \in Int /\ p * d <= c * 20 /\ q \in Int
  BY Quotient
<1>2. p <= q
  BY <1>1, CrossOrder, Quotient
<1> QED
  BY <1>1, <1>2 DEF Ratio, Lesser, Unit

(* What the scorer computes with. *)
Viewed(w) ==
  /\ w.total \in Int /\ w.free \in Int /\ w.gpu \in Int /\ w.queue \in Int
  /\ w.inFlight \in Int /\ w.max \in Int /\ w.latency \in Int /\ w.tps \in Nat

WeightNames == {"quant", "vram", "gpu", "queue", "latency", "bonus", "cold", "tput", "depth"}
Weighting == {s \in [WeightNames -> Nat] : s.depth > 0}

LEMMA WeightTypes ==
  ASSUME NEW s \in Weighting
  PROVE  /\ s.quant \in Nat /\ s.vram \in Nat /\ s.gpu \in Nat /\ s.queue \in Nat
         /\ s.latency \in Nat /\ s.bonus \in Nat /\ s.cold \in Nat /\ s.tput \in Nat
         /\ s.depth \in Nat /\ s.depth > 0
BY DEF Weighting, WeightNames

LEMMA DefaultsAreWeights == DefaultWeights \in Weighting
BY DEF DefaultWeights, Weighting, WeightNames

(* A setting of zero or less keeps the old one. *)
LEMMA KeptIsWeights ==
  ASSUME NEW s \in Weighting, NEW new, \A k \in DOMAIN new : new[k] \in Int
  PROVE  Kept(s, new) \in Weighting
<1>1. DOMAIN s = WeightNames /\ s.depth > 0 /\ s \in [WeightNames -> Nat] /\ "depth" \in WeightNames
  BY DEF Weighting, WeightNames
<1>2. Kept(s, new) = [k \in WeightNames |-> IF k \in DOMAIN new /\ new[k] > 0 THEN new[k] ELSE s[k]]
  BY <1>1 DEF Kept
<1>3. Kept(s, new) \in [WeightNames -> Nat]
  BY <1>1, <1>2
<1>4. Kept(s, new)["depth"] > 0
  BY <1>1, <1>2
<1> QED
  BY <1>3, <1>4 DEF Weighting

LEMMA ViewIsNumeric ==
  ASSUME NEW w, Numeric(w)
  PROVE  Viewed(ToSchedulerWorker(w))
BY DEF Numeric, Viewed, ToSchedulerWorker

LEMMA CapabilityBounds ==
  ASSUME NEW q PROVE QuantCapability(q) \in 0 .. 5
BY DEF QuantCapability

(* How well the quantization matches is between 0 and Unit. *)
LEMMA MatchBounds ==
  ASSUME NEW asked, NEW actual
  PROVE  /\ QuantizationCompatibilityScore(asked, actual) \in Int
         /\ QuantizationCompatibilityScore(asked, actual) >= 0
         /\ QuantizationCompatibilityScore(asked, actual) <= 20
<1> DEFINE c == QuantCapability(actual)
           d == QuantCapability(asked)
           part == Lesser((4 * Unit) \div 5, (Unit * (c - d)) \div 5)
<1>1. c \in 0 .. 5 /\ d \in 0 .. 5
  BY CapabilityBounds
<1> HIDE DEF c, d
<1>2. c > d => part \in Int /\ part >= 0 /\ part <= 20
  BY <1>1 DEF Lesser, Unit
<1>3. \/ QuantizationCompatibilityScore(asked, actual) = Unit
      \/ QuantizationCompatibilityScore(asked, actual) = 0
      \/ c > d /\ QuantizationCompatibilityScore(asked, actual) = part
  BY Zenon DEF QuantizationCompatibilityScore, c, d
<1> HIDE DEF part
<1> QED
  BY <1>2, <1>3 DEF Unit

(* The components of a score. *)
LEMMA ComponentsTyped ==
  ASSUME NEW s \in Weighting, NEW w, Viewed(w)
  PROVE  /\ VRAMScore(w) \in Int /\ GPUScore(w) \in Int
         /\ QueueScore(s, w) \in Int /\ LatencyScore(w) \in Int
         /\ ColdLoadScore(w) \in Int /\ ColdLoadScore(w) >= 0
         /\ ThroughputScore(s, w) \in Int
<1> USE DEF Half, Unit
<1>1. VRAMScore(w) \in Int
  BY RatioBounds DEF Viewed, VRAMScore
<1>2. GPUScore(w) \in Int
  <2>1. 100 \in Int /\ 100 > 0 /\ w.gpu \in Int
    BY DEF Viewed
  <2>2. Ratio(w.gpu, 100) \in Int
    BY <2>1, RatioBounds
  <2> QED
    BY <2>2 DEF GPUScore, Clamp, Lesser
<1>3. QueueScore(s, w) \in Int
  <2>1. s.depth \in Int /\ s.depth > 0 /\ w.queue \in Int /\ w.inFlight \in Int /\ w.max \in Int
    BY WeightTypes DEF Viewed
  <2>2. Ratio(w.queue, s.depth) \in Int
    BY <2>1, RatioBounds
  <2>3. w.max > 0 => Ratio(w.inFlight, w.max) \in Int
    BY <2>1, RatioBounds
  <2> QED
    BY <2>2, <2>3 DEF QueueScore, InFlightKnown, Lesser
<1>4. LatencyScore(w) \in Int
  <2>1. 1000 \in Int /\ 1000 > 0 /\ w.latency \in Int
    BY DEF Viewed
  <2>2. Ratio(w.latency, 1000) \in Int
    BY <2>1, RatioBounds
  <2> QED
    BY <2>2 DEF LatencyScore
<1>5. ColdLoadScore(w) \in Int /\ ColdLoadScore(w) >= 0
  <2>1. InFlightKnown(w) => /\ Ratio(w.inFlight, w.max) \in Int
                            /\ Ratio(w.inFlight, w.max) >= 0
    BY RatioBounds DEF Viewed, InFlightKnown
  <2> QED
    BY <2>1 DEF ColdLoadScore
<1>6. ThroughputScore(s, w) \in Int
  <2>1. 100 \in Int /\ 100 > 0 /\ w.tps \in Int
    BY DEF Viewed
  <2>2. Ratio(w.tps, 100) \in Int
    BY <2>1, RatioBounds
  <2> QED
    BY <2>2 DEF ThroughputScore
<1> QED
  BY <1>1, <1>2, <1>3, <1>4, <1>5, <1>6

(* A worker that is no worse is no worse in each component: its free       *)
(* memory, queue, in-flight ratio, latency and throughput are compared as  *)
(* the fractions they are.                                                 *)
LEMMA ComponentsOrdered ==
  ASSUME NEW s \in Weighting, NEW a, NEW b, Viewed(a), Viewed(b), NoWorse(a, b)
  PROVE  /\ VRAMScore(b) <= VRAMScore(a)
         /\ GPUScore(b) = GPUScore(a)
         /\ QueueScore(s, b) <= QueueScore(s, a)
         /\ LatencyScore(b) <= LatencyScore(a)
         /\ ColdLoadScore(a) <= ColdLoadScore(b)
         /\ ThroughputScore(s, b) <= ThroughputScore(s, a)
<1>0. 100 \in Int /\ 100 > 0 /\ 1000 \in Int /\ 1000 > 0
  OBVIOUS
<1>t. /\ a.total \in Int /\ a.free \in Int /\ a.gpu \in Int /\ a.queue \in Int
      /\ a.inFlight \in Int /\ a.max \in Int /\ a.latency \in Int /\ a.tps \in Int /\ a.tps >= 0
      /\ b.total \in Int /\ b.free \in Int /\ b.gpu \in Int /\ b.queue \in Int
      /\ b.inFlight \in Int /\ b.max \in Int /\ b.latency \in Int /\ b.tps \in Int /\ b.tps >= 0
      /\ s.depth \in Int /\ s.depth > 0
  BY WeightTypes DEF Viewed
<1>n. /\ a.gpu = b.gpu
      /\ a.model = b.model \/ a.model = "loaded"
      /\ \/ a.total = 0 /\ b.total = 0
         \/ a.total > 0 /\ b.total > 0 /\ b.free * a.total <= a.free * b.total
      /\ a.queue = b.queue \/ (a.queue >= 0 /\ a.queue <= b.queue)
      /\ a.latency = b.latency \/ (a.latency >= 0 /\ a.latency <= b.latency)
      /\ b.tps <= a.tps
  BY <1>t DEF NoWorse
<1>f. \/ ~InFlightKnown(a) /\ ~InFlightKnown(b)
      \/ /\ InFlightKnown(a) /\ InFlightKnown(b)
         /\ a.max > 0 /\ b.max > 0 /\ a.inFlight * b.max <= b.inFlight * a.max
  BY DEF NoWorse, InFlightKnown
(* The same denominator. *)
<1>d. ASSUME NEW x \in Int, NEW y \in Int, x <= y, NEW d \in Int, d > 0
      PROVE  Ratio(x, d) <= Ratio(y, d)
  <2>1. x * d <= y * d
    BY <1>d, ScaledOrder
  <2> QED
    BY <1>d, <2>1, RatioOrder
<1>1. VRAMScore(b) <= VRAMScore(a)
  <2>1. CASE a.total = 0 /\ b.total = 0
    BY <2>1 DEF VRAMScore, Half
  <2>2. CASE a.total > 0 /\ b.total > 0 /\ b.free * a.total <= a.free * b.total
    <3>1. Ratio(b.free, b.total) <= Ratio(a.free, a.total)
      BY <1>t, <2>2, RatioOrder
    <3> QED
      BY <2>2, <3>1 DEF VRAMScore
  <2> QED
    BY <1>n, <2>1, <2>2
<1>2. GPUScore(b) = GPUScore(a)
  BY <1>n DEF GPUScore
<1>r. InFlightKnown(a) /\ InFlightKnown(b)
      => /\ Ratio(a.inFlight, a.max) \in Int /\ Ratio(b.inFlight, b.max) \in Int
         /\ Ratio(a.inFlight, a.max) <= Ratio(b.inFlight, b.max)
  BY <1>t, <1>f, RatioOrder, RatioBounds
<1>3. QueueScore(s, b) <= QueueScore(s, a)
  <2> DEFINE da == IF a.queue >= 0 THEN Unit - Ratio(a.queue, s.depth) ELSE Half
             db == IF b.queue >= 0 THEN Unit - Ratio(b.queue, s.depth) ELSE Half
  <2>1. Ratio(a.queue, s.depth) \in Int /\ Ratio(b.queue, s.depth) \in Int
    BY <1>t, RatioBounds
  <2>2. a.queue <= b.queue => Ratio(a.queue, s.depth) <= Ratio(b.queue, s.depth)
    BY <1>t, <1>d
  <2>3. da \in Int /\ db \in Int /\ db <= da
    BY <1>t, <1>n, <2>1, <2>2 DEF Unit, Half
  <2> HIDE DEF da, db
  <2>4. /\ QueueScore(s, a) = IF InFlightKnown(a)
             THEN Lesser(da, Unit - Ratio(a.inFlight, a.max)) ELSE da
        /\ QueueScore(s, b) = IF InFlightKnown(b)
             THEN Lesser(db, Unit - Ratio(b.inFlight, b.max)) ELSE db
    BY DEF QueueScore, da, db
  <2> QED
    BY <1>f, <1>r, <2>3, <2>4 DEF Lesser, Unit
<1>4. LatencyScore(b) <= LatencyScore(a)
  <2>0. \A x \in Int : Ratio(x, 1000) \in Int
    BY <1>0, RatioBounds
  <2>1. Ratio(a.latency, 1000) \in Int /\ Ratio(b.latency, 1000) \in Int
    BY <1>t, <2>0
  <2>2. a.latency <= b.latency => Ratio(a.latency, 1000) <= Ratio(b.latency, 1000)
    BY <1>0, <1>t, <1>d
  <2> QED
    BY <1>t, <1>n, <2>1, <2>2 DEF LatencyScore, Unit, Half
<1>5. ColdLoadScore(a) <= ColdLoadScore(b)
  <2>1. ColdLoadScore(a) \in Int /\ ColdLoadScore(b) \in Int
        /\ ColdLoadScore(b) >= 0
    BY ComponentsTyped
  <2>2. CASE a.model = "loaded"
    BY <2>1, <2>2 DEF ColdLoadScore
  <2>3. CASE a.model # "loaded"
    BY <2>3, <1>n, <1>f, <1>r DEF ColdLoadScore, Half
  <2> QED
    BY <2>2, <2>3
<1>6. ThroughputScore(s, b) <= ThroughputScore(s, a)
  <2>1. Ratio(b.tps, 100) <= Ratio(a.tps, 100)
    BY <1>0, <1>t, <1>n, <1>d
  <2> QED
    BY <1>t, <2>1 DEF ThroughputScore
<1> QED
  BY <1>1, <1>2, <1>3, <1>4, <1>5, <1>6

(* The sum. *)
LEMMA SumOrdered ==
  ASSUME NEW q \in Int, NEW g \in Int,
         NEW v1 \in Int, NEW v2 \in Int, v2 <= v1, NEW d1 \in Int, NEW d2 \in Int, d2 <= d1,
         NEW l1 \in Int, NEW l2 \in Int, l2 <= l1, NEW o1 \in Int, NEW o2 \in Int, o2 <= o1,
         NEW c1 \in Int, NEW c2 \in Int, c1 <= c2, NEW t1 \in Int, NEW t2 \in Int, t2 <= t1
  PROVE  q + v2 + g + d2 + l2 + o2 - c2 + t2 <= q + v1 + g + d1 + l1 + o1 - c1 + t1
OBVIOUS

LEMMA ClampOrdered ==
  ASSUME NEW x \in Int, NEW y \in Int, x <= y
  PROVE  Clamp(x, 100 * Unit) <= Clamp(y, 100 * Unit)
BY DEF Clamp, Lesser, Unit

(* The weighted components of one worker. *)
LEMMA TermsTyped ==
  ASSUME NEW s \in Weighting, NEW r, NEW w, Viewed(w)
  PROVE  /\ s.quant * QuantizationCompatibilityScore(r.quant, w.quant) \in Int
         /\ s.vram * VRAMScore(w) \in Int /\ s.gpu * GPUScore(w) \in Int
         /\ s.queue * QueueScore(s, w) \in Int /\ s.latency * LatencyScore(w) \in Int
         /\ (IF w.model = "loaded" THEN s.bonus * Unit ELSE 0) \in Int
         /\ s.cold * ColdLoadScore(w) \in Int /\ s.tput * ThroughputScore(s, w) \in Int
<1>1. QuantizationCompatibilityScore(r.quant, w.quant) \in Int
  BY MatchBounds
<1> QED
  BY <1>1, WeightTypes, ComponentsTyped DEF Unit

(* A score is between 0 and 100 per cent, for every worker and request. *)
LEMMA ScoreBounds ==
  ASSUME NEW s \in Weighting, NEW r, NEW w, Viewed(w)
  PROVE  Score(s, r, w) \in Int /\ Score(s, r, w) >= 0 /\ Score(s, r, w) <= 2000
<1> DEFINE x == s.quant * QuantizationCompatibilityScore(r.quant, w.quant)
          + s.vram * VRAMScore(w)
          + s.gpu * GPUScore(w) + s.queue * QueueScore(s, w) + s.latency * LatencyScore(w)
          + (IF w.model = "loaded" THEN s.bonus * Unit ELSE 0) - s.cold * ColdLoadScore(w)
          + s.tput * ThroughputScore(s, w)
<1>1. x \in Int
  BY TermsTyped
<1>2. Score(s, r, w) = Clamp(x, 100 * Unit)
  BY DEF Score
<1> HIDE DEF x
<1>3. LET y == Clamp(x, 100 * Unit) IN y \in Int /\ y >= 0 /\ y <= 2000
  BY <1>1 DEF Clamp, Lesser, Unit
<1> QED
  BY <1>2, <1>3

(* A worker that is no worse in anything the scorer looks at never scores  *)
(* less, whatever the weights.                                             *)
LEMMA ScoreOrdered ==
  ASSUME NEW s \in Weighting, NEW r, NEW a, NEW b, Viewed(a), Viewed(b), NoWorse(a, b)
  PROVE  Score(s, r, b) <= Score(s, r, a)
<1> DEFINE Quant(w) == s.quant * QuantizationCompatibilityScore(r.quant, w.quant)
           VRAM(w) == s.vram * VRAMScore(w)
           GPU(w) == s.gpu * GPUScore(w)
           Queue(w) == s.queue * QueueScore(s, w)
           Latency(w) == s.latency * LatencyScore(w)
           Bonus(w) == IF w.model = "loaded" THEN s.bonus * Unit ELSE 0
           Cold(w) == s.cold * ColdLoadScore(w)
           Tput(w) == s.tput * ThroughputScore(s, w)
           Sum(w) == Quant(w) + VRAM(w) + GPU(w) + Queue(w) + Latency(w) + Bonus(w) - Cold(w) + Tput(w)
<1>s. /\ s.quant \in Int /\ s.vram \in Int /\ s.gpu \in Int /\ s.queue \in Int
      /\ s.latency \in Int /\ s.bonus \in Int /\ s.cold \in Int /\ s.tput \in Int
      /\ s.vram >= 0 /\ s.queue >= 0 /\ s.latency >= 0 /\ s.bonus >= 0 /\ s.cold >= 0 /\ s.tput >= 0
  BY WeightTypes
<1>c. /\ VRAMScore(a) \in Int /\ QueueScore(s, a) \in Int /\ LatencyScore(a) \in Int
      /\ ColdLoadScore(a) \in Int /\ ThroughputScore(s, a) \in Int
      /\ VRAMScore(b) \in Int /\ QueueScore(s, b) \in Int /\ LatencyScore(b) \in Int
      /\ ColdLoadScore(b) \in Int /\ ThroughputScore(s, b) \in Int
  BY ComponentsTyped
<1>o. /\ VRAMScore(b) <= VRAMScore(a)
      /\ GPUScore(b) = GPUScore(a)
      /\ QueueScore(s, b) <= QueueScore(s, a)
      /\ LatencyScore(b) <= LatencyScore(a)
      /\ ColdLoadScore(a) <= ColdLoadScore(b)
      /\ ThroughputScore(s, b) <= ThroughputScore(s, a)
  BY ComponentsOrdered
<1>1. Quant(a) \in Int /\ Quant(b) = Quant(a)
  BY TermsTyped DEF NoWorse
<1>2. GPU(a) \in Int /\ GPU(b) = GPU(a)
  BY <1>o, TermsTyped
<1>3. VRAM(b) \in Int /\ VRAM(a) \in Int /\ VRAM(b) <= VRAM(a)
  BY <1>s, <1>c, <1>o, ScaledOrder
<1>4. Queue(b) \in Int /\ Queue(a) \in Int /\ Queue(b) <= Queue(a)
  BY <1>s, <1>c, <1>o, ScaledOrder
<1>5. Latency(b) \in Int /\ Latency(a) \in Int /\ Latency(b) <= Latency(a)
  BY <1>s, <1>c, <1>o, ScaledOrder
<1>6. Cold(b) \in Int /\ Cold(a) \in Int /\ Cold(a) <= Cold(b)
  BY <1>s, <1>c, <1>o, ScaledOrder
<1>7. Tput(b) \in Int /\ Tput(a) \in Int /\ Tput(b) <= Tput(a)
  BY <1>s, <1>c, <1>o, ScaledOrder
<1>8. Bonus(b) \in Int /\ Bonus(a) \in Int /\ Bonus(b) <= Bonus(a)
  BY <1>s DEF NoWorse, Unit
<1>9. Score(s, r, a) = Clamp(Sum(a), 100 * Unit)
      /\ Score(s, r, b) = Clamp(Sum(b), 100 * Unit)
  BY DEF Score
<1> HIDE DEF Quant, VRAM, GPU, Queue, Latency, Bonus, Cold, Tput
<1>10. Sum(a) \in Int /\ Sum(b) \in Int /\ Sum(b) <= Sum(a)
  BY <1>1, <1>2, <1>3, <1>4, <1>5, <1>6, <1>7, <1>8, SumOrdered
<1> HIDE DEF Sum
<1> QED
  BY <1>9, <1>10, ClampOrdered

-----------------------------------------------------------------------------
(* The loop of SelectWorker. *)

Views == {ToSchedulerWorker(w) : w \in Worker}
Picks == [req : Request \cup {NoPick.req}, cands : Seq(Views), by : Weighting,
          at : Nat, chosen : Nat]

Able(p, i) == Willing(p.cands[i]) /\ Scorable(p.by, p.req, p.cands[i])
Points(p, i) == Score(p.by, p.req, p.cands[i])
Beats(p, i, j) == Points(p, i) > Points(p, j) \/ (Points(p, i) = Points(p, j) /\ i < j)

(* After some rounds the loop holds the best of the candidates it passed,  *)
(* the first of them on a tie, and none only if it passed none that can    *)
(* serve the request.                                                      *)
BestUpTo(p) ==
  /\ p.at <= Len(p.cands)
  /\ p.chosen <= p.at
  /\ p.chosen = 0 => \A j \in 1 .. p.at : ~Able(p, j)
  /\ p.chosen # 0 => /\ Able(p, p.chosen)
                     /\ \A j \in 1 .. p.at : Able(p, j) /\ j # p.chosen => Beats(p, p.chosen, j)

SchedInv == weights \in Weighting /\ scorer \in Weighting /\ pick \in Picks /\ BestUpTo(pick)

LEMMA CandidatesTyped ==
  ASSUME NEW p \in Picks
  PROVE  /\ Len(p.cands) \in Nat /\ p.cands \in [1 .. Len(p.cands) -> Views]
         /\ p.at \in Nat /\ p.chosen \in Nat /\ p.by \in Weighting
<1>1. p.cands \in Seq(Views)
  BY DEF Picks
<1> QED
  BY <1>1, LenProperties DEF Picks

LEMMA PointsTyped ==
  ASSUME Inputs, NEW p \in Picks, NEW i \in 1 .. Len(p.cands)
  PROVE  Viewed(p.cands[i]) /\ Points(p, i) \in Int
<1>1. p.cands[i] \in Views /\ p.by \in Weighting
  BY CandidatesTyped
<1>2. PICK known \in Worker : p.cands[i] = ToSchedulerWorker(known)
  BY <1>1 DEF Views
<1>3. Viewed(p.cands[i])
  BY <1>2, ViewIsNumeric DEF Inputs
<1> DEFINE w == p.cands[i]
           s == p.by
<1>4. s \in Weighting /\ Viewed(w)
  BY <1>1, <1>3
<1> HIDE DEF w, s
<1>5. Score(s, p.req, w) \in Int
  BY <1>4, ScoreBounds
<1> QED
  BY <1>3, <1>5 DEF Points, w, s

(* The round's condition is that the candidate qualifies and beats the     *)
(* best so far: FilterUnavailable and Score test the heartbeat alike.      *)
LEMMA RoundChooses ==
  ASSUME NEW p \in Picks, NEW i \in 1 .. Len(p.cands), NEW b
  PROVE  LET avail == FilterByAllowedModels(p.cands, Available(p.cands)) IN
         BestSoFar(p.by, p.req, p.cands, avail, b, i)
           = IF Able(p, i) /\ (b = 0 \/ Points(p, i) > Points(p, b)) THEN i ELSE b
<1> DEFINE avail == FilterByAllowedModels(p.cands, Available(p.cands))
<1>1. i \in avail /\ Scorable(p.by, p.req, p.cands[i]) <=> Able(p, i)
  BY DEF FilterByAllowedModels, Available, Scorable, Able
<1> HIDE DEF avail
<1>2. BestSoFar(p.by, p.req, p.cands, avail, b, i)
        = IF Able(p, i) /\ (b = 0 \/ Points(p, i) > Points(p, b)) THEN i ELSE b
  BY <1>1, Zenon DEF BestSoFar, Points
<1> QED
  BY <1>2 DEF avail

(* What the next round does to a record of the loop. *)
LEMMA RoundMoves ==
  ASSUME NEW p \in Picks, NEW b \in Nat
  PROVE  LET q == [p EXCEPT !.at = p.at + 1, !.chosen = b] IN
         /\ q \in Picks /\ q.at = p.at + 1 /\ q.chosen = b
         /\ q.cands = p.cands /\ q.by = p.by /\ q.req = p.req
<1> DEFINE n == p.at + 1
<1>1. n \in Nat
  BY DEF Picks
<1> HIDE DEF n
<1>2. LET q == [p EXCEPT !.at = n, !.chosen = b] IN
      /\ q \in Picks /\ q.at = n /\ q.chosen = b
      /\ q.cands = p.cands /\ q.by = p.by /\ q.req = p.req
  BY <1>1 DEF Picks
<1> QED
  BY <1>2 DEF n

LEMMA RoundKeeps ==
  ASSUME Inputs, NEW p \in Picks, BestUpTo(p), p.at < Len(p.cands), NEW q \in Picks,
         q.at = p.at + 1, q.cands = p.cands, q.by = p.by, q.req = p.req,
         q.chosen = IF Able(p, p.at + 1) /\ (p.chosen = 0 \/ Points(p, p.at + 1) > Points(p, p.chosen))
                    THEN p.at + 1 ELSE p.chosen
  PROVE  BestUpTo(q)
<1> DEFINE n == p.at + 1
<1>0. p.at \in Nat /\ p.chosen \in Nat /\ Len(p.cands) \in Nat /\ n \in 1 .. Len(p.cands)
      /\ p.chosen <= p.at
  BY CandidatesTyped DEF BestUpTo
<1>1. \A i : (Able(q, i) <=> Able(p, i)) /\ Points(q, i) = Points(p, i)
  BY DEF Able, Points
<1>2. \A i \in 1 .. n : Points(p, i) \in Int
  BY <1>0, PointsTyped
<1>3. q.at = n /\ n <= Len(q.cands) /\ q.chosen \in Nat /\ q.chosen <= n
  BY <1>0
<1>4. p.chosen = 0 => \A j \in 1 .. p.at : ~Able(p, j)
  BY DEF BestUpTo
<1>5. p.chosen # 0 => /\ p.chosen \in 1 .. p.at /\ Able(p, p.chosen)
                      /\ \A j \in 1 .. p.at : Able(p, j) /\ j # p.chosen => Beats(p, p.chosen, j)
  BY <1>0 DEF BestUpTo
<1>6. \A j \in 1 .. n : j \in 1 .. p.at \/ j = n
  BY <1>0
<1>7. q.chosen = 0 => \A j \in 1 .. n : ~Able(p, j)
  BY <1>0, <1>4, <1>6
<1>8. q.chosen # 0 => /\ Able(p, q.chosen)
                      /\ \A j \in 1 .. n : Able(p, j) /\ j # q.chosen => Beats(p, q.chosen, j)
  <2>1. CASE Able(p, n) /\ p.chosen = 0
    BY <2>1, <1>4, <1>6
  <2>2. CASE Able(p, n) /\ p.chosen # 0 /\ Points(p, n) > Points(p, p.chosen)
    <3>1. q.chosen = n
      BY <2>2
    <3>2. ASSUME NEW j \in 1 .. p.at, Able(p, j) PROVE Points(p, n) > Points(p, j)
      <4>1. Points(p, p.chosen) >= Points(p, j)
        BY <2>2, <3>2, <1>0, <1>2, <1>5 DEF Beats
      <4>2. Points(p, p.chosen) \in Int /\ Points(p, j) \in Int /\ Points(p, n) \in Int
        BY <2>2, <1>0, <1>2, <1>5
      <4> QED
        BY <4>1, <4>2, <2>2
    <3> QED
      BY <2>2, <3>1, <3>2, <1>6 DEF Beats
  <2>3. CASE p.chosen # 0 /\ q.chosen = p.chosen
    <3>1. Able(p, n) => ~(Points(p, n) > Points(p, p.chosen))
      BY <2>3, <1>0
    <3>2. Able(p, n) => Beats(p, p.chosen, n)
      <4>1. Points(p, p.chosen) \in Int /\ Points(p, n) \in Int /\ p.chosen < n
        BY <2>3, <1>0, <1>2, <1>5
      <4> QED
        BY <3>1, <4>1 DEF Beats
    <3> QED
      BY <2>3, <3>2, <1>5, <1>6
  <2> QED
    BY <2>1, <2>2, <2>3
<1>9. \A i, j : Beats(q, i, j) <=> Beats(p, i, j)
  BY <1>1 DEF Beats
<1> QED
  BY <1>1, <1>3, <1>7, <1>8, <1>9 DEF BestUpTo

LEMMA IdleKept == NoPick \in Picks /\ BestUpTo(NoPick)
<1> DEFINE none == <<>>
<1>1. none \in Seq(Views) /\ Len(none) = 0
  OBVIOUS
<1> HIDE DEF none
<1> DEFINE ask == NoPick.req
           idle == [req |-> ask, cands |-> none, by |-> DefaultWeights, at |-> 0, chosen |-> 0]
<1>2. NoPick = idle
  BY Zenon DEF NoPick, none
<1>5. ask \in Request \cup {NoPick.req}
  OBVIOUS
<1> HIDE DEF ask
<1>3. NoPick \in Picks
  BY <1>1, <1>2, <1>5, DefaultsAreWeights DEF Picks
<1>4. NoPick.at = 0 /\ NoPick.chosen = 0 /\ NoPick.cands = none
  BY <1>2
<1> QED
  BY <1>1, <1>3, <1>4 DEF BestUpTo

LEMMA SchedInit == SchedulingInit => SchedInv
<1> SUFFICES ASSUME SchedulingInit PROVE SchedInv
  OBVIOUS
<1>1. weights = DefaultWeights /\ scorer = DefaultWeights /\ pick = NoPick
  BY DEF SchedulingInit
<1> QED
  BY <1>1, IdleKept, DefaultsAreWeights DEF SchedInv

LEMMA SchedNext ==
  ASSUME Inputs, SchedInv, [SchedulingNext]_schedulingVars
  PROVE  SchedInv'
<1>1. CASE SetScorerWeights
  <2>1. PICK new \in Weights : weights' = Kept(weights, new) /\ scorer' = Kept(weights, new)
    BY <1>1 DEF SetScorerWeights
  <2>2. Kept(weights, new) \in Weighting
    BY KeptIsWeights DEF SchedInv, Inputs
  <2>3. pick' = pick
    BY <1>1 DEF SetScorerWeights
  <2> QED
    BY <2>1, <2>2, <2>3 DEF SchedInv
<1>2. CASE ScoreCandidates
  <2>1. PICK n \in 0 .. MaxCands, r \in Request : \E ws \in [1 .. n -> Worker] :
          pick' = [req |-> r, cands |-> [i \in 1 .. n |-> ToSchedulerWorker(ws[i])],
                   by |-> scorer, at |-> 0, chosen |-> 0]
    BY <1>2 DEF ScoreCandidates
  <2>2. PICK ws \in [1 .. n -> Worker] :
          pick' = [req |-> r, cands |-> [i \in 1 .. n |-> ToSchedulerWorker(ws[i])],
                   by |-> scorer, at |-> 0, chosen |-> 0]
    BY <2>1
  <2> DEFINE cs == [i \in 1 .. n |-> ToSchedulerWorker(ws[i])]
  <2>3. cs \in Seq(Views)
    <3>1. n \in Nat
      BY DEF Inputs
    <3>2. cs \in [1 .. n -> Views]
      BY DEF Views
    <3> QED
      BY <3>1, <3>2, SeqDef
  <2>4. pick' = [req |-> r, cands |-> cs, by |-> scorer, at |-> 0, chosen |-> 0]
    BY <2>2
  <2> HIDE DEF cs
  <2>5. pick' \in Picks
    BY <2>3, <2>4 DEF Picks, SchedInv
  <2>6. pick'.at = 0 /\ pick'.chosen = 0
    BY <2>4
  <2>7. Len(pick'.cands) \in Nat
    BY <2>5, CandidatesTyped
  <2>8. BestUpTo(pick')
    BY <2>6, <2>7 DEF BestUpTo
  <2>9. weights' = weights /\ scorer' = scorer
    BY <1>2 DEF ScoreCandidates
  <2> QED
    BY <2>5, <2>8, <2>9 DEF SchedInv
<1>3. CASE SelectWorker
  <2> DEFINE avail == FilterByAllowedModels(pick.cands, Available(pick.cands))
             b == BestSoFar(pick.by, pick.req, pick.cands, avail, pick.chosen, pick.at + 1)
  <2>1. pick.at < Len(pick.cands) /\ pick' = [pick EXCEPT !.at = pick.at + 1, !.chosen = b]
        /\ weights' = weights /\ scorer' = scorer
    BY <1>3 DEF SelectWorker
  <2>2. pick \in Picks /\ BestUpTo(pick)
    BY DEF SchedInv
  <2>3. pick.at \in Nat /\ pick.chosen \in Nat /\ pick.at + 1 \in 1 .. Len(pick.cands)
    BY <2>1, <2>2, CandidatesTyped
  <2>4. b = IF Able(pick, pick.at + 1) /\ (pick.chosen = 0 \/ Points(pick, pick.at + 1) > Points(pick, pick.chosen))
            THEN pick.at + 1 ELSE pick.chosen
    BY <2>2, <2>3, RoundChooses
  <2> HIDE DEF avail, b
  <2>5. b \in Nat
    BY <2>3, <2>4
  <2>6. pick' \in Picks /\ pick'.at = pick.at + 1 /\ pick'.chosen = b
        /\ pick'.cands = pick.cands /\ pick'.by = pick.by /\ pick'.req = pick.req
    BY <2>1, <2>2, <2>5, RoundMoves
  <2>7. BestUpTo(pick')
    BY <2>1, <2>2, <2>4, <2>6, RoundKeeps
  <2> QED
    BY <2>1, <2>6, <2>7 DEF SchedInv
<1>4. CASE DispatchSelected
  <2>1. pick' = NoPick /\ weights' = weights /\ scorer' = scorer
    BY <1>4 DEF DispatchSelected
  <2> QED
    BY <2>1, IdleKept DEF SchedInv
<1>5. CASE UNCHANGED schedulingVars
  BY <1>5 DEF schedulingVars, SchedInv
<1> QED
  BY <1>1, <1>2, <1>3, <1>4, <1>5 DEF SchedulingNext

LEMMA SchedHolds == SchedulingSpec => []SchedInv
<1> USE SchedulingAssumption
<1>1. SchedulingInit => SchedInv
  BY SchedInit
<1>2. SchedInv /\ [SchedulingNext]_schedulingVars => SchedInv'
  BY SchedNext
<1> QED
  BY <1>1, <1>2, PTL DEF SchedulingSpec

(* The worker SelectWorker returns is the best of those that are fresh,    *)
(* willing and able, the lowest ID on a tie, and none is returned only if  *)
(* none qualifies: for any number of candidates and all weights, requests  *)
(* and workers, while the scorer may be replaced during the loop.          *)
THEOREM SelectionIsBest == SchedulingSpec => []SelectedIsBest
<1>1. SchedInv => SelectedIsBest
  <2> SUFFICES ASSUME SchedInv, pick.at = Len(pick.cands)
               PROVE  LET able == {i \in 1 .. Len(pick.cands) : Eligible(i)} IN
                      IF able = {} THEN pick.chosen = 0
                      ELSE /\ pick.chosen \in able
                           /\ \A j \in able \ {pick.chosen} :
                                \/ ScoreOf(pick.chosen) > ScoreOf(j)
                                \/ ScoreOf(pick.chosen) = ScoreOf(j) /\ pick.chosen < j
    BY DEF SelectedIsBest
  <2>1. pick \in Picks /\ BestUpTo(pick)
    BY DEF SchedInv
  <2>2. Len(pick.cands) \in Nat /\ pick.chosen \in Nat /\ pick.chosen <= Len(pick.cands)
    BY <2>1, CandidatesTyped DEF BestUpTo
  <2>3. \A i : (Eligible(i) <=> Able(pick, i)) /\ ScoreOf(i) = Points(pick, i)
    BY DEF Eligible, ScoreOf, Able, Points
  <2>4. pick.chosen = 0 => \A j \in 1 .. Len(pick.cands) : ~Eligible(j)
    BY <2>1, <2>3 DEF BestUpTo
  <2>5. pick.chosen # 0 =>
          /\ pick.chosen \in 1 .. Len(pick.cands) /\ Eligible(pick.chosen)
          /\ \A j \in 1 .. Len(pick.cands) : Eligible(j) /\ j # pick.chosen =>
               \/ ScoreOf(pick.chosen) > ScoreOf(j)
               \/ ScoreOf(pick.chosen) = ScoreOf(j) /\ pick.chosen < j
    BY <2>1, <2>2, <2>3 DEF BestUpTo, Beats
  <2> QED
    BY <2>4, <2>5
<1> QED
  BY <1>1, SchedHolds, PTL

(* A worker that is no worse than another in free memory, queue, in-flight *)
(* ratio, latency, throughput and load state never scores less, whatever   *)
(* the weights: folding the in-flight ratio into the queue component and   *)
(* into the cold-load penalty, the bonus and the clamping keep the order.  *)
THEOREM ScoringIsMonotone == SchedulingSpec => []BetterNeverScoresLess
<1>1. SchedInv => BetterNeverScoresLess
  <2> SUFFICES ASSUME SchedInv, NEW i \in 1 .. Len(pick.cands), NEW j \in 1 .. Len(pick.cands),
                      NoWorse(pick.cands[i], pick.cands[j])
               PROVE  ScoreOf(i) >= ScoreOf(j)
    BY DEF BetterNeverScoresLess
  <2>1. pick \in Picks /\ pick.by \in Weighting
    BY CandidatesTyped DEF SchedInv
  <2>2. Viewed(pick.cands[i]) /\ Viewed(pick.cands[j]) /\ Points(pick, i) \in Int /\ Points(pick, j) \in Int
    BY <2>1, PointsTyped, SchedulingAssumption
  <2>3. Points(pick, j) <= Points(pick, i)
    BY <2>1, <2>2, ScoreOrdered DEF Points
  <2> QED
    BY <2>2, <2>3 DEF Points, ScoreOf
<1> QED
  BY <1>1, SchedHolds, PTL

=============================================================================
