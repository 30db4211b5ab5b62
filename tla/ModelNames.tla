----------------------------- MODULE ModelNames -----------------------------
(***************************************************************************)
(* The names a client may ask for: the "auto" alias with its classifier    *)
(* (pkg/router/classifier.go), its settings and their wire form            *)
(* (routing_config.go), the user-defined aliases (aliases.go), the list of *)
(* models (handlers_meta.go) and the head of handleInference that turns    *)
(* the name asked for into the one that is dispatched.                     *)
(*                                                                         *)
(* Names are atoms and already trimmed; a blank one is "".  A prompt is    *)
(* its length in tokens and the signals the regular expressions find.      *)
(* Requests and listings only read, each configuration under its own lock, *)
(* so one of them at a time, against any writer, shows every interleaving. *)
(***************************************************************************)
EXTENDS Integers, FiniteSets

CONSTANTS
  Name,        \* model names and aliases, "auto" among them
  Prompt,      \* [tokens, long, cues, phrases, depth, keyword]
  AutoFlags,   \* --auto-* flags: [models, simple, medium, four, keywords]
  AutoPosts,   \* bodies of POST /meta/auto-routing: [enabled, models, simple, medium, four]
  AliasPosts   \* alias maps: partial functions from Name to Name or ""

VARIABLES
  auto,        \* s.autoRouting
  posted,      \* whether it came from POST rather than the command line
  aliases,     \* s.modelAliases
  loaded,      \* names of the models some cached worker has loaded
  op           \* the request or the listing under way

vars == <<auto, posted, aliases, loaded, op>>

(* The cues the regular expressions look for in a prompt. *)
Cue == {"code", "math", "list", "nested", "fewshot", "role"}

(* The Go types of what arrives from outside. *)
ASSUME PromptAssumption ==
  Prompt \subseteq [tokens : Nat, long : BOOLEAN, cues : SUBSET Cue,
                    phrases : {-1, 0, 1}, depth : {-1, 0, 1}, keyword : BOOLEAN]

ASSUME PostAssumption ==
  \A d \in AutoPosts : d.simple \in Int /\ d.medium \in Int /\ d.four \in BOOLEAN

ASSUME FlagAssumption ==
  \A f \in AutoFlags :
    /\ f.simple \in Int /\ f.medium \in Int /\ f.four \in BOOLEAN /\ f.keywords \in BOOLEAN
    /\ \A n \in DOMAIN f.models : f.models[n] \in Name \cup {""}

ASSUME AliasAssumption ==
  \A raw \in AliasPosts : DOMAIN raw \subseteq Name /\ \A a \in DOMAIN raw : raw[a] \in Name \cup {""}

NoModels == [t \in {} |-> ""]
NoAuto == [models |-> NoModels, simple |-> 0, medium |-> 0, four |-> FALSE, keywords |-> FALSE]
NoOp == [kind |-> "none"]

OrDefault(n, default) == IF n <= 0 THEN default ELSE n
MinOf(a, b) == IF a < b THEN a ELSE b

-----------------------------------------------------------------------------
(* Tiers: 0 simple, 1 medium, 2 hard, 3 hardest or complex, -1 no tier. *)

(* Mutant: only the old name of the top tier is understood. *)
StringToTierOldNames(name) ==
  CASE name = "simple" -> 0 [] name = "medium" -> 1 [] name = "hard" -> 2
    [] name = "complex" -> 3 [] OTHER -> -1

StringToTier(name) ==
  CASE name = "simple" -> 0 [] name = "medium" -> 1 [] name = "hard" -> 2
    [] name \in {"hardest", "complex"} -> 3 [] OTHER -> -1

TierToString(tier) == CASE tier = 0 -> "simple" [] tier = 1 -> "medium" [] tier = 2 -> "hard" [] tier = 3 -> "hardest"

AutoRoutingActive(c) == \E t \in DOMAIN c.models : c.models[t] # ""

TokenCap == 1000000

(* The thresholds a POST leads to. *)
Thresholds(d) ==
  LET simple == MinOf(OrDefault(d.simple, 200), TokenCap)
      medium == MinOf(OrDefault(d.medium, 600), TokenCap)
  IN [simple |-> simple, medium |-> IF medium <= simple THEN simple + 1 ELSE medium]

(* The configurations a body may become: when it names both "hardest" and  *)
(* "complex" the order in which Go walks the map decides.                  *)
BuildAutoRoutingConfig(d) ==
  LET named == {n \in DOMAIN d.models : StringToTier(n) >= 0 /\ d.models[n] # ""}
      tiers == {StringToTier(n) : n \in named}
      Choices == {f \in [tiers -> Name] :
                    \A t \in tiers : \E n \in named : StringToTier(n) = t /\ d.models[n] = f[t]}
  IN IF ~d.enabled \/ named = {} THEN {NoAuto}
     ELSE {[models |-> f, simple |-> Thresholds(d).simple, medium |-> Thresholds(d).medium,
            four |-> d.four, keywords |-> FALSE] : f \in Choices}

(* What GET answers. *)
ToAutoRoutingConfigDTO(c) ==
  IF c = NoAuto THEN [enabled |-> FALSE, models |-> NoModels, simple |-> 0, medium |-> 0, four |-> FALSE]
  ELSE [enabled |-> TRUE,
        models |-> [n \in {TierToString(t) : t \in DOMAIN c.models} |->
                      c.models[CHOOSE t \in DOMAIN c.models : TierToString(t) = n]],
        simple |-> OrDefault(c.simple, 200), medium |-> OrDefault(c.medium, 600), four |-> c.four]

(* The command line's configuration: the three classic tiers are always    *)
(* there, blank or not, and the thresholds are neither capped nor ordered. *)
FlagsToConfig(f) ==
  LET Of(n) == IF n \in DOMAIN f.models THEN f.models[n] ELSE ""
      tiers == {0, 1, 3} \cup (IF Of("hard") = "" THEN {} ELSE {2})
  IN IF \A n \in DOMAIN f.models : f.models[n] = "" THEN NoAuto
     ELSE [models |-> [t \in tiers |-> IF t = 3 /\ Of("hardest") = "" THEN Of("complex")
                                       ELSE Of(TierToString(t))],
           simple |-> OrDefault(f.simple, 200), medium |-> OrDefault(f.medium, 600),
           four |-> f.four, keywords |-> f.keywords]

-----------------------------------------------------------------------------
(* The classifier. *)

ClassifyByTokens(c, tokens) ==
  IF tokens < OrDefault(c.simple, 200) THEN 0
  ELSE IF tokens < OrDefault(c.medium, 600) THEN 1 ELSE 3

(* Structural and context cues: code, math, lists, nesting, few-shot, role. *)
Cues(p) == Cardinality(p.cues)

(* Reasoning against simple phrases.  The lists are the default ones, and   *)
(* empty when the legacy keywords are set.                                  *)
PhraseBalance(c, p) == IF c.keywords THEN 0 ELSE p.phrases

ComputeSemanticAdjustment(c, p) == Cues(p) + PhraseBalance(c, p) + p.depth

(* The legacy keywords raise the tier by one more. *)
Adjustment(c, p) ==
  ComputeSemanticAdjustment(c, p) + (IF c.keywords /\ p.keyword THEN 1 ELSE 0)

(* A large max_tokens counts as a longer prompt. *)
EstimatedTokens(p) == p.tokens + (IF p.long THEN 200 ELSE 0)

Ladder(c) == IF c.four THEN <<0, 1, 2, 3>> ELSE <<0, 1, 3>>
Top(c) == IF c.four THEN 4 ELSE 3

BaseIndex(c, tokens) == CHOOSE i \in 1 .. Top(c) : Ladder(c)[i] = ClassifyByTokens(c, tokens)

(* Mutant: an index past the ladder starts again at the bottom. *)
ClassifyWraps(c, p) ==
  LET idx == BaseIndex(c, EstimatedTokens(p)) + Adjustment(c, p)
  IN Ladder(c)[IF idx < 1 THEN 1 ELSE ((idx - 1) % Top(c)) + 1]

Classify(c, p) ==
  LET idx == BaseIndex(c, EstimatedTokens(p)) + Adjustment(c, p)
  IN Ladder(c)[IF idx < 1 THEN 1 ELSE MinOf(idx, Top(c))]

ResolveModel(c, tier) == IF tier \in DOMAIN c.models THEN c.models[tier] ELSE ""

-----------------------------------------------------------------------------
(* Aliases. *)

(* buildAliasConfig and ParseModelAliases: blank names are dropped. *)
BuildAliasConfig(raw) ==
  [a \in {a \in DOMAIN raw : a # "" /\ raw[a] # ""} |-> raw[a]]

ModelAliasesActive(as) == \E a \in DOMAIN as : as[a] # ""

(* Mutant: the target is looked up once more. *)
ResolveAliasModelTwice(as, model) ==
  LET once == IF model \in DOMAIN as THEN as[model] ELSE model
  IN IF once \in DOMAIN as THEN as[once] ELSE once

(* One level only: the target is not looked up again. *)
ResolveAliasModel(as, model) ==
  IF ModelAliasesActive(as) /\ model \in DOMAIN as /\ as[model] # "" THEN as[model] ELSE model

-----------------------------------------------------------------------------
(* The settings and the cache. *)

Init ==
  /\ auto \in {FlagsToConfig(f) : f \in AutoFlags} /\ posted = FALSE
  /\ aliases \in {BuildAliasConfig(raw) : raw \in AliasPosts}
  /\ loaded = {} /\ op = NoOp

(* handleAutoRouting, POST. *)
HandleAutoRouting ==
  /\ \E d \in AutoPosts : auto' \in BuildAutoRoutingConfig(d)
  /\ posted' = TRUE
  /\ UNCHANGED <<aliases, loaded, op>>

(* handleSetAliases: replaces the whole map. *)
HandleSetAliases ==
  /\ \E raw \in AliasPosts : aliases' = BuildAliasConfig(raw)
  /\ op' = IF op.kind = "list" THEN [op EXCEPT !.stable = FALSE] ELSE op
  /\ UNCHANGED <<auto, posted, loaded>>

(* The capability cache changes, unless a listing holds its read lock. *)
CacheChanges ==
  /\ op.kind = "list" => op.at = "hide"
  /\ loaded' \in SUBSET Name
  /\ UNCHANGED <<auto, posted, aliases, op>>

-----------------------------------------------------------------------------
(* handleInference up to the dispatch. *)

ParseRequest ==
  /\ op = NoOp
  /\ \E n \in Name : op' = [kind |-> "request", at |-> "parsed", model |-> n]
  /\ UNCHANGED <<auto, posted, aliases, loaded>>

(* resolveAutoModel*: a tier without a model ends the request with 503. *)
ResolveAuto ==
  /\ op.kind = "request" /\ op.at = "parsed"
  /\ op' \in IF op.model # "auto" \/ ~AutoRoutingActive(auto) THEN {[op EXCEPT !.at = "resolved"]}
             ELSE {IF ResolveModel(auto, t) = "" THEN NoOp
                   ELSE [op EXCEPT !.at = "resolved", !.model = ResolveModel(auto, t)] :
                     t \in {Classify(auto, p) : p \in Prompt}}
  /\ UNCHANGED <<auto, posted, aliases, loaded>>

ResolveAlias ==
  /\ op.kind = "request" /\ op.at = "resolved"
  /\ op' = [op EXCEPT !.at = "dispatch", !.model = ResolveAliasModel(aliases, op.model)]
  /\ UNCHANGED <<auto, posted, aliases, loaded>>

(* Worker selection and failover take over. *)
Dispatch ==
  /\ op.kind = "request" /\ op.at = "dispatch"
  /\ op' = NoOp
  /\ UNCHANGED <<auto, posted, aliases, loaded>>

-----------------------------------------------------------------------------
(* handleModelsList: four reads, each under its own lock. *)

(* An alias is a rename: the model it stands for is not listed. *)
HideCanonical(as) == {as[a] : a \in DOMAIN as} \ {""}

ListHide ==
  /\ op = NoOp
  /\ op' = [kind |-> "list", at |-> "hide", hide |-> HideCanonical(aliases), names |-> {},
            loaded |-> {}, stable |-> TRUE]
  /\ UNCHANGED <<auto, posted, aliases, loaded>>

ListLoaded ==
  /\ op.kind = "list" /\ op.at = "hide"
  /\ op' = [op EXCEPT !.at = "loaded", !.names = loaded \ op.hide, !.loaded = loaded]
  /\ UNCHANGED <<auto, posted, aliases, loaded>>

ListAuto ==
  /\ op.kind = "list" /\ op.at = "loaded"
  /\ op' = [op EXCEPT !.at = "auto", !.names = @ \cup (IF AutoRoutingActive(auto) THEN {"auto"} ELSE {})]
  /\ UNCHANGED <<auto, posted, aliases, loaded>>

ListAliases ==
  /\ op.kind = "list" /\ op.at = "auto"
  /\ op' = [op EXCEPT !.at = "done",
              !.names = @ \cup (IF ModelAliasesActive(aliases) THEN {a \in DOMAIN aliases : aliases[a] # ""} ELSE {})]
  /\ UNCHANGED <<auto, posted, aliases, loaded>>

ListReply ==
  /\ op.kind = "list" /\ op.at = "done"
  /\ op' = NoOp
  /\ UNCHANGED <<auto, posted, aliases, loaded>>

Next ==
  \/ HandleAutoRouting \/ HandleSetAliases \/ CacheChanges
  \/ ParseRequest \/ ResolveAuto \/ ResolveAlias \/ Dispatch
  \/ ListHide \/ ListLoaded \/ ListAuto \/ ListAliases \/ ListReply

Spec == Init /\ [][Next]_vars

Tier == 0 .. 3

(* Thresholds are never negative, every tier of the table is one the       *)
(* classifier knows, and every alias leads to a name.                      *)
AutoTyped ==
  /\ auto.simple \in Nat /\ auto.medium \in Nat /\ auto.four \in BOOLEAN /\ auto.keywords \in BOOLEAN
  /\ DOMAIN auto.models \subseteq Tier
  /\ \A t \in DOMAIN auto.models : auto.models[t] \in Name \cup {""}

AliasesTyped ==
  /\ DOMAIN aliases \subseteq Name
  /\ \A a \in DOMAIN aliases : aliases[a] \in Name \ {""}

Requests == [kind : {"request"}, at : {"parsed", "resolved", "dispatch"}, model : Name]
Listings == [kind : {"list"}, at : {"hide", "loaded", "auto", "done"}, hide : SUBSET Name,
             names : SUBSET (Name \cup {"auto"}), loaded : SUBSET Name, stable : BOOLEAN]

TypeOK ==
  /\ AutoTyped /\ AliasesTyped
  /\ posted \in BOOLEAN /\ loaded \subseteq Name
  /\ op \in {NoOp} \cup Requests \cup Listings

-----------------------------------------------------------------------------

(* Posting back what GET answered changes nothing, once the configuration  *)
(* came from a POST: names, both thresholds, their defaults, cap and order *)
(* survive the two conversions.  (A configuration from the command line    *)
(* does not have this property: keywords and blank tiers are lost.)        *)
PostedConfigRoundTrips ==
  posted => BuildAutoRoutingConfig(ToAutoRoutingConfigDTO(auto)) = {auto}

SameSignals(p, q) == [p EXCEPT !.tokens = 0] = [q EXCEPT !.tokens = 0]

(* A longer prompt with the same signals is never sent to a lower tier, in *)
(* either ladder and for thresholds in any order; the result is always a   *)
(* tier of the ladder.                                                     *)
LongerPromptNeverSimpler ==
  op = NoOp =>
    \A p, q \in Prompt :
      (SameSignals(p, q) /\ p.tokens <= q.tokens) => Classify(auto, p) <= Classify(auto, q)

(* The aliases that stand for model m. *)
Sources(m) == {a \in DOMAIN aliases : aliases[a] = m}

(* No name is left for m: no alias but "auto" leads to it, and its own name *)
(* is "auto", is taken by an alias, or is hidden.                           *)
NameTaken(m) ==
  /\ Sources(m) \ {"auto"} = {}
  /\ m = "auto" \/ m \in DOMAIN aliases \/ "auto" \in Sources(m)

(* A client that picks from the list can reach every loaded model: some    *)
(* listed name is dispatched as it, unless the settings leave no name for  *)
(* it.  The targets of aliases are hidden and the aliases added under two  *)
(* acquisitions of the lock, so the list is only promised to be complete   *)
(* when no POST came between.                                              *)
ListedNamesCoverLoaded ==
  (op.kind = "list" /\ op.at = "done" /\ op.stable) =>
    \A m \in op.loaded :
      \/ NameTaken(m)
      \/ \E n \in op.names \ {"auto"} : ResolveAliasModel(aliases, n) = m

(* "an alias is a rename, not additive": a listing shows a model under its *)
(* own name or under an alias, never under neither.  (A POST between the   *)
(* two reads of the aliases breaks it.)                                    *)
AliasIsARename ==
  (op.kind = "list" /\ op.at = "done") =>
    \A m \in op.loaded : m \in op.names \/ \E a \in DOMAIN aliases : aliases[a] = m

=============================================================================
