---- MODULE MCModelNames ----
EXTENDS ModelNames, TLC

MCName == {"auto", "short", "m1", "m2"}

MCPrompt ==
  [tokens : {0, 199, 200, 400, 600}, long : BOOLEAN, cues : {{}, {"code", "role"}, {"code", "math", "list", "nested"}},
   phrases : {-1, 0}, depth : {-1, 1}, keyword : BOOLEAN]

(* Nothing; classic tiers with thresholds the wrong way round and keywords; four tiers. *)
MCAutoFlags ==
  {[models |-> <<>>, simple |-> 0, medium |-> 0, four |-> FALSE, keywords |-> FALSE],
   [models |-> ("simple" :> "m1" @@ "complex" :> "m2"), simple |-> 700, medium |-> 0,
    four |-> FALSE, keywords |-> TRUE],
   [models |-> ("hard" :> "short" @@ "hardest" :> "m2"), simple |-> 0, medium |-> 0,
    four |-> TRUE, keywords |-> FALSE]}

MCAutoPosts ==
  {[enabled |-> FALSE, models |-> <<>>, simple |-> 0, medium |-> 0, four |-> FALSE],
   [enabled |-> TRUE, models |-> ("unknown" :> "m1" @@ "hard" :> ""), simple |-> 0, medium |-> 0, four |-> TRUE],
   [enabled |-> TRUE, models |-> ("hardest" :> "m2" @@ "complex" :> "m1"), simple |-> 0, medium |-> 100, four |-> FALSE],
   [enabled |-> TRUE, models |-> ("simple" :> "m1" @@ "hard" :> "short" @@ "medium" :> ""),
    simple |-> 1000000, medium |-> 2000000, four |-> TRUE]}

(* None; a rename; a chain of two; an alias called "auto"; a blank target. *)
MCAliasPosts ==
  {<<>>, ("short" :> "m1"), ("short" :> "m1" @@ "m1" :> "m2"), ("auto" :> "m1"), ("short" :> "" @@ "m2" :> "m1")}
====
