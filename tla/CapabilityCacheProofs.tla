----------------------- MODULE CapabilityCacheProofs ------------------------
(***************************************************************************)
(* Proofs about the registry and the capability cache that follows it, for *)
(* any set of workers, any TTLs and any capacity of the channel.           *)
(***************************************************************************)
EXTENDS CapabilityCache, Integers, TLAPS

SeenType == {"added", "updated"}
Msg == Event \cup {Probe}

(* What a consumer whose cache is c makes of w after the messages q. *)
About(q, w) == {i \in 1..Len(q) : q[i].worker = w}
After(c, q, w) ==
  IF About(q, w) = {}
    THEN w \in c
    ELSE \E i \in About(q, w) : (\A j \in About(q, w) : j <= i) /\ q[i].type \in SeenType

LEMMA ReplayedIsAfter == \A w : Replayed(w) <=> After(cache, ch, w)
  BY DEF Replayed, Queued, After, About, SeenType

-----------------------------------------------------------------------------
(* How a message put into the channel or taken from it changes the replay. *)

LEMMA AppendOther ==
  ASSUME NEW c, NEW q \in Seq(Msg), NEW m \in Msg, NEW w, m.worker # w
  PROVE  After(c, Append(q, m), w) <=> After(c, q, w)
<1> DEFINE n == Append(q, m)
<1>1. /\ Len(q) \in Nat /\ Len(n) = Len(q) + 1 /\ n[Len(q) + 1] = m
      /\ \A i \in 1..Len(q) : n[i] = q[i]
  OBVIOUS
<1> HIDE DEF n
<1>2. About(n, w) = About(q, w)
  BY <1>1 DEF About
<1>3. \A i \in About(q, w) : n[i] = q[i]
  BY <1>1 DEF About
<1> QED
  BY <1>2, <1>3 DEF After, n

(* The latest message decides. *)
LEMMA AppendSame ==
  ASSUME NEW c, NEW q \in Seq(Msg), NEW m \in Msg, NEW w, m.worker = w
  PROVE  After(c, Append(q, m), w) <=> m.type \in SeenType
<1> DEFINE n == Append(q, m)
<1>1. /\ Len(q) \in Nat /\ Len(n) = Len(q) + 1 /\ n[Len(q) + 1] = m
  OBVIOUS
<1> HIDE DEF n
<1>2. Len(q) + 1 \in About(n, w) /\ \A j \in About(n, w) : j <= Len(q) + 1
  BY <1>1 DEF About
<1>3. \A i \in About(n, w) : (\A j \in About(n, w) : j <= i) => i = Len(q) + 1
  BY <1>1, <1>2 DEF About
<1> QED
  BY <1>1, <1>2, <1>3 DEF After, n

LEMMA TailIndex ==
  ASSUME NEW q \in Seq(Msg), q # <<>>
  PROVE  /\ Len(q) \in Nat /\ Len(q) > 0 /\ Tail(q) \in Seq(Msg) /\ Len(Tail(q)) = Len(q) - 1
         /\ \A i \in 1..(Len(q) - 1) : Tail(q)[i] = q[i + 1]
         /\ Head(q) = q[1]
  OBVIOUS

LEMMA TailOther ==
  ASSUME NEW c, NEW d, NEW q \in Seq(Msg), NEW w, q # <<>>, Head(q).worker # w,
         w \in d <=> w \in c
  PROVE  After(d, Tail(q), w) <=> After(c, q, w)
<1> DEFINE n == Tail(q)
<1>1. /\ Len(q) \in Nat /\ Len(q) > 0 /\ Len(n) = Len(q) - 1
      /\ \A i \in 1..(Len(q) - 1) : n[i] = q[i + 1]
      /\ q[1].worker # w
  BY TailIndex
<1> HIDE DEF n
<1>2. \A i \in About(n, w) : i \in Int /\ i + 1 \in About(q, w) /\ n[i] = q[i + 1]
  BY <1>1 DEF About
<1>3. \A i \in About(q, w) : i \in Int /\ i - 1 \in About(n, w) /\ n[i - 1] = q[i]
  BY <1>1 DEF About
<1>4. About(n, w) = {} <=> About(q, w) = {}
  BY <1>2, <1>3
<1>5. ASSUME NEW i \in About(q, w), \A j \in About(q, w) : j <= i
      PROVE  \A j \in About(n, w) : j <= i - 1
  BY <1>2, <1>3, <1>5
<1>6. ASSUME NEW i \in About(n, w), \A j \in About(n, w) : j <= i
      PROVE  \A j \in About(q, w) : j <= i + 1
  BY <1>2, <1>3, <1>6
<1>7. (\E i \in About(q, w) : (\A j \in About(q, w) : j <= i) /\ q[i].type \in SeenType)
        => \E i \in About(n, w) : (\A j \in About(n, w) : j <= i) /\ n[i].type \in SeenType
  BY <1>3, <1>5
<1>8. (\E i \in About(n, w) : (\A j \in About(n, w) : j <= i) /\ n[i].type \in SeenType)
        => \E i \in About(q, w) : (\A j \in About(q, w) : j <= i) /\ q[i].type \in SeenType
  BY <1>2, <1>6
<1> QED
  BY <1>4, <1>7, <1>8 DEF After, n

(* Applying the head to the cache is what the replay expects of it. *)
LEMMA TailSame ==
  ASSUME NEW c, NEW d, NEW q \in Seq(Msg), NEW w, q # <<>>, Head(q).worker = w,
         w \in d <=> Head(q).type \in SeenType
  PROVE  After(d, Tail(q), w) <=> After(c, q, w)
<1> DEFINE n == Tail(q)
<1>1. /\ Len(q) \in Nat /\ Len(q) > 0 /\ Len(n) = Len(q) - 1
      /\ \A i \in 1..(Len(q) - 1) : n[i] = q[i + 1]
      /\ q[1].worker = w /\ Head(q) = q[1]
  BY TailIndex
<1> HIDE DEF n
<1>2. 1 \in About(q, w)
  BY <1>1 DEF About
<1>3. \A i \in About(n, w) : i \in Int /\ i >= 1 /\ i + 1 \in About(q, w) /\ n[i] = q[i + 1]
  BY <1>1 DEF About
<1>4. \A i \in About(q, w) : i \in Int /\ (i # 1 => i - 1 \in About(n, w) /\ n[i - 1] = q[i])
  BY <1>1 DEF About
<1>5. CASE About(n, w) = {}
  <2>1. \A i \in About(q, w) : i = 1
    BY <1>4, <1>5
  <2>2. After(c, q, w) <=> q[1].type \in SeenType
    BY <1>2, <2>1 DEF After
  <2> QED
    BY <1>1, <1>5, <2>2 DEF After, n
<1>6. CASE About(n, w) # {}
  <2>1. ASSUME NEW i \in About(q, w), \A j \in About(q, w) : j <= i
        PROVE  i # 1 /\ \A j \in About(n, w) : j <= i - 1
    BY <1>3, <1>4, <1>6, <2>1
  <2>2. ASSUME NEW i \in About(n, w), \A j \in About(n, w) : j <= i
        PROVE  \A j \in About(q, w) : j <= i + 1
    BY <1>3, <1>4, <2>2
  <2>3. (\E i \in About(q, w) : (\A j \in About(q, w) : j <= i) /\ q[i].type \in SeenType)
          => \E i \in About(n, w) : (\A j \in About(n, w) : j <= i) /\ n[i].type \in SeenType
    BY <1>4, <2>1
  <2>4. (\E i \in About(n, w) : (\A j \in About(n, w) : j <= i) /\ n[i].type \in SeenType)
          => \E i \in About(q, w) : (\A j \in About(q, w) : j <= i) /\ q[i].type \in SeenType
    BY <1>3, <2>2
  <2> QED
    BY <1>2, <1>6, <2>3, <2>4 DEF After, n
<1> QED
  BY <1>5, <1>6

-----------------------------------------------------------------------------
(* The registry: every change of an entry is broadcast.                    *)

(* The part of the type invariant the messages need. *)
Typed ==
  /\ entry \in [Worker -> {"absent", "available", "unavailable"}]
  /\ age \in [Worker -> 0..RemoveTTL] /\ left \subseteq Worker
  /\ ch \in Seq(Msg) /\ Len(ch) <= ChanCap
  /\ cache \subseteq Worker /\ stats \subseteq Worker
  /\ loop \in [at : {"waiting", "fetching", "fetched", "forgetting"},
               worker : Worker \cup {NoWorker}]

(* A step that changes w's entry, or refreshes it, and tells of it. *)
Announces(w, v, t) ==
  /\ entry' = [entry EXCEPT ![w] = v]
  /\ v \in {"absent", "available", "unavailable"}
  /\ t \in {"added", "updated", "unavailable", "removed"}
  /\ t \in SeenType <=> v = "available"
  /\ Broadcast(t, w)

(* A step that changes no entry; it may send a probe. *)
Silent ==
  /\ entry' = entry /\ stale' = stale
  /\ ch' = ch \/ (ch' = Append(ch, Probe) /\ Len(ch) < ChanCap)

LEMMA RegistryClass ==
  ASSUME RegistryStep, Typed
  PROVE  Silent \/ \E w \in Worker : \E v, t : Announces(w, v, t)
<1>1. ASSUME NEW w \in Worker, HandleSeen(w)
      PROVE  \E t : Announces(w, "available", t)
  <2> DEFINE t == IF entry[w] = "available" THEN "updated" ELSE "added"
  <2>1. Announces(w, "available", t)
    BY <1>1 DEF HandleSeen, Announces, SeenType
  <2> QED
    BY <2>1
<1>2. ASSUME NEW w \in Worker, HandleRemoved(w)
      PROVE  Announces(w, "absent", "removed")
  BY <1>2 DEF HandleRemoved, Announces, SeenType
<1>3. ASSUME NEW w \in Worker, HandleExpired(w)
      PROVE  Announces(w, "unavailable", "unavailable")
  BY <1>3 DEF HandleExpired, Announces, SeenType
<1>4. ASSUME NEW w \in Worker, CheckStale(w)
      PROVE  Silent \/ Announces(w, "absent", "removed") \/ Announces(w, "unavailable", "unavailable")
  <2>1. age[w] \in 0..RemoveTTL
    BY DEF Typed
  <2>2. CASE age[w] >= RemoveTTL
    <3>1. entry' = [entry EXCEPT ![w] = "absent"] /\ Broadcast("removed", w)
      BY <1>4, <2>1, <2>2, RegistryAssumption DEF CheckStale
    <3> QED
      BY <3>1 DEF Announces, SeenType
  <2>3. CASE age[w] < RemoveTTL /\ age[w] >= UnavailableTTL /\ entry[w] = "available"
    <3>1. entry' = [entry EXCEPT ![w] = "unavailable"] /\ Broadcast("unavailable", w)
      BY <1>4, <2>1, <2>3, RegistryAssumption DEF CheckStale
    <3> QED
      BY <3>1 DEF Announces, SeenType
  <2>4. CASE /\ ~(age[w] >= RemoveTTL)
             /\ ~(age[w] < RemoveTTL /\ age[w] >= UnavailableTTL /\ entry[w] = "available")
    <3>1. UNCHANGED <<entry, ch, stale>>
      BY <1>4, <2>4 DEF CheckStale
    <3> QED
      BY <3>1 DEF Silent
  <2> QED
    BY <2>1, <2>2, <2>3, <2>4, RegistryAssumption
<1>5. CASE SweepBegin
  BY <1>5 DEF SweepBegin, Silent
<1>6. CASE PruneSubs
  <2>1. entry' = entry /\ stale' = stale
    BY <1>6 DEF PruneSubs
  <2>2. ch' = ch \/ (ch' = Append(ch, Probe) /\ Len(ch) < ChanCap)
    BY <1>6 DEF PruneSubs
  <2> QED
    BY <2>1, <2>2 DEF Silent
<1> QED
  BY <1>1, <1>2, <1>3, <1>4, <1>5, <1>6 DEF RegistryStep, SweepStep, HandleEvent

(* What the channel and the entries are after a broadcast or a probe. *)
LEMMA AnnounceTyped ==
  ASSUME Typed, NEW w \in Worker, NEW v, NEW t, Announces(w, v, t)
  PROVE  /\ entry' \in [Worker -> {"absent", "available", "unavailable"}]
         /\ ch' \in Seq(Msg) /\ Len(ch') <= ChanCap
<1> DEFINE m == [type |-> t, worker |-> w]
<1>1. m \in Msg
  BY DEF Announces, Msg, Event
<1>2. entry' \in [Worker -> {"absent", "available", "unavailable"}]
  BY DEF Announces, Typed
<1>3. ch' = ch \/ (Len(ch) < ChanCap /\ ch' = Append(ch, m))
  BY DEF Announces, Broadcast
<1> HIDE DEF m
<1>4. ch \in Seq(Msg) /\ Len(ch) <= ChanCap /\ ChanCap \in Nat
  BY RegistryAssumption DEF Typed
<1> QED
  BY <1>1, <1>2, <1>3, <1>4

LEMMA SilentTyped ==
  ASSUME Typed, Silent
  PROVE  /\ entry' \in [Worker -> {"absent", "available", "unavailable"}]
         /\ ch' \in Seq(Msg) /\ Len(ch') <= ChanCap
<1>1. Probe \in Msg
  BY DEF Msg
<1>2. ch \in Seq(Msg) /\ Len(ch) <= ChanCap /\ ChanCap \in Nat
  BY RegistryAssumption DEF Typed
<1>3. ch' = ch \/ (Len(ch) < ChanCap /\ ch' = Append(ch, Probe))
  BY DEF Silent
<1>4. ch' \in Seq(Msg) /\ Len(ch') <= ChanCap
  BY <1>1, <1>2, <1>3
<1> QED
  BY <1>4 DEF Silent, Typed

-----------------------------------------------------------------------------
(* The cache follows.                                                      *)

(* While capabilities are fetched, the worker's entry is already there;    *)
(* a handler in hand is about a worker.                                    *)
LoopKnows ==
  /\ loop.at \in {"fetching", "fetched", "forgetting"} => loop.worker \in Worker
  /\ loop.at \in {"fetching", "fetched"} => loop.worker \in cache

CacheInv == Typed /\ LoopKnows /\ ReplayMatchesRegistry /\ StatsOnlyForCached

LEMMA ReplayAfter ==
  ReplayMatchesRegistry <=> \A w \in Worker \ stale : After(cache, ch, w) <=> entry[w] = "available"
  BY ReplayedIsAfter DEF ReplayMatchesRegistry

LEMMA ReplayAfterPrimed ==
  ReplayMatchesRegistry'
    <=> \A w \in Worker \ stale' : After(cache', ch', w) <=> entry'[w] = "available"
  BY DEF ReplayMatchesRegistry, Replayed, Queued, After, About, SeenType

LEMMA RegistryKeepsReplay ==
  ASSUME Typed, ReplayMatchesRegistry, cache' = cache,
         Silent \/ \E w \in Worker : \E v, t : Announces(w, v, t)
  PROVE  ReplayMatchesRegistry'
<1>0. ch \in Seq(Msg) /\ entry \in [Worker -> {"absent", "available", "unavailable"}]
  BY DEF Typed
<1>1. CASE Silent
  <2>1. Probe \in Msg /\ \A w \in Worker : Probe.worker # w
    BY ProbeAssumption DEF Msg, Probe
  <2>2. \A w \in Worker : After(cache, ch', w) <=> After(cache, ch, w)
    BY <1>0, <1>1, <2>1, AppendOther DEF Silent
  <2> QED
    BY <1>1, <2>2, ReplayAfter, ReplayAfterPrimed DEF Silent
<1>2. ASSUME NEW w \in Worker, NEW v, NEW t, Announces(w, v, t)
      PROVE  ReplayMatchesRegistry'
  <2> DEFINE m == [type |-> t, worker |-> w]
  <2>1. m \in Msg /\ m.worker = w /\ m.type = t
    BY <1>2 DEF Announces, Msg, Event
  <2>2. \/ ch' = Append(ch, m) /\ stale' = stale \ {w}
        \/ ch' = ch /\ stale' = stale \cup {w}
    BY <1>2 DEF Announces, Broadcast
  <2> HIDE DEF m
  <2>3. /\ t \in SeenType <=> v = "available"
        /\ entry'[w] = v /\ \A u \in Worker : u # w => entry'[u] = entry[u]
    BY <1>0, <1>2 DEF Announces
  <2>4. ASSUME NEW u \in Worker, u \notin stale'
        PROVE  After(cache, ch', u) <=> entry'[u] = "available"
    <3>1. CASE u = w
      <4>1. ch' = Append(ch, m)
        BY <2>2, <2>4, <3>1
      <4> QED
        BY <1>0, <2>1, <2>3, <3>1, <4>1, AppendSame
    <3>2. CASE u # w
      <4>1. u \notin stale
        BY <2>2, <2>4, <3>2
      <4>2. After(cache, ch', u) <=> After(cache, ch, u)
        BY <1>0, <2>1, <2>2, <3>2, AppendOther
      <4> QED
        BY <2>3, <3>2, <4>1, <4>2, ReplayAfter
    <3> QED
      BY <3>1, <3>2
  <2> QED
    BY <2>4, ReplayAfterPrimed
<1> QED
  BY <1>1, <1>2

(* Consuming a message keeps the replay when the cache does what it says. *)
LEMMA ReceiveKeepsReplay ==
  ASSUME Typed, ReplayMatchesRegistry, Receive,
         \A w \in Worker : /\ Head(ch).worker # w => (w \in cache' <=> w \in cache)
                           /\ Head(ch).worker = w => (w \in cache' <=> Head(ch).type \in SeenType)
  PROVE  ReplayMatchesRegistry'
<1>1. ch \in Seq(Msg) /\ ch # <<>> /\ ch' = Tail(ch) /\ entry' = entry /\ stale' = stale
  BY DEF Typed, Receive
<1>2. \A w \in Worker : After(cache', Tail(ch), w) <=> After(cache, ch, w)
  BY <1>1, TailOther, TailSame
<1> QED
  BY <1>1, <1>2, ReplayAfter, ReplayAfterPrimed

LEMMA HeadTyped ==
  ASSUME Typed, Receive
  PROVE  /\ Head(ch) \in Msg /\ ch' \in Seq(Msg) /\ Len(ch') <= ChanCap
         /\ Head(ch).type # "probe" => Head(ch).worker \in Worker
         /\ Head(ch).type = "probe" => Head(ch).worker = NoWorker
<1>1. ch \in Seq(Msg) /\ ch # <<>> /\ ch' = Tail(ch) /\ Len(ch) <= ChanCap /\ ChanCap \in Nat
  BY RegistryAssumption DEF Typed, Receive
<1>2. Head(ch) \in Msg /\ Tail(ch) \in Seq(Msg) /\ Len(Tail(ch)) <= ChanCap
  BY <1>1
<1>3. \A m \in Msg : /\ m.type # "probe" => m.worker \in Worker
                     /\ m.type = "probe" => m.worker = NoWorker
  BY DEF Msg, Event, Probe
<1> QED
  BY <1>1, <1>2, <1>3

LEMMA CacheInit == Init => CacheInv
<1> SUFFICES ASSUME Init PROVE CacheInv
  OBVIOUS
<1>1. Typed
  BY RegistryAssumption DEF Init, RegistryInit, Typed, Waiting, Msg
<1>2. LoopKnows /\ StatsOnlyForCached
  BY DEF Init, LoopKnows, StatsOnlyForCached, Waiting
<1>3. \A w \in Worker : Queued(w) = {} /\ ~(w \in cache) /\ entry[w] = "absent"
  <2>1. Len(ch) = 0
    BY DEF Init, RegistryInit
  <2>2. \A w \in Worker : Queued(w) = {}
    BY <2>1 DEF Queued
  <2> QED
    BY <2>2 DEF Init, RegistryInit
<1>4. ReplayMatchesRegistry
  BY <1>3 DEF ReplayMatchesRegistry, Replayed
<1> QED
  BY <1>1, <1>2, <1>4 DEF CacheInv

LEMMA CacheNext == CacheInv /\ [Next]_vars => CacheInv'
<1> SUFFICES ASSUME CacheInv, [Next]_vars PROVE CacheInv'
  OBVIOUS
<1>0. Typed /\ LoopKnows /\ ReplayMatchesRegistry /\ StatsOnlyForCached
  BY DEF CacheInv
<1>1. CASE RegistryStep /\ UNCHANGED <<cache, stats, loop>>
  <2>1. Silent \/ \E w \in Worker : \E v, t : Announces(w, v, t)
    BY <1>0, <1>1, RegistryClass
  <2>2. /\ entry' \in [Worker -> {"absent", "available", "unavailable"}]
        /\ ch' \in Seq(Msg) /\ Len(ch') <= ChanCap
    BY <1>0, <2>1, AnnounceTyped, SilentTyped
  <2>3. left' \subseteq Worker
    BY <1>0, <1>1 DEF Typed, RegistryStep, SweepStep, SweepBegin, PruneSubs, CheckStale,
       HandleEvent, HandleSeen, HandleRemoved, HandleExpired, Handling
  <2>4. age' \in [Worker -> 0..RemoveTTL]
    <3>0. age \in [Worker -> 0..RemoveTTL]
      BY <1>0 DEF Typed
    <3>1. CASE age' = age
      BY <3>0, <3>1
    <3>2. ASSUME NEW w \in Worker, age' = [age EXCEPT ![w] = 0]
          PROVE  age' \in [Worker -> 0..RemoveTTL]
      BY <3>0, <3>2, RegistryAssumption
    <3>3. CASE SweepBegin
      <4>1. \A w \in Worker : age[w] < RemoveTTL => age[w] + 1 \in 0..RemoveTTL
        BY <3>0, RegistryAssumption
      <4> QED
        BY <3>0, <3>3, <4>1 DEF SweepBegin
    <3> QED
      BY <1>1, <3>1, <3>2, <3>3 DEF RegistryStep, SweepStep, PruneSubs, CheckStale,
         HandleEvent, HandleSeen, HandleRemoved, HandleExpired
  <2>5. ReplayMatchesRegistry'
    BY <1>0, <1>1, <2>1, RegistryKeepsReplay
  <2>6. Typed'
    BY <1>0, <1>1, <2>2, <2>3, <2>4 DEF Typed
  <2>7. LoopKnows' /\ StatsOnlyForCached'
    BY <1>0, <1>1 DEF LoopKnows, StatsOnlyForCached
  <2> QED
    BY <2>5, <2>6, <2>7 DEF CacheInv
<1>2. CASE Receive /\ (TakeSeen \/ TakeGone \/ TakeProbe)
  <2>0. /\ Head(ch) \in Msg /\ ch' \in Seq(Msg) /\ Len(ch') <= ChanCap
        /\ Head(ch).type # "probe" => Head(ch).worker \in Worker
        /\ Head(ch).type = "probe" => Head(ch).worker = NoWorker
    BY <1>0, <1>2, HeadTyped
  <2>1. ASSUME cache' \subseteq Worker, stats' = stats,
               loop' \in [at : {"waiting", "fetching", "fetched", "forgetting"},
                          worker : Worker \cup {NoWorker}]
        PROVE  Typed'
    BY <1>0, <1>2, <2>0, <2>1 DEF Typed, Receive
  <2>2. loop.at = "waiting" /\ stats \subseteq cache /\ stats' = stats
    BY <1>0, <1>2 DEF Receive, StatsOnlyForCached
  <2>3. CASE TakeSeen
    <3>1. Head(ch).worker \in Worker /\ Head(ch).type \in SeenType
      BY <2>0, <2>3 DEF TakeSeen, SeenType
    <3>2. /\ cache' = cache \cup {Head(ch).worker}
          /\ loop' = [at |-> "fetching", worker |-> Head(ch).worker]
      BY <2>3 DEF TakeSeen
    <3>3. ReplayMatchesRegistry'
      BY <1>0, <1>2, <3>1, <3>2, ReceiveKeepsReplay
    <3>4. Typed'
      BY <1>0, <2>1, <2>2, <3>1, <3>2 DEF Typed
    <3>5. LoopKnows' /\ StatsOnlyForCached'
      BY <2>2, <3>1, <3>2 DEF LoopKnows, StatsOnlyForCached
    <3> QED
      BY <3>3, <3>4, <3>5 DEF CacheInv
  <2>4. CASE TakeGone
    <3>1. Head(ch).worker \in Worker /\ Head(ch).type \notin SeenType
      BY <2>0, <2>4 DEF TakeGone, SeenType
    <3>2. /\ cache' = cache \ {Head(ch).worker}
          /\ loop' = [at |-> "forgetting", worker |-> Head(ch).worker]
      BY <2>4 DEF TakeGone
    <3>3. ReplayMatchesRegistry'
      BY <1>0, <1>2, <3>1, <3>2, ReceiveKeepsReplay
    <3>4. Typed'
      BY <1>0, <2>1, <2>2, <3>1, <3>2 DEF Typed
    <3>5. LoopKnows' /\ StatsOnlyForCached'
      BY <2>2, <3>1, <3>2 DEF LoopKnows, StatsOnlyForCached
    <3> QED
      BY <3>3, <3>4, <3>5 DEF CacheInv
  <2>5. CASE TakeProbe
    <3>1. Head(ch).worker = NoWorker /\ cache' = cache /\ loop' = loop
      BY <2>0, <2>5 DEF TakeProbe
    <3>2. \A w \in Worker : Head(ch).worker # w
      BY <3>1, ProbeAssumption
    <3>3. ReplayMatchesRegistry'
      BY <1>0, <1>2, <3>1, <3>2, ReceiveKeepsReplay
    <3>4. Typed'
      BY <1>0, <2>1, <2>2, <3>1 DEF Typed
    <3>5. LoopKnows' /\ StatsOnlyForCached'
      BY <1>0, <2>2, <3>1 DEF LoopKnows, StatsOnlyForCached
    <3> QED
      BY <3>3, <3>4, <3>5 DEF CacheInv
  <2> QED
    BY <1>2, <2>3, <2>4, <2>5
<1>3. CASE \/ FetchSucceeds \/ FetchFails \/ SetInferenceStats \/ DeleteInferenceStats
           \/ UNCHANGED vars
  <2>1. /\ entry' = entry /\ age' = age /\ left' = left /\ ch' = ch /\ stale' = stale
        /\ cache' = cache
    <3>1. FetchSucceeds => cache' = cache
      BY <1>0 DEF FetchSucceeds, LoopKnows
    <3> QED
      BY <1>3, <3>1 DEF FetchSucceeds, FetchFails, SetInferenceStats, DeleteInferenceStats,
         vars, regVars
  <2>2. ReplayMatchesRegistry'
    BY <1>0, <2>1, ReplayAfter, ReplayAfterPrimed
  <2>3. \/ FetchSucceeds /\ stats' = stats /\ loop' = [loop EXCEPT !.at = "fetched"]
        \/ loop' = Waiting /\ loop.at = "fetching" /\ stats' = stats
        \/ loop' = Waiting /\ loop.at = "fetched" /\ stats' \in {stats \cup {loop.worker}, stats \ {loop.worker}}
        \/ loop' = Waiting /\ loop.at = "forgetting" /\ stats' = stats \ {loop.worker}
        \/ loop' = loop /\ stats' = stats
    BY <1>3 DEF FetchSucceeds, FetchFails, SetInferenceStats, DeleteInferenceStats, vars, regVars
  <2>4. Waiting.at = "waiting" /\ Waiting \in [at : {"waiting", "fetching", "fetched", "forgetting"},
                                               worker : Worker \cup {NoWorker}]
    BY DEF Waiting
  <2>5. FetchSucceeds => loop.at = "fetching"
    BY DEF FetchSucceeds
  <2>6. stats' \subseteq Worker
    BY <1>0, <2>3 DEF Typed, LoopKnows
  <2>7. loop' \in [at : {"waiting", "fetching", "fetched", "forgetting"}, worker : Worker \cup {NoWorker}]
    BY <1>0, <2>3, <2>4 DEF Typed
  <2>8. Typed'
    BY <1>0, <2>1, <2>6, <2>7 DEF Typed
  <2>9. LoopKnows'
    BY <1>0, <2>1, <2>3, <2>4, <2>5 DEF LoopKnows, Typed
  <2>10. StatsOnlyForCached'
    BY <1>0, <2>1, <2>3, <2>4, <2>5 DEF LoopKnows, StatsOnlyForCached, Typed
  <2> QED
    BY <2>2, <2>8, <2>9, <2>10 DEF CacheInv
<1> QED
  BY <1>1, <1>2, <1>3 DEF Next, CacheStep, TakeSeen, TakeGone, TakeProbe

(* The cache says of every worker whose latest event was delivered what    *)
(* the registry does, once it has consumed what is queued: whatever was    *)
(* dropped before, and whenever sweeps, probes and fetches come between.   *)
THEOREM CacheFollowsRegistry == Spec => []ReplayMatchesRegistry
<1>1. CacheInv => ReplayMatchesRegistry
  BY DEF CacheInv
<1> QED
  BY <1>1, CacheInit, CacheNext, PTL DEF Spec

(* No throughput data outlives the cache entry of its worker. *)
THEOREM StatsFollowCache == Spec => []StatsOnlyForCached
<1>1. CacheInv => StatsOnlyForCached
  BY DEF CacheInv
<1> QED
  BY <1>1, CacheInit, CacheNext, PTL DEF Spec

LEMMA SubscriberTyped ==
  ASSUME sweep \in {"idle", "checking"}, subscribed \in BOOLEAN, failures \in 0..MaxSubFailures,
         stale \subseteq Worker, events \in 0..MaxEvents, [Next]_vars
  PROVE  /\ sweep' \in {"idle", "checking"} /\ subscribed' \in BOOLEAN
         /\ failures' \in 0..MaxSubFailures /\ stale' \subseteq Worker /\ events' \in 0..MaxEvents
<1>1. CASE SweepBegin \/ CacheStep \/ UNCHANGED vars
  BY <1>1 DEF SweepBegin, CacheStep, TakeSeen, TakeGone, TakeProbe, Receive, FetchSucceeds,
     FetchFails, SetInferenceStats, DeleteInferenceStats, vars, regVars, subVars
<1>2. CASE PruneSubs
  <2>1. sweep' = "idle" /\ stale' = stale /\ events' = events
    BY <1>2 DEF PruneSubs
  <2>2. subscribed' = subscribed \/ subscribed' = FALSE
    BY <1>2 DEF PruneSubs
  <2>3. failures' = failures \/ failures' = 0 \/ (failures < MaxSubFailures /\ failures' = failures + 1)
    BY <1>2 DEF PruneSubs
  <2>4. failures' \in 0..MaxSubFailures
    BY <2>3, RegistryAssumption
  <2>5. subscribed' \in BOOLEAN
    BY <2>2
  <2> QED
    BY <2>1, <2>4, <2>5
<1>3. ASSUME NEW w \in Worker, CheckStale(w)
      PROVE  UNCHANGED <<sweep, subscribed, failures, events>> /\ stale' \subseteq Worker
  <2>1. UNCHANGED <<sweep, subscribed, failures, events>>
    BY <1>3 DEF CheckStale, subVars
  <2>2. stale' = stale \/ stale' = stale \cup {w} \/ stale' = stale \ {w}
    BY <1>3 DEF CheckStale, Broadcast
  <2> QED
    BY <2>1, <2>2
<1>4. ASSUME NEW w \in Worker, HandleEvent(w)
      PROVE  /\ UNCHANGED <<sweep, subscribed, failures>> /\ events < MaxEvents
             /\ events' = events + 1 /\ stale' \subseteq Worker
  <2>1. UNCHANGED <<sweep, subscribed, failures>> /\ events < MaxEvents /\ events' = events + 1
    BY <1>4 DEF HandleEvent, HandleSeen, HandleRemoved, HandleExpired, Handling, subVars
  <2>2. stale' = stale \cup {w} \/ stale' = stale \ {w}
    BY <1>4 DEF HandleEvent, HandleSeen, HandleRemoved, HandleExpired, Broadcast
  <2> QED
    BY <2>1, <2>2
<1>5. events < MaxEvents => events + 1 \in 0..MaxEvents
  BY RegistryAssumption
<1> QED
  BY <1>1, <1>2, <1>3, <1>4, <1>5 DEF Next, RegistryStep, SweepStep

(* The state of registry and cache keeps its type; in particular the       *)
(* subscriber's channel, which three kinds of steps fill without waiting,  *)
(* never holds more than its capacity.                                     *)
THEOREM TypeCorrect == Spec => []TypeOK
<1> DEFINE Sub == /\ sweep \in {"idle", "checking"} /\ subscribed \in BOOLEAN
                  /\ failures \in 0..MaxSubFailures /\ stale \subseteq Worker
                  /\ events \in 0..MaxEvents
<1>1. Init => Sub
  BY RegistryAssumption DEF Init, RegistryInit
<1>2. Sub /\ [Next]_vars => Sub'
  BY SubscriberTyped
<1>3. CacheInv /\ Sub => TypeOK
  BY DEF CacheInv, Typed, TypeOK, Msg
<1> QED
  BY <1>1, <1>2, <1>3, CacheInit, CacheNext, PTL DEF Spec

=============================================================================
