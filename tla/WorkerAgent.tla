---------------------------- MODULE WorkerAgent -----------------------------
(***************************************************************************)
(* The life of a worker process beside its requests: RunWorker chooses a   *)
(* registration path (pkg/worker/run.go), a registration loop announces    *)
(* the worker over WebSocket (ws_client.go) or by HTTP POST (register.go), *)
(* SIGHUP reloads the configuration and swaps the loop, SIGTERM stops it,  *)
(* and a refresh loop merges the backend's catalogue into the server's     *)
(* (model_refresh.go).                                                     *)
(*                                                                         *)
(* A configuration is the number of the reload that produced it, with the  *)
(* two URLs that decide the path.  Loop g is the g-th one launched.  The   *)
(* catalogue is followed for one model name, the one --model-path declares *)
(* when the backend cannot be asked.  The durations of ticks, back-off and *)
(* deadlines are left out; that they end is the fairness at the bottom.    *)
(***************************************************************************)
EXTENDS Naturals

CONSTANT MaxReloads  \* bound: configurations SIGHUP installs

ASSUME WorkerAgentAssumption == MaxReloads \in Nat

Gen == 1 .. MaxReloads + 1

VARIABLES
  static,   \* what SIGHUP cannot change: [dev, prodRouter]
  cfg,      \* h.regConfig: [n, relay, router]
  main,     \* the signal goroutine: "start", "listen", "filtered", "cancelled" or "stopped"
  next,     \* the configuration a reload is installing
  filters,  \* number of the configuration the server's filters come from
  gen,      \* loops launched
  loop,     \* per loop
  mdns,     \* the announcer runs
  told,     \* the last announcement to arrive at the router
  model,    \* the model in the server's catalogue
  refresh   \* the refresh loop: [at, got]

agentVars == <<static, cfg, main, next, filters, gen, loop, mdns, told, model, refresh>>
mainVars == <<static, cfg, main, next, filters, gen, mdns>>
catalogueVars == <<model, refresh>>

Status == {"absent", "idle", "loaded"}
NewLoop == [kind |-> "none", relay |-> FALSE, at |-> "idle", cancelled |-> FALSE,
            sent |-> 0, open |-> FALSE]
Nothing == [gen |-> 0, filters |-> 0, ws |-> FALSE]

(* cmd/worker gives a dev-mode worker a router URL when it has none.  The  *)
(* catalogue is what ListModels returned, or else the declared model.      *)
AgentInit ==
  /\ static \in [dev : BOOLEAN, prodRouter : BOOLEAN]
  /\ cfg \in [n : {0}, relay : BOOLEAN, router : BOOLEAN]
  /\ static.dev => cfg.router
  /\ main = "start" /\ next = cfg /\ filters = 0
  /\ gen = 0 /\ loop = [g \in Gen |-> NewLoop] /\ mdns = FALSE
  /\ told = Nothing
  /\ model \in Status /\ refresh = [at |-> "tick", got |-> "absent"]

-----------------------------------------------------------------------------
(* Launching a loop.  relayReachable is asked when both URLs are set, and  *)
(* the answer is the environment's.                                        *)

Stopped == main = "stopped"
Cancelled(g) == loop[g].cancelled \/ Stopped
UsesMTLS == static.prodRouter /\ ~static.dev

Path(c, reachable) ==
  IF c.relay /\ (c.router => reachable) THEN "ws" ELSE IF c.router THEN "http" ELSE "none"

(* `go WSRegisterLoop`, `go RegisterLoopWithRefresh` or its mTLS twin. *)
Started(kind, c) ==
  [NewLoop EXCEPT !.kind = kind, !.relay = c.relay,
                  !.at = IF kind = "ws" THEN "dial" ELSE "build"]

LaunchRegistration(c) ==
  \E reachable \in BOOLEAN :
    LET kind == IF UsesMTLS THEN "mtls" ELSE Path(c, reachable) IN
    IF kind = "none" THEN UNCHANGED <<gen, loop>>
    ELSE gen' = gen + 1 /\ loop' = [loop EXCEPT ![gen + 1] = Started(kind, c)]

(* RunWorker: mTLS in prod with a --prod-router; otherwise HTTP or, with a *)
(* relay URL, whatever launchRegistration decides (it is asked again after *)
(* RunWorker's own probe, and in prod mode too); mDNS when nothing is set. *)
RunWorker ==
  /\ main = "start" /\ main' = "listen"
  /\ IF UsesMTLS \/ cfg.router THEN LaunchRegistration(cfg) /\ UNCHANGED mdns
                               ELSE mdns' = TRUE /\ UNCHANGED <<gen, loop>>
  /\ UNCHANGED <<static, cfg, next, filters, told>> /\ UNCHANGED catalogueVars

(* SIGHUP: an empty variable keeps the current value, so a URL can be set  *)
(* but not cleared; prod mode refuses a relay URL.  The filters and the    *)
(* key change first, then the old loop is cancelled, then the new one is   *)
(* launched (after up to two seconds of probing).                          *)
Effective(e) == [n |-> cfg.n + 1, relay |-> cfg.relay \/ e.relay, router |-> cfg.router \/ e.router]
Valid(c) == static.dev \/ ~c.relay

ReloadConfig ==
  /\ main = "listen" /\ cfg.n < MaxReloads
  /\ \E e \in [relay : BOOLEAN, router : BOOLEAN] :
       /\ Valid(Effective(e))
       /\ next' = Effective(e) /\ filters' = cfg.n + 1
  /\ main' = "filtered"
  /\ UNCHANGED <<static, cfg, gen, loop, mdns, told>> /\ UNCHANGED catalogueVars

(* Mutant: the reload starts the new loop and leaves the old one running. *)
RegCancelForgotten(g) == loop

RegCancel(g) == [loop EXCEPT ![g].cancelled = TRUE]

ReloadCancels ==
  /\ main = "filtered" /\ main' = "cancelled" /\ cfg' = next
  /\ loop' = IF gen = 0 THEN loop ELSE RegCancel(gen)
  /\ UNCHANGED <<static, next, filters, gen, mdns, told>> /\ UNCHANGED catalogueVars

ReloadLaunches ==
  /\ main = "cancelled" /\ main' = "listen"
  /\ LaunchRegistration(cfg)
  /\ UNCHANGED <<static, cfg, next, filters, mdns, told>> /\ UNCHANGED catalogueVars

(* SIGTERM: the announcer stops and the root context is cancelled, which   *)
(* every loop's context derives from.                                      *)
Stop ==
  /\ main = "listen" /\ main' = "stopped" /\ mdns' = FALSE
  /\ UNCHANGED <<static, cfg, next, filters, gen, loop, told>> /\ UNCHANGED catalogueVars

-----------------------------------------------------------------------------
(* The registration loops.  buildRegistrationInfo reads the filters when   *)
(* it is called; the configuration and with it the transport are those of  *)
(* the launch.                                                             *)

Step(g, x) == loop' = [loop EXCEPT ![g] = x] /\ UNCHANGED mainVars /\ UNCHANGED catalogueVars
LoopGoto(g, x) == Step(g, [loop[g] EXCEPT !.at = x]) /\ UNCHANGED told
BuildRegistrationInfo(g) == [gen |-> g, filters |-> loop[g].sent, ws |-> loop[g].relay]

(* postRegister: a cancelled loop does not post. *)
BuildPost(g) ==
  /\ loop[g].at = "build"
  /\ Step(g, [loop[g] EXCEPT !.at = IF Cancelled(g) THEN "wait" ELSE "post", !.sent = filters])
  /\ UNCHANGED told

PostArrives(g) ==
  /\ loop[g].at = "post"
  /\ told' = BuildRegistrationInfo(g) /\ Step(g, [loop[g] EXCEPT !.at = "wait"])

(* A refusal, an error, the end of the context, or the client's timeout.   *)
(* The mTLS client has no timeout: see the fairness.                       *)
PostFails(g) == loop[g].at = "post" /\ LoopGoto(g, "wait")

(* The double select of RegisterLoopWithRefresh. *)
TickOrDone(g) ==
  /\ loop[g].at = "wait"
  /\ LoopGoto(g, IF Cancelled(g) THEN "exited" ELSE IF loop[g].kind = "ws" THEN "dial" ELSE "build")

(* wsConnectOnce: DialContext fails once the context is done; the register *)
(* message is sent without another look at it.                             *)
Dial(g) ==
  /\ loop[g].at = "dial"
  /\ \/ ~Cancelled(g) /\ LoopGoto(g, "register")
     \/ LoopGoto(g, IF Cancelled(g) THEN "exited" ELSE "wait")

SendRegister(g) ==
  /\ loop[g].at = "register"
  /\ told' = [gen |-> g, filters |-> filters, ws |-> loop[g].relay]
  /\ Step(g, [loop[g] EXCEPT !.at = "serve", !.open = TRUE])

RegisterFails(g) == loop[g].at = "register" /\ LoopGoto(g, IF Cancelled(g) THEN "exited" ELSE "wait")

(* wsHeartbeat: the select may take the tick although the context is done, *)
(* and nothing but the closed connection stops the send.                   *)
HeartbeatArrives(g) ==
  /\ loop[g].at = "serve" /\ loop[g].open
  /\ told' = [gen |-> g, filters |-> filters, ws |-> loop[g].relay] /\ UNCHANGED loop
  /\ UNCHANGED mainVars /\ UNCHANGED catalogueVars

(* The peer goes away, falls silent for ReadTimeout, or a heartbeat cannot *)
(* be sent, which closes the connection.                                   *)
ConnLost(g) ==
  /\ loop[g].at = "serve" /\ loop[g].open
  /\ Step(g, [loop[g] EXCEPT !.open = FALSE]) /\ UNCHANGED told

(* Mutant: nobody closes the connection when the context is done.         *)
CloserFiresNever(g) == FALSE /\ UNCHANGED agentVars

(* The goroutine that closes the connection when ctx is done, so that the  *)
(* blocked reader returns.                                                 *)
CloserFires(g) ==
  /\ loop[g].at = "serve" /\ loop[g].open /\ Cancelled(g)
  /\ Step(g, [loop[g] EXCEPT !.open = FALSE]) /\ UNCHANGED told

(* A read on a closed connection, or a close message: wsConnectOnce        *)
(* returns, and connCancel ends the heartbeat and the requests in flight   *)
(* (WorkerServe's WSGone).  Pings and heartbeat echoes change nothing.     *)
ReaderEnds(g) ==
  /\ loop[g].at = "serve"
  /\ Step(g, [loop[g] EXCEPT !.at = IF Cancelled(g) THEN "exited" ELSE "wait", !.open = FALSE])
  /\ UNCHANGED told

-----------------------------------------------------------------------------
(* The catalogue: refreshModels asks the backend and merges the answer     *)
(* with a copy of the catalogue, then stores it; a load request may come   *)
(* in between.                                                             *)

(* Mutant: what the backend lists replaces the declared catalogue.         *)
MergeModelsReplaces(existing, discovered) == discovered

MergeModels(existing, discovered) == IF discovered = "absent" THEN existing ELSE discovered

RefreshModels ==
  /\ refresh.at = "tick" /\ ~Stopped
  /\ \E s \in Status : refresh' = [at |-> "merged", got |-> MergeModels(model, s)]
  /\ UNCHANGED <<model, loop, told>> /\ UNCHANGED mainVars

SetModels ==
  /\ refresh.at = "merged"
  /\ model' = refresh.got /\ refresh' = [at |-> "tick", got |-> "absent"]
  /\ UNCHANGED <<loop, told>> /\ UNCHANGED mainVars

LoadModelByName ==
  /\ model # "absent" /\ model' = "loaded"
  /\ UNCHANGED <<refresh, loop, told>> /\ UNCHANGED mainVars

-----------------------------------------------------------------------------

LoopStep(g) ==
  \/ BuildPost(g) \/ PostArrives(g) \/ PostFails(g) \/ TickOrDone(g)
  \/ Dial(g) \/ SendRegister(g) \/ RegisterFails(g)
  \/ HeartbeatArrives(g) \/ ConnLost(g) \/ CloserFires(g)
  \/ ReaderEnds(g)

AgentNext ==
  \/ RunWorker \/ ReloadConfig \/ ReloadCancels \/ ReloadLaunches \/ Stop
  \/ \E g \in Gen : LoopStep(g)
  \/ RefreshModels \/ SetModels \/ LoadModelByName

AgentSpec == AgentInit /\ [][AgentNext]_agentVars

(* Goroutines keep running; ticks, back-off, dials, writes and reads end;  *)
(* a router that is asked again and again answers in the end.  A POST ends *)
(* with the context or with the client's timeout, which the mTLS client    *)
(* does not set: nothing ends its POST but an answer or a cancel.          *)
AgentFairness ==
  /\ WF_agentVars(RunWorker \/ ReloadCancels \/ ReloadLaunches)
  /\ \A g \in Gen :
       /\ WF_agentVars(BuildPost(g) \/ TickOrDone(g) \/ Dial(g) \/ SendRegister(g) \/ RegisterFails(g)
                  \/ (PostFails(g) /\ (loop[g].kind = "http" \/ Cancelled(g)))
                  \/ (ReaderEnds(g) /\ ~loop[g].open))
       /\ SF_agentVars(PostArrives(g) /\ loop[g].kind = "http")
       /\ SF_agentVars(Dial(g) /\ loop'[g].at = "register") /\ SF_agentVars(SendRegister(g))
       /\ WF_agentVars(HeartbeatArrives(g) /\ ~Cancelled(g)) /\ WF_agentVars(CloserFires(g))

AgentFairSpec == AgentSpec /\ AgentFairness

-----------------------------------------------------------------------------

Loops == [kind : {"none", "ws", "http", "mtls"}, relay : BOOLEAN, cancelled : BOOLEAN,
          at : {"idle", "dial", "register", "serve", "build", "post", "wait", "exited"},
          sent : 0 .. MaxReloads, open : BOOLEAN]
Config == [n : 0 .. MaxReloads, relay : BOOLEAN, router : BOOLEAN]

(* The shape of the state: RunWorker and ReloadConfig launch at most one   *)
(* loop each, and the refresh loop stores what it merged.                  *)
AgentTypeOK ==
  /\ static \in [dev : BOOLEAN, prodRouter : BOOLEAN]
  /\ cfg \in Config /\ next \in Config /\ filters \in 0 .. MaxReloads
  /\ main \in {"start", "listen", "filtered", "cancelled", "stopped"}
  /\ gen \in 0 .. MaxReloads + 1 /\ loop \in [Gen -> Loops] /\ mdns \in BOOLEAN
  /\ told \in [gen : {0} \cup Gen, filters : 0 .. MaxReloads, ws : BOOLEAN]
  /\ model \in Status /\ refresh \in [at : {"tick", "merged"}, got : Status]

(* A registration loop whose context ended, by a reload or by Stop, exits: *)
(* no path of wsConnectOnce or of the HTTP loops is left blocked (the      *)
(* orphan the comment on rootCtx warns of).                                *)
EveryLoopEnds ==
  \A g \in Gen : (loop[g].kind # "none" /\ Cancelled(g)) ~> (loop[g].at = "exited")

(* However reloads, stale registers and reconnects interleave, the router  *)
(* ends up with the announcement of the loop launched last, carrying the   *)
(* filters installed last, and keeps it.  The mTLS loop is not promised    *)
(* this: a router that never answers its POST blocks it.                   *)
LatestConfigWins ==
  <>[](\/ Stopped \/ gen = 0
       \/ gen > 0 /\ loop[gen].kind = "mtls"
       \/ told.gen = gen /\ told.filters = filters)

(* A model once in the catalogue is never dropped from it: "models         *)
(* declared via --model-path must survive" a refresh that finds others,    *)
(* also when loads and refreshes interleave.                               *)
DeclaredModelSurvives == [][model # "absent" => model' # "absent"]_agentVars

(* "Relay path uses WebSocket transport; HTTP path uses default", says     *)
(* buildRegistrationInfo: a worker announced by POST is announced with the *)
(* HTTP transport.                                                         *)
PostedWorkerIsHTTP == told.gen # 0 => (told.ws <=> loop[told.gen].kind = "ws")

=============================================================================
