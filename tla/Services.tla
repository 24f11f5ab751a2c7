------------------------------ MODULE Services ------------------------------
(***************************************************************************)
(* The parts that serve requests, of which a behaviour takes one: the HTTP *)
(* server, the hybrid executor behind the gatekeeper, the privacy sandbox, *)
(* the MOM router with its feedback, the planner's frequency control, the  *)
(* response cache, and the arena that picks the champion they would call.  *)
(* The repository wires none of them to another at run time but the        *)
(* server to the privacy engine, which ApiServer has.                      *)
(***************************************************************************)
EXTENDS ApiServer, HybridGate, SandboxBudget, MomFeedback, PlannerFrequency, CacheEngine, Arena

CONSTANT ServiceNames  \* the services among which a run chooses

VARIABLE service

serviceVars == <<apiVars, hybridVars, sandboxVars, momVars, freqVars, cacheVars, arenaVars, service>>

Serving(s) == service = s

ServicesInit ==
  /\ service \in ServiceNames
  /\ IF Serving("server") THEN ApiInit ELSE ApiInit /\ keysSet /\ ~templates.exists
  /\ HybridInit /\ SandboxInit /\ MomInit /\ FreqInit /\ CacheInit /\ ArenaInit

\* The variables v of service s change only when it is the one that serves.
Held(s, v) == IF Serving(s) THEN TRUE ELSE UNCHANGED v

Others ==
  /\ UNCHANGED service
  /\ Held("server", apiVars) /\ Held("hybrid", hybridVars) /\ Held("sandbox", sandboxVars)
  /\ Held("mom", momVars) /\ Held("frequency", freqVars)
  /\ Held("cache", cacheVars) /\ Held("arena", arenaVars)

ServicesNext ==
  \/ Serving("server") /\ ApiNext /\ Others
  \/ Serving("hybrid") /\ HybridNext /\ Others
  \/ Serving("sandbox") /\ SandboxNext /\ Others
  \/ Serving("mom") /\ MomNext /\ Others
  \/ Serving("frequency") /\ FreqNext /\ Others
  \/ Serving("cache") /\ CacheNext /\ Others
  \/ Serving("arena") /\ ArenaNext /\ Others

ServicesSpec == ServicesInit /\ [][ServicesNext]_serviceVars
=============================================================================
