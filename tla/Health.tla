-------------------------------- MODULE Health --------------------------------
(***************************************************************************)
(* health.py's GET /health/components beside Redis and the classifier that *)
(* other threads call and reload.  The endpoint pings ClawVault and Redis  *)
(* at once, each for a limited time, then reads the two attributes that    *)
(* make up is_available.  ClawVault, whose process is ClawVaultServer's    *)
(* subject, may answer a ping or not at any time.                          *)
(***************************************************************************)
EXTENDS ModelClassifier

CONSTANTS
    HasRedis,    \* whether the degradation manager was given a Redis client
    MaxProbes,   \* bound: requests to the endpoint
    MaxChanges   \* bound: changes of Redis

ASSUME HealthAssumption ==
    HasRedis \in BOOLEAN /\ MaxProbes \in Nat /\ MaxChanges \in Nat

VARIABLES
    redisUp, changes,
    redisState,  \* DegradationManager's
    report,      \* what the endpoint knows of each component
    probes,
    responded,   \* history: whether ClawVault has answered the ping
    seen         \* history: Redis' and the classifier's states since the probe began

redisVars == <<redisUp, changes>>
probeVars == <<redisState, report, probes, responded>>
healthVars == <<vars, redisVars, probeVars, seen>>

Components == {"clawvault", "redis", "routellm"}
NotAsked == [c \in Components |-> "none"]
Told == {"up", "down"}
IsTold(c) == report[c] \in Told

Probing == \E c \in Components : report[c] \in {"asked", "loaded"}
Verdict(up) == IF up THEN "up" ELSE "down"
Tell(c, word) == report' = [report EXCEPT ![c] = word]

\* How the classifier is: somebody works on it, or calls can or cannot be scored.
ModelState ==
    IF lock # None THEN "loading" ELSE IF router # NoRouter THEN "usable" ELSE "unusable"
Now == {<<"redis", redisUp>>, <<"routellm", ModelState>>}

-----------------------------------------------------------------------------
HealthInit ==
    /\ Init
    /\ redisUp \in BOOLEAN /\ changes = 0 /\ redisState = "unknown"
    /\ report = NotAsked /\ probes = 0 /\ responded = FALSE /\ seen = {}

\* health_components() up to its first await.
Ask ==
    /\ ~ Probing /\ probes < MaxProbes
    /\ probes' = probes + 1
    /\ report' = [c \in Components |-> "asked"]
    /\ responded' = FALSE
    /\ UNCHANGED <<vars, redisVars, redisState>>

\* METHOD_HANDLERS and what dispatch_request() makes of a method.
Methods == {"mask", "restore", "restore_stream_chunk", "get_mapping", "check_compliance"}
Reply(method) == IF method \in Methods THEN "result" ELSE "error"

\* _probe_clawvault(): the server answers; an error raises.
PingAnswered ==
    /\ report["clawvault"] = "asked"
    /\ Tell("clawvault", Verdict(Reply("ping") = "result"))
    /\ responded' = TRUE
    /\ UNCHANGED <<vars, redisVars, redisState, probes>>

\* There is no server, it ends before it answers, or the time is over.
PingFails ==
    /\ report["clawvault"] = "asked"
    /\ Tell("clawvault", "down")
    /\ UNCHANGED <<vars, redisVars, redisState, probes, responded>>

\* _probe_redis(): check_redis_health() returns.
RedisProbed ==
    /\ report["redis"] = "asked"
    /\ Tell("redis", Verdict(HasRedis => redisUp))
    /\ redisState' = IF ~ HasRedis THEN redisState
                     ELSE IF redisUp THEN "healthy" ELSE "unhealthy"
    /\ UNCHANGED <<vars, redisVars, probes, responded>>

\* The time is over before Redis answers; the manager is told nothing.
RedisProbeLate ==
    /\ report["redis"] = "asked" /\ HasRedis
    /\ Tell("redis", "down")
    /\ UNCHANGED <<vars, redisVars, redisState, probes, responded>>

\* Looks for an error only.
WrongReadLoaded ==
    /\ IsTold("clawvault") /\ IsTold("redis") /\ report["routellm"] = "asked"
    /\ Tell("routellm", "loaded")
    /\ UNCHANGED <<vars, redisVars, redisState, probes, responded>>

\* is_available reads _loaded, and _load_error unless that is false.
ReadLoaded ==
    /\ IsTold("clawvault") /\ IsTold("redis") /\ report["routellm"] = "asked"
    /\ Tell("routellm", IF loaded THEN "loaded" ELSE "down")
    /\ UNCHANGED <<vars, redisVars, redisState, probes, responded>>

ReadError ==
    /\ report["routellm"] = "loaded"
    /\ Tell("routellm", Verdict(~ error))
    /\ UNCHANGED <<vars, redisVars, redisState, probes, responded>>

ProbeStep ==
    \/ PingAnswered
    \/ PingFails
    \/ RedisProbed
    \/ RedisProbeLate
    \/ ReadLoaded
    \/ ReadError

\* Redis comes or goes; while nobody looks that makes no difference.
RedisChanges ==
    /\ Probing /\ changes < MaxChanges
    /\ changes' = changes + 1 /\ redisUp' = ~ redisUp
    /\ UNCHANGED <<vars, probeVars>>

\* What other threads and Redis do.
OthersStep ==
    \/ Next /\ UNCHANGED <<redisVars, probeVars>>
    \/ RedisChanges

\* What the probe could have seen: the state it began in, and all since.
Watch == seen' = IF ~ Probing' THEN seen ELSE IF ~ Probing THEN Now ELSE seen \cup Now'

HealthNext == (Ask \/ ProbeStep \/ OthersStep) /\ Watch

\* The threads run on; building a model ends.
HealthFairness ==
    \A t \in Threads :
        WF_healthVars((CallStep(t) \/ LoadStep(t))
                      /\ UNCHANGED <<redisVars, probeVars>> /\ Watch)

HealthSpec == HealthInit /\ [][HealthNext]_healthVars /\ HealthFairness

-----------------------------------------------------------------------------
HealthTypeOK ==
    /\ TypeOK
    /\ redisUp \in BOOLEAN /\ changes \in 0 .. MaxChanges
    /\ redisState \in {"unknown", "healthy", "unhealthy"}
    /\ report \in [Components -> {"none", "asked", "loaded"} \cup Told]
    /\ probes \in 0 .. MaxProbes /\ responded \in BOOLEAN
    /\ seen \subseteq ({"redis"} \X BOOLEAN)
                     \cup ({"routellm"} \X {"loading", "usable", "unusable"})

\* A component that is told to be up was up at some time during the probe, and a
\* classifier that is told to be down was not usable at some time: a report is
\* no older than its request.  Who works on the classifier excuses both, since
\* its two attributes are read one after the other.
ReportIsTrue ==
    ~ Probing =>
        /\ report["redis"] = "up" /\ HasRedis => <<"redis", TRUE>> \in seen
        /\ report["routellm"] = "up" =>
              seen \cap {<<"routellm", "usable">>, <<"routellm", "loading">>} # {}
        /\ report["routellm"] = "down" =>
              seen \cap {<<"routellm", "unusable">>, <<"routellm", "loading">>} # {}

\* Without somebody at work the report would have to be right (false: the
\* attempt counts as loaded before its error is set).
UpWasUsable ==
    ~ Probing /\ report["routellm"] = "up" => <<"routellm", "usable">> \in seen

\* ClawVault is up if it responds (_probe_clawvault's description).
UpWhenAnswering == ~ Probing /\ responded => report["clawvault"] = "up"
-----------------------------------------------------------------------------
(* What makes ReportIsTrue inductive.                                      *)

\* What has been told so far rests on what was seen; that somebody worked on the
\* classifier is the only way for an attempt that counted to be forgotten.
Evidence ==
    /\ report["redis"] = "up" /\ HasRedis => <<"redis", TRUE>> \in seen
    /\ report["routellm"] = "up" =>
          seen \cap {<<"routellm", "usable">>, <<"routellm", "loading">>} # {}
    /\ report["routellm"] = "down" =>
          seen \cap {<<"routellm", "unusable">>, <<"routellm", "loading">>} # {}
    /\ report["routellm"] = "loaded" => loaded \/ <<"routellm", "loading">> \in seen

ProbeInv ==
    /\ IInv /\ HealthTypeOK
    /\ Probing => Now \subseteq seen
    /\ Evidence
=============================================================================
