----------------------------- MODULE PlanDispatch -----------------------------
(***************************************************************************)
(* callbacks/transaction_router.py and callbacks/agent_workbuddy_router.py *)
(* on the plan that the watcher's thread replaces (callbacks/              *)
(* plugin_loader.py): a request is given the model of its agent, LiteLLM   *)
(* calls that model, more than once if need be, and each failure it        *)
(* reports makes the plug-in announce the next model of a chain.  Nothing  *)
(* reads the announcement.  LiteLLM reports a request that was refused as  *)
(* a failure, too.  The agent plug-in has one template.  pc[r]:            *)
(*   "found"     its template is in the plan                               *)
(*   "refused"   the hook raised                                           *)
(*   "calling"   LiteLLM calls the model                                   *)
(*   "rejected", "done", "failed"   its end                                *)
(***************************************************************************)
EXTENDS PlanSelection

CONSTANTS
    Requests,
    Configurations, \* what the files may hold
    Plugins,        \* the plug-ins that may be loaded
    FallbackModel,  \* fallback_model and
    Chains,         \* failover_chains, as they were when the plug-in was loaded
    FailoverEnabled,
    NoAgent,        \* a request that names no agent, or with an illegal name
    Asked,          \* pairs <<template, agent>> that requests ask for
    Reported,       \* names that LiteLLM may give a model that failed
    MaxRetries,     \* LiteLLM's num_retries
    NoChain         \* metadata without a chain

ASSUME DispatchAssumption ==
    /\ Plugins \subseteq {"transaction", "agent_workbuddy"}
    /\ FailoverEnabled \in BOOLEAN /\ MaxRetries \in Nat
    /\ \A c \in Configurations : WellFormed(c)
    /\ \A m \in DOMAIN Chains : Chains[m] \in Seq(Range(Chains[m])) /\ Chains[m] # NoChain

VARIABLES
    plugin,    \* the plug-in that is loaded
    config,    \* the configuration the plan was made from
    plan,      \* _plan_store
    pc,
    key,       \* the template and the agent of each request
    reason,    \* route_reason
    model,     \* the model that LiteLLM calls
    chain,     \* metadata: _failover_chain
    index,     \* metadata: _failover_index, where there is a chain
    tries,     \* calls that failed
    heard,     \* failures reported to the plug-in
    announced  \* the models it announced (AGENT_FAILOVER, _failover_model)

metadata == <<chain, index>>
failover == <<tries, heard, announced>>
request == <<pc, key, reason, model, metadata, failover>>
vars == <<plugin, config, plan, request>>

-----------------------------------------------------------------------------
Init ==
    /\ plugin \in Plugins
    /\ config \in {c \in Configurations : Generates(c)}
    /\ plan = Plan(config)
    /\ pc = [r \in Requests |-> "idle"]
    /\ key = [r \in Requests |-> NoAgent]
    /\ reason = [r \in Requests |-> "none"]
    /\ model = [r \in Requests |-> FallbackModel]
    /\ chain = [r \in Requests |-> NoChain]
    /\ index = [r \in Requests |-> 0]
    /\ tries = [r \in Requests |-> 0]
    /\ heard = [r \in Requests |-> 0]
    /\ announced = [r \in Requests |-> <<>>]

\* The new plan stays in the watcher.
WrongReload(c) ==
    /\ Generates(c)
    /\ config' = c
    /\ UNCHANGED <<plugin, plan, request>>

\* The watcher's thread replaces the plan; one that cannot be made changes
\* nothing.
Reload(c) ==
    /\ Generates(c)
    /\ config' = c
    /\ plan' = Plan(c)
    /\ UNCHANGED <<plugin, request>>

-----------------------------------------------------------------------------
(* _execute_routing()                                                      *)

Send(r, m, why) ==
    /\ reason' = [reason EXCEPT ![r] = why]
    /\ model' = [model EXCEPT ![r] = m]
    /\ pc' = [pc EXCEPT ![r] = "calling"]

\* The hook that both inherit refuses the request before it comes to this.
Blocked(r) ==
    /\ pc[r] = "idle"
    /\ pc' = [pc EXCEPT ![r] = "refused"]
    /\ UNCHANGED <<plugin, config, plan, key, reason, model, metadata, failover>>

\* No transaction, no agent or an illegal name.
Unnamed(r) ==
    /\ pc[r] = "idle"
    /\ Send(r, FallbackModel, "fallback")
    /\ UNCHANGED <<plugin, config, plan, key, metadata, failover>>

\* The transaction plug-in's first look at the plan.
FindTemplate(r, k) ==
    /\ plugin = "transaction"
    /\ pc[r] = "idle"
    /\ key' = [key EXCEPT ![r] = k]
    /\ pc' = [pc EXCEPT ![r] = IF \E other \in DOMAIN plan : other[1] = k[1]
                               THEN "found" ELSE "refused"]
    /\ UNCHANGED <<plugin, config, plan, reason, model, metadata, failover>>

\* The second look; a planned model takes its chain along.
GetModel(r, k) ==
    /\ IF k \in DOMAIN plan THEN Send(r, plan[k], "plan")
                            ELSE Send(r, FallbackModel, "unknown_agent")
    /\ chain' = IF k \in DOMAIN plan /\ FailoverEnabled /\ plan[k] \in DOMAIN Chains
                THEN [chain EXCEPT ![r] = Chains[plan[k]]] ELSE chain
    /\ UNCHANGED <<plugin, config, plan, index, failover>>

TransactionModel(r) ==
    /\ pc[r] = "found"
    /\ GetModel(r, key[r])
    /\ UNCHANGED key

AgentModel(r, k) ==
    /\ plugin = "agent_workbuddy"
    /\ pc[r] = "idle"
    /\ key' = [key EXCEPT ![r] = k]
    /\ GetModel(r, k)

-----------------------------------------------------------------------------
(* async_log_failure_event()                                               *)

\* The chain is the failed model's, whatever the request has stored.
WrongRest(r, name) ==
    IF FailoverEnabled /\ name \in DOMAIN Chains THEN Chains[name] ELSE <<>>

\* What is left of the request's chain, or else the whole chain of the model that
\* failed, if it is reported by a name that has one.
Rest(r, name) ==
    IF ~FailoverEnabled THEN <<>>
    ELSE IF chain[r] # NoChain THEN SubSeq(chain[r], index[r] + 1, Len(chain[r]))
    ELSE IF name \in DOMAIN Chains THEN Chains[name] ELSE <<>>

\* Without a stored chain the index is written but never read.
FailureEvent(r) ==
    /\ heard' = [heard EXCEPT ![r] = @ + 1]
    /\ \E name \in Reported :
          IF Rest(r, name) = <<>> THEN UNCHANGED <<index, announced>>
          ELSE /\ announced' = [announced EXCEPT ![r] = Append(@, Head(Rest(r, name)))]
               /\ index' = IF chain[r] = NoChain THEN index
                           ELSE [index EXCEPT ![r] = @ + 1]

\* A refused request is reported under the model it asked for.
Reject(r) ==
    /\ pc[r] = "refused"
    /\ FailureEvent(r)
    /\ pc' = [pc EXCEPT ![r] = "rejected"]
    /\ UNCHANGED <<plugin, config, plan, key, reason, model, chain, tries>>

\* A call fails, and the same model is called again or the error raised.  Without
\* a deployment left to call no hook hears of it.
Fail(r) ==
    /\ pc[r] = "calling" /\ tries[r] <= MaxRetries
    /\ tries' = [tries EXCEPT ![r] = @ + 1]
    /\ FailureEvent(r) \/ UNCHANGED <<index, heard, announced>>
    /\ pc' \in {pc, [pc EXCEPT ![r] = "failed"]}
    /\ tries[r] = MaxRetries => pc'[r] = "failed"
    /\ UNCHANGED <<plugin, config, plan, key, reason, model, chain>>

Answered(r) ==
    /\ pc[r] = "calling"
    /\ pc' = [pc EXCEPT ![r] = "done"]
    /\ UNCHANGED <<plugin, config, plan, key, reason, model, metadata, failover>>

-----------------------------------------------------------------------------
Route(r) ==
    \/ Blocked(r)
    \/ Unnamed(r)
    \/ \E k \in Asked : FindTemplate(r, k)
    \/ TransactionModel(r)
    \/ \E k \in Asked : AgentModel(r, k)

Finish(r) ==
    \/ Reject(r)
    \/ Fail(r)
    \/ Answered(r)

Next ==
    \/ \E c \in Configurations : Reload(c)
    \/ \E r \in Requests : Route(r) \/ Finish(r)

Spec == Init /\ [][Next]_vars
-----------------------------------------------------------------------------
(* Properties                                                              *)

Ended == {"rejected", "done", "failed"}

\* Type invariant of the look-ups and the failures.
TypeOK ==
    /\ plugin \in Plugins
    /\ config \in Configurations
    /\ pc \in [Requests -> {"idle", "found", "refused", "calling"} \cup Ended]
    /\ key \in [Requests -> Asked \cup {NoAgent}]
    /\ reason \in [Requests -> {"none", "fallback", "unknown_agent", "plan"}]
    /\ index \in [Requests -> Nat] /\ heard \in [Requests -> Nat]
    /\ tries \in [Requests -> 0 .. MaxRetries + 1]
    /\ DOMAIN model = Requests /\ DOMAIN chain = Requests /\ DOMAIN announced = Requests

\* The failures of a planned request announce the models that stand in for the
\* planned one in the configured order, each once and then none
\* (AGENT_FAILOVER_EXHAUSTED), under whatever names they are reported and
\* although the chains name each other's models.
Follows(r) ==
    LET standby == Chains[model[r]]
        n == Len(standby)
    IN  announced[r] = SubSeq(standby, 1, IF heard[r] < n THEN heard[r] ELSE n)

AnnouncedInOrder ==
    FailoverEnabled => \A r \in Requests :
        reason[r] = "plan" /\ model[r] \in DOMAIN Chains => Follows(r)

\* The inductive invariant: the plan is the configuration's, a request has the
\* chain of its planned model or none, and its index is the number of failures
\* that it has heard of, up to the end of the chain.
RequestInv(r) ==
    /\ pc[r] \in {"idle", "found"} =>
          index[r] = 0 /\ heard[r] = 0 /\ announced[r] = <<>>
    /\ pc[r] \in {"idle", "found", "refused"} => reason[r] = "none"
    /\ pc[r] = "calling" => reason[r] # "none"
    /\ IF FailoverEnabled /\ reason[r] = "plan" /\ model[r] \in DOMAIN Chains
       THEN /\ chain[r] = Chains[model[r]]
            /\ index[r] = IF heard[r] < Len(chain[r]) THEN heard[r] ELSE Len(chain[r])
            /\ announced[r] = SubSeq(chain[r], 1, index[r])
       ELSE chain[r] = NoChain

DispatchInv ==
    /\ TypeOK
    /\ Generates(config) /\ plan = Plan(config)
    /\ \A r \in Requests : RequestInv(r)

\* What the generators promise (template_plan_generator.py:59-62): the model
\* that the administrator gave; or one that meets the constraints, such that no
\* other that does has a higher score or this one is preferred; or, where no
\* model meets them, the fallback model.
Suits(c, agent, m) ==
    LET profile == c.profiles[ProfileName(c, agent.profile)]
        meeting == {x \in Range(c.models) :
                      /\ x.available /\ x.cost <= profile.maxCost
                      /\ x.context >= profile.minContext
                      /\ Score(x, profile) >= profile.threshold}
    IN  \/ agent.override = m
        \/ agent.override = NoOverride /\ meeting = {} /\ m = c.fallback
        \/ /\ agent.override = NoOverride
           /\ \E x \in meeting :
                 /\ x.name = m
                 /\ \/ m \in profile.prefer
                    \/ \A y \in meeting : Score(y, profile) <= Score(x, profile)

\* Of the agents that share a name the last one counts.
Fits(c, k, m) ==
    LET agents == c.templates[k[1]]
    IN  \E i \in DOMAIN agents :
           /\ agents[i].name = k[2]
           /\ \A j \in DOMAIN agents : agents[j].name = k[2] => j <= i
           /\ Suits(c, agents[i], m)

\* A planned model is one that the files call for at that moment, although the
\* plan is replaced between the two looks (transaction_router.py:197, 203).
FitsWhenSent ==
    [][\A r \in Requests : reason[r] = "none" /\ reason'[r] = "plan" =>
          Fits(config, key'[r], model'[r])]_vars

\* "SHALL attempt models in the chain in order until one succeeds or all are
\* exhausted" (agent-workbuddy/design.md:569): what is announced is called.
AnnouncedIsCalled ==
    \A r \in Requests : pc[r] = "done" /\ announced[r] # <<>> =>
        model[r] \in Range(announced[r])

\* No request hears twice of the same model, with a stored chain or without.
AnnouncedOnce ==
    \A r \in Requests : \A i, j \in DOMAIN announced[r] :
        announced[r][i] = announced[r][j] => i = j

\* No failover is announced for a request that never called a model.
RejectedQuietly ==
    \A r \in Requests : pc[r] = "rejected" => announced[r] = <<>>

\* Without templates every request is sent to the fallback model (README.md:653,
\* plugin_loader.py:124).
NoTemplatesFallBack ==
    [][\A r \in Requests : key'[r] # key[r] /\ pc'[r] = "refused" =>
          DOMAIN plan # {}]_vars

\* An unknown agent is one of a template that is there (README.md:965).
UnknownOfTemplate ==
    [][\A r \in Requests :
          plugin = "transaction" /\ reason[r] = "none" /\ reason'[r] = "unknown_agent" =>
              \E other \in DOMAIN plan : other[1] = key[r][1]]_vars

\* The plug-in's fallback model is the one of the files.
CurrentFallback ==
    [][\A r \in Requests :
          reason[r] = "none" /\ reason'[r] \in {"fallback", "unknown_agent"} =>
              model'[r] = config.fallback]_vars
=============================================================================
