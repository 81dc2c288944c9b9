--------------------------- MODULE SessionRouting ---------------------------
(***************************************************************************)
(* callbacks/smart_router.py and the session locks of                      *)
(* router/route_resolver.py.  Requests are coroutines of one event loop;   *)
(* the reload callback runs in the watcher's timer thread and can come     *)
(* between any two reads of a request.  pc[r] names what r does next:      *)
(*   "classifying"  waits for the classifier, other requests may run       *)
(*   "selecting"    has read the policy, reads the resolver's table        *)
(*   "applying"     has read the clock, wants the resolver's lock          *)
(* The reload callback passes through "idle", "published" (its new         *)
(* configuration is visible), "locked" (inside update_configuration, the   *)
(* tiers assigned) and "unlocked" (the rule engine still the old one).     *)
(* The model starts when the first configuration has been loaded.          *)
(* Definitions named Wrong... are mistakes the properties guard against.   *)
(***************************************************************************)
EXTENDS RouteSelection

CONSTANTS
    Requests,    \* coroutines
    Sessions,    \* session ids
    NoSession,   \* a request without session id
    Models,      \* names of models
    None,        \* no model
    Scores,      \* scores the classifier may return
    Configs,     \* configurations that may be loaded
    MaxTurns,    \* bound: requests begun
    MaxReloads,  \* bound: configurations loaded
    MaxClock     \* bound: value of the clock

Policies == {"sticky", "per_turn", "escalate_only"}

Tier == [name : Models, model : Models, lo : Int, hi : Int,
         cost : Int, score : Nat]
Tiers == Seq(Tier)

ASSUME RoutingAssumption ==
    /\ NoSession \notin Sessions
    /\ None \notin Models
    /\ Scores \subseteq Int
    /\ MaxTurns \in Nat /\ MaxReloads \in Nat /\ MaxClock \in Nat
    /\ Configs \subseteq [policy : Policies, strategy : Strategies,
                          fallback : Models, ttl : Nat \ {0},
                          trivial : Models, tiers : Tiers]

VARIABLES
    pc,        \* where each request is ("idle": not begun, or answered)
    job,       \* what each request has read so far
    answer,    \* the model the latest answered request was routed to
    routing,   \* SmartRouterCallback._routing_config
    rules,     \* target of the rule engine in use
    resolver,  \* tiers, strategy, fallback and ttl of the RouteResolver
    counter,   \* its round-robin counter
    locks,     \* its session locks
    reload,    \* the reload callback: its phase, and whether it clears locks
    clock, turns, reloads

requestVars == <<pc, job, answer>>
resolverVars == <<resolver, counter, locks>>
configVars == <<routing, rules, reload>>
bounds == <<turns, reloads>>
vars == <<requestVars, resolverVars, configVars, clock, bounds>>

-----------------------------------------------------------------------------
NoLock == [model |-> None, score |-> NoScore, expires |-> 0]
NewJob(s, policy, fallback, m) ==
    [session |-> s, policy |-> policy, fallback |-> fallback,
     score |-> NoScore, model |-> m, stamp |-> 0]
NoJob == NewJob(NoSession, "per_turn", None, None)

Init ==
    \E c \in Configs :
        /\ pc = [r \in Requests |-> "idle"]
        /\ job = [r \in Requests |-> NoJob]
        /\ answer = None
        /\ routing = c
        /\ rules = c.trivial
        /\ resolver = [tiers |-> c.tiers, strategy |-> c.strategy,
                       fallback |-> c.fallback, ttl |-> c.ttl]
        /\ counter = 0
        /\ locks = [s \in Sessions |-> NoLock]
        /\ reload = [phase |-> "idle", clear |-> FALSE]
        /\ clock = 0 /\ turns = 0 /\ reloads = 0

-----------------------------------------------------------------------------
(* Requests.  Only an await lets another request run.                      *)

Running(r) == \A u \in Requests \ {r} : pc[u] \in {"idle", "classifying"}

\* The rule engine matches: its target, without the classifier.
AskTrivial(r, s) ==
    /\ pc[r] = "idle" /\ Running(r)
    /\ turns < MaxTurns
    /\ turns' = turns + 1
    /\ job' = [job EXCEPT ![r] = NewJob(s, routing.policy, None, rules)]
    /\ pc' = [pc EXCEPT ![r] = "selecting"]
    /\ UNCHANGED <<answer, resolverVars, configVars, clock, reloads>>

\* The fallback is read before the classifier is awaited.
Ask(r, s) ==
    /\ pc[r] = "idle" /\ Running(r)
    /\ turns < MaxTurns
    /\ turns' = turns + 1
    /\ job' = [job EXCEPT ![r] = NewJob(s, "per_turn", routing.fallback, None)]
    /\ pc' = [pc EXCEPT ![r] = "classifying"]
    /\ UNCHANGED <<answer, resolverVars, configVars, clock, reloads>>

Classified(r, score) ==
    /\ pc[r] = "classifying" /\ Running(r)
    /\ job' = [job EXCEPT ![r].score = score, ![r].policy = routing.policy]
    /\ pc' = [pc EXCEPT ![r] = "selecting"]
    /\ UNCHANGED <<answer, resolverVars, configVars, clock, bounds>>

\* Timeout, error, or no classifier at all.
ClassifierFailed(r) ==
    /\ pc[r] = "classifying" /\ Running(r)
    /\ job' = [job EXCEPT ![r].model = job[r].fallback, ![r].policy = routing.policy]
    /\ pc' = [pc EXCEPT ![r] = "selecting"]
    /\ UNCHANGED <<answer, resolverVars, configVars, clock, bounds>>

Proposals(r) ==
    IF job[r].model # None THEN {job[r].model}
    ELSE Resolved(resolver.tiers, resolver.strategy, resolver.fallback,
                  counter, job[r].score)

\* Applies the session policy under per_turn too.
WrongSelect(r) ==
    /\ pc[r] = "selecting"
    /\ \E m \in Proposals(r) :
          /\ job' = [job EXCEPT ![r].model = m, ![r].stamp = clock]
          /\ pc' = [pc EXCEPT ![r] = "applying"]
    /\ UNCHANGED <<answer, counter, resolver, locks, configVars, clock, bounds>>

\* The table is read without the lock; without a session, or under per_turn,
\* that is the answer.
Select(r) ==
    /\ pc[r] = "selecting"
    /\ \E m \in Proposals(r) :
          IF job[r].session = NoSession \/ job[r].policy = "per_turn"
          THEN /\ answer' = m
               /\ pc' = [pc EXCEPT ![r] = "idle"]
               /\ job' = [job EXCEPT ![r] = NoJob]
          ELSE /\ job' = [job EXCEPT ![r].model = m, ![r].stamp = clock]
               /\ pc' = [pc EXCEPT ![r] = "applying"]
               /\ UNCHANGED answer
    /\ counter' = IF job[r].model # None THEN counter
                  ELSE Counted(resolver.tiers, resolver.strategy, counter, job[r].score)
    /\ UNCHANGED <<resolver, locks, configVars, clock, bounds>>

\* Without its first disjunct a request repeats the model and moves on.
CanEscalate(previous, m, score) ==
    \/ m = previous.model
    \/ score # NoScore /\ (previous.score = NoScore \/ score >= previous.score)

\* The lock after a request at time now that proposes m.
NextLock(previous, policy, m, now) ==
    LET score == TierScore(resolver.tiers, m) IN
    IF /\ previous # NoLock /\ previous.expires > now
       /\ policy = "sticky" \/ ~CanEscalate(previous, m, score)
    THEN [previous EXCEPT !.expires = now + resolver.ttl]
    ELSE [model |-> m, score |-> score, expires |-> now + resolver.ttl]

Apply(r) ==
    LET s == job[r].session
        lock == NextLock(locks[s], job[r].policy, job[r].model, job[r].stamp)
    IN  /\ pc[r] = "applying"
        /\ reload.phase # "locked"
        /\ locks' = [locks EXCEPT ![s] = lock]
        /\ answer' = lock.model
        /\ pc' = [pc EXCEPT ![r] = "idle"]
        /\ job' = [job EXCEPT ![r] = NoJob]
        /\ UNCHANGED <<resolver, counter, configVars, clock, bounds>>

ClearSession(s) ==
    /\ reload.phase # "locked"
    /\ locks[s] # NoLock
    /\ locks' = [locks EXCEPT ![s] = NoLock]
    /\ UNCHANGED <<requestVars, resolver, counter, configVars, clock, bounds>>

-----------------------------------------------------------------------------
(* _on_routing_table_updated() in the timer thread.                        *)

Publish(c) ==
    /\ reload.phase = "idle"
    /\ reloads < MaxReloads
    /\ reloads' = reloads + 1
    /\ routing' = c
    /\ reload' = [phase |-> "published", clear |-> routing.policy # c.policy]
    /\ UNCHANGED <<requestVars, resolverVars, rules, clock, turns>>

AssignTiers ==
    /\ reload.phase = "published"
    /\ reload' = [reload EXCEPT !.phase = "locked"]
    /\ resolver' = [resolver EXCEPT !.tiers = routing.tiers]
    /\ UNCHANGED <<requestVars, counter, locks, routing, rules, clock, bounds>>

\* Keeps the scores of the old table.
WrongUpdateLocks ==
    /\ reload.phase = "locked"
    /\ reload' = [reload EXCEPT !.phase = "unlocked"]
    /\ resolver' = [resolver EXCEPT !.strategy = routing.strategy,
                                    !.fallback = routing.fallback,
                                    !.ttl = routing.ttl]
    /\ locks' = [s \in Sessions |->
                   IF reload.clear \/ locks[s] = NoLock THEN NoLock
                   ELSE [locks[s] EXCEPT !.expires = clock + routing.ttl]]
    /\ UNCHANGED <<requestVars, counter, routing, rules, clock, bounds>>

\* The new period of a lock ends when it starts.
WrongPeriod ==
    /\ reload.phase = "locked"
    /\ reload' = [reload EXCEPT !.phase = "unlocked"]
    /\ resolver' = [resolver EXCEPT !.strategy = routing.strategy,
                                    !.fallback = routing.fallback,
                                    !.ttl = routing.ttl]
    /\ locks' = [s \in Sessions |->
                   IF reload.clear \/ locks[s] = NoLock THEN NoLock
                   ELSE [locks[s] EXCEPT
                           !.score = TierScore(resolver.tiers, locks[s].model),
                           !.expires = clock]]
    /\ UNCHANGED <<requestVars, counter, routing, rules, clock, bounds>>

\* Every lock is scored by the new table and starts a new period.
UpdateLocks ==
    /\ reload.phase = "locked"
    /\ reload' = [reload EXCEPT !.phase = "unlocked"]
    /\ resolver' = [resolver EXCEPT !.strategy = routing.strategy,
                                    !.fallback = routing.fallback,
                                    !.ttl = routing.ttl]
    /\ locks' = [s \in Sessions |->
                   IF reload.clear \/ locks[s] = NoLock THEN NoLock
                   ELSE [locks[s] EXCEPT
                           !.score = TierScore(resolver.tiers, locks[s].model),
                           !.expires = clock + routing.ttl]]
    /\ UNCHANGED <<requestVars, counter, routing, rules, clock, bounds>>

UpdateRules ==
    /\ reload.phase = "unlocked"
    /\ reload' = [reload EXCEPT !.phase = "idle"]
    /\ rules' = routing.trivial
    /\ UNCHANGED <<requestVars, resolverVars, routing, clock, bounds>>

Tick ==
    /\ clock < MaxClock
    /\ clock' = clock + 1
    /\ UNCHANGED <<requestVars, resolverVars, configVars, bounds>>

-----------------------------------------------------------------------------
RequestStep(r) ==
    \/ \E s \in Sessions \cup {NoSession} : AskTrivial(r, s) \/ Ask(r, s)
    \/ \E score \in Scores : Classified(r, score)
    \/ ClassifierFailed(r)
    \/ Select(r)
    \/ Apply(r)

ReloadStep ==
    \/ \E c \in Configs : Publish(c)
    \/ AssignTiers
    \/ UpdateLocks
    \/ UpdateRules

Next ==
    \/ \E r \in Requests : RequestStep(r)
    \/ \E s \in Sessions : ClearSession(s)
    \/ ReloadStep
    \/ Tick

Spec == Init /\ [][Next]_vars
=============================================================================
