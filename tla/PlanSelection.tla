---------------------------- MODULE PlanSelection ----------------------------
(***************************************************************************)
(* How a plan is made: router/capability_profiles.py scores and filters    *)
(* the models, router/template_plan_generator.py and                       *)
(* router/agent_plan_generator.py choose one for each agent.  The agent    *)
(* plug-in's flat list of agents is a configuration with one template.     *)
(* Amounts are integers: prices, context lengths and results of benchmarks *)
(* in units of their range's hundredth part, weights and scores in         *)
(* percent, and the three benchmarks are one.                              *)
(***************************************************************************)
EXTENDS Integers, Sequences, Functions

CONSTANTS
    Unknown,    \* a benchmark that models.yaml does not give
    NoOverride  \* an agent without override_model

\* What the configuration's types guarantee.
IsModel(x) ==
    /\ x.available \in BOOLEAN /\ x.cost \in Int /\ x.context \in Int
    /\ x.benchmark \in Int \cup {Unknown}

IsProfile(p) ==
    /\ p.weights.cost \in Int /\ p.weights.context \in Int /\ p.weights.benchmark \in Int
    /\ p.threshold \in Int /\ p.maxCost \in Int /\ p.minContext \in Int

WellFormed(c) ==
    /\ c.models \in Seq(Range(c.models)) /\ \A x \in Range(c.models) : IsModel(x)
    /\ \A name \in DOMAIN c.profiles : IsProfile(c.profiles[name])
    /\ \A t \in DOMAIN c.templates : c.templates[t] \in Seq(Range(c.templates[t]))

-----------------------------------------------------------------------------
Clamp(x, low, high) == IF x < low THEN low ELSE IF x > high THEN high ELSE x

Normalize(value) == IF value = Unknown THEN 50 ELSE Clamp(value, 0, 100)

Score(model, profile) ==
    LET w == profile.weights
    IN  Clamp(  w.cost * (100 - Normalize(model.cost))
              + w.context * Normalize(model.context)
              + w.benchmark * Normalize(model.benchmark), 0, 10000)

\* The threshold alone.
WrongMeets(model, profile) == Score(model, profile) >= profile.threshold

\* The hard constraints.
Meets(model, profile) ==
    /\ model.available
    /\ model.cost <= profile.maxCost
    /\ model.context >= profile.minContext
    /\ Score(model, profile) >= profile.threshold

\* The first of a stable sort by falling score among the positions in S.
First(models, profile, S) ==
    CHOOSE i \in S : \A j \in S \ {i} :
        LET a == Score(models[i], profile)
            b == Score(models[j], profile)
        IN  a > b \/ (a = b /\ i < j)

\* Position of the best model; a preferred one goes before the others.
SelectBest(models, profile, candidates) ==
    LET preferred == {i \in candidates : models[i].name \in profile.prefer}
    IN  First(models, profile, IF preferred # {} THEN preferred ELSE candidates)

ProfileName(c, name) == IF name \in DOMAIN c.profiles THEN name ELSE "medium"

\* The generator finds every profile; otherwise it raises a KeyError.  Without
\* models it is not called.
Generates(c) ==
    c.models # <<>> =>
      \A t \in DOMAIN c.templates : \A i \in DOMAIN c.templates[t] :
        LET agent == c.templates[t][i]
        IN  agent.override = NoOverride =>
                ProfileName(c, agent.profile) \in DOMAIN c.profiles

\* _select_model() for one agent.
SelectModel(c, agent) ==
    IF agent.override # NoOverride THEN agent.override
    ELSE LET profile == c.profiles[ProfileName(c, agent.profile)]
             candidates == {i \in DOMAIN c.models : Meets(c.models[i], profile)}
         IN  IF candidates = {} THEN c.fallback
             ELSE c.models[SelectBest(c.models, profile, candidates)].name

\* The agents of the configuration, each with its template.
Keys(c) ==
    UNION {{<<t, c.templates[t][i].name>> : i \in DOMAIN c.templates[t]} :
              t \in DOMAIN c.templates}

\* generate_all(): a later agent of the same name replaces an earlier one.
LastNamed(agents, name) ==
    CHOOSE i \in DOMAIN agents :
        agents[i].name = name /\ \A j \in DOMAIN agents : agents[j].name = name => j <= i

Plan(c) ==
    IF c.models = <<>> THEN [key \in {} |-> c.fallback]
    ELSE [key \in Keys(c) |->
            LET agents == c.templates[key[1]]
            IN  SelectModel(c, agents[LastNamed(agents, key[2])])]
=============================================================================
