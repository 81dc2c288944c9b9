---------------------------- MODULE MCPlanDispatch ----------------------------
EXTENDS PlanDispatch, TLC

CONSTANTS r1, r2, large, small, local, other

Entry(name, available, cost, context, benchmark) ==
    [name |-> name, available |-> available, cost |-> cost, context |-> context,
     benchmark |-> benchmark]

Weights(cost, context, benchmark) ==
    [cost |-> cost, context |-> context, benchmark |-> benchmark]

Medium == [weights |-> Weights(40, 10, 50), threshold |-> 3000, maxCost |-> 50,
           minContext |-> 0, prefer |-> {}]
Heavy == [weights |-> Weights(0, 20, 80), threshold |-> 7000, maxCost |-> 100,
          minContext |-> 20, prefer |-> {}]
Coding == [Medium EXCEPT !.prefer = {local}]

Pool == << Entry(large, TRUE, 60, 90, 95), Entry(small, TRUE, 10, 40, 60),
           Entry(local, TRUE, 0, 10, Unknown) >>

Agent(name, profile, override) ==
    [name |-> name, profile |-> profile, override |-> override]

\* Two agents share a name: the later one counts.
Base ==
    [models |-> Pool,
     profiles |-> "medium" :> Medium @@ "heavy" :> Heavy @@ "coding" :> Coding,
     templates |->
        "t" :> << Agent("a", "medium", NoOverride), Agent("b", "heavy", NoOverride),
                  Agent("a", "coding", NoOverride) >>,
     fallback |-> small]

\* The strongest model is gone; nothing meets "heavy", and a profile of that
\* name is not found.
Reduced ==
    [Base EXCEPT !.models[1].available = FALSE,
                 !.templates["t"][3].profile = "unheard-of"]

\* Scores tie, an administrator decides, and the fallback model is another.
Tied ==
    [Base EXCEPT !.models[2] = Entry(small, TRUE, 60, 90, 95),
                 !.templates["t"][3].override = other, !.fallback = local]

\* No model can be chosen: the default profile is missing.
Unusable == [Reduced EXCEPT !.profiles = "heavy" :> Heavy]

\* The template has another name; there is none at all.
Renamed == [Base EXCEPT !.templates = "u" :> Base.templates["t"]]
Bare == [Base EXCEPT !.templates = [t \in {} |-> <<>>]]

\* Without models nothing is generated, and nothing can fail.
Modelless == [Unusable EXCEPT !.models = <<>>]

Symmetry == Permutations(Requests)

AllConfigurations == {Base, Reduced, Tied, Unusable, Renamed, Bare, Modelless}
NoTemplates == {Bare}
Asking == {<<"t", "a">>, <<"t", "b">>, <<"t", "c">>, <<"u", "b">>}

\* As in config/route_config.yaml, two models stand in for each other.
Standby ==
    large :> <<small, local>> @@ small :> <<large, local>> @@ local :> <<small>>
=============================================================================
