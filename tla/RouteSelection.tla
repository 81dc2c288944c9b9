--------------------------- MODULE RouteSelection ---------------------------
(***************************************************************************)
(* router/route_resolver.py, the part without sessions: which model the    *)
(* routing table proposes for a score.  A table is a sequence of tiers     *)
(*   [name, model, lo, hi, cost, score]                                    *)
(* built by router/model_scorer.py; scores are scaled to integers.         *)
(***************************************************************************)
EXTENDS Integers, Sequences, FiniteSets

Strategies == {"lowest_cost", "highest_capability", "round_robin", "random"}

\* None, for a model that is in no tier.  Scores of tiers are not negative.
NoScore == -1

\* The score of the first tier a model names, by its own name or by LiteLLM's.
TierScore(tiers, m) ==
    LET named == {i \in DOMAIN tiers : m \in {tiers[i].name, tiers[i].model}}
        scores == {tiers[i].score : i \in {j \in named : \A k \in named : j <= k}}
    IN  IF scores = {} THEN NoScore ELSE CHOOSE score \in scores : TRUE

\* The positions of the tiers whose range covers the score, both ends included.
Candidates(tiers, score) ==
    {i \in DOMAIN tiers : tiers[i].lo <= score /\ score <= tiers[i].hi}

\* min() and max() return the first of equal candidates.
Preferred(tiers, cs, strategy, counter, i) ==
    \/ cs = {i}
    \/ /\ strategy = "lowest_cost"
       /\ \A j \in cs \ {i} : \/ tiers[i].cost < tiers[j].cost
                            \/ (tiers[i].cost = tiers[j].cost /\ i < j)
    \/ /\ strategy = "highest_capability"
       /\ \A j \in cs \ {i} : \/ tiers[i].score > tiers[j].score
                            \/ (tiers[i].score = tiers[j].score /\ i < j)
    \/ /\ strategy = "round_robin"
       /\ Cardinality({j \in cs : j < i}) = counter % Cardinality(cs)
    \/ strategy = "random"

\* The models the resolver may answer with: one, but for "random".
Resolved(tiers, strategy, fallback, counter, score) ==
    LET cs == Candidates(tiers, score) IN
    IF cs = {} THEN {fallback}
    ELSE {tiers[i].model : i \in {j \in cs : Preferred(tiers, cs, strategy, counter, j)}}

\* The round-robin counter moves only when there is something to choose.
Counted(tiers, strategy, counter, score) ==
    IF strategy = "round_robin" /\ Cardinality(Candidates(tiers, score)) > 1
    THEN counter + 1 ELSE counter
=============================================================================
