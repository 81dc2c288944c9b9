-------------------------- MODULE MCSessionRouting --------------------------
EXTENDS SessionHistory

CONSTANTS weak, strong, gone

Row(m, lo, hi, cost, score) ==
    [name |-> m, model |-> m, lo |-> lo, hi |-> hi, cost |-> cost, score |-> score]

\* Overlapping tiers; the second table swaps their order and drops one.
TableA == <<Row(weak, 0, 1, 1, 1), Row(gone, 1, 1, 2, 2), Row(strong, 1, 1, 3, 3)>>
TableB == <<Row(strong, 0, 1, 1, 1), Row(weak, 1, 1, 3, 3)>>

Config(policy, strategy, tiers, ttl) ==
    [policy |-> policy, strategy |-> strategy, fallback |-> gone, ttl |-> ttl,
     trivial |-> weak, tiers |-> tiers]

MCConfigs == {Config("sticky", "lowest_cost", TableA, 2),
              Config("sticky", "random", TableB, 1),
              Config("escalate_only", "round_robin", TableA, 2),
              Config("escalate_only", "highest_capability", TableB, 2),
              Config("per_turn", "lowest_cost", TableA, 2)}
=============================================================================
