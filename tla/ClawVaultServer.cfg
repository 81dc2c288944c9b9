SPECIFICATION ServerSpec
CONSTANTS
    Rules = {r1, r2}
    Modes = {"strict"}
    MaxEdits = 2
INVARIANTS SteadyRulesEnforced
CHECK_DEADLOCK FALSE
