SPECIFICATION Spec
CONSTANTS
    ann = ann
    bob = bob
    eve = eve
    q1 = q1
    q2 = q2
    q3 = q3
    Values = {ann, bob, eve}
    Requests = {q1, q2, q3}
    Prompts <- Mixed
    MaskerRedis = TRUE
    Faults = {"read", "store", "merge", "restore", "expire_request", "expire_session"}
    MaxFaults = 2
    MaxActive = 2
    MaxNumber = 6
SYMMETRY Symmetry
INVARIANTS NeverForeign AllRestored RequestOneToOne SessionOneToOne
CHECK_DEADLOCK FALSE
