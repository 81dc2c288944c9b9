SPECIFICATION Spec
CONSTANTS
    ann = ann
    bob = bob
    eve = eve
    q1 = q1
    q2 = q2
    q3 = q3
    Values = {ann, bob, eve}
    Requests = {q1, q2, q3}
    Prompts <- OneMessage
    MaskerRedis = FALSE
    Faults = {}
    MaxFaults = 0
    MaxActive = 1
    MaxNumber = 8
INVARIANT AllRestored
CHECK_DEADLOCK FALSE
