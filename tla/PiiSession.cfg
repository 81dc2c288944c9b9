SPECIFICATION Spec
CONSTANTS
    ann = ann
    bob = bob
    eve = eve
    q1 = q1
    q2 = q2
    q3 = q3
    Values = {ann, bob, eve}
    Requests = {q1, q2, q3}
    Prompts <- OneMessage
    MaskerRedis = TRUE
    Faults = {}
    MaxFaults = 0
    MaxActive = 2
    MaxNumber = 8
INVARIANT AlwaysOneToOneInSession
CHECK_DEADLOCK FALSE
