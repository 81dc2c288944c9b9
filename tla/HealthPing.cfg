SPECIFICATION HealthSpec
CONSTANTS
    Threads = {t1, t2}
    MaxReloads = 1
    None = None
    HasRedis = TRUE
    MaxProbes = 1
    MaxChanges = 1
INVARIANTS UpWhenAnswering
CHECK_DEADLOCK FALSE
