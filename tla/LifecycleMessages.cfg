SPECIFICATION LifecycleSpec
CONSTANTS
    r1 = r1
    r2 = r2
    Requests = {r1}
    Prompts <- SomePrompts
    Mode = "strict"
    HasRedis = TRUE
    MaxChanges = 1
    Plugin = "transaction"
    MaxRetries = 1
INVARIANT AnnouncedBypass
CHECK_DEADLOCK FALSE
