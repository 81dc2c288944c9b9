SPECIFICATION LifecycleSpec
CONSTANTS
    r1 = r1
    r2 = r2
    Requests = {r1, r2}
    Prompts <- SomePrompts
    Mode = "strict"
    HasRedis = TRUE
    MaxChanges = 1
    Plugin = "transaction"
    MaxRetries = 1
SYMMETRY Symmetry
INVARIANTS AnnouncedSingleBypass StrictBlocks RedisPolicy HookRuns PlaceholdersRestorable
CHECK_DEADLOCK FALSE
