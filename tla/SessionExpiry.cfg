\* A reload after a lock has expired.
CONSTANTS
    r1 = r1
    r2 = r2
    Requests = {r1, r2}
    s1 = s1
    Sessions = {s1}
    NoSession = NoSession
    weak = weak
    strong = strong
    gone = gone
    Models = {weak, strong, gone}
    None = None
    Scores = {1, 2}
    Configs <- MCConfigs
    MaxTurns = 3
    MaxReloads = 1
    MaxClock = 2
SPECIFICATION HSpec
PROPERTIES
    ReloadKeepsOnlyValidLocks
CHECK_DEADLOCK FALSE
