\* Two requests of one session, two reloads among five configurations.
CONSTANTS
    r1 = r1
    r2 = r2
    Requests = {r1, r2}
    s1 = s1
    Sessions = {s1}
    NoSession = NoSession
    weak = weak
    strong = strong
    gone = gone
    Models = {weak, strong, gone}
    None = None
    Scores = {1, 2}
    Configs <- MCConfigs
    MaxTurns = 3
    MaxReloads = 2
    MaxClock = 2
SPECIFICATION HSpec
INVARIANTS TypeOK LockScores LockLasts
PROPERTIES StickyKeepsModel NeverDowngrades
\* The bounds on turns, reloads and the clock let the system stop.
CHECK_DEADLOCK FALSE
