SPECIFICATION FairSpec
CONSTANTS
    t1 = t1
    t2 = t2
    t3 = t3
    Threads = {t1, t2}
    Main = t1
    Breakable = {"models", "routing", "templates", "agents"}
    Overlap = FALSE
    TornTake = FALSE
    SlowStart = FALSE
    MaxEarly = 2
    MaxEdits = 2
    Ungenerated <- Unmatched
INVARIANTS LoaderTypeOK Converges OwnFilesConverge RouterConsistent
PROPERTIES NeverBackwards EditsArrive
CHECK_DEADLOCK FALSE
