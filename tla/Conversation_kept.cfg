SPECIFICATION FairSpec
CONSTANTS
    Lines = {l1, l2}
    MaxTime = 1
    MaxWrites = 3
    MaxAsks = 2
    Hazards = {"stamp", "own", "overtake", "missed", "gap", "revive"}
INVARIANTS
    TypeOK
    
    NoGhosts

    
CHECK_DEADLOCK FALSE
