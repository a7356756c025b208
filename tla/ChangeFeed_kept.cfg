SPECIFICATION FairSpec
CONSTANTS
    HELD = 2
    MaxSeq = 3
    MaxFaults = 2
    Hazards = {"early", "hello", "horizon", "restart"}
INVARIANTS
    Awake
    NothingMissed
PROPERTY
    Implements
CHECK_DEADLOCK FALSE
