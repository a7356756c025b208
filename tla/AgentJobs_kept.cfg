SPECIFICATION FairSpec
CONSTANTS
    Names = {n1}
    Machines = {m1, m2}
    Tickets = {t1}
    MaxAgents = 2
    MaxTokens = 2
    MaxJobs = 2
    StaleAfter = 1
    MaxFaults = 1
    Hazards = {}
INVARIANTS
    TypeOK
    RunOnce
PROPERTIES
    Implements
    Ended
CHECK_DEADLOCK FALSE
