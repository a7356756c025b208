SPECIFICATION FairSpec
CONSTANTS
    Quills = {a}
    Jobs = {a}
    Always = {1, 3}
    Once = {2}
    Bare = {}
    MaxEach = 3
    MaxActs = 3
    Widest = 1
    Hazards = {"crash"}

    
PROPERTIES
    
    KeptUp
CHECK_DEADLOCK FALSE
