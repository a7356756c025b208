SPECIFICATION FairSpec
CONSTANTS
    Digests = {d1, d2}
    Parts = {drive, share}
    LateParts = {share}
    Admins = {admin}
    Server = server
    MaxTime = 2
    KeepDays = 0
    UnfinishedAfter = 1
    Looked = 2
    IndexCache = 16
    Hazards = {"put", "delete", "unstable"}
    MaxFaults = 1
CHECK_DEADLOCK FALSE
INVARIANT NoOrphans
PROPERTY AllEnds
