SPECIFICATION Spec
CONSTANTS
    Digests = {d1, d2}
    Parts = {drive, share}
    LateParts = {share}
    Admins = {admin}
    Server = server
    MaxTime = 3
    KeepDays = 1
    UnfinishedAfter = 1
    Looked = 2
    IndexCache = 16
    Hazards = {"overlap"}
    MaxFaults = 1
SYMMETRY Interchangeable
CHECK_DEADLOCK FALSE
INVARIANT Complete
