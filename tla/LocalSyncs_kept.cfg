SPECIFICATION FairSpec
CONSTANTS
    f1 = f1
    f2 = f2
    n1 = n1
    n2 = n2
    p1 = p1
    p2 = p2
    Folders = {f1, f2}
    Names = {n1}
    Under = {}
    Places = {p1, p2}
    Into <- IntoOwn
    Sizes = {"small", "huge"}
    MaxRows = 2
    MaxEdits = 2
    MaxActs = 1
    MaxFaults = 1
    Hazards = {}
INVARIANTS
    TypeOK
    StaleShows
PROPERTIES
    UpToDate
    TakesOnlyGone
    
    Mirrored
