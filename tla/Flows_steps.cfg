SPECIFICATION Spec
CONSTANTS
    f1 = f1
    f2 = f2
    f3 = f3
    boss = boss
    other = other
    NoFlow = NoFlow
    Owner = owner
    FlowIds = {f1, f2, f3}
    Trigger <- RingTrigger
    Steps <- RingSteps
    Holders = {boss, other}
    Deepest = 3
    Every = 1
    MaxActs = 0
    MaxTime = 1
    MaxCrashes = 1
    MaxRuns = 4
    Hazards = {"crash"}
CHECK_DEADLOCK FALSE
SYMMETRY Bosses
INVARIANTS
    TypeOK
    InTurn
    OnlyIfAnswered
    ChainsStop
    FromLastRun
