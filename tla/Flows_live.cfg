SPECIFICATION LiveSpec
CONSTANTS
    f1 = f1
    f2 = f2
    f3 = f3
    boss = boss
    other = other
    NoFlow = NoFlow
    Owner = owner
    FlowIds = {f1, f2}
    Trigger <- LiveTrigger
    Steps <- LiveSteps
    Holders = {boss}
    Deepest = 3
    Every = 1
    MaxActs = 1
    MaxTime = 2
    MaxCrashes = 0
    MaxRuns = 4
    Hazards = {"race", "byhand", "fail"}
CHECK_DEADLOCK FALSE
INVARIANTS
    OnTheirWay
PROPERTIES
    GoesOn
