\* The administrator deletes only when nothing runs, removals are not cut
\* short, no file changes under its upload; runs may fail in every other way.
SPECIFICATION Spec
CONSTANTS
    Digests = {d1, d2}
    Parts = {drive}
    LateParts = {}
    Admins = {admin}
    Server = server
    MaxTime = 4
    KeepDays = 1
    UnfinishedAfter = 1
    Looked = 2
    IndexCache = 16
    Hazards = {"put", "lost", "crash"}
    MaxFaults = 2
SYMMETRY Interchangeable
INVARIANTS TypeOK Whole
PROPERTIES SweepTakesAged FinishedFrozen
CHECK_DEADLOCK FALSE
