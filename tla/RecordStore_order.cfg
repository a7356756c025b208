SPECIFICATION Spec
CONSTANTS
    Cards = {1, 2, 3}
    Boards = {b1, b2}
    FirstBoard = b1
    Stages = {}
    NoStage = none
    Clients = {c1}
    HomeOf <- AllInFirst
    MaxWrites = 2
    Hazards = {"cards", "boards", "expire"}
SYMMETRY Interchangeable
CHECK_DEADLOCK FALSE
INVARIANT Positions HistoryWhole
PROPERTY InOrder
