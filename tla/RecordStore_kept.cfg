SPECIFICATION Spec
CONSTANTS
    Cards = {1}
    Boards = {b1, b2}
    FirstBoard = b1
    Stages = {s1}
    NoStage = none
    Clients = {c1, c2}
    HomeOf <- AllInFirst
    MaxWrites = 3
    Hazards = {"cards", "boards", "stages", "expire"}
SYMMETRY Interchangeable
CHECK_DEADLOCK FALSE
INVARIANT TypeOK NothingLost LinksReach
 
