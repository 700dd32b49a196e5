SPECIFICATION Spec
CONSTANTS
    A = A
    B = B
    None = None
    NoDate <- None
    Defaults <- BuiltIn
    Cooldown = 2
    TrainMonths = 12
    TestMonths = 6
    Requests <- Invocations
    Histories <- Stores
    Sectors <- SectorColumn
    Horizons = {1, 2}
    MinRows = 3
INVARIANT CooldownIsTradingRows
CHECK_DEADLOCK FALSE
