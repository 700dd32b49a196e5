SPECIFICATION Spec
CONSTANTS
    Inputs <- Lists
    InitialCapital = 20
    MaxPositions = 2
    MaxSectorPct = 60
    MaxExposurePct = 90
    Profile <- Costs
    GstPct = 18
    NaN = NaN
    NoPrice <- NaN
INVARIANT BooksBalance
INVARIANT CandidatesAccountedFor
INVARIANT MetricsDescribeRun
PROPERTY FillsWithinLimits
CHECK_DEADLOCK FALSE
