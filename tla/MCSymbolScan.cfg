SPECIFICATION SymbolSpec
CONSTANTS
    BbPeriod = 3
    BbMult = 1
    BbDdof = 1
    MaxOvershoot = 4
    MinBody = 1
    AtrPeriod = 2
    TrendPeriod = 3
    VolumePeriod = 2
    ReturnPeriod = 2
    RegimeShort = 2
    RegimeLong = 3
    MinRowsSma20 = 3
    MinRowsSma50 = 5
    MinRowsSma200 = 6
    NaN = NaN
    MinRows = 4
    MaxBars = 6
    Candles <- Bars
    Gaps = {2}
    Benchmarks <- Indexes
    Filters <- Switches
    MaxAtr = 15
INVARIANT StudyFindsScannedSignals
INVARIANT SignalsScored
PROPERTY NoLookAhead
CHECK_DEADLOCK FALSE
