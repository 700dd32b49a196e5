SPECIFICATION FairSpec
CONSTANTS
    Writers = {w1}
    Readers = {r1}
    Symbols = {A}
    Bars = {b1}
    MaxDate = 3
    FirstDay = 3
    YearOf <- YearEnd
    MaxFrame = 2
    NseDates = {1, 2}
    YahooDates = {1, 3}
    AsOfDates = {1}
    YfBasis = "ADJUSTED"
    NoProcess = NoProcess
INVARIANT PartitionsWellFormed
INVARIANT FetchedSeriesSound
INVARIANT BasisDescribesSeries
PROPERTY AckedSessionsShown
PROPERTY ImplementsLedger
PROPERTY ReplayIgnoresLaterSessions
PROPERTY CallsReturn
