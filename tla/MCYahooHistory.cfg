SPECIFICATION Spec
CONSTANTS
    NoFrame = NoFrame
    Universes <- Members
    Overrides <- OverrideTable
    Index = "INDEX"
    Names = {"INDEX", "RESOLVED"}
    Sent <- RowsSent
    Cutoffs = {2, 9}
    NoCutoff = 9
    BatchSize = 2
    MaxRetries = 1
    MinRowsPrimary = 2
INVARIANT CoverageAddsUp
INVARIANT HistoryAsSent
INVARIANT BenchmarkWithinCutoff
CHECK_DEADLOCK FALSE
