SPECIFICATION FairSpec
CONSTANTS
    Runs = {r0, r1, r2}
    First = r0
    FirstMembers <- Before1
    LastStamp = 3
    Lists <- TwoLists
    Files <- SecurityFiles
    IndexFiles <- IndexLists
    Lookback = 0
    IndexUrls = 2
    MinCount = 2
    MaxCount = 3
    ElevatedPct = 2
    AlertPct = 60
INVARIANT FunnelSound
INVARIANT HistoryEntriesWhole
INVARIANT DriftIsFromPredecessor
INVARIANT LatestIsNewestEntry
PROPERTY EntriesNeverChange
PROPERTY RunsFinish
CHECK_DEADLOCK FALSE
