SPECIFICATION FairSpec
CONSTANTS
    Runs = {r1, r2}
    MaxDay = 2
    MaxLook = 2
    Holidays <- NoHolidays
    Blocked <- UnlistedDays
    Editions = {e1}
    HeaderOnly = HeaderOnly
INVARIANT SignalsAreOfTheirSession
INVARIANT LoneDailyScansItsSession
INVARIANT LoneRunLeavesMatchingSet
PROPERTY RunsFinish
CHECK_DEADLOCK FALSE
