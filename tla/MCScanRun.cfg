SPECIFICATION Spec
CONSTANTS
    Universe <- ThreeSymbols
    Expected = 3
    BarDates <- LastBars
    Holidays <- MidweekHoliday
    MaxLook = 2
    PriceBases = {"RAW", "BLENDED"}
    ProviderBasis = "RAW"
    RedOneIn = 2
    YellowOneIn = 3
INVARIANT EveryMemberAccountedFor
INVARIANT SignalsAreCurrent
INVARIANT HealthReflectsRows
INVARIANT BasisCoversSignals
CHECK_DEADLOCK FALSE
