SPECIFICATION CalendarSpec
CONSTANTS
    MaxLook = 4
    Window = 5
    YearLength = 10
    Days <- RunDays
    BarDays <- LastBars
    Closures <- PossibleClosures
INVARIANT AnswersAsDefined
INVARIANT StrictRunsAreOfficial
CHECK_DEADLOCK FALSE
