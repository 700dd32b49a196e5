SPECIFICATION Spec
CONSTANTS
    Writers = {w1}
    Readers = {r1}
    Symbols = {A}
    Bars = {b1}
    MaxDate = 2
    FirstDay = 2
    YearOf <- YearEnd
    MaxFrame = 1
    NseDates = {1, 2}
    YahooDates = {1, 2}
    AsOfDates = {}
    YfBasis = "ADJUSTED"
    NoProcess = NoProcess
INVARIANT BasisReflectsReturned
