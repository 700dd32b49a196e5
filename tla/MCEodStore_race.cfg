SPECIFICATION Spec
CONSTANTS
    Writers = {w1, w2}
    Readers = {}
    Symbols = {A}
    Bars = {b1}
    MaxDate = 2
    FirstDay = 1
    YearOf <- YearEnd
    MaxFrame = 2
    NseDates = {1}
    YahooDates = {1, 2}
    AsOfDates = {}
    YfBasis = "ADJUSTED"
    NoProcess = NoProcess
INVARIANT NoLostUpdate
INVARIANT AckedRowsStored
SYMMETRY WriterSymmetry
