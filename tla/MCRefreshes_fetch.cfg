\* Two goroutines; attempts of two seconds, storing takes up to one.
SPECIFICATION FairSpec
CONSTANTS
    None = None
    Runs = {r1, r2}
    Intervals <- MCIntervals
    Nanos = 8
    Half = 32768
    Timeout = 2
    StoreTime = 1
INVARIANTS TypeOK RunsAreBounded NoPileUp PeriodAsAsked
PROPERTIES RunsEnd
