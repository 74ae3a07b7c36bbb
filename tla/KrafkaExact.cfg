\* Benchmark: the loaded topic holds exactly TOTAL_RECORDS values.
CONSTANTS
    w1 = w1
    w2 = w2
    None = None
    Workers <- TwoWorkers
    Log <- LoadedLog
    TotalRecords = 5
    Window = 2
    FlushAt = 2
    EmptyLimit = 3
    Preloaded = TRUE
    Fragile = {}
    MaxSlow = 2
    MaxErrs = 0
    MaxFails = 0
SPECIFICATION Spec
INVARIANT TypeOK Conservation CounterExact DrainedAtEnd TimerCoversWork
PROPERTY TimerSetOnce SentInOrder ImplementsStreamSum
