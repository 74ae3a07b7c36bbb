\* Not a benchmark: records arrive while workers run, one payload is truncated, one worker
\* may fail to start, polls and sends fail.
CONSTANTS
    w1 = w1
    w2 = w2
    None = None
    Workers <- TwoWorkers
    Log <- TruncatedLog
    TotalRecords = 3
    Window = 1
    FlushAt = 2
    EmptyLimit = 2
    Preloaded = FALSE
    Fragile = {w1}
    MaxSlow = 0
    MaxErrs = 1
    MaxFails = 1
SPECIFICATION Spec
INVARIANT AccountedAtReport Backpressure
PROPERTY Terminates
