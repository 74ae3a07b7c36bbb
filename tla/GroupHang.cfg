\* A load of TOTAL_RECORDS records into an empty topic, through a queue that fills.  Benchmarks
\* = {"go"} shows counts that are never published, {"c"} a load that loses records.
CONSTANTS
    w1 = w1
    w2 = w2
    Workers <- TwoWorkers
    Benchmarks = {"rust", "go", "c"}
    LoadModes = {TRUE}
    Leftovers = {0}
    TotalRecords = 4
    FlushAt = 2
    QueueLimit = 2
    MaxFaults = 0
SPECIFICATION Spec
PROPERTY TerminatesOnExactLoad
CHECK_DEADLOCK FALSE
