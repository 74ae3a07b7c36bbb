\* A topic with more than TOTAL_RECORDS records.  Benchmarks = {"c"} shows the race of the workers,
\* {"rust", "go"} the clock that main reads.
CONSTANTS
    w1 = w1
    w2 = w2
    Workers <- TwoWorkers
    Benchmarks = {"rust", "go", "c"}
    LoadModes = {FALSE}
    Leftovers = {6}
    TotalRecords = 4
    FlushAt = 2
    QueueLimit = 6
    MaxFaults = 0
SPECIFICATION Spec
INVARIANT TimerFirst
