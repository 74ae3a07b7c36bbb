\* A topic with more than TOTAL_RECORDS records.  Benchmarks = {"go"} shows results that wait when
\* main exits, {"rust"} with MaxFaults = 0 results that are dropped, {"rust"} or {"java"} with
\* MaxFaults = 2 a report of workers that have all failed.
CONSTANTS
    w1 = w1
    w2 = w2
    Workers <- TwoWorkers
    Benchmarks = {"rust", "go", "java"}
    LoadModes = {TRUE, FALSE}
    Leftovers = {6}
    TotalRecords = 4
    FlushAt = 2
    QueueLimit = 6
    MaxFaults = 2
SPECIFICATION Spec
INVARIANT ProducedAtReport
CHECK_DEADLOCK FALSE
