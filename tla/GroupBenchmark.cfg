\* All five benchmarks, with and without the load, on topics that are empty or hold what an
\* older run has left.  All of python's workers may have died while main sleeps, and a load
\* may have lost records, so the system may really stop.
CONSTANTS
    w1 = w1
    w2 = w2
    Workers <- TwoWorkers
    Benchmarks = {"rust", "go", "c", "python", "java"}
    LoadModes = {TRUE, FALSE}
    Leftovers = {0, 4}
    TotalRecords = 4
    FlushAt = 2
    QueueLimit = 2
    MaxFaults = 2
SPECIFICATION Spec
INVARIANT TypeOK LoadComplete CountedOnce AccountedAtReport TimedAtReport
PROPERTY Terminates
CHECK_DEADLOCK FALSE
