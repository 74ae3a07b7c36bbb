\* Two workers of a group, a partition that moves between them, two faults, a rebalance and a
\* restart.  All workers may have ended, or wait for more records: the system may stop.
CONSTANTS
    w1 = w1
    w2 = w2
    p1 = p1
    NoOne = NoOne
    Workers <- TwoWorkers
    Partitions <- OnePartition
    Apps = {"java", "scala", "ruby"}
    Logs <- ThreeRecords
    MaxRecords = 3
    MaxPoll = 2
    MaxFaults = 2
    MaxRebalances = 1
    MaxStarts = 1
SPECIFICATION Spec
INVARIANT TypeOK LostBound TwiceBound
PROPERTY Progress
CHECK_DEADLOCK FALSE
