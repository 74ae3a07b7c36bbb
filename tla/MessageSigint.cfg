\* krafka's clients.  With MaxStarts = 0 the producer is alone; RustPairs adds rust's.
CONSTANTS
    Pairs <- KrafkaPair
    Resets = {"latest"}
    MaxMessages = 2
    MaxPoll = 2
    QueueLimit = 1
    MaxFails = 0
    MaxErrs = 0
    MaxSignals = 1
    MaxCrashes = 0
    MaxStarts = 1
SPECIFICATION Spec
PROPERTY HandlesSigint
CHECK_DEADLOCK FALSE
