\* The clients of all projects.  Both processes may have ended, or the producer has sent the
\* last message of the bound and the consumer waits for more: the system may really stop.
CONSTANTS
    Pairs <- AllPairs
    Resets = {"latest", "earliest"}
    MaxMessages = 3
    MaxPoll = 2
    QueueLimit = 1
    MaxFails = 1
    MaxErrs = 1
    MaxSignals = 1
    MaxCrashes = 1
    MaxStarts = 2
SPECIFICATION Spec
INVARIANT TypeOK SkipBound LoggedAgain CommittedAtEnd NothingLeft
PROPERTY SignalEnds
CHECK_DEADLOCK FALSE
