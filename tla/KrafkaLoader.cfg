\* Both modes, two partitions: an acknowledgement or request is lost, a send fails.
CONSTANTS
    p1 = p1
    p2 = p2
    Partitions <- TwoPartitions
    Total = 4
    Window = 2
    MaxLost = 1
    MaxErrs = 1
SPECIFICATION Spec
INVARIANT TypeOK FreshAndReady WindowBound InSequence PushOrder LoadedOnce
PROPERTY Finishes
