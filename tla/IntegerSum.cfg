\* Every processor, complete payloads and payloads short of up to two bytes.
CONSTANTS
    Width = 6
    Group = 2
    Processors = {"krafka", "rust", "go", "c", "java"}
    Lists <- AllLists
    MaxCut = 2
SPECIFICATION Spec
INVARIANT TypeOK ListSummed TruncationDetected ResultExact
PROPERTY ReadingEnds
