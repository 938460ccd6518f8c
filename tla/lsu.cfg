SPECIFICATION FairSpec
CONSTANTS
    Setups <- MCSetups
    PageSize = 2
    LineSize = 2
    TLBEntries = 1
    MMULatency = 1
    DCacheLines = 1
    MSHREntries = 1
    QueueSize = 3
    ReplayBufferSize = 3
    ReplayIssueDelay = 2
INVARIANTS
    EntriesExact
    MemoryOrder
    NobodyForgotten
PROPERTIES
    AssertionsHold
    TraceCompletes
