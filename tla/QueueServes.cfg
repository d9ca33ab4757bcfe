SPECIFICATION Spec
CONSTANTS
    None = None
    Workers = {w1}
    Messages <- ThreeMessages
    Queues <- OneQueue
    QueueOf <- ThreeKinds
    RetryCount <- ThreeCounts
    Malformed <- SecondMalformed
    Prefetch <- MCPrefetch
    MaxStarts = 2
    Cap = 1
PROPERTIES
    LetGo
    StopsCleanly
    Served
CHECK_DEADLOCK FALSE
