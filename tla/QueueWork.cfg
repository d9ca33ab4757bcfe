SPECIFICATION Spec
CONSTANTS
    None = None
    Workers = {w1, w2}
    Messages <- TwoMessages
    Queues <- TwoQueues
    QueueOf <- TwoKinds
    RetryCount <- TwoCounts
    Malformed <- AllReadable
    Prefetch <- MCPrefetch
    MaxStarts = 3
    Cap = 1
SYMMETRY Symmetry
INVARIANTS
    TypeOK
    LentIsHeld
PROPERTY
    KeepsPromise
CHECK_DEADLOCK FALSE
