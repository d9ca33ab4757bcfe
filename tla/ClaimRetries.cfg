SPECIFICATION Spec
CONSTANTS
    None = None
    Workers = {w1}
    Messages <- OneMessage
    Queues <- OneQueue
    QueueOf <- OneKind
    RetryCount <- OneCount
    Malformed <- AllReadable
    Prefetch <- MCPrefetch
    MaxStarts = 1
    Cap = 4
INVARIANT
    DeadAfterRetries
CHECK_DEADLOCK FALSE
