SPECIFICATION MCSpec
CONSTANTS
    b1 = b1
    b2 = b2
    w1 = w1
    off = off
    on = on
    Null = Null
    Shown <- OffOn
    Idle <- JustIdle
    Times <- OneTime
    Writers <- NoWriter
    Sockets <- OneBrowser
    Coalesces = TRUE
    QueueCapacity = 1
    MaxVersion <- TwoEach
    MaxEpoch = 2
    Nobody = Nobody
    Gone = Gone
    Workers = {v1, v2}
    Lease = 9
    RenewalInterval = 3
    RetryInterval = 1
    MaxLate = 1
    Faults = {"redis", "process", "key"}
    MaxFaults = 3
INVARIANT Exclusive
PROPERTIES ReplacementSafe WorkersConverge LeadersProceed
