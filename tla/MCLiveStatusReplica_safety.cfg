SPECIFICATION SafeSpec
CONSTANTS
    b1 = b1
    b2 = b2
    w1 = w1
    off = off
    on = on
    Null = Null
    Shown <- OffOn
    Idle <- JustIdle
    Times <- TwoTimes
    Writers <- OneWriter
    Sockets <- OneBrowser
    Coalesces = TRUE
    QueueCapacity = 1
    MaxVersion <- ThreeThenNone
    MaxEpoch = 2
INVARIANTS SubscribersCurrent PendingArmed
PROPERTIES NeverBackwards
