SPECIFICATION SafeSpec
CONSTANTS
    b1 = b1
    b2 = b2
    w1 = w1
    off = off
    on = on
    Null = Null
    Shown <- OffOn
    Idle <- JustIdle
    Times <- OneTime
    Writers <- NoWriter
    Sockets <- OneBrowser
    Coalesces = TRUE
    QueueCapacity = 2
    MaxVersion <- Two
    MaxEpoch = 1
PROPERTIES SeedIsCanonical
