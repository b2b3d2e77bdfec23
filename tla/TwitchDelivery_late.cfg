SPECIFICATION SafeSpec
CONSTANTS
    Deliveries = {d1, d2}
    MaxMessages = 2
    MaxTime = 3
    MaxAge = 1
    Processing = 2
    Replay = 3
    Tolerance = 2
    Ahead = 1
INVARIANT OwnerAlone
CHECK_DEADLOCK FALSE
