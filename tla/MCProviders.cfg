SPECIFICATION MCSpec
CONSTANTS
    d1 = d1
    d2 = d2
    c1 = c1
    c2 = c2
    w1 = w1
    w2 = w2
    Deliveries <- TwoDeliveries
    MaxMessages = 2
    MaxTime = 3
    MaxAge = 1
    Processing = 2
    Replay = 3
    Tolerance = 2
    Ahead = 1
    Calls <- TwoCalls
    MaxTokens = 3
    Configurations = {"blue", "green"}
    MaxSubs = 4
    MaxLeaders = 3
    MaxFaults = 2
    Workers <- TwoWorkers
    MaxRequests = 3
    WebSubMaxTime = 6
    Reservation = 1
    Verification = 2
    Lease = 5
    Renewal = 4
    Delay <- Delays
    ConfirmationWorkers <- TwoWorkers
    MaxGates = 3
INVARIANTS AckMeansApplied OneProcessor ProvidersSafe
PROPERTIES NotAppliedAgain SubscriptionsKept ProvidersConverge
CHECK_DEADLOCK FALSE
