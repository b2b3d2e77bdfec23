SPECIFICATION MCSpec
CONSTANTS
    c1 = c1
    c2 = c2
    v1 = v1
    v2 = v2
    t1 = t1
    Null = Null
    Titles = {t1}
    Videos = {v1, v2}
    Callers <- TwoCallers
    Times <- TwoTimes
    Submissions <- BothSources
    Broadcasts <- OneBroadcast
    OfflineConfirmationCount = 2
    MaxAttempts = 2
    MaxVersion = 5
    MaxEpoch = 2
    MaxMoment = 2
SYMMETRY Symmetry
INVARIANTS SnapshotConsistent VersionIdentifiesState
PROPERTIES AcceptedInOrder OfflineConfirmed SessionStable ImplementsRegister
