SPECIFICATION LeaderSafeSpec
CONSTANTS
    Nobody = Nobody
    Gone = Gone
    Workers = {w1, w2}
    Lease = 9
    RenewalInterval = 3
    RetryInterval = 1
    MaxLate = 9
    Faults = {"redis", "process"}
    MaxFaults = 1
INVARIANTS Exclusive
