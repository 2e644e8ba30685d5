CONSTANTS
    Unit = 3
    Rate = 2
    Burst = 2
    MaxTime = 8
SPECIFICATION LimiterSpec
INVARIANT RateKept
PROPERTY SteadyBucket
