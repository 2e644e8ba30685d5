CONSTANTS
    Calls = {c1, c2, c3, c4}
    MaxConcurrency = 2
    MaxQueue = 1
SPECIFICATION FairSpec
INVARIANT SlotsAccounted
PROPERTIES WakesInOrder WaitersServed
