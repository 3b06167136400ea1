SPECIFICATION FairSpec
CONSTANTS
    Threads = 2
    NonceSpace = 2
    Seeds = {1, 2}
    JobIds = {7}
    SeedsReturn = TRUE
    NativeLoop = TRUE
    VerifyShares = TRUE
    Faults = {}
    MaxJobs = 2
    MaxNonce = 2
INVARIANTS HashesAllCounted NoDuplicateShare
PROPERTY StopReturns
