SPECIFICATION Spec
CONSTANTS
    Threads = 2
    NonceSpace = 4
    Seeds = {1, 2}
    JobIds = {7}
    SeedsReturn = FALSE
    NativeLoop = TRUE
    VerifyShares = TRUE
    Faults = {"loop"}
    MaxJobs = 2
    MaxNonce = 1
INVARIANT GeneratedOncePerSeed
