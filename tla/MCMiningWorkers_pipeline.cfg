SPECIFICATION Spec
CONSTANTS
    Threads = 1
    NonceSpace = 4
    Seeds = {1, 2}
    JobIds = {7}
    SeedsReturn = TRUE
    NativeLoop = TRUE
    VerifyShares = TRUE
    Faults = {"loop", "frame", "body"}
    MaxJobs = 3
    MaxNonce = 2
INVARIANTS ClaimsHold VerdictsAreRight
