SPECIFICATION Spec
CONSTANTS
    Workers = {w1}
    Shares = {s1}
    Beneficiaries = {user, author}
    User = user
    NoWallet = NoWallet
    MaxGeneration = 3
    MaxRequestId = 3
    MaxInbox = 2
SYMMETRY Symmetry
INVARIANTS CountedAsAnswered CreditedWallet NoSplicedLine SettledMeansSettled JobOfLiveSession
