SPECIFICATION Spec
CONSTANTS
    Workers = {w1}
    Shares = {s1}
    Beneficiaries = {user, author}
    User = user
    NoWallet = NoWallet
    MaxGeneration = 2
    MaxRequestId = 0
    MaxInbox = 1
SYMMETRY Symmetry
INVARIANT UnsentNeverSeen
