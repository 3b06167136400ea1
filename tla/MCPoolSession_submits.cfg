SPECIFICATION Spec
CONSTANTS
    Workers = {w1, w2}
    Shares = {s1, s2}
    Beneficiaries = {user, author}
    User = user
    NoWallet = NoWallet
    MaxGeneration = 2
    MaxRequestId = 0
    MaxInbox = 1
SYMMETRY Symmetry
INVARIANTS LedgerExact OwnSession PendingOnLiveStream NoOrphanReply
PROPERTY LedgerRefined
