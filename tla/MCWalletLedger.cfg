SPECIFICATION MCSpec
CONSTANTS
    Wallets = {w1}
    Requests = {1, 2, 3}
    Amounts = {1, 2, 3, 4}
    MaxAddMoney = 2
    MaxBalance = 6
    OpeningBalance = 4
    Opening <- MCOpening
    Nobody = Nobody
    Miss = Miss
INVARIANTS
    TypeOK
    RunningBalance
    NeverOverdrawn
    CacheWasCommitted
    RowsFollowTransactions
    MovedAsTold
    StaleNeedsRace
PROPERTIES
    ImplementsAtomicLedger
    EveryRequestAnswered
