SPECIFICATION Spec
CONSTANTS
    Wallets = {w1}
    Requests = {1, 2}
    Amounts = {2}
    MaxAddMoney = 2
    MaxBalance = 6
    OpeningBalance = 2
    Opening <- MCOpening
    Nobody = Nobody
    Miss = Miss
INVARIANTS
    CacheInvalidated
