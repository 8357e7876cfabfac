SPECIFICATION MCSpec
CONSTANTS
    k1 = k1
    k2 = k2
    alice = alice
    bob = bob
    stranger = stranger
    Users <- MCUsers
    Keys <- MCKeys
    Attempts = {a1, a2, a3}
    Payments <- MCPayments
    TransferLimit = 4
    CashbackFrom = 4
    Faults = {}
    MaxBalance = 8
    OpeningBalance = 4
    Opening <- MCOpening
    NoRow = NoRow
    Unnamed = Unnamed
    FailureThreshold = 3
    SuccessThreshold = 2
    RecoveryTimeout = 0
INVARIANTS
    RefundedMeansRefunded
