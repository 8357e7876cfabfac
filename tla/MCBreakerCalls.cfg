SPECIFICATION FairSpec
CONSTANTS
    Calls = {c1, c2, c3}
    FailureThreshold = 3
    SuccessThreshold = 2
    RecoveryTimeout = 3
    CallTimeout = 2
INVARIANTS
    TypeOK
    OnlyProbesCount
PROPERTIES
    NeverClosesUntested
    RecoveryIsTested
    CircuitCloses
