SPECIFICATION Spec
CONSTANTS
    Amounts = {300, 2000}
    Waits = {31}
    MaxTxns = 4
    MaxDay = 62
INVARIANTS
    TypeOK
    FactorsFillTheScale
    SettledIsNoRisk
    StoredScoreIsOptimistic
PROPERTIES
    PaymentNeverLowersScore
    WorseAmountNeverRaisesScore
CHECK_DEADLOCK FALSE
