SPECIFICATION Spec
CONSTANTS
    s1 = s1
    s2 = s2
    s3 = s3
    m1 = m1
    m2 = m2
    Sessions = {s1, s2, s3}
    Merchants = {m1, m2}
    LoggedInAs <- TwoMerchants
    MaxCustomers = 1
    MaxTxns = 1
    Amounts = {0, 1, 2}
    MaxDrift = 2
CONSTRAINT SmallBalances
SYMMETRY ColleaguesAlike
INVARIANTS
    TypeOK
    BalanceIsCreditLessPaid
PROPERTIES
    DriftHasACause
    OrphansHaveACause
    ScoresGoStaleByACause
    OwnDocumentsOnly
CHECK_DEADLOCK FALSE
