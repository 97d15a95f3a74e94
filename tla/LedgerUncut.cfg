SPECIFICATION UncutSpec
CONSTANTS
    s1 = s1
    s2 = s2
    s3 = s3
    m1 = m1
    m2 = m2
    Sessions = {s1, s2}
    Merchants = {m1}
    LoggedInAs <- OneMerchant
    MaxCustomers = 1
    MaxTxns = 1
    Amounts = {1, 2}
    MaxDrift = 2
SYMMETRY SessionsAlike
INVARIANTS
    QuietBooksBalance
CHECK_DEADLOCK FALSE
