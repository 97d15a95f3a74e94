SPECIFICATION DeskSpec
CONSTANTS
    s1 = s1
    s2 = s2
    m1 = m1
    Sessions = {s1, s2}
    Merchants = {m1}
    LoggedInAs <- OneMerchant
    MaxCustomers = 1
    MaxTxns = 2
    Amounts = {1}
CONSTRAINT ShortLog
SYMMETRY SessionsAlike
INVARIANTS
    DeskTypeOK
    ReceiptAddsUp
    NothingVanishes
    NothingUnlogged
CHECK_DEADLOCK FALSE
