SPECIFICATION Spec
CONSTANTS
    c1 = c1
    c2 = c2
    s1 = s1
    m1 = m1
    m2 = m2
    Merchants = {m1, m2}
    Customers = {c1, c2}
    OwnerOf <- TwoOwners
    Sessions = {s1}
    LoggedInAs <- OneMerchant
    Schedulers = {j1}
    Nobody = Nobody
    MaxBalance = 1
    MaxRuns = 2
    MaxMonth = 1
INVARIANTS
    TypeOK
    OneMessagePerRun
    ReturnedRunCoversAll
    LogBoundsMessages
CHECK_DEADLOCK FALSE
