SPECIFICATION FairSpec
CONSTANTS
    c1 = c1
    c2 = c2
    s1 = s1
    m1 = m1
    m2 = m2
    Merchants = {m1, m2}
    Customers = {c1}
    OwnerOf <- TwoOwners
    Sessions = {s1}
    LoggedInAs <- OneMerchant
    Schedulers = {j1, j2}
    Nobody = Nobody
    MaxBalance = 1
    MaxRuns = 2
    MaxMonth = 2
INVARIANTS
    OneScheduledMessageAMonth
PROPERTIES
    EveryRunEnds
CHECK_DEADLOCK FALSE
