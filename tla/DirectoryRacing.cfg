SPECIFICATION Spec
CONSTANTS
    s1 = s1
    s2 = s2
    s3 = s3
    m1 = m1
    m2 = m2
    p1 = p1
    p2 = p2
    Sessions = {s1, s2, s3}
    Merchants = {m1, m2}
    LoggedInAs <- TwoMerchants
    Phones = {p1, p2}
    Pins = {pin1}
    Blank = Blank
    NoPin = NoPin
    Files <- OneFile
    MaxCustomers = 2
SYMMETRY Alike
INVARIANTS
    TypeOK
    DuplicatesOverlapped
    ImportCoversFile
PROPERTIES
    PortalStaysOpen
CHECK_DEADLOCK FALSE
