SPECIFICATION OrderlySpec
CONSTANTS
    Sessions = {s1, s2}
    Usernames = {n1, n2}
    Phones = {p1, p2}
    Passwords = {w1, w2}
    NoPhone = NoPhone
    NoName = NoName
    NoPassword = NoPassword
    Validity = 1
    MaxUsers = 2
    MaxOtps = 3
    MaxClock = 2
SYMMETRY Alike
INVARIANTS
    NewestOtpIsValid
PROPERTIES
    ImplementsAccountBook
CHECK_DEADLOCK FALSE
