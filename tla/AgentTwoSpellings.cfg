CONSTANTS
    c1 = c1
    NoSession = NoSession
    NoOrder = NoOrder
    Turns = {t1}
    Sessions = {s1, s2}
    Addresses = {a1, a2}
    CustomerOf <- SameCustomer
    Items = {i1}
    MaxRetries = 0
    MaxMessages = 8
    Faults = {}
SPECIFICATION Spec
INVARIANT
    RepeatsAreFlagged
CHECK_DEADLOCK FALSE
