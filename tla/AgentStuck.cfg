CONSTANTS
    c1 = c1
    NoSession = NoSession
    NoOrder = NoOrder
    Turns = {t1}
    Sessions = {s1}
    Addresses = {a1}
    CustomerOf <- SameCustomer
    Items = {i1}
    MaxRetries = 0
    MaxMessages = 8
    Faults = {}
SPECIFICATION ExchangesSpec
INVARIANT
    StuckCasesEscalate
CHECK_DEADLOCK FALSE
