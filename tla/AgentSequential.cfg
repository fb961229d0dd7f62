CONSTANTS
    c1 = c1
    NoSession = NoSession
    NoOrder = NoOrder
    Turns = {t1}
    Sessions = {s1}
    Addresses = {a1}
    CustomerOf <- SameCustomer
    Items = {i1}
    MaxRetries = 1
    MaxMessages = 6
    Faults = {"crash", "expiry"}
SPECIFICATION ExchangesSpec
INVARIANTS
    TypeOK
    RepetitionNeedsLoss
    LimitsEscalate
PROPERTIES
    EscalationIsFinal
    ProgressIsKept
CHECK_DEADLOCK FALSE
