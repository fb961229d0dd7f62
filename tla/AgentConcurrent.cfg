CONSTANTS
    c1 = c1
    NoSession = NoSession
    NoOrder = NoOrder
    Turns = {t1, t2}
    Sessions = {s1}
    Addresses = {a1}
    CustomerOf <- SameCustomer
    Items = {i1}
    MaxRetries = 0
    MaxMessages = 5
    Faults = {"crash", "expiry"}
SPECIFICATION Spec
SYMMETRY TurnSymmetry
INVARIANTS
    SavedSessionsResume
    NoEmptyPromise
    RefundFollowsLabel
PROPERTIES
    ActionsAreAuthorised
    TicketsAreExplained
CHECK_DEADLOCK FALSE
