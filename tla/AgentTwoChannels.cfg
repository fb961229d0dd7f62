CONSTANTS
    c1 = c1
    NoSession = NoSession
    NoOrder = NoOrder
    Turns = {t1}
    Sessions = {s1, s2}
    Addresses = {a1}
    CustomerOf <- SameCustomer
    Items = {i1}
    MaxRetries = 1
    MaxMessages = 8
    Faults = {"crash"}
SPECIFICATION FairSpec
\* the counts that no action reads are left out of the states
VIEW ReadByActions
INVARIANTS
    OneUnflaggedComplaint
PROPERTIES
    RepliesGetReady
    ImplementsConversation
CHECK_DEADLOCK FALSE
