CONSTANTS
    r1 = r1
    r2 = r2
    r3 = r3
    r4 = r4
    r5 = r5
    c1 = c1
    c2 = c2
    Requests <- FiveRequests
    Clients <- TwoClients
    ClientOf <- ThreeAndTwo
SPECIFICATION Spec
INVARIANTS
    TypeOK
    OneFirst
    RepeatHasRecord
    CountIsHonest
PROPERTIES
    ImplementsRegister
CHECK_DEADLOCK FALSE
