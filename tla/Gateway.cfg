CONSTANTS
    customer = customer
    Inbox = Inbox
    Widgets = {w1}
    LastMail = 3
    LastChat = 2
    NoSession = NoSession
    NoSender = NoSender
    SenderOf <- TheSenders
SPECIFICATION FairSpec
INVARIANTS
    TypeOK
    OverlapNeedsHaste
    ForkNeedsHaste
PROPERTIES
    HandedOverOnce
    MailsKeepOrder
    SettledForGood
    EveryMailIsRead
CHECK_DEADLOCK FALSE
