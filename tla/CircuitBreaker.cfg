\* settings.py: max_retries = 2
CONSTANT MaxRetries = 2
SPECIFICATION FairSpec
INVARIANTS
    TypeOK
    EffectBound
    ResultMeaning
PROPERTIES
    Returns
    ImplementsBoundedCall
\* a call that has returned stops
CHECK_DEADLOCK FALSE
