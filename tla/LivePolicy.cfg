CONSTANTS
    complaints = complaints
    returns = returns
    Files <- TheFiles
    NoFile = NoFile
    NameOf <- TheNames
    Facts <- TheFacts
    Contents <- TheContents
    Articles = {a1}
    Jobs = {j1, j2}
    Movable <- TheMovable
    PolicyNames <- NamesInOrder
    Stated <- TheStatements
    Bundled <- TheBundled
    Samples <- TheSamples
SPECIFICATION FairSpec
INVARIANTS
    TypeOK
    DocumentsDoNotMix
    CleanSyncsAreWhole
    OnePolicyAtATime
    PolicyIsCurrent
    ComplaintsFareBetter
    DecisionsAreMonotone
PROPERTIES
    SyncsEnd
CHECK_DEADLOCK FALSE
