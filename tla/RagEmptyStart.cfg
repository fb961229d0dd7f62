CONSTANTS
    complaints = complaints
    returns = returns
    Files <- TheFiles
    NoFile = NoFile
    NameOf <- TheNames
    Facts <- TheFacts
    Contents <- TheContents
    Articles = {a1}
    Jobs = {j1}
    Movable = {}
    PolicyNames <- NamesInOrder
    Stated <- TheStatements
    Bundled <- TheBundled
    Samples <- TheSamples
SPECIFICATION Spec
PROPERTY
    EmptyStartIsFatal
CHECK_DEADLOCK FALSE
