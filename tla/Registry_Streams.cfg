CONSTANTS
    StreamIds = {a, b}
    NoId = NoId
    MaxStarts = 3
    Polite = FALSE
SPECIFICATION RegistrySpec
INVARIANTS
    RegistryTypeOK
    NoDanglingEntry
    ReplacedIsKept
    SendsWhereAsked
    InUseNotDestroyed
CHECK_DEADLOCK FALSE
