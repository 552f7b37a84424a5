SPECIFICATION AuthoringSpec
CONSTANTS
    AuthoredOps <- MCOps
    Calls <- MCCalls
    StoredBytes <- MCBytes
    MaxOps = 2
    MaxFlags = 5
INVARIANTS
    HashPinsThePattern
    PreimageExactlyFits
    OpsSurviveStorage
    FlagsSurvivePacking
CHECK_DEADLOCK FALSE
