SPECIFICATION Spec
CONSTANTS
    Mechanisms <- MCMechanisms
    FlagItems <- DefaultFlags
    AuthNames <- AutoOnly
    Elements <- WithBadContentType
    MaxMessages = 1
INVARIANTS
    SuccessMeansSentInFull
