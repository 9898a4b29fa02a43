SPECIFICATION Spec
CONSTANTS
    Mechanisms <- MCMechanisms
    FlagItems <- DefaultFlags
    AuthNames <- AutoOnly
    Elements <- WithNonObject
    MaxMessages = 2
INVARIANTS
    MailOutsideTransaction
