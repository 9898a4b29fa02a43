SPECIFICATION Spec
CONSTANTS
    Messages <- MCMessages
    OtherNames = {"koi8-r"}
INVARIANTS
    TypeOK
    BodyAsPromised
    SevenBit
    LinesEndInAscii
    LineEndsWhole
