SPECIFICATION Spec
CONSTANTS
    Sources <- MCSources
    AddressLengths <- MCAddressLengths
INVARIANTS
    TypeOK
    WordsStandAlone
    EveryCharacterKept
    FoldsFollowWords
