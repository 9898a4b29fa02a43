SPECIFICATION Spec
CONSTANTS
    Sources <- MCSources
    AddressLengths <- SomeAddresses
INVARIANTS
    EncodedWordsFit
    HeaderLinesFit
    CharactersWhole
    EveryCharacterKept
    InOrder
    AddressCutExactly
