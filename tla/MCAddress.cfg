SPECIFICATION Spec
CONSTANTS
    Sources <- FewSources
    AddressLengths <- MCAddressLengths
INVARIANTS
    AddressIsWhole
