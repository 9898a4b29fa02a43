SPECIFICATION SessionSpec
CONSTANTS
    Mechanisms <- FewMechanisms
    FlagItems <- SomeFlags
    AuthNames <- FewNames
INVARIANTS
    HeloOnlyWhenAllowed
