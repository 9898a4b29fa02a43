SPECIFICATION Spec
CONSTANTS
    Sources <- QSources
INVARIANTS
    QEncoded
