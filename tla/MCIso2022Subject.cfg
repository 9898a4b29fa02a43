SPECIFICATION Spec
CONSTANTS
    Sources <- MCSources
INVARIANTS
    LinesFit
    SubjectDecodes
    WordsAreClosed
