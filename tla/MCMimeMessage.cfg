SPECIFICATION Spec
INVARIANTS
    FreedOnce
    ReleasedAtEnd
    HeadersAsGiven
