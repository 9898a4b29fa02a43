SPECIFICATION SessionSpec
CONSTANTS
    Mechanisms <- MCMechanisms
    FlagItems <- SomeFlags
    AuthNames <- MCAuthNames
INVARIANTS
    ChannelAsConfigured
    CertErrorOnlyThen
    EsmtpMatchesGreeting
    SuccessMeansAuthenticated
    AutoTriedAll
    SessionReport
    CredentialsHidden
PROPERTIES
    SessionIsOver
