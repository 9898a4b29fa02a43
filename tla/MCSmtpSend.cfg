SPECIFICATION Spec
CONSTANTS
    Mechanisms <- MCMechanisms
    FlagItems <- DefaultFlags
    AuthNames <- AutoOnly
    Elements <- AnyElements
    MaxMessages = 2
INVARIANTS
    SuccessMeansAccepted
    DeliveredIsReported
    InOrderOnce
    DetailsAreComplete
    NoMessageUnlessSession
    JsonReleased
    ObjectsAreReset
PROPERTIES
    CallbackTellsMessage
    EveryStepAdvances
    CommandReturns
    ImplementsSubmission
