CONSTANTS
    Interfaces <- AllInterfaces
    Copies = {0, 1}
    Nil = Nil
SPECIFICATION Spec
INVARIANTS
    OneOwner
    HeldOnlyWhileNeeded
PROPERTIES
    NothingIsLost
    FailureIsFinal
CHECK_DEADLOCK FALSE
