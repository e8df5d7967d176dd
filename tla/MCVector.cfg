CONSTANTS
    Ids = {u1, u2}
    Starts <- InTurnOrRacing
    MaxRequests = 5
    MaxAddr = 40

SPECIFICATION Spec

INVARIANTS
    TypeOK
    NothingLostInTurn
    NoFaultInTurn
    FinishInBuffer

PROPERTIES
    ImplementsQueue
