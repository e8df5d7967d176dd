CONSTANTS
    Ids = {u1}
    Starts <- Racing
    MaxRequests = 3
    MaxAddr = 12

SPECIFICATION Spec

INVARIANTS
    NothingLost
