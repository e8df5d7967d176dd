CONSTANTS
    Clients <- MCClients
    Pieces = 2
    Lengths = {0, 2, 3}
    MaxMsgs = 2
    Rounds <- MCRounds
    PipeFails = {2}
    CLIENTNUM = 2
    BufferLines = 1

SPECIFICATION Spec

INVARIANTS
    TypeOK
    WholeMessagesAreHandled
    OnlyCutClientsDie
    ResultsCountedOnce

PROPERTIES
    MessagesHandled
    ClientsEnd
    ParentEnds
