CONSTANTS
    s1 = s1
    s2 = s2
    Names = {u1}
    NoName = noName
    Null = Null
    Guests = {g1}
    Sessions <- MCSessions
    MaxLogins = 2
    Garbage = {1}
    MaxPath = 2
    MaxRows = 2

SPECIFICATION Spec
SYMMETRY SymmetricSessions

INVARIANTS
    TypeOK
    PathsWhole
    NewestPathLast
    HistoryIsOwn

PROPERTY
    OnlyOwnDeleted
