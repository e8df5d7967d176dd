CONSTANTS
    Rssi = {r1}
    Places = {p1, p2}
    Null = Null
    Names = {n1}
    MaxUsers = 2
    MaxLocations = 0
    MaxGuides = 2

SPECIFICATION Spec

INVARIANTS
    GuidesConserved

PROPERTIES
    ImplementsGuides
