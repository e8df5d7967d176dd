CONSTANTS
    Rssi = {r1}
    Places = {p1}
    Null = Null
    Names = {n1}
    MaxUsers = 2
    MaxLocations = 2
    MaxGuides = 1

SPECIFICATION Spec

INVARIANTS
    RecordStaysInBounds
