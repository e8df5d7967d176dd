CONSTANTS
    NodeNum <- MCNodeNum
    EdgeLines <- MCEdgeLines
    Position <- MCPosition
    Places <- MCPlaces

SPECIFICATION Spec

INVARIANTS
    TypeOK
    NodesOnce
    ParentsAreSettled
    NeverSelectsNull
    PathIsShortest
    PathIsWalk

PROPERTIES
    SearchEnds
