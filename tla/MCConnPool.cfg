CONSTANTS
    Handlers = {h1, h2, h3}
    maxSize = 2
    MaxCreated = 4

SYMMETRY HandlerSymmetry

SPECIFICATION Spec

INVARIANTS
    TypeOK
    CurSizeIsRight
    OneOwner
