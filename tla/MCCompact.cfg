CONSTANTS
    PoolWords = 24
    HeaderWords = 7
    CardWords = 4
    Types = {root, type}
    Plain = {a, b, c, d}
    Root = root
    TypeSize <- Sizes
SYMMETRY Alike
SPECIFICATION Spec
INVARIANTS
    ObjectsIntact
    HeapParses
    CardsRight
PROPERTIES
    NoGarbageLeft
