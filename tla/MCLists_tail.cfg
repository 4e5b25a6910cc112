CONSTANTS
    Lists = {k, l}
    Nodes = {1, 2, 3, 4}
    Elements = {a, b}
    Null = Null
SPECIFICATION ListSpec
PROPERTIES
    PushAppends
CHECK_DEADLOCK FALSE
