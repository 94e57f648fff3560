CONSTANTS
    a = a
    b = b
    Clients = {a, b}
    Broadcast = 3
    InitData = 1
    ContData = 2
    MaxConts = 2
    Lengths = {0, 5, 6}
SPECIFICATION TSpec
SYMMETRY Symmetry
INVARIANTS TTypeOK WholeMessages EveryMessageAnswered
