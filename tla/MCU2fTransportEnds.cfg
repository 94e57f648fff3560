CONSTANTS
    a = a
    b = b
    Clients = {a}
    Broadcast = 3
    InitData = 1
    ContData = 2
    MaxConts = 2
    Lengths = {5}
SPECIFICATION TSpec
PROPERTY TransactionEnds
