CONSTANTS
    p1 = p1  p2 = p2  m1 = m1  m2 = m2
    Peers = {p1, p2}
    Bodies = {m1, m2}
    Ids = {1, 2}
    NoId = 0
    IdOf <- MCIdOf
    Readers = {1}
    Arrays = {x1, x2, x3, x4, x5}
    x1 = x1  x2 = x2  x3 = x3  x4 = x4  x5 = x5
    NilArray = NilArray
    NoPeer = NoPeer
    TTL = 1
    MaxRetry = 1
    MaxNow = 1
    MaxFaults = 1
SPECIFICATION Spec
INVARIANTS TypeOK HeapOK SavedWhenUnlocked PeekedReadable
PROPERTIES ImplementsStoreForward
SYMMETRY Symmetry
CHECK_DEADLOCK FALSE
