CONSTANTS
    p1 = p1  m1 = m1  m2 = m2  m3 = m3  x1 = x1  x2 = x2  x3 = x3  x4 = x4
    Peers = {p1}
    Bodies = {m1, m2, m3}
    Ids = {1, 2, 3}
    NoId = 0
    IdOf <- MCIdOf
    Readers = {loop, h1}
    Loop = loop
    loop = loop  h1 = h1
    ToOf <- MCToOf
    NoBody = NoBody
    Arrays = {x1, x2, x3, x4}
    NilArray = NilArray
    NoPeer = NoPeer
    TTL = 1
    MaxRetry = 1
    MaxNow = 1
    MaxFaults = 0
SPECIFICATION DSpec
INVARIANT RoundDeliversAll
SYMMETRY Symmetry
CHECK_DEADLOCK FALSE
