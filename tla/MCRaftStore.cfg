CONSTANTS
    n1 = n1  n2 = n2  k1 = k1  k2 = k2  v = v  w = w  x = x
    Nodes = {n1, n2}
    Keys = {k1}
    Values = {v, w, x}
    Inputs = {v, x}
    Decoded <- MCDecoded
    NoJSON = NoJSON
    NoValue = NoValue
    NoNode = NoNode
    NoCopy = NoCopy
    MaxCalls = 2
SPECIFICATION FairSpec
INVARIANTS TypeOK StateIsLog ReadYourWrites
PROPERTIES CallsEnd
CHECK_DEADLOCK FALSE
