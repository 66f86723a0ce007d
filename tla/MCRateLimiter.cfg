CONSTANTS
    p1 = p1
    Peers = {p1}
    NoBucket = NoBucket
    Burst = 2
    Rate = 1
    ByteRate = 1
    ByteSizes = {1}
    MaxConns = 1
    GlobalFactor = 2
    MaxAge = 2
    MaxNow = 5
    MaxResets = 2
    MaxOpen = 2
SPECIFICATION Spec
INVARIANTS TypeOK RequestWindowBound GlobalWindowBound ByteWindowBound NoSlotLeak
CHECK_DEADLOCK FALSE
