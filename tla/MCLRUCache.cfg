CONSTANTS
    k1 = k1  k2 = k2  k3 = k3  small = small  medium = medium  large = large
    Keys = {k1, k2, k3}
    Data = {small, medium, large}
    SizeOf <- MCSizeOf
    NoData = NoData
    TTLs = {0, 1}
    Capacity = 3
    MaxNow = 2
SPECIFICATION Spec
INVARIANTS TypeOK InStep NeverOutdated WorkingSetKept
SYMMETRY Symmetry
CHECK_DEADLOCK FALSE
