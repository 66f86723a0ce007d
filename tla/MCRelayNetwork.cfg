CONSTANTS
    r1 = r1  r2 = r2  r3 = r3  r4 = r4  r5 = r5
    Relays = {r1, r2, r3, r4, r5}
    Self = r2
    Rank <- MCRank
    NoPeer = NoPeer
    Data = "json"
    MaxChanges = 2
SPECIFICATION Spec
INVARIANTS TypeOK RingMovesFew
CHECK_DEADLOCK FALSE
