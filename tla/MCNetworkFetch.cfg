CONSTANTS
    r1 = r1  r2 = r2  r3 = r3  r4 = r4  r5 = r5
    Relays = {r1, r2, r3, r4}
    Self = r2
    Rank <- MCRank
    NoPeer = NoPeer
    Data = "json"
    MaxChanges = 0
SPECIFICATION Spec
INVARIANT FetchRetrieves
CHECK_DEADLOCK FALSE
