CONSTANTS
    r1 = r1  k1 = k1  k2 = k2
    RoomIds = {r1}
    Callers = {k1, k2}
    NoCaller = NoCaller
    Senders = {k2}
    ChanCap = 1
    SubBuffer = 1
    MaxRooms = 2
    MaxSends = 1
    MaxTexts = 2
SPECIFICATION FairSpec
INVARIANTS TypeOK InOrder SessionOrder
PROPERTIES LoopsEnd
CHECK_DEADLOCK FALSE
