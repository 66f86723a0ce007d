CONSTANTS
    n1 = n1  n2 = n2  n3 = n3  f1 = f1  f2 = f2  f3 = f3  c1 = c1  c2 = c2  c3 = c3
    Nodes = {n1}
    Files = {f1, f2}
    Chunks = {c1, c2, c3}
    Uploaders = {n1}
    Downloaders = {n1}
    Mute = {}
    Content <- MCContent
    Partial = Partial
    NoFile = NoFile
    NoNode = NoNode
    MaxEdits = 1
    MaxFaults = 2
SPECIFICATION Spec
INVARIANTS TypeOK ListedIsWhole
CHECK_DEADLOCK FALSE
