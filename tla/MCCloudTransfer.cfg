CONSTANTS
    n1 = n1  n2 = n2  n3 = n3  f1 = f1  f2 = f2  f3 = f3  c1 = c1  c2 = c2  c3 = c3
    Nodes = {n1, n2, n3}
    Files = {f3}
    Chunks = {c1}
    Uploaders = {n2, n3}
    Downloaders = {n1, n2}
    Mute = {n3}
    Content <- MCContent
    Partial = Partial
    NoFile = NoFile
    NoNode = NoNode
    MaxEdits = 0
    MaxFaults = 0
SPECIFICATION FairSpec
INVARIANT DownloadFaithful
PROPERTY OperationsEnd
CHECK_DEADLOCK FALSE
