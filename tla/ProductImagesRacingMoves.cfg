SPECIFICATION Spec
CONSTANTS
    i1 = i1  i2 = i2  i3 = i3  i4 = i4  i5 = i5
    r1 = r1  r2 = r2  r3 = r3
    None = None
    ImageIds = {i1, i2}
    Requests = {r1, r2}
    MaxImages = 2
    Payloads <- RacePayloads
    InitialRows <- OneLive
    Faults = {}
INVARIANT NoImageLost
CHECK_DEADLOCK FALSE
