SPECIFICATION FairSpec
CONSTANTS
    i1 = i1  i2 = i2  i3 = i3  i4 = i4  i5 = i5
    r1 = r1  r2 = r2  r3 = r3
    None = None
    ImageIds = {i1, i2, i3, i4}
    Requests = {r1, r2}
    MaxImages = 2
    Payloads <- RacePayloads
    InitialRows <- RaceRows
    Faults = {"storage", "thumbnail", "database", "crash"}
CONSTRAINT InOrder
INVARIANTS TypeOK ExcessBounded
PROPERTIES InsertedAfterUpload Answered MovesEnd
CHECK_DEADLOCK FALSE
