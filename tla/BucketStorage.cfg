SPECIFICATION Spec
CONSTANTS
    None = None
    Names <- SomeNames
    Directories <- SomeDirectories
    Contents = {x, y}
    Requests = {r1, r2}
SYMMETRY Alike
INVARIANTS TypeOK BucketBeforeUse PublicInTheEnd MoveKeepsContent ListIsRegular
