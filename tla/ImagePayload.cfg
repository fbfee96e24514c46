SPECIFICATION Spec
CONSTANTS
    None = None
    MaxImages = 2
    MaxText = 1
    FileLists <- SomeFileLists
    Bodies <- SomeBodies
INVARIANTS TypeOK EveryFileOnce ValidatedTwice OnlyWebpIsMisjudged RefusedForACause
