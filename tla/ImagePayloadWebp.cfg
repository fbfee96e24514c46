SPECIFICATION Spec
CONSTANTS
    None = None
    MaxImages = 2
    MaxText = 1
    FileLists <- SomeFileLists
    Bodies <- SomeBodies
INVARIANT AcceptsWellFormed
