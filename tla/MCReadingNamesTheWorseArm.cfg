\* A stored cell and its live twin carry the same label.
SPECIFICATION Spec
CONSTANTS
    Tolerance = 1
    Raises = Raises
    MaxJobs = 4
    PerArm = 2
    RerunItems = 1
INVARIANT
    ReadingNamesTheWorseArm
