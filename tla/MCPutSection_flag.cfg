\* Files of up to two lines: an indented heading is enough.
SPECIFICATION Spec
CONSTANTS
    tick = tick
    MaxLines = 2
    Files <- MCFiles
    Saves <- MCSaves
    BufferSize = 3
INVARIANT FlagMeansHeading
CHECK_DEADLOCK FALSE
