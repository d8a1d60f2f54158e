\* Every file of up to five lines; two lines fit into the cache.
SPECIFICATION FairSpec
CONSTANTS
    tick = tick
    MaxLines = 5
    Files <- MCFiles
    Saves <- MCSaves
    BufferSize = 3
INVARIANTS TypeOK RewritesSection
PROPERTY Terminates
CHECK_DEADLOCK FALSE
