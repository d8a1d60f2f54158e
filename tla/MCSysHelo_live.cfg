\* Services do not fail; two commands, an application, an edit of the file.
SPECIFICATION MCFairSpec
CONSTANTS
    main = main
    ipc = ipc
    NoThread = NoThread
    NoFile = NoFile
    tick = tick
    QLaunch = QLaunch
    NoProgram = NoProgram
    Programs = {game}
    ServicesFail = FALSE
    MaxRequests = 2
    MaxLaunches = 1
    MaxEdits = 1
    NsPerMs = 2
    Keys = {tick}
    SignBit = 8
    DefaultValue <- MCDefaultValue
    Requests <- MCRequests
    Files <- MCFiles
    Stamps = {1, 2, 3}
    Faults = {"edit"}
PROPERTIES ExitEnds CommandsAreAnswered ContextCatchesUp FileIsLoaded TickPaces
