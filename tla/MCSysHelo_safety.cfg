\* Services may fail; three commands, two applications; values do not matter.
SPECIFICATION MCSpec
CONSTANTS
    main = main
    ipc = ipc
    NoThread = NoThread
    NoFile = NoFile
    tick = tick
    QLaunch = QLaunch
    NoProgram = NoProgram
    Programs = {game, album}
    ServicesFail = TRUE
    MaxRequests = 3
    MaxLaunches = 2
    MaxEdits = 0
    NsPerMs = 2
    Keys = {tick}
    SignBit = 1
    DefaultValue <- MCOneDefault
    Requests <- MCOneRequest
    Files <- MCOneFile
    Stamps = {1, 2, 3}
    Faults = {}
INVARIANTS TypeOK NoUseAfterFree RequestsOutliveStart CommandsAfterLoad AppIdWasForeground
PROPERTY ContextAnswersAreWhole
