\* Two threads; everything may go wrong at any point.
SPECIFICATION Spec
CONSTANTS
    main = main
    ipc = ipc
    tick = tick
    other = other
    NoThread = NoThread
    NoFile = NoFile
    Threads = {main, ipc}
    Keys = {tick}
    SignBit = 2
    DefaultValue <- MCDefaultValue
    Requests <- MCRequests
    Files <- MCFaultFiles
    Stamps = {1, 2}
    Faults = {"edit", "sameStamp", "io", "crash"}
INVARIANT TypeOK
PROPERTY ImplementsStore
