\* One thread and a card whose operations may fail.
SPECIFICATION Spec
CONSTANTS
    main = main
    ipc = ipc
    tick = tick
    other = other
    NoThread = NoThread
    NoFile = NoFile
    Threads = {ipc}
    Keys = {tick}
    SignBit = 2
    DefaultValue <- MCDefaultValue
    Requests <- MCRequests
    Files <- MCFewFiles
    Stamps = {1, 2, 3}
    Faults = {"io"}
INVARIANTS ApplyOnlyAfterSave
