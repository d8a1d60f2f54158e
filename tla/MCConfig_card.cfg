\* Two threads, two keys and an outside writer; the process may crash.
SPECIFICATION Spec
CONSTANTS
    main = main
    ipc = ipc
    tick = tick
    other = other
    NoThread = NoThread
    NoFile = NoFile
    Threads = {main, ipc}
    Keys = {tick, other}
    SignBit = 2
    DefaultValue <- MCDefaultValue
    Requests <- MCFewRequests
    Files <- MCFiles
    Stamps = {1, 2, 3}
    Faults = {"edit", "crash"}
INVARIANTS StaleIsNoticed SaveIsDurable CrashSafe
