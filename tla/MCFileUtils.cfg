\* Two intervals and a half.
SPECIFICATION Spec
CONSTANTS
    main = main
    ipc = ipc
    NoThread = NoThread
    Interval = 2
    MaxClock = 5
INVARIANTS TypeOK FlagIsRecent LinesAreSerial CardOutlivesLines
