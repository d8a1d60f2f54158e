\* Every file of up to five lines, and every value of up to four characters.
SPECIFICATION PutSpec
CONSTANTS
    None = None
    MaxLines = 5
    MaxChars = 4
    Files = {}
    Saves = {}
    BufferSize = 3
    PutFiles <- MCPutFiles
    Settings <- MCSettings
    Values <- MCValues
    Numbers <- MCNumbers
    LineSize = 9
INVARIANTS EditsOneKey PutIsGot EnumerationIsBrowse
PROPERTY PutAdvances
