SPECIFICATION Spec
CONSTANTS
    ClockWait = 2
    PowerWait = 3
    MaxTime = 9
    MaxHeld = 3
INVARIANTS
    ReadingsAreRecent
    ApmIsCounted
