CONSTANTS
    starting = starting
    synced = synced
    noPaths = noPaths
    somePaths = somePaths
    Keys <- MCKeys
    Paths <- MCPaths
    StartingKey <- starting
    NoPaths <- noPaths
    Clock <- MCClock
    MaxAt = 3
    MaxRuns = 2
SPECIFICATION Spec
INVARIANTS
    NoLostUpdate
    NeverAhead
    StoppedMeansReleased
    IInv
PROPERTIES
    DeliveredInOrder
    ImplementsMailbox
