SPECIFICATION CaptureSpec
CONSTANTS
    Size = 6
    Chunk = 2
    Cap = 1
    Profiles = {2, 3}
    Fallback = 5
    Free <- MCFree
    Values = {0, 5000}
    Names = {"unlocked-1", "unlocked-2", "locked-1"}
    Prefix <- MCPrefix
    Ranges <- MCRanges
    Regions <- MCRegions
    Labels = {"a", "b"}
    GarageSlots <- MCGarageSlots
    Heard <- MCHeard
    FreeRoam = 5000
    Over = 5000
    MaxChanges = 2
    DiffRows = 1
    TopRows = 1
    Heap = {3}
    Statics = {1, 3}
    Snaps = 3
    MaxWrites <- MCMaxWrites
    MaxFails = 1
    MaxRuns <- MCMaxRuns
INVARIANTS ComparisonIsReal SnapshotRowsAreReal SeriesIsComplete
PROPERTIES LogsCatchUp
CHECK_DEADLOCK FALSE
