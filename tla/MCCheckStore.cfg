CONSTANTS
    Goal = Goal
    Locations = {race, pickup}
    MaxEvents = 4
    MaxStarts = 3
SPECIFICATION FairSpec
CHECK_DEADLOCK FALSE
INVARIANTS SentMarkIsTrue MemoryIsDurable
PROPERTIES DesiredNeverShrinks NewChecksArrive
