CONSTANTS
    REC_COUNT = 2
    MaxCalls = 3
    MaxChanges = 2
SPECIFICATION FairSpec
CHECK_DEADLOCK FALSE
INVARIANTS JumpsIntoCode RingsShowTheLatest
PROPERTIES CallsAreTransparent RestoreUndoes CallsComeBack
