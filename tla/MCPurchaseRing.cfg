CONSTANTS
    REC_COUNT = 2
    MaxPurchases = 3
    MaxInstalls = 1
SPECIFICATION FairSpec
CHECK_DEADLOCK FALSE
INVARIANTS RepeatsOnlyWhenUpset
PROPERTIES UndisturbedDrainIsExact NewestIsYielded
