CONSTANTS
    Routes = {1}
    Cities = {0, 1}
    Prize = 1
    Amount = 1
    MaxMoves = 2
    MaxFloor = 3
SPECIFICATION WatcherSpec
PROPERTIES PollReportsMoves SpendingIsExact OnlyNewProgressFires
