CONSTANTS
    cash = cash
    permit = permit
    Items <- MCItems
    Price <- MCPrice
    Locations = {race}
    MaxGrants = 4
    MaxStarts = 2
SPECIFICATION Spec
CHECK_DEADLOCK FALSE
INVARIANTS ItemsAtTheirIndex MoneyCountsEachItemOnce
PROPERTIES ItemsNeverTakenBack
