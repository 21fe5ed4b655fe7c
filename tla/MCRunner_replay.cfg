CONSTANTS
    cash = cash
    permit = permit
    race = race
    Items <- MCItems
    Price <- MCPrice
    Locations = {race}
    MaxGrants = 3
    MaxStarts = 1
SPECIFICATION Spec
CHECK_DEADLOCK FALSE
INVARIANT GrantedExactlyOnce
