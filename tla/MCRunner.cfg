CONSTANTS
    cash = cash
    permit = permit
    race = race
    Items <- MCItems
    Price <- MCPrice
    Locations = {race}
    MaxGrants = 3
    MaxStarts = 2
SPECIFICATION FairSpec
CHECK_DEADLOCK FALSE
INVARIANTS InventoryIsPrefix GrantedOnceUnlessSkipped SessionChecksAccounted
PROPERTIES DeliverySpec AnnouncedItemsArrive ChecksArrive
