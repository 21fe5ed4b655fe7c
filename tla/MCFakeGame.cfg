CONSTANTS
    ItemName <- MCItemName
    LocationName <- MCLocationName
    GateTable <- MCGateTable
    Goal <- MCGoal
    Price <- MCPrice
    Grants <- MCGrants
    SlotItem = "Progressive Garage Slot"
    BaseSlots = 1
    SlotCap = 2
    LogoLocations <- MCLogoLocations
    Tiers <- MCTiers
    TiersRandomized = FALSE
    Cities = {"san_diego", "atlanta"}
    StartCity = "san_diego"
    Events = {"kou"}
    Vehicles = {"tc", "is300"}
    Logos = {"logo"}
    Abilities = {"zone"}
    Parts = {"turbo", "nitrous"}
    Prices = {300}
    MaxItems = 2
    MaxSpending = 1
SPECIFICATION Spec
INVARIANTS GatesAgree GarageIsExact TravelStaysLegal
PROPERTIES NothingTakenBack
