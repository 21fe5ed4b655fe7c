CONSTANTS
    Vehicles = {0, 1}
    MaxConfigs = 4
SPECIFICATION GateSpec
PROPERTIES PurchasesFollowConfigs
