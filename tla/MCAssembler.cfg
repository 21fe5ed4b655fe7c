CONSTANTS
    Registers = {"t0"}
    Half = 4
    Base = 3
    Window = 2
    SearchBack = 3
    Fallback = 2
    LargestFunction = 3
    Names = {"loop"}
    Immediates <- MCImmediates
    DataAddresses = {4, 6}
    Operations = {"ori", "sw", "sb"}
    MaxLength = 4
SPECIFICATION ProgramSpec
INVARIANTS ReferencesLand EveryUseIsFound EntryRunsToTarget
