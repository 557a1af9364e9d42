SPECIFICATION FairSpec
CONSTANTS
    PageSize = 4
    Word = 64
    MinStep = 3
    MaxStep = 9
    RatioPercent = 50
    TriggerNum = 9
    TriggerDen = 10
    InitialMapSizes <- MCInitialMapSizes
    FreeSpaces <- MCFreeSpaces
    Headrooms <- MCHeadrooms
    MapSizes <- MCMapSizes
    MaxAlloc = 2
    None = None
INVARIANT UsedFitsMap
PROPERTIES HeadroomChecked ResizeGrows PanicOnlyOnOverflow ResizeTerminates
CHECK_DEADLOCK FALSE
