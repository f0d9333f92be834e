CONSTANTS
    ENTRY <- SmallEntry
    Versions = {1, 2}
    ERR_MAX = 2
    FLT_PARAM_SECTORMAX = 2
    MaxMade = 3
    MaxMishaps = 2
SPECIFICATION Spec
CHECK_DEADLOCK FALSE
INVARIANTS LostOnlyIfGivenUp ParamsInForce FlashFollows
PROPERTIES GivesUpLate UpdateEnds
