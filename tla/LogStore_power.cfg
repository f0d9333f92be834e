CONSTANTS
    a = a
    b = b
    Logs = {0, 1, 2}
    Flashed = {0, 1}
    OneBank = {1}
    LOG_SECORNUM <- PowerSize
    sectmax <- PowerSectors
    Targets = {0}
    Tasks = {a}
    TaskOf <- PowerWriter
    Boot = Boot
    FLT = FLT
    None = None
    Skipped = {0}
    CutIn = {}
    MaxRecords <- PowerRecords
    MaxTotal = 4
    MaxHanded = 1
    MaxCuts = 2
SPECIFICATION Spec
INVARIANTS TypeOK StoreHolds UnreadRight
PROPERTY StartsUp
