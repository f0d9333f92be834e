CONSTANTS
    a = a
    b = b
    Logs = {0, 1, 2}
    Flashed = {0, 1}
    OneBank = {1}
    LOG_SECORNUM <- TasksSize
    sectmax <- TasksSectors
    Targets = {0}
    Tasks = {a, b}
    TaskOf <- TasksWriter
    Boot = Boot
    FLT = FLT
    None = None
    Skipped = {0}
    CutIn = {}
    MaxRecords <- TasksRecords
    MaxTotal = 6
    MaxHanded = 2
    MaxCuts = 0
SPECIFICATION Spec
INVARIANTS StoreHolds HandedInOrder
PROPERTIES BankAtRest WaitsEnd
