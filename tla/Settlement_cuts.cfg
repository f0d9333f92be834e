\* Two payments, two T closes and two power cuts outside the windows.
CONSTANTS
    MaxPay    = 2
    MaxCuts   = 2
    MaxCloses = 2
    CutIn     <- NoWindow

SPECIFICATION Spec
CHECK_DEADLOCK FALSE

INVARIANTS
    TypeOK
    TotalsRight
    

PROPERTIES
    SettlementEnds
    ImplementsLedger
