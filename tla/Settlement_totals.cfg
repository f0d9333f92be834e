\* A power cut while a payment is being added to the T totals.
CONSTANTS
    MaxPay    = 2
    MaxCuts   = 1
    MaxCloses = 0
    CutIn     <- AtTotals

SPECIFICATION Spec
CHECK_DEADLOCK FALSE

INVARIANTS
    TotalsRight
