SPECIFICATION Spec
CONSTANTS
    c1 = c1
    c2 = c2
    w1 = w1
    w2 = w2
    Client <- OneClient
    Worker <- OneWorker
    MaxHolds = 1
    Free = {}
    Required = {2}
    Payments = {1, 2}
    MaxInvoices = 2
SYMMETRY Symmetry
INVARIANTS
    SettlementMovesPlacement
CHECK_DEADLOCK FALSE
