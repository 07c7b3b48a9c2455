SPECIFICATION Spec
CONSTANTS
    c1 = c1
    c2 = c2
    w1 = w1
    w2 = w2
    Client <- TwoClients
    Worker <- TwoWorkers
    MaxHolds = 2
    Free = {"UNAVAILABLE"}
    Required = {1, 2}
    Payments = {1, 2}
    MaxInvoices = 2
SYMMETRY Symmetry
ACTION_CONSTRAINT TwoParts
INVARIANTS
    SettledBeforeDeployment
    PaidInvoiceIsCovered
    BillsAgree
    BlockedForAReason
CHECK_DEADLOCK FALSE
