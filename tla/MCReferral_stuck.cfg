SPECIFICATION Spec
CONSTANTS
    c1 = c1
    c2 = c2
    p1 = p1
    p2 = p2
    w1 = w1
    w2 = w2
    Commission <- TwoSales
    Paid <- Prices
    RateBps = 3000
    RefundParts = {}
    Manual <- Signed
    MaxManual = 1
    MinimumPayout = 1
    Payout <- OnePayout
    Worker <- OneWorker
SYMMETRY Symmetry
INVARIANTS RejectedHoldsNothing
CHECK_DEADLOCK FALSE
