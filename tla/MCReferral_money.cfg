SPECIFICATION OverlapSpec
CONSTANTS
    c1 = c1
    c2 = c2
    p1 = p1
    p2 = p2
    w1 = w1
    w2 = w2
    Commission <- TwoSales
    Paid <- Prices
    RateBps = 3000
    RefundParts = {4}
    Manual <- Deduction
    MaxManual = 1
    MinimumPayout = 1
    Payout <- TwoPayouts
    Worker <- TwoWorkers
SYMMETRY Symmetry
INVARIANTS
    PartRefundsTakeTheirShare
    ReversalNetsOut
    PayoutsAddUp
PROPERTIES
    ClosedStaysClosed
    RequestsHoldWhatTheyAsk
CHECK_DEADLOCK FALSE
