SPECIFICATION TwoPartSpec
CONSTANTS
    c1 = c1
    s1 = s1
    s2 = s2
    Coach <- OneCoach
    Sale <- TwoSales
    CoachOf <- TwoSalesOf
    SaleAmount <- TwoAmounts
    Fees = {0, 1}
    Rates = {6000, 8000}
    RefundParts = {3}
    Adjustments <- Signed
    AdjustmentLimit = 3
    MinimumWithdrawal = 3
    MaxWithdrawals = 2
INVARIANTS
    AtMostOneOpenWithdrawal
    WithdrawnIsPaid
    LedgerMatchesRows
    RefundsTelescope
    SplitLockedAtSale
    RevenueReconciles
PROPERTIES
    ImplementsAccount
    EarningLifecycle
CHECK_DEADLOCK FALSE
