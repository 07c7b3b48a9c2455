SPECIFICATION Spec
CONSTANTS
    e1 = e1
    e2 = e2
    a1 = a1
    a2 = a2
    w1 = w1
    w2 = w2
    half = half
    gratis = gratis
    Enrolment <- TwoEnrolments
    LearnerOf <- OneLearner
    ListPrice = 4
    Code <- HalfAndFree
    PriceWith <- Discounted
    MaxUses <- Uses
    UsesPerLearner <- UsesEach
    Attempt <- TwoAttempts
    RefundParts = {1, 3}
    Worker <- TwoWorkers
    MaxCrashes = 0
SYMMETRY Symmetry
ACTION_CONSTRAINT TwoParts
INVARIANTS
    SettledOnce
    UnsettledMoneyIsFlagged
    RefundWithinPaid
    CodesAreHonoured
PROPERTIES
    DecidedStaysDecided
CHECK_DEADLOCK FALSE
