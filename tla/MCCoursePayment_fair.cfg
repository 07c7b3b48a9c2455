SPECIFICATION FairSpec
CONSTANTS
    e1 = e1
    e2 = e2
    a1 = a1
    a2 = a2
    w1 = w1
    w2 = w2
    half = half
    gratis = gratis
    Enrolment <- OneEnrolment
    LearnerOf <- OneLearner
    ListPrice = 4
    Code <- NoCode
    PriceWith <- Discounted
    MaxUses <- Uses
    UsesPerLearner <- UsesEach
    Attempt <- OneAttempt
    RefundParts = {}
    Worker <- TwoWorkers
    MaxCrashes = 1

PROPERTIES PaidAttemptIsDecided
CHECK_DEADLOCK FALSE
