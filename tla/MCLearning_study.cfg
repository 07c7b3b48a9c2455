SPECIFICATION Spec
CONSTANTS
    w1 = w1
    w2 = w2
    Worker <- TwoRequests
    Quiz = {"quiz", "exam"}
    Work = {"essay"}
    Marked = {"read"}
    Order <- Orders
    Course <- Courses
    MaxAttempts = 2
    MaxSubmissions = 2
    MaxEdits = 2
SYMMETRY Symmetry
ACTION_CONSTRAINT Parts
INVARIANTS
    CompletionIsEarned
    DoneMeansCompleted
    CertificateFollowsRules
    AttemptsWithinLimit
CHECK_DEADLOCK FALSE
