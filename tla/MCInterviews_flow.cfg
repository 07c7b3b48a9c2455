SPECIFICATION PartSpec
CONSTANTS
    c1 = c1
    c2 = c2
    a1 = a1
    a2 = a2
    w1 = w1
    w2 = w2
    Client <- TwoClients
    Owner = c1
    Agent <- TwoAgents
    Worker <- TwoRequests
    Free = {"AVAILABLE"}
    SubmissionLimit = 1
    MaxRequests = 2
    MaxRounds = 2
    MaxSubmissions = 2
SYMMETRY Symmetry
INVARIANTS
    StatusFollowsInterviews
    AvailabilityFollowsInterviews
    SubmissionsFollowDecisions
    OpenSubmissionsAreWanted
CHECK_DEADLOCK FALSE
