SPECIFICATION PartSpec
CONSTANTS
    p1 = p1
    p2 = p2
    w1 = w1
    w2 = w2
    Person <- People
    Worker <- TwoRequests
    Agency = {a1}
    ReleaseRules = {"AFTER_ASSIGNMENT_ENDS"}
    PlanSeats = {1}
    PackSeats = 1
    FreshOnRejoin = {TRUE, FALSE}
    MaxMembers = 2
    MaxExits = 2
    MaxOrders = 2
    MaxChange = 1
SYMMETRY Symmetry
INVARIANTS
    SeatAccounts
    LedgerAddsUp
    RecordsFollowMembership
PROPERTIES
    NoOverbooking
    EndedIsFinal
CHECK_DEADLOCK FALSE
