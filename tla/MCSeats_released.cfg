SPECIFICATION Spec
CONSTANTS
    p1 = p1
    p2 = p2
    w1 = w1
    w2 = w2
    Person <- People
    Worker = {w1}
    Agency = {a1}
    ReleaseRules = {"AFTER_ASSIGNMENT_ENDS"}
    PlanSeats = {1}
    PackSeats = 1
    FreshOnRejoin = {TRUE}
    MaxMembers = 3
    MaxExits = 0
    MaxOrders = 0
    MaxChange = 0
PROPERTY JoinsStayWithinSeats
CHECK_DEADLOCK FALSE
