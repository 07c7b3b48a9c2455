SPECIFICATION ThreePartSpec
CONSTANTS
    e1 = e1
    e2 = e2
    k1 = k1
    k2 = k2
    j1 = j1
    m1 = m1
    w1 = w1
    w2 = w2
    Job = {j1, m1}
    Mail = {m1}
    Process <- TwoProcesses
    JobTries = 2
    MaxFaults = 2
    Event <- TwoEvents
    Key <- TwoKeys
    Timed = {k1}
    MaxPeriod = 1
    KeysOf <- Keys
    Origin <- Mails
    EventTries = 2
INVARIANTS
    ToldOnce
    ProcessedIsTold
PROPERTIES
    DeliveredStaysDelivered
    WorkSettles
CHECK_DEADLOCK FALSE
