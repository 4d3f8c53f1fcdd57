SPECIFICATION FairSpec
CONSTANTS
    o1 = o1
    o2 = o2
    s1 = s1
    NoOrder = NoOrder
    UriBound = {}
    Orders = {o1}
    Sessions = {s1}
    SessionOf <- OneLane
    Arrival <- FirstComesO1
    Kind <- RelayAndPlain
    DeferDelivery = TRUE
    MaxAttempts = 3
    MaxFaults = 0
    MaxChanges = 2
PROPERTY ResumedOrdersReturn
