SPECIFICATION Spec
CONSTANTS
    o1 = o1
    o2 = o2
    s1 = s1
    NoOrder = NoOrder
    UriBound = {}
    Orders = {o1}
    Sessions = {s1}
    SessionOf <- OneLane
    Arrival <- FirstComesO1
    Kind <- AllPlain
    DeferDelivery = TRUE
    MaxAttempts = 3
    MaxFaults = 0
    MaxChanges = 0
INVARIANT AtMostOnePaste
