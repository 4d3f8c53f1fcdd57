SPECIFICATION MCSpec
CONSTANTS
    o1 = o1
    o2 = o2
    s1 = s1
    NoOrder = NoOrder
    UriBound = {s1}
    Orders = {o1, o2}
    Sessions = {s1}
    SessionOf <- OneLane
    Arrival <- FirstComesO1
    Kind <- RelayAndPlain
    DeferDelivery = FALSE
    MaxAttempts = 3
    MaxFaults = 1
    MaxChanges = 2
INVARIANTS AtMostOnePaste ResultsAreProven
PROPERTIES NoPasteWhileHeld OrdersComeToRest
