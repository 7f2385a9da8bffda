SPECIFICATION Spec
CONSTANTS
    o1 = o1
    o2 = o2
    g1 = g1
    g2 = g2
    Orders <- TwoOrders
    Gateways <- TwoGateways
    Keys = {k1}
    Totals = {1, 2}
    NoOrder = NoOrder
    NoGateway = NoGateway
    NoKey = NoKey
CHECK_DEADLOCK FALSE
SYMMETRY OrdersAlike
INVARIANTS
    PaidByCapture
PROPERTIES
    SecondOrderAfterFailure
    ImplementsContract
