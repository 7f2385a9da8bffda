SPECIFICATION Spec
CONSTANTS
    o1 = o1
    o2 = o2
    g1 = g1
    g2 = g2
    Orders <- OneOrder
    Gateways <- TwoGateways
    Keys = {}
    Totals = {1}
    NoOrder = NoOrder
    NoGateway = NoGateway
    NoKey = NoKey
PROPERTIES
    CaptureIsRecorded
CHECK_DEADLOCK FALSE
