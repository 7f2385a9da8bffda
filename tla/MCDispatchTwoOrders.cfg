SPECIFICATION Spec
CONSTANTS
    o1 = o1
    o2 = o2
    p1 = p1
    NoPartner = NoPartner
    Orders <- TwoOrders
    Partners <- OnePartner
    MaxRadius = 1
    MaxJobs = 1
    MaxObsolete = 0
    Faults <- NoFaults
SYMMETRY OrderSymmetry
CONSTRAINT SearchesStandStill
INVARIANTS
    OneOrderPerCourier
    AssignmentMatchesOrder
PROPERTIES
    ImplementsContract
    FreedWhenDone
