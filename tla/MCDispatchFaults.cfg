SPECIFICATION FaultySpec
CONSTANTS
    o1 = o1
    o2 = o2
    p1 = p1
    NoPartner = NoPartner
    Orders <- OneOrder
    Partners <- OnePartner
    MaxRadius = 2
    MaxJobs = 2
    MaxObsolete = 1
    Faults <- FaultKinds
PROPERTIES
    PollingRescues
