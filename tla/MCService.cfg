SPECIFICATION ServiceSpec
CONSTANTS
    s1 = s1
    s2 = s2
    g1 = g1
    g2 = g2
    m1 = m1
    m2 = m2
    Stores <- TwoStores
    Goods <- TwoGoods
    NodeIds <- TwoNodes
    StoreOf <- StoreOfGoods
    Owner <- OwnerOfNodes
    Sites <- SomeSites
    Hours <- SomeHours
    Moments <- SomeMoments
    Preps <- SomePreps
    Spans <- SomeSpans
    Holidays = {2}
    NoStore = NoStore
    NoNode = NoNode
    Refunds = {r1, r2}
    Deliveries = {d1, d2}
    NoDelivery = NoDelivery
    Total = 2
    Amounts = {1, 2}
    Issues = {i1}
    Bookings = {b1, b2}
    Windows = {2}
    MaxClock = 3
    Workers = {w1, w2}
    MaxDeaths = 1
    MaxErasures = 1
    Printers = {p1, p2}
    NoBooking = NoBooking
CHECK_DEADLOCK FALSE
INVARIANTS
    RefundsWithinTotal
    RecordsKept
    ToldOnce
    PagesAgree
    CacheFollows
PROPERTIES
    StoreHears
