SPECIFICATION Spec
CONSTANTS
    c1 = c1
    c2 = c2
    a1 = a1
    b1 = b1
    o1 = o1
    o2 = o2
    r1 = r1
    r2 = r2
    storeA = storeA
    storeB = storeB
    VendorOf <- StoreOf
    Orders <- TwoOrders
    Nobody = Nobody
    NoKey = NoKey
    NoNode = NoNode
    NoCoupon = NoCoupon
    Customers <- OneCustomer
    Products <- TwoProducts
    Nodes = {}
    Requests = {r1, r2}
    Keys = {k1}
    Coupons = {}
    Editors = {}
    LegacyOrders <- NoLegacy
    MaxStock = 1
    MaxQuantity = 1
    UsageLimit = 0
    PerUserLimit = 0
CONSTRAINT StoresKeepListing
SYMMETRY RequestsAlike
INVARIANTS
    OneOrderPerKey
PROPERTIES
    ImplementsShelf
