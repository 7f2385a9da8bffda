SPECIFICATION MoneySpec
CONSTANTS
    v1 = v1
    c1 = c1
    p1 = p1
    p2 = p2
    u1 = u1
    u2 = u2
    o1 = o1
    o2 = o2
    Vendors <- OneVendor
    Couriers <- OneCourier
    Payouts <- TwoPayouts
    References = {ref1, ref2}
    NoRef = NoRef
    NoRecipient = NoRecipient
    MaxAmount = 1
    MaxEarned = 2
    MaxDay = 2
    MaxRequests = 2
    Users <- TwoUsers
    Orders <- TwoOrders
    TopUps = {t1}
    Prices = {4, 12}
    Spends = {0, 2}
    Loads = {2}
    Bonus = 3
    Adjustments = {2}
    MaxPoints = 6
    LongTypesFit = TRUE
    NoUser = NoUser
    NoOrder = NoOrder
CHECK_DEADLOCK FALSE
SYMMETRY Alike
INVARIANTS
    DebitedOnce
    WalletMatchesLedger
    EvidenceOfPayment
    BalancesSourced
    BonusOnce
PROPERTIES
    ImplementsContract
