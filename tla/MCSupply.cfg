SPECIFICATION SupplySpec
CONSTANTS
    p1 = p1
    p2 = p2
    w1 = w1
    w2 = w2
    n1 = n1
    n2 = n2
    q1 = q1
    q2 = q2
    q3 = q3
    q4 = q4
    o1 = o1
    o2 = o2
    gone = gone
    Wares <- FourWares
    Shops <- TwoShops
    ShopOf <- WareShops
    ByRank <- WareRank
    ByRating <- ShopRating
    ByDistance <- ShopDistance
    Local = {o1}
    Featured = {q2}
    Discounted = {q3, q4}
    Marked = {q1, q3, q4}
    Brand <- WareBrands
    Orders <- SomeOrders
    Answers <- SomeAnswers
    ShopAnswers <- SomeShopAnswers
    Sizes <- SomeSizes
    Products <- TwoProducts
    Reviewers <- TwoReviewers
    Items = {i1, i2}
    MaxContent = 3
    NoProduct = NoProduct
    NoItem = NoItem
    NodeOrders <- TwoNodeOrders
    MaxUnits = 1
    SettingRows <- TwoSettings
    Baskets <- SomeBaskets
    Coupons <- SomeCoupons
    Places <- SomePlaces
    WalletAmounts = {0, 5000}
    Points = {0, 10}
    InstantRadius = 500
    MaxRadius = 2000
    MinimumOrder = 101
CHECK_DEADLOCK FALSE
SYMMETRY Alike
INVARIANTS
    CatalogReviewed
    NodeCountsKept
    QuoteStands
    SuggestionsSound
PROPERTIES
    BackfillMakesReady
