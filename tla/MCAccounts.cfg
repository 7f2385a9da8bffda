SPECIFICATION AccountsSpec
CONSTANTS
    a1 = a1
    a2 = a2
    t1 = t1
    t2 = t2
    p1 = p1
    p2 = p2
    Users = {c, a1, a2}
    Staff <- Administrators
    Tokens <- TwoTokens
    Links = {l1, l2}
    MaxHash = 2
    NoUser = NoUser
    Phones <- TwoPhones
    Emails = {m1}
    Requests = {r1, r2}
    MaxCodes = 2
    MaxCustomers = 2
    Tries = 1
    MaxRequests = 2
    NoEntry = NoEntry
    Edits = {e1}
    Documents = {d1}
    Statuses = {"pending", "approved", "pending_details", "pending_documents"}
    MaxTime = 4
    Sockets = {s1}
    Writers = {w1, w2}
    Capacity = 2
    MaxMade = 3
CHECK_DEADLOCK FALSE
SYMMETRY Alike
INVARIANTS
    StaleSessionsDie
    OneUsableLink
    OneCustomerPerEntry
    GuessesBounded
    
PROPERTIES
    SuperuserRemains
    OpensReviewed
    SentWhileEntitled
