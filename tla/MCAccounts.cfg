\* Three requests at once, failing anywhere: of the sign-in routes, or of the
\* wallet and live-trading routes; or an order, two of three sockets and a crash.
SPECIFICATION MCSpec
CONSTANTS
    None = None  Null = Null
    n1 = n1  n2 = n2  n3 = n3
    e1 = e1  e2 = e2
    r1 = r1  r2 = r2  r3 = r3
    u1 = u1  u2 = u2
    a1 = a1
    Calls = {r1, r2, r3}
    Names = {n1, n2, n3}
    Emails = {e1, e2}
    Accounts0 <- MCAccounts0
    Limit = 2
    CallsMayFail = TRUE
    Requests = {r1, r2, r3}
    Users = {u1, u2}
    Addresses = {a1}
    Lower <- MCLower
    Holds <- MCHolds
    MaxNonces = 2
    MayFail = TRUE
    Nothing = Nothing
    o1 = o1
    c1 = c1  c2 = c2  c3 = c3
    Clients = {c1, c2, c3}
    OfPortfolio = {c3}
    PaperOrders = {o1}
    Sees <- MCSees
    MaxOpen = 2
    MaxCrashes = 1
    BcMayFail = TRUE
SYMMETRY Interchangeable
INVARIANTS
    EmailUnique
    LockoutEnds
    AccountsInv
    WalletInv
    BroadcastInv
PROPERTY ImplementsBook
\* Every request may be answered, and the order done.
CHECK_DEADLOCK FALSE
