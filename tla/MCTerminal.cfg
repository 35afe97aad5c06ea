\* Two accounts and two wallets in one tab, one live trade.
SPECIFICATION TerminalSpec
CONSTANTS
    None = None
    u1 = u1  u2 = u2
    a1 = a1  a2 = a2
    t1 = t1
    Users = {u1, u2}
    Addresses = {a1, a2}
    Trades = {t1}
    MaxDeliveries = 2
SYMMETRY Interchangeable
INVARIANTS
    SessionsApart
    NothingPlacedWhenToldSo
