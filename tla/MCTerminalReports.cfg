\* One account with one wallet, one live trade.
SPECIFICATION TerminalSpec
CONSTANTS
    None = None
    u1 = u1  u2 = u2
    a1 = a1  a2 = a2
    t1 = t1
    Users = {u1}
    Addresses = {a1}
    Trades = {t1}
    MaxDeliveries = 1
INVARIANT AcceptedIsShown
