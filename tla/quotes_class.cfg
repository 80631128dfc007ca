\* A symbol that is a stock and a coin: one cache row for both.
CONSTANTS
    s1 = s1
    s2 = s2
    r1 = r1
    r2 = r2
    None = None
    Symbol = {s1}
    Coins = {s1}
    Req = {r1}
    Configured = TRUE
    TTL = 1
    TIMEOUT = 1
    Operations = 2
    Pools = {1}
    MaxTime = 3
SPECIFICATION Spec
INVARIANT CoinsFromCoinGecko
CHECK_DEADLOCK FALSE
