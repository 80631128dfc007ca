\* One symbol that is a stock and a coin, two requests at a time, and a pool of one or two
\* connections.
CONSTANTS
    s1 = s1
    s2 = s2
    r1 = r1
    r2 = r2
    None = None
    Symbol = {s1}
    Coins = {s1}
    Req = {r1, r2}
    Configured = TRUE
    TTL = 1
    TIMEOUT = 1
    Operations = 2
    Pools = {1, 2}
    MaxTime = 3
SPECIFICATION FairSpec
INVARIANTS TypeOK NoEmptyQuotes RowDescribesPrice Inductive
PROPERTIES PriceAgeBounded RequestsEnd
CHECK_DEADLOCK FALSE
