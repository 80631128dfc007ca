\* Two requests that contend for the same records, under fairness.
CONSTANTS
    d1 = d1
    d2 = d2
    d3 = d3
    u1 = u1
    u2 = u2
    r1 = r1
    r2 = r2
    None = None
    Device = {d1, d2}
    User = {u1}
    Owner <- OneUser
    Id = {1, 2}
    Req = {r1, r2}
    Batches <- OppositeBatches
    PAGE_LIMIT = 2
    CLAMP_TOLERANCE = 0
    MaxTime = 3
SPECIFICATION FairSpec
PROPERTY RequestsEnd
CHECK_DEADLOCK FALSE
