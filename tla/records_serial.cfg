\* One request at a time; two devices of one user, one of another.
CONSTANTS
    d1 = d1
    d2 = d2
    d3 = d3
    u1 = u1
    u2 = u2
    r1 = r1
    r2 = r2
    None = None
    Device = {d1, d2, d3}
    User = {u1, u2}
    Owner <- TwoUsers
    Id = {1, 2, 3}
    Req = {r1}
    Batches <- LongBatches
    PAGE_LIMIT = 2
    CLAMP_TOLERANCE = 1
    MaxTime = 4
SPECIFICATION Spec
INVARIANTS NothingMissed UserIsolation
CHECK_DEADLOCK FALSE
