\* Pushes in flight together: the code loses sight of late commits.
CONSTANTS
    d1 = d1
    d2 = d2
    d3 = d3
    u1 = u1
    u2 = u2
    r1 = r1
    r2 = r2
    None = None
    Device = {d1, d2}
    User = {u1}
    Owner <- OneUser
    Id = {1, 2}
    Req = {r1, r2}
    Batches <- ContendingBatches
    PAGE_LIMIT = 2
    CLAMP_TOLERANCE = 0
    MaxTime = 4
SPECIFICATION Spec
INVARIANT NothingMissed
CHECK_DEADLOCK FALSE
