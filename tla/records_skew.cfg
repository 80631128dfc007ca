\* One device with a clock that runs ahead by more than the tolerance.
CONSTANTS
    d1 = d1
    d2 = d2
    d3 = d3
    u1 = u1
    u2 = u2
    r1 = r1
    r2 = r2
    None = None
    Device = {d1}
    User = {u1}
    Owner <- OneDevice
    Id = {1}
    Req = {r1}
    Batches <- SingleEdits
    PAGE_LIMIT = 2
    CLAMP_TOLERANCE = 2
    MaxTime = 3
SPECIFICATION Spec
INVARIANT OwnEditsInOrder
CHECK_DEADLOCK FALSE
