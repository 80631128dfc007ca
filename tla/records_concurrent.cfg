\* Two devices of one user, two requests at a time, pages of one record.
CONSTANTS
    d1 = d1
    d2 = d2
    d3 = d3
    u1 = u1
    u2 = u2
    r1 = r1
    r2 = r2
    None = None
    Device = {d1, d2}
    User = {u1}
    Owner <- OneUser
    Id = {1, 2}
    Req = {r1, r2}
    Batches <- ContendingBatches
    PAGE_LIMIT = 1
    CLAMP_TOLERANCE = 0
    MaxTime = 4
SYMMETRY Interchangeable
SPECIFICATION Spec
INVARIANTS TypeOK SkewBounded PushedBeforeReply OnlyLateCommitsMissed AnswersAdvance Inductive
PROPERTIES UpdatedAtMonotone ImplementsStore
CHECK_DEADLOCK FALSE
