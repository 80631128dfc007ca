\* Two devices of one user, two requests at a time, up to two versions; the
\* JSON text null among the payloads.
CONSTANTS
    d1 = d1
    d2 = d2
    r1 = r1
    r2 = r2
    p1 = p1
    p2 = p2
    None = None
    Default = Default
    Null = Null
    Device = {d1, d2}
    Req = {r1, r2}
    Payload = {p1, p2, Null}
    MaxVersion = 2
SPECIFICATION FairSpec
INVARIANTS TypeOK OneContentPerVersion KnownWasCommitted AnswerIncludesWrite Inductive
PROPERTIES ImplementsRegister DevicesAdvance RequestsEnd
CHECK_DEADLOCK FALSE
