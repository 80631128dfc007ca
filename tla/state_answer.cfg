\* The refresh after the commit reads another device's write, and its version.
CONSTANTS
    d1 = d1
    d2 = d2
    r1 = r1
    r2 = r2
    p1 = p1
    p2 = p2
    None = None
    Default = Default
    Null = Null
    Device = {d1, d2}
    Req = {r1, r2}
    Payload = {p1, p2}
    MaxVersion = 2
SPECIFICATION Spec
INVARIANT AnswersNextVersion
CHECK_DEADLOCK FALSE
