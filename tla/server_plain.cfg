\* Two processes, one request at a time: the data of records is stored as it is.
CONSTANTS
    p1 = p1
    p2 = p2
    r1 = r1
    r2 = r2
    k1 = k1
    k2 = k2
    c1 = c1
    c2 = c2
    w1 = w1
    w2 = w2
    u1 = u1
    None = None
    Forged = Forged
    Process = {p1, p2}
    User = {u1}
    Req = {r1}
    Key = {k1, k2}
    KeyLists <- Rings
    Body <- Bodies
    LIMIT = 1
    Provider <- Providers
    Id = {c1, c2}
    Signed <- Webhooks
    WebhookBody = {w1, w2}
    MaxExchanges = 2
SPECIFICATION Spec
INVARIANT EncryptedAtRest
