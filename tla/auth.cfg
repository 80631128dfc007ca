\* Two requests at a time, an address in two spellings, two passwords.
CONSTANTS
    lower = lower
    upper = upper
    r1 = r1
    r2 = r2
    p1 = p1
    p2 = p2
    None = None
    Address = {lower, upper}
    Normal <- LowerCase
    Password = {p1, p2}
    Req = {r1, r2}
    EXPIRE = 1
    MaxTime = 2
    MaxAccounts = 2
SYMMETRY Interchangeable
SPECIFICATION Spec
INVARIANTS TypeOK TokensAreEarned AddressesUnique ServedWhenAllowed Inductive
PROPERTIES RegistrationStands StaysShut
CHECK_DEADLOCK FALSE
