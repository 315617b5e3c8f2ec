SPECIFICATION Spec
CONSTANTS
    Starts <- MCStarts
    CustomerStarts <- MCCustomerStarts
    CacheStarts <- MCCacheStarts
    GateStarts <- MCGateStarts
    SeedStarts <- MCSeedStarts
    ann = ann
    bob = bob
    eve = eve
    a0 = a0
    a1 = a1
    Staff = {ann, bob, eve}
    Handlers = {h1, h2}
    Accesses = {a0, a1}
    MaxRequests = 3
    MaxAged = 1
    None = None
    mail = mail
    z1 = z1
    z2 = z2
    p1 = p1
    Emails = {mail}
    Zalos = {z1, z2}
    Phones = {p1}
    Tokens = {t1}
    MaxAttempts = 2
    MaxCustomerRequests = 4
    MaxFaults = 1
    Readers = {h1, h2}
    Writers = {w1}
    LastData = 2
    LastFault = 1
    Gone = Gone
    Addresses = {b1, b2, b3}
    RequestIds = {q1, q2}
    Threshold = 2
    Window = 2
    BlockFor = 2
    KeepFor = 1
    TrackerSize = 2
    StoreSize = 1
    LastTime = 4
    MaxCalls = 4
    Never = Never
    Scripts = {x1, x2}
    Clients = {c1}
    LastId = 3
    Absent = Absent
INVARIANTS
    SessionsAreExplained
    RolesAreKept
    CustomersSignInOnce
    ProofsAreUsedOnce
    CacheIsHonest
    GateRemembers
    SeedsAddUp
SYMMETRY Symmetry
CHECK_DEADLOCK FALSE
