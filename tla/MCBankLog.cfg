SPECIFICATION BankSpec
CONSTANTS
    Customers = {c1}
    r1 = r1
    Requests = {r1}
    Handlers = {h1, h2}
    Jobs = {j1, j2}
    t1 = t1
    BankTxs = {t1}
    Incoming = {t1}
    BankAmount <- MCBankAmount
    Content <- MCContent
    Amounts <- MCAmounts
    Ratios <- MCRatios
    Threshold = 1
    MaxRetries = 1
    Admin = Admin
    None = None
INVARIANT BankIsHonest
PROPERTIES
    ImplementsTopup
    LinkedIsFinal
SYMMETRY Symmetry
CONSTRAINT TwoJobsAtMost
