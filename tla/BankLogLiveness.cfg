SPECIFICATION FairBankSpec
CONSTANTS
    Customers = {c1}
    r1 = r1
    Requests = {r1}
    Handlers = {h1, h2}
    Jobs = {j1}
    t1 = t1
    BankTxs = {t1}
    Incoming = {t1}
    BankAmount <- MCBankAmount
    Content <- MCContent
    Amounts <- Enough
    Ratios <- MCRatios
    Threshold = 2
    MaxRetries = 1
    Admin = Admin
    None = None
PROPERTY PendingIsProcessed
