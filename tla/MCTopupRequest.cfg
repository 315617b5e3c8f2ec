SPECIFICATION FairTopupSpec
CONSTANTS
    Customers = {c1}
    Requests = {r1, r2}
    Handlers = {h1, h2}
    t1 = t1
    t2 = t2
    BankTxs <- MCBankTxs
    BankAmount <- MCBankAmount
    Amounts <- MCAmounts
    Ratios <- MCRatios
    Admin = Admin
    None = None
INVARIANTS
    LedgerMatchesBalance
    CreditIsExplained
PROPERTIES
    SettledIsFinal
    ImplementsSettlement
    HandlersFinish
