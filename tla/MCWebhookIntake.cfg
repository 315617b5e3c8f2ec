SPECIFICATION Spec
CONSTANTS
    mail = mail
    phone = phone
    alias = alias
    shop = shop
    o1 = o1
    d1 = d1
    d2 = d2
    Users = {mail, phone}
    Bizs = {alias, shop}
    Unique = {mail, alias}
    Orders = {o1}
    Deliveries = {d1, d2}
    Handlers = {h1, h2}
    Scenarios <- MCScenarios
    MaxLogs = 2
    MaxRetries = 1
    MaxFaults = 1
    MaxDeletions = 1
    None = None
INVARIANT IntakeAddsUp
PROPERTY LogsSettle
CONSTRAINT Bound
CHECK_DEADLOCK FALSE
