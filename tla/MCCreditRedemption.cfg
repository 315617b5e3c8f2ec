SPECIFICATION CodeSpec
CONSTANTS
    Customers = {c1, c2}
    EduCustomers = {c1, c2}
    Vouchers = {v1, v2}
    Shared = {v2}
    Credits <- MCCredits
    MaxUses <- MCMaxUses
    UsagePerUser <- MCUsagePerUser
    Codes = {x1}
    CodeAmount <- MCCodeAmount
    Keys = {k1}
    Handlers = {h1, h2}
    AdminStatuses = {"active"}
    None = None
    KeyCodes = {c1, c2}
    Partials = {p1}
    PartialOf <- AllAlike
    Headers = {k1}
    Requests = {q1, q2, q3}
    Nothing = Nothing
INVARIANTS
    RedemptionsAreExplained
    CodesAreSpentOnce
PROPERTIES
    FinishedIsFinal
    AnswersAreStable
CONSTRAINTS
    Bound
    HandedTwice
SYMMETRY Symmetry
