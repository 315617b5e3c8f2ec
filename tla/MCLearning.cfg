SPECIFICATION LearningSpec
CONSTANTS
    k1 = k1
    k2 = k2
    l1 = l1
    o1 = o1
    r1 = r1
    r2 = r2
    Works = {wk1, wk2}
    Readers = {v1, v2}
    Pupils = {u1, u2}
    LastHour = 3
    MaxClassRequests = 3
    MaxLesson = 2
    Unset = Unset
    CourseIds = {k1, k2}
    Lecturers = {l1}
    Staff = {u1, u2}
    Shapes = {1, 2}
    MaxCatalogueRequests = 3
    NoCourse = NoCourse
    Accountants = {u1, u2}
    MaxBookRequests = 4
    NoPlan = NoPlan
    Employees = {1, 2}
    Clerks = {u1, u2}
    Amounts = {0, 1}
    MaxPayRequests = 3
    Null = Null
    Managers = {u1, u2}
    Goal = 3
    Steps = {1, 2}
    Dates = {1, 2}
    MaxProgrammeRequests = 3
    Orders = {o1}
    Rules = {r1, r2}
    Switchers = {u1, u2}
    MaxRuleChanges = 2
    Nothing = Nothing
    Baskets <- MCCarts
    Sorts <- MCTypes
    Plans <- MCPlans
    ClassStarts <- MCClassStarts
    CatalogueStarts <- MCCatalogueStarts
    BookStarts <- MCBookStarts
    PayStarts <- MCPayStarts
    ProgrammeStarts <- MCProgrammeStarts
    OrderStarts <- MCOrderStarts
INVARIANTS
    ClassroomIsFair
    CatalogueAgrees
    BooksAreKept
    PayIsExplained
    ProgrammesAddUp
    DeliveriesAreExplained
SYMMETRY Symmetry
CHECK_DEADLOCK FALSE
