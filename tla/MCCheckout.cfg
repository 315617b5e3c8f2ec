SPECIFICATION Spec
CONSTANTS
    Customers = {c1, c2}
    EduCustomers = {}
    Courses = {k1, k2}
    Offline = {k1}
    MaxStudents <- MCMaxStudents
    Price <- MCPrice
    PaymentTypes <- MCPaymentTypes
    Refs = {"id", "_id"}
    Handlers = {h1, h2}
    MaxOrders = 3
    MaxCredited <- MCMaxCredited
    Carts <- MCCarts
    AdminStatuses = {"ACTIVE", "LOCKED"}
    None = None
INVARIANT OrdersAddUp
PROPERTY LockedCustomersKeepCredit
SYMMETRY Symmetry
CONSTRAINT Bound
