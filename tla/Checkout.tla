------------------------------ MODULE Checkout ------------------------------
(***************************************************************************)
(* Buying courses: modules/checkout, and the documents a checkout reads or *)
(* writes: customers, courses (courseOffline / courseOnline /              *)
(* courseChallenge services) and enrollments (courseEnrollment).           *)
(*                                                                         *)
(* processCheckout is one MongoDB transaction.  All it reads and checks    *)
(* belongs to the snapshot taken by its first read, so ReadCart decides    *)
(* the whole order; what is committed after that is missed.  Only the      *)
(* customer document makes two checkouts conflict, and it is written only  *)
(* when there is something to pay.                                         *)
(*                                                                         *)
(* A course stands for its one package; item.ref says whether the client   *)
(* named the course by its id or by its _id.  Its price and its capacity   *)
(* are fixed: what updateCourse may do to them is left out, and so are     *)
(* titles, listings, statistics, the CRM event and the order webhooks sent *)
(* after the commit.                                                       *)
(***************************************************************************)
EXTENDS Integers, FiniteSets, Functions

CONSTANTS
    Customers, EduCustomers,    \* isEduAccount
    Courses, Offline,           \* the CourseOffline ones have a capacity
    MaxStudents,                \* [Courses -> Nat], 0 means no limit
    Price,                      \* [Courses -> Nat]
    PaymentTypes,               \* [Courses -> SUBSET Methods]
    Refs,                       \* how clients name courses: "id", "_id"
    Handlers,                   \* requests in flight at the same time
    Carts,                      \* bound: the carts clients send
    MaxOrders, MaxCredited,     \* bounds: orders, credit granted per method
    AdminStatuses,              \* bound: statuses administrators give
    None

CreditMethods == {"mainCredit", "rewardCredit", "eduCredit"}
Methods == CreditMethods \cup {"free"}
Items == [course : Courses, ref : Refs, method : Methods]
EnrollmentStatuses == {"ACTIVE", "INACTIVE", "LOCKED", "EXPIRED", "CANCELLED"}

ASSUME CheckoutAssumption ==
    /\ IsFiniteSet(Handlers)
    /\ EduCustomers \subseteq Customers
    /\ Offline \subseteq Courses
    /\ MaxStudents \in [Courses -> Nat]
    /\ Price \in [Courses -> Nat]
    /\ PaymentTypes \in [Courses -> SUBSET Methods]
    /\ Refs \subseteq {"id", "_id"}
    /\ Carts \subseteq SUBSET Items /\ \A items \in Carts : IsFiniteSet(items)
    /\ MaxOrders \in Nat
    /\ MaxCredited \in [CreditMethods -> Nat]
    /\ AdminStatuses \subseteq EnrollmentStatuses
    /\ None \notin Customers \cup Courses

VARIABLES
    course,         \* course -> its status, or "deleted"
    closed,         \* offline courses past their registrationDeadline
    active,         \* customers with isActive
    balance,        \* customer -> credit method -> credit
    orders,         \* orders committed so far
    enrollments,    \* the enrollments of all orders
    pc,             \* handler -> where it stands
    buyer,          \* handler -> the student who checks out
    cart,           \* handler -> the items, or the course being deleted
    seen,           \* handler -> the buyer's balance in its snapshot
    stale,          \* handlers whose buyer changed since their snapshot
    credited,       \* customer -> credit method -> all that was granted
    reinstated      \* enrollments an administrator set to ACTIVE (history)

courseVars == <<course, closed>>
historyVars == <<credited, reinstated>>
handlerVars == <<pc, buyer, cart, seen, stale>>
saleVars == <<orders, enrollments, balance>>
vars == <<courseVars, active, saleVars, handlerVars, historyVars>>

-----------------------------------------------------------------------------

InTransaction == {"validated", "saved"}

\* Students that take up a place.
OfCourse(k) == {e \in enrollments : e.course = k}
Registered(k) == {e \in OfCourse(k) : e.status = "ACTIVE"}

\* Existing enrollments are looked up under the names the client sent, and
\* stored under the course's id.
\* (mutated form: only the active ones are looked up)
EnrolledActively(c, item) ==
    item.ref = "id" /\ \E e \in Registered(item.course) : e.student = c
AlreadyEnrolled(c, item) ==
    item.ref = "id" /\ \E e \in OfCourse(item.course) : e.student = c

HasPlace(k) ==
    k \in Offline /\ MaxStudents[k] > 0 => Cardinality(Registered(k)) < MaxStudents[k]

Payable(c, item) ==
    /\ Price[item.course] > 0 => item.method \in PaymentTypes[item.course] \ {"free"}
    /\ item.method = "eduCredit" => c \in EduCustomers

Due(items, method) ==
    SumFunctionOnSet([item \in items |-> Price[item.course]],
                     {item \in items : item.method = method})

\* There is something to pay: else save() has nothing to write.
Pays(items) == \E item \in items : Price[item.course] > 0

Affords(c, items) ==
    \A method \in CreditMethods : balance[c][method] >= Due(items, method)

\* What save() writes: the credits that were deducted, from those it read.
Rest(read, now, items) ==
    [method \in CreditMethods |->
        IF Due(items, method) > 0 THEN read[method] - Due(items, method) ELSE now[method]]

\* The order has written c's document and not committed.
CustomerHeld(c) ==
    \E h \in Handlers : pc[h] = "saved" /\ buyer[h] = c /\ Pays(cart[h])

\* Customer c changes: the snapshots of its open checkouts are outdated.
Touched(c) ==
    stale \cup {h \in Handlers : pc[h] \in InTransaction /\ buyer[h] = c}

NoCredit == [method \in CreditMethods |-> 0]

Goto(h, state) == pc' = [pc EXCEPT ![h] = state] /\ UNCHANGED <<buyer, cart, seen>>

Return(h) ==
    /\ pc' = [pc EXCEPT ![h] = "idle"]
    /\ buyer' = [buyer EXCEPT ![h] = None]
    /\ cart' = [cart EXCEPT ![h] = {}]
    /\ seen' = [seen EXCEPT ![h] = NoCredit]

Init ==
    /\ course = [k \in Courses |-> "published"]
    /\ closed = {}
    /\ active = Customers
    /\ balance = [c \in Customers |-> NoCredit]
    /\ orders = 0
    /\ enrollments = {}
    /\ pc = [h \in Handlers |-> "idle"]
    /\ buyer = [h \in Handlers |-> None]
    /\ cart = [h \in Handlers |-> {}]
    /\ seen = [h \in Handlers |-> NoCredit]
    /\ stale = {}
    /\ credited = balance
    /\ reinstated = {}

-----------------------------------------------------------------------------

\* The first half of processCheckout: everything it reads, and every check
\* that refuses the order.
ReadCart(h, c, items) ==
    /\ pc[h] = "idle"
    /\ items # {} /\ c \in active
    /\ \A item, other \in items : item.course = other.course => item = other
    /\ \A item \in items :
          /\ course[item.course] = "published"
          /\ item.course \notin closed
          /\ HasPlace(item.course)
          /\ ~AlreadyEnrolled(c, item)
          /\ Payable(c, item)
    /\ Affords(c, items)
    /\ pc' = [pc EXCEPT ![h] = "validated"]
    /\ buyer' = [buyer EXCEPT ![h] = c]
    /\ cart' = [cart EXCEPT ![h] = items]
    /\ seen' = [seen EXCEPT ![h] = balance[c]]
    /\ UNCHANGED <<courseVars, active, saleVars, stale, historyVars>>

\* (mutated form: saved outside the session)
SaveUnconditionally(h) ==
    /\ pc[h] = "validated"
    /\ Goto(h, "saved")
    /\ UNCHANGED <<courseVars, active, saleVars, stale, historyVars>>

\* customer.save({ session }), then the CreditTransactions and enrollments
\* are inserted.  A customer who pays nothing is not written.
SaveCustomer(h) ==
    /\ pc[h] = "validated"
    /\ Pays(cart[h]) => h \notin stale /\ ~CustomerHeld(buyer[h])
    /\ Goto(h, "saved")
    /\ UNCHANGED <<courseVars, active, saleVars, stale, historyVars>>

\* commitTransaction: the new balance and the enrollments appear.
CommitOrder(h) ==
    LET c == buyer[h]
        items == cart[h]
    IN  /\ pc[h] = "saved"
        /\ orders < MaxOrders
        /\ orders' = orders + 1
        /\ balance' = IF Pays(items)
                      THEN [balance EXCEPT ![c] = Rest(seen[h], @, items)] ELSE balance
        /\ enrollments' = enrollments \cup
             {[order |-> orders', student |-> c, course |-> item.course,
               ref |-> item.ref, method |-> item.method,
               amountPaid |-> Price[item.course], status |-> "ACTIVE"] : item \in items}
        /\ stale' = (IF Pays(items) THEN Touched(c) ELSE stale) \ {h}
        /\ Return(h)
        /\ UNCHANGED <<courseVars, active, historyVars>>

\* A write conflict or any other failure aborts the transaction.
AbortOrder(h) ==
    /\ pc[h] \in InTransaction
    /\ stale' = stale \ {h}
    /\ Return(h)
    /\ UNCHANGED <<courseVars, active, saleVars, historyVars>>

\* The process dies: open sessions are gone.
Crash ==
    /\ pc' = [h \in Handlers |-> "idle"]
    /\ buyer' = [h \in Handlers |-> None]
    /\ cart' = [h \in Handlers |-> {}]
    /\ seen' = [h \in Handlers |-> NoCredit]
    /\ stale' = {}
    /\ UNCHANGED <<courseVars, active, saleVars, historyVars>>

-----------------------------------------------------------------------------

\* A topup, a voucher or a SmaxAi code adds credit with $inc.
GrantCredit(c, method) ==
    /\ credited[c][method] < MaxCredited[method]
    /\ ~CustomerHeld(c)
    /\ balance' = [balance EXCEPT ![c][method] = @ + 1]
    /\ credited' = [credited EXCEPT ![c][method] = @ + 1]
    /\ stale' = Touched(c)
    /\ UNCHANGED <<courseVars, active, orders, enrollments, pc, buyer, cart,
                   seen, reinstated>>

\* An administrator locks or unlocks the customer.
SetActive(c) ==
    /\ ~CustomerHeld(c)
    /\ active' = IF c \in active THEN active \ {c} ELSE active \cup {c}
    /\ stale' = Touched(c)
    /\ UNCHANGED <<courseVars, saleVars, pc, buyer, cart, seen, historyVars>>

\* updateEnrollmentStatus and updateBatchEnrollmentStatus: any status, to any.
UpdateEnrollmentStatus(e, status) ==
    /\ enrollments' = (enrollments \ {e}) \cup {[e EXCEPT !.status = status]}
    /\ reinstated' = IF status = "ACTIVE"
                     THEN reinstated \cup {<<e.order, e.course>>} ELSE reinstated
    /\ UNCHANGED <<courseVars, active, orders, balance, handlerVars, credited>>

\* updateCourse publishes, withdraws or sets another deadline, and the
\* deadline passes.
UpdateCourse(k, status) ==
    /\ course[k] # "deleted"
    /\ course' = [course EXCEPT ![k] = status]
    /\ closed' \in {closed, closed \ {k}}
    /\ UNCHANGED <<active, saleVars, handlerVars, historyVars>>

CloseRegistration(k) ==
    /\ k \in Offline \ closed
    /\ closed' = closed \cup {k}
    /\ UNCHANGED <<course, active, saleVars, handlerVars, historyVars>>

\* deleteCourse counts the enrollments, of any status ...
CountForDeletion(h, k) ==
    /\ pc[h] = "idle" /\ course[k] # "deleted"
    /\ OfCourse(k) = {}
    /\ pc' = [pc EXCEPT ![h] = "deleting"]
    /\ cart' = [cart EXCEPT ![h] = {k}]
    /\ UNCHANGED <<courseVars, active, saleVars, buyer, seen, stale, historyVars>>

\* ... and then saves the course as deleted.
DeleteCourse(h) ==
    /\ pc[h] = "deleting"
    /\ course' = [k \in Courses |-> IF k \in cart[h] THEN "deleted" ELSE course[k]]
    /\ Return(h)
    /\ UNCHANGED <<closed, active, saleVars, stale, historyVars>>

-----------------------------------------------------------------------------

Checkout(h) ==
    \/ \E c \in Customers, items \in Carts : ReadCart(h, c, items)
    \/ SaveCustomer(h) \/ CommitOrder(h) \/ AbortOrder(h)

CustomerChange ==
    \E c \in Customers : SetActive(c) \/ \E method \in CreditMethods : GrantCredit(c, method)

CourseChange ==
    \E k \in Courses :
        \/ \E status \in {"draft", "published"} : UpdateCourse(k, status)
        \/ CloseRegistration(k)
        \/ \E h \in Handlers : CountForDeletion(h, k)

Next ==
    \/ \E h \in Handlers : Checkout(h) \/ DeleteCourse(h)
    \/ CustomerChange
    \/ CourseChange
    \/ \E e \in enrollments, status \in AdminStatuses : UpdateEnrollmentStatus(e, status)
    \/ Crash

Spec == Init /\ [][Next]_vars

-----------------------------------------------------------------------------

Enrollments ==
    [order : 1 .. MaxOrders, student : Customers, course : Courses, ref : Refs,
     method : Methods, amountPaid : Nat, status : EnrollmentStatuses]

Credit == [CreditMethods -> Nat]

\* Types; that balances are naturals says that no order overdraws one.
TypeOK ==
    /\ course \in [Courses -> {"draft", "published", "deleted"}]
    /\ closed \subseteq Offline
    /\ active \subseteq Customers
    /\ orders \in 0 .. MaxOrders
    /\ enrollments \subseteq Enrollments
    /\ balance \in [Customers -> Credit] /\ credited \in [Customers -> Credit]
    /\ pc \in [Handlers -> {"idle", "deleting"} \cup InTransaction]
    /\ buyer \in [Handlers -> Customers \cup {None}]
    /\ cart \in [Handlers -> SUBSET (Items \cup Courses)]
    /\ seen \in [Handlers -> Credit]
    /\ stale \subseteq Handlers
    /\ reinstated \subseteq (1 .. MaxOrders) \X Courses

\* No credit is lost or spent twice by checkouts that read a balance and
\* write it back: what a customer has is what was granted less what the
\* customer's enrollments cost.
SpendingIsExplained ==
    \A c \in Customers, method \in CreditMethods :
        balance[c][method] + SumFunctionOnSet([e \in enrollments |-> e.amountPaid],
            {e \in enrollments : e.student = c /\ e.method = method})
        = credited[c][method]

\* A student pays for a course once, however many orders are in flight and
\* whatever became of the first enrollment, unless the second order named
\* the course by _id.
SameSale(e, f) ==
    /\ e.student = f.student /\ e.course = f.course
    /\ e.amountPaid > 0 /\ f.amountPaid > 0
PaidOnce ==
    \A e, f \in enrollments :
        SameSale(e, f) /\ e.order < f.order => f.ref = "_id"

\* Orders that do not see each other may sell more places than there are,
\* but no more than one for each other order in flight; students an
\* administrator lets in again are not counted.
Overbooked(k) == {e \in Registered(k) : <<e.order, k>> \notin reinstated}
OverbookingIsBounded ==
    \A k \in Offline :
        MaxStudents[k] > 0 =>
            Cardinality(Overbooked(k)) < MaxStudents[k] + Cardinality(Handlers)

\* All of it: what customers spent is what their enrollments cost, once per
\* course, and places are oversold by the orders in flight at most.
OrdersAddUp == TypeOK /\ SpendingIsExplained /\ PaidOnce /\ OverbookingIsBounded

\* A customer who was locked after the order was read does not pay for it.
LockedCustomersKeepCredit ==
    [][\A c \in Customers \ active, method \in CreditMethods :
          balance'[c][method] >= balance[c][method]]_vars
=============================================================================
