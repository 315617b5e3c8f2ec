---------------------------- MODULE CourseProofs ------------------------------
(***************************************************************************)
(* What TLAPS proves of the courses that are sold: of checkouts, for any    *)
(* number of customers, courses, handlers and orders, where the write of the*)
(* customer makes an order the only one that pays from what it has read; and*)
(* of the catalogue (a part of Learning) they are sold from, for any courses,*)
(* lecturers and members of staff.  They share no state.                    *)
(***************************************************************************)
EXTENDS Checkout, Learning, Sums, FiniteSetTheorems, TLAPS

-----------------------------------------------------------------------------
(* The checkouts.                                                           *)

PCs == {"idle", "deleting"} \cup InTransaction

Types ==
    /\ active \subseteq Customers /\ stale \subseteq Handlers
    /\ orders \in Nat
    /\ enrollments \subseteq
         [order : Nat, student : Customers, course : Courses, ref : Refs,
          method : Methods, amountPaid : Nat, status : EnrollmentStatuses]
    /\ balance = [c \in Customers |-> balance[c]]
    /\ pc \in [Handlers -> PCs]
    /\ buyer \in [Handlers -> Customers \cup {None}]
    /\ cart = [h \in Handlers |-> cart[h]] /\ seen = [h \in Handlers |-> seen[h]]
    /\ \A h \in Handlers : pc[h] \in InTransaction => buyer[h] \in Customers /\ cart[h] \in Carts

\* Customer c pays for course k.
PaysFor(c, k) == \E e \in enrollments : e.student = c /\ e.course = k /\ e.amountPaid > 0

\* An order that may still be paid for, or is about to be.
Fresh(h) ==
    \/ pc[h] = "validated" /\ h \notin stale
    \/ pc[h] = "saved" /\ Pays(cart[h])

\* What it has read of its customer is still so.
ReadHolds(h, c) ==
    /\ c \in active
    /\ seen[h] = balance[c]
    /\ \A item \in cart[h] : item.ref = "id" => ~PaysFor(c, item.course)
FreshReads == \A h \in Handlers : Fresh(h) => ReadHolds(h, buyer[h])

OnePayer ==
    \A h, g \in Handlers :
        /\ pc[h] = "saved" /\ Pays(cart[h]) /\ pc[g] = "saved" /\ Pays(cart[g])
        /\ buyer[h] = buyer[g]
        => h = g

OldOrders == \A e \in enrollments : e.order <= orders

IInv == Types /\ FreshReads /\ OnePayer /\ OldOrders /\ PaidOnce

USE CheckoutAssumption DEF CreditMethods, Methods, EnrollmentStatuses, Items, InTransaction, PCs

LEMMA InitIInv == Init => IInv
BY DEF Init, IInv, Types, FreshReads, Fresh, OnePayer, OldOrders, PaidOnce

-----------------------------------------------------------------------------
(* Types.                                                                  *)

\* What an order adds.
Sold(c, items) ==
    {[order |-> orders', student |-> c, course |-> item.course, ref |-> item.ref,
      method |-> item.method, amountPaid |-> Price[item.course], status |-> "ACTIVE"] : item \in items}

LEMMA CommitSells ==
  ASSUME Types, NEW h \in Handlers, CommitOrder(h), NEW c, NEW items, c = buyer[h], items = cart[h]
  PROVE  /\ c \in Customers /\ items \in SUBSET Items
         /\ orders' = orders + 1
         /\ enrollments' = enrollments \cup Sold(c, items)
         /\ \A e \in Sold(c, items) :
               /\ e \in [order : Nat, student : Customers, course : Courses, ref : Refs,
                         method : Methods, amountPaid : Nat, status : EnrollmentStatuses]
               /\ e.order = orders + 1 /\ e.student = c
               /\ \E item \in items : /\ e.course = item.course /\ e.ref = item.ref
                                      /\ e.amountPaid = Price[item.course]
<1>1. c \in Customers /\ items \in SUBSET Items /\ orders' = orders + 1 /\ orders \in Nat
  BY DEF Types, CommitOrder
<1>2. enrollments' = enrollments \cup Sold(c, items)
  BY DEF CommitOrder, Sold
<1>3. ASSUME NEW item \in items
      PROVE  [order |-> orders', student |-> c, course |-> item.course, ref |-> item.ref,
              method |-> item.method, amountPaid |-> Price[item.course], status |-> "ACTIVE"] \in
             [order : Nat, student : Customers, course : Courses, ref : Refs,
              method : Methods, amountPaid : Nat, status : EnrollmentStatuses]
  BY <1>1, <1>3
<1> QED BY <1>1, <1>2, <1>3 DEF Sold

LEMMA TypesStep ==
  ASSUME Types, [Next]_vars PROVE Types'
<1> USE DEF Types, courseVars, historyVars, handlerVars, saleVars
<1>1. ASSUME NEW h \in Handlers, NEW c \in Customers, NEW items \in Carts, ReadCart(h, c, items) PROVE Types'
  BY <1>1 DEF ReadCart
<1>2. ASSUME NEW h \in Handlers, SaveCustomer(h) PROVE Types'
  BY <1>2 DEF SaveCustomer, Goto
<1>3. ASSUME NEW h \in Handlers, CommitOrder(h) PROVE Types'
  <2>1. PICK c, items : c = buyer[h] /\ items = cart[h]
    OBVIOUS
  <2>2. enrollments' \subseteq
         [order : Nat, student : Customers, course : Courses, ref : Refs,
          method : Methods, amountPaid : Nat, status : EnrollmentStatuses]
    BY <1>3, <2>1, CommitSells
  <2>3. balance' = [d \in Customers |-> balance'[d]]
    <3>1. \E b : balance' = [balance EXCEPT ![buyer[h]] = b] \/ balance' = balance
      BY <1>3 DEF CommitOrder
    <3> QED BY <3>1
  <2>4. /\ pc' \in [Handlers -> PCs] /\ buyer' \in [Handlers -> Customers \cup {None}]
        /\ cart' = [k \in Handlers |-> cart'[k]] /\ seen' = [k \in Handlers |-> seen'[k]]
        /\ \A k \in Handlers : pc'[k] \in InTransaction => buyer'[k] \in Customers /\ cart'[k] \in Carts
    BY <1>3 DEF CommitOrder, Return
  <2>5. stale' \subseteq Handlers /\ orders' \in Nat /\ active' = active
    BY <1>3 DEF CommitOrder, Touched
  <2> QED BY <2>2, <2>3, <2>4, <2>5
<1>4. ASSUME NEW h \in Handlers, AbortOrder(h) \/ DeleteCourse(h) PROVE Types'
  BY <1>4 DEF AbortOrder, DeleteCourse, Return
<1>5. ASSUME NEW c \in Customers, SetActive(c) PROVE Types'
  BY <1>5 DEF SetActive, Touched
<1>6. ASSUME NEW c \in Customers, NEW method \in CreditMethods, GrantCredit(c, method) PROVE Types'
  BY <1>6 DEF GrantCredit, Touched
<1>7. CASE CourseChange
  BY <1>7 DEF CourseChange, UpdateCourse, CloseRegistration, CountForDeletion
<1>8. ASSUME NEW e \in enrollments, NEW status \in AdminStatuses, UpdateEnrollmentStatus(e, status) PROVE Types'
  BY <1>8 DEF UpdateEnrollmentStatus
<1>9. CASE Crash
  BY <1>9 DEF Crash
<1>10. CASE UNCHANGED vars
  BY <1>10 DEF vars
<1> QED BY <1>1, <1>2, <1>3, <1>4, <1>5, <1>6, <1>7, <1>8, <1>9, <1>10 DEF Next, Checkout, CustomerChange

-----------------------------------------------------------------------------
(* Nobody else pays with the credit an order has read.                     *)

LEMMA PayerStep ==
  ASSUME Types, OnePayer, [Next]_vars PROVE OnePayer'
<1> USE DEF Types, OnePayer, courseVars, historyVars, handlerVars, saleVars
<1>1. CASE \A h \in Handlers : pc'[h] = "saved" => pc[h] = "saved" /\ cart'[h] = cart[h] /\ buyer'[h] = buyer[h]
  BY <1>1 DEF Pays
<1>2. ASSUME NEW h \in Handlers, SaveCustomer(h) PROVE OnePayer'
  BY <1>2 DEF SaveCustomer, Goto, CustomerHeld, Pays
<1>3. ASSUME NEW h \in Handlers, Checkout(h) PROVE OnePayer'
  BY <1>1, <1>2, <1>3 DEF Checkout, ReadCart, CommitOrder, AbortOrder, Return
<1>4. ASSUME NEW h \in Handlers, DeleteCourse(h) PROVE OnePayer'
  BY <1>1, <1>4 DEF DeleteCourse, Return
<1>5. CASE CustomerChange
  BY <1>1, <1>5 DEF CustomerChange, SetActive, GrantCredit
<1>6. CASE CourseChange
  BY <1>1, <1>6 DEF CourseChange, UpdateCourse, CloseRegistration, CountForDeletion
<1>7. ASSUME NEW e \in enrollments, NEW status \in AdminStatuses, UpdateEnrollmentStatus(e, status) PROVE OnePayer'
  BY <1>1, <1>7 DEF UpdateEnrollmentStatus
<1>8. CASE Crash \/ UNCHANGED vars
  BY <1>1, <1>8 DEF Crash, vars
<1> QED BY <1>3, <1>4, <1>5, <1>6, <1>7, <1>8 DEF Next

\* What handler g has read of its customer stays true.
ReadStays(g) ==
    /\ Fresh(g)
    /\ buyer'[g] = buyer[g] /\ cart'[g] = cart[g] /\ seen'[g] = seen[g]
    /\ buyer[g] \in active => buyer[g] \in active'
    /\ balance'[buyer[g]] = balance[buyer[g]]
    /\ \A e \in enrollments' : e.student = buyer[g] /\ e.amountPaid > 0 =>
          \E f \in enrollments : f.student = e.student /\ f.course = e.course /\ f.amountPaid > 0

LEMMA ReadStaysHolds ==
  ASSUME FreshReads, NEW g \in Handlers, ReadStays(g) PROVE ReadHolds(g, buyer[g])'
<1>1. PICK c : c = buyer[g]
  OBVIOUS
<1>2. ReadHolds(g, c)
  BY <1>1 DEF FreshReads, ReadStays
<1>3. c \in active' /\ seen'[g] = balance'[c] /\ c = buyer'[g]
  BY <1>1, <1>2 DEF ReadStays, ReadHolds
<1>4. \A item \in cart'[g] : item.ref = "id" => ~PaysFor(c, item.course)'
  BY <1>1, <1>2 DEF ReadStays, ReadHolds, PaysFor
<1> QED BY <1>3, <1>4 DEF ReadHolds, PaysFor

\* A step that changes customer c only, held by nobody.
LEMMA CustomerReads ==
  ASSUME Types, NEW c \in Customers, ~CustomerHeld(c), stale' = Touched(c),
         UNCHANGED <<enrollments, pc, buyer, cart, seen>>,
         \A d \in Customers \ {c} : balance'[d] = balance[d] /\ (d \in active => d \in active'),
         NEW g \in Handlers, Fresh(g)'
  PROVE  ReadStays(g)
BY DEF Types, CustomerHeld, Touched, Fresh, ReadStays, Pays

LEMMA CommitReads ==
  ASSUME Types, OnePayer, NEW h \in Handlers, CommitOrder(h), NEW g \in Handlers, Fresh(g)'
  PROVE  ReadStays(g)
<1>1. PICK c, items : c = buyer[h] /\ items = cart[h]
  OBVIOUS
<1>2. /\ pc[h] = "saved" /\ pc'[h] = "idle" /\ active' = active
      /\ \A k \in Handlers \ {h} : pc'[k] = pc[k] /\ buyer'[k] = buyer[k] /\ cart'[k] = cart[k] /\ seen'[k] = seen[k]
  BY DEF Types, CommitOrder, Return
<1>3. g # h /\ Fresh(g)
  <2>1. stale \subseteq stale' \cup {h}
    BY DEF CommitOrder, Touched
  <2> QED BY <1>2, <2>1 DEF Fresh, Pays
<1>4. /\ c \in Customers /\ items \in SUBSET Items
      /\ enrollments' = enrollments \cup Sold(c, items)
      /\ \A e \in Sold(c, items) : e.student = c /\ \E item \in items : e.amountPaid = Price[item.course]
  BY <1>1, CommitSells
<1>5. CASE ~Pays(items)
  <2>1. balance' = balance
    BY <1>1, <1>5 DEF CommitOrder
  <2>2. \A e \in Sold(c, items) : ~(e.amountPaid > 0)
    BY <1>4, <1>5 DEF Pays
  <2> QED BY <1>2, <1>3, <1>4, <2>1, <2>2 DEF ReadStays
<1>6. CASE Pays(items)
  <2>1. buyer[g] # c
    <3>1. g \in stale' \/ pc[g] = "saved" \/ buyer[g] # c
      BY <1>1, <1>2, <1>3, <1>6 DEF CommitOrder, Touched, Fresh
    <3>2. pc[g] = "saved" /\ Pays(cart[g]) => buyer[g] # c
      BY <1>1, <1>2, <1>3, <1>6 DEF OnePayer
    <3> QED BY <1>2, <1>3, <3>1, <3>2 DEF Fresh
  <2>2. \A d \in Customers \ {c} : balance'[d] = balance[d]
    <3>1. \E b : balance' = [balance EXCEPT ![c] = b]
      BY <1>1, <1>6 DEF CommitOrder
    <3> QED BY <3>1 DEF Types
  <2>3. buyer[g] \in Customers
    BY <1>3 DEF Types, Fresh
  <2> QED BY <1>2, <1>3, <1>4, <2>1, <2>2, <2>3 DEF ReadStays
<1> QED BY <1>5, <1>6

LEMMA ReadsStep ==
  ASSUME Types, OnePayer, FreshReads, [Next]_vars PROVE FreshReads'
<1> USE DEF Types, courseVars, historyVars, handlerVars, saleVars
<1> SUFFICES ASSUME NEW g \in Handlers, Fresh(g)'
             PROVE  ReadStays(g) \/ ReadHolds(g, buyer[g])'
  BY ReadStaysHolds DEF FreshReads
<1>1. ASSUME NEW h \in Handlers, NEW c \in Customers, NEW items \in Carts, ReadCart(h, c, items)
      PROVE  ReadStays(g) \/ ReadHolds(g, buyer[g])'
  <2>1. CASE g = h
    <3>1. /\ buyer'[g] = c /\ cart'[g] = items /\ seen'[g] = balance[c] /\ balance' = balance
          /\ c \in active /\ active' = active /\ enrollments' = enrollments
      BY <1>1, <2>1 DEF ReadCart
    <3>2. \A item \in items : item.ref = "id" => ~PaysFor(c, item.course)
      BY <1>1 DEF ReadCart, AlreadyEnrolled, OfCourse, PaysFor
    <3> QED BY <3>1, <3>2 DEF ReadHolds, PaysFor
  <2>2. CASE g # h
    BY <1>1, <2>2 DEF ReadCart, Fresh, ReadStays, Pays
  <2> QED BY <2>1, <2>2
<1>2. ASSUME NEW h \in Handlers, SaveCustomer(h) PROVE ReadStays(g)
  BY <1>2 DEF SaveCustomer, Goto, Fresh, ReadStays, Pays
<1>3. ASSUME NEW h \in Handlers, AbortOrder(h) \/ DeleteCourse(h) PROVE ReadStays(g)
  BY <1>3 DEF AbortOrder, DeleteCourse, Return, Fresh, ReadStays, Pays
<1>4. ASSUME NEW c \in Customers, SetActive(c) PROVE ReadStays(g)
  <2>1. \A d \in Customers \ {c} : balance'[d] = balance[d] /\ (d \in active => d \in active')
    BY <1>4 DEF SetActive
  <2> QED BY <1>4, <2>1, CustomerReads DEF SetActive
<1>5. ASSUME NEW c \in Customers, NEW method \in CreditMethods, GrantCredit(c, method) PROVE ReadStays(g)
  <2>1. \A d \in Customers \ {c} : balance'[d] = balance[d] /\ (d \in active => d \in active')
    BY <1>5 DEF GrantCredit
  <2> QED BY <1>5, <2>1, CustomerReads DEF GrantCredit
<1>6. ASSUME CourseChange PROVE ReadStays(g)
  BY <1>6 DEF CourseChange, UpdateCourse, CloseRegistration, CountForDeletion, Fresh, ReadStays, Pays
<1>7. ASSUME NEW e \in enrollments, NEW status \in AdminStatuses, UpdateEnrollmentStatus(e, status)
      PROVE  ReadStays(g)
  <2>1. \A f \in enrollments' : f \in enrollments \/
           (f.student = e.student /\ f.course = e.course /\ f.amountPaid = e.amountPaid)
    BY <1>7 DEF UpdateEnrollmentStatus
  <2> QED BY <1>7, <2>1 DEF UpdateEnrollmentStatus, Fresh, ReadStays, Pays
<1>8. CASE Crash
  BY <1>8 DEF Crash, Fresh
<1>9. CASE UNCHANGED vars
  BY <1>9 DEF vars, Fresh, ReadStays, Pays
<1> QED BY <1>1, <1>2, <1>3, <1>4, <1>5, <1>6, <1>7, <1>8, <1>9, CommitReads DEF Next, Checkout, CustomerChange

-----------------------------------------------------------------------------
(* Orders.                                                                 *)

LEMMA CommitPaysOnce ==
  ASSUME Types, FreshReads, OldOrders, PaidOnce, NEW h \in Handlers, CommitOrder(h)
  PROVE  OldOrders' /\ PaidOnce'
<1>1. PICK c, items : c = buyer[h] /\ items = cart[h]
  OBVIOUS
<1>2. /\ c \in Customers /\ items \in SUBSET Items
      /\ orders' = orders + 1 /\ orders \in Nat
      /\ enrollments' = enrollments \cup Sold(c, items)
      /\ \A e \in Sold(c, items) :
            /\ e.order = orders + 1 /\ e.student = c
            /\ \E item \in items : /\ e.course = item.course /\ e.ref = item.ref
                                   /\ e.amountPaid = Price[item.course]
  BY <1>1, CommitSells DEF Types
<1>3. \A e \in enrollments : e.order \in Nat /\ e.order <= orders
  BY DEF Types, OldOrders
<1>4. OldOrders'
  BY <1>2, <1>3 DEF OldOrders
<1>5. ASSUME NEW e \in enrollments, NEW f \in Sold(c, items), SameSale(e, f) PROVE f.ref = "_id"
  <2>1. PICK item \in items : f.course = item.course /\ f.ref = item.ref /\ f.amountPaid = Price[item.course]
    BY <1>2
  <2>2. Pays(items)
    BY <1>5, <2>1 DEF Pays, SameSale
  <2>3. ReadHolds(h, c)
    BY <1>1, <2>2 DEF FreshReads, Fresh, CommitOrder
  <2>4. PaysFor(c, item.course)
    BY <1>2, <1>5, <2>1 DEF PaysFor, SameSale
  <2>5. item.ref # "id" /\ item.ref \in {"id", "_id"}
    BY <1>1, <1>2, <2>3, <2>4 DEF ReadHolds
  <2> QED BY <2>1, <2>5
<1>6. PaidOnce'
  <2> SUFFICES ASSUME NEW e \in enrollments', NEW f \in enrollments', SameSale(e, f), e.order < f.order
               PROVE  f.ref = "_id"
    BY DEF PaidOnce
  <2>1. CASE f \in enrollments /\ e \in enrollments
    BY <2>1 DEF PaidOnce
  <2>2. CASE f \in Sold(c, items) /\ e \in enrollments
    BY <1>5, <2>2
  <2>3. CASE e \in Sold(c, items)
    BY <1>2, <1>3, <2>3
  <2> QED BY <1>2, <2>1, <2>2, <2>3
<1> QED BY <1>4, <1>6

LEMMA OrdersStep ==
  ASSUME Types, FreshReads, OldOrders, PaidOnce, [Next]_vars PROVE OldOrders' /\ PaidOnce'
<1> USE DEF courseVars, historyVars, handlerVars, saleVars
<1>1. CASE UNCHANGED <<orders, enrollments>>
  BY <1>1 DEF OldOrders, PaidOnce
<1>2. ASSUME NEW e \in enrollments, NEW status \in AdminStatuses, UpdateEnrollmentStatus(e, status)
      PROVE  OldOrders' /\ PaidOnce'
  <2>1. \A f \in enrollments' : \E d \in enrollments :
           /\ f.student = d.student /\ f.course = d.course /\ f.amountPaid = d.amountPaid
           /\ f.order = d.order /\ f.ref = d.ref
    BY <1>2 DEF UpdateEnrollmentStatus, Types
  <2>2. orders' = orders
    BY <1>2 DEF UpdateEnrollmentStatus
  <2> QED BY <2>1, <2>2 DEF OldOrders, PaidOnce, SameSale
<1>3. ASSUME NEW h \in Handlers, Checkout(h) \/ DeleteCourse(h) PROVE OldOrders' /\ PaidOnce'
  BY <1>1, <1>3, CommitPaysOnce DEF Checkout, ReadCart, SaveCustomer, AbortOrder, DeleteCourse
<1>4. CASE CustomerChange \/ CourseChange
  BY <1>1, <1>4 DEF CustomerChange, CourseChange, SetActive, GrantCredit, UpdateCourse, CloseRegistration,
     CountForDeletion
<1>5. CASE Crash \/ UNCHANGED vars
  BY <1>1, <1>5 DEF Crash, vars
<1> QED BY <1>2, <1>3, <1>4, <1>5 DEF Next

-----------------------------------------------------------------------------
(* The sums and the places.                                                *)

\* An order that is open buys each course once, and its customer could pay for
\* it when it was read.
OpenOrders ==
    \A h \in Handlers : pc[h] \in InTransaction =>
        /\ \A item, other \in cart[h] : item.course = other.course => item = other
        /\ \A method \in CreditMethods : seen[h][method] >= Due(cart[h], method)

\* An order enrolls once in a course, whatever becomes of the enrollment.
OneEnrollment ==
    \A e, f \in enrollments : e.order = f.order /\ e.course = f.course => e = f

\* Orders in flight that will take a place of course k.
Taking(k) ==
    {h \in Handlers : pc[h] \in InTransaction /\ \E item \in cart[h] : item.course = k}

\* The places taken and those about to be.
PlacesInv ==
    \A k \in Offline : MaxStudents[k] > 0 =>
        Cardinality(Overbooked(k)) + Cardinality(Taking(k))
            < MaxStudents[k] + Cardinality(Handlers)

Paid == [e \in enrollments |-> e.amountPaid]
PaidWith(c, method) == {e \in enrollments : e.student = c /\ e.method = method}

SaleInv ==
    /\ TypeOK /\ OpenOrders /\ OneEnrollment /\ IsFiniteSet(enrollments)
    /\ SpendingIsExplained /\ PlacesInv

\* What a cart costs per method is a natural number, zero for a free cart.
LEMMA DueIsNat ==
  ASSUME NEW items \in SUBSET Items, IsFiniteSet(items), NEW method
  PROVE  /\ Due(items, method) \in Nat
         /\ ~Pays(items) => Due(items, method) = 0
<1> DEFINE f == [item \in items |-> Price[item.course]]
           S == {item \in items : item.method = method}
<1>1. IsFiniteSet(S) /\ \A item \in S : f[item] \in Nat
  BY FS_Subset
<1>2. ASSUME ~Pays(items) PROVE \A item \in S : f[item] = 0
  BY <1>1, <1>2 DEF Pays
<1> HIDE DEF f, S
<1>3. SumFunctionOnSet(f, S) \in Nat
  BY <1>1, SumIsNat
<1>4. ASSUME ~Pays(items) PROVE SumFunctionOnSet(f, S) = 0
  BY <1>1, <1>2, <1>4, SumOfZeros
<1> QED BY <1>3, <1>4 DEF Due, f, S

LEMMA SoldIsFinite ==
  ASSUME NEW c, NEW items, IsFiniteSet(items) PROVE IsFiniteSet(Sold(c, items))
<1> DEFINE enroll == [item \in items |->
             [order |-> orders', student |-> c, course |-> item.course, ref |-> item.ref,
              method |-> item.method, amountPaid |-> Price[item.course], status |-> "ACTIVE"]]
<1>1. Sold(c, items) = Image(enroll, items)
  BY DEF Sold, Image
<1> HIDE DEF enroll
<1> QED BY <1>1, ImageIsFinite

\* What an order adds to the enrollments of a method costs what is due.
LEMMA SoldCosts ==
  ASSUME NEW c \in Customers, NEW items \in SUBSET Items, IsFiniteSet(items),
         \A item, other \in items : item.course = other.course => item = other,
         NEW method, NEW g, \A e \in Sold(c, items) : g[e] = e.amountPaid
  PROVE  SumFunctionOnSet(g, {e \in Sold(c, items) : e.method = method}) = Due(items, method)
<1> DEFINE enroll == [item \in items |->
             [order |-> orders', student |-> c, course |-> item.course, ref |-> item.ref,
              method |-> item.method, amountPaid |-> Price[item.course], status |-> "ACTIVE"]]
           f == [item \in items |-> Price[item.course]]
           S == {item \in items : item.method = method}
<1>2. {e \in Sold(c, items) : e.method = method} = Image(enroll, S)
  BY DEF Sold, Image
<1>3. \A item, other \in S : enroll[item] = enroll[other] => item = other
  <2> SUFFICES ASSUME NEW item \in S, NEW other \in S, enroll[item] = enroll[other]
               PROVE  item.course = other.course
    OBVIOUS
  <2>1. enroll[item].course = item.course /\ enroll[other].course = other.course
    OBVIOUS
  <2> QED BY <2>1
<1>4. \A item \in S : g[enroll[item]] = f[item] /\ f[item] \in Int
  <2>1. \A item \in S : enroll[item] \in Sold(c, items) /\ enroll[item].amountPaid = f[item]
    BY DEF Sold
  <2> QED BY <2>1
<1>5. IsFiniteSet(S)
  BY FS_Subset
<1> HIDE DEF enroll, f, S
<1>7. SumFunctionOnSet(g, Image(enroll, S)) = SumFunctionOnSet(f, S)
  BY <1>3, <1>4, <1>5, SumRenames
<1> QED BY <1>2, <1>7 DEF Due, f, S

\* What a commit does to the balance: it takes what is due, which is there.
LEMMA CommitTakes ==
  ASSUME Types, FreshReads, TypeOK, OpenOrders, NEW h \in Handlers, CommitOrder(h),
         NEW c, NEW items, c = buyer[h], items = cart[h]
  PROVE  /\ c \in Customers /\ items \in SUBSET Items /\ IsFiniteSet(items)
         /\ balance' \in [Customers -> Credit]
         /\ \A d \in Customers \ {c} : balance'[d] = balance[d]
         /\ \A method \in CreditMethods :
               balance'[c][method] = balance[c][method] - Due(items, method)
<1>1. /\ c \in Customers /\ items \in SUBSET Items /\ IsFiniteSet(items)
      /\ balance \in [Customers -> Credit]
  BY DEF Types, CommitOrder, TypeOK
<1>2. \A method \in CreditMethods : Due(items, method) \in Nat /\ balance[c][method] \in Nat
  BY <1>1, DueIsNat DEF Credit
<1>3. CASE ~Pays(items)
  <2>1. balance' = balance /\ \A method \in CreditMethods : Due(items, method) = 0
    BY <1>1, <1>3, DueIsNat DEF CommitOrder
  <2> QED BY <1>1, <1>2, <2>1
<1>4. CASE Pays(items)
  <2>1. seen[h] = balance[c]
    BY <1>4 DEF CommitOrder, FreshReads, Fresh, ReadHolds
  <2>2. balance' = [balance EXCEPT ![c] = Rest(balance[c], balance[c], items)]
    BY <1>1, <1>4, <2>1 DEF CommitOrder
  <2>3. \A method \in CreditMethods : balance[c][method] >= Due(items, method)
    BY <2>1 DEF CommitOrder, OpenOrders
  <2> DEFINE rest == Rest(balance[c], balance[c], items)
  <2>4. rest = [method \in CreditMethods |->
                  IF Due(items, method) > 0 THEN balance[c][method] - Due(items, method)
                  ELSE balance[c][method]]
    BY DEF Rest
  <2> HIDE DEF rest, CreditMethods
  <2>5. \A method \in CreditMethods : rest[method] = balance[c][method] - Due(items, method)
    BY <1>2, <2>4
  <2>6. \A method \in CreditMethods : rest[method] \in Nat
    BY <1>2, <2>3, <2>5
  <2>7. rest \in Credit
    BY <2>4, <2>6 DEF Credit
  <2>8. balance'[c] = rest /\ \A d \in Customers \ {c} : balance'[d] = balance[d]
    BY <1>1, <2>2 DEF rest
  <2>9. balance' \in [Customers -> Credit]
    BY <1>1, <2>2, <2>7 DEF rest
  <2> QED BY <1>1, <2>5, <2>8, <2>9
<1> QED BY <1>3, <1>4

LEMMA SaleTypes ==
  ASSUME Types, FreshReads, TypeOK, OpenOrders, [Next]_vars PROVE TypeOK'
<1> USE DEF courseVars, historyVars, handlerVars, saleVars
<1>0. NoCredit \in Credit
  BY DEF NoCredit, Credit
<1>1. ASSUME NEW h \in Handlers, NEW c \in Customers, NEW items \in Carts, ReadCart(h, c, items) PROVE TypeOK'
  BY <1>1 DEF ReadCart, TypeOK
<1>2. ASSUME NEW h \in Handlers, SaveCustomer(h) PROVE TypeOK'
  BY <1>2 DEF SaveCustomer, Goto, TypeOK
<1>3. ASSUME NEW h \in Handlers, CommitOrder(h) PROVE TypeOK'
  <2>1. PICK c, items : c = buyer[h] /\ items = cart[h]
    OBVIOUS
  <2>2. balance' \in [Customers -> Credit] /\ c \in Customers /\ items \in SUBSET Items
    BY <1>3, <2>1, CommitTakes
  <2>3. orders' \in 1 .. MaxOrders
    BY <1>3 DEF CommitOrder, TypeOK
  <2>4. \A item \in items :
          [order |-> orders', student |-> c, course |-> item.course, ref |-> item.ref,
           method |-> item.method, amountPaid |-> Price[item.course], status |-> "ACTIVE"] \in Enrollments
    BY <2>2, <2>3 DEF Enrollments
  <2>5. enrollments' = enrollments \cup Sold(c, items)
    BY <1>3, <2>1, CommitSells
  <2>6. enrollments' \subseteq Enrollments
    BY <2>4, <2>5 DEF TypeOK, Sold
  <2>7. stale' \subseteq Handlers
    BY <1>3 DEF CommitOrder, Touched, TypeOK
  <2> QED BY <1>0, <1>3, <2>2, <2>3, <2>6, <2>7 DEF CommitOrder, Return, TypeOK
<1>4. ASSUME NEW h \in Handlers, AbortOrder(h) \/ DeleteCourse(h) PROVE TypeOK'
  BY <1>0, <1>4 DEF AbortOrder, DeleteCourse, Return, TypeOK
<1>5. ASSUME NEW c \in Customers, SetActive(c) PROVE TypeOK'
  BY <1>5 DEF SetActive, Touched, TypeOK
<1>6. ASSUME NEW c \in Customers, NEW method \in CreditMethods, GrantCredit(c, method) PROVE TypeOK'
  <2>1. /\ [balance EXCEPT ![c][method] = @ + 1] \in [Customers -> Credit]
        /\ [credited EXCEPT ![c][method] = @ + 1] \in [Customers -> Credit]
    BY DEF TypeOK, Credit
  <2>2. balance' \in [Customers -> Credit] /\ credited' \in [Customers -> Credit]
    BY <1>6, <2>1 DEF GrantCredit
  <2> QED BY <1>6, <2>2 DEF GrantCredit, Touched, TypeOK
<1>7. CASE CourseChange
  BY <1>7 DEF CourseChange, UpdateCourse, CloseRegistration, CountForDeletion, TypeOK
<1>8. ASSUME NEW e \in enrollments, NEW status \in AdminStatuses, UpdateEnrollmentStatus(e, status) PROVE TypeOK'
  <2>1. e \in Enrollments
    BY DEF TypeOK
  <2>2. [e EXCEPT !.status = status] \in Enrollments /\ <<e.order, e.course>> \in (1 .. MaxOrders) \X Courses
    BY <2>1 DEF Enrollments
  <2> QED BY <1>8, <2>2 DEF UpdateEnrollmentStatus, TypeOK
<1>9. CASE Crash
  BY <1>0, <1>9 DEF Crash, TypeOK
<1>10. CASE UNCHANGED vars
  BY <1>10 DEF vars, TypeOK
<1> QED BY <1>1, <1>2, <1>3, <1>4, <1>5, <1>6, <1>7, <1>8, <1>9, <1>10 DEF Next, Checkout, CustomerChange

LEMMA OpenOrdersStep ==
  ASSUME Types, TypeOK, OpenOrders, [Next]_vars PROVE OpenOrders'
<1> USE DEF courseVars, historyVars, handlerVars, saleVars
<1>1. CASE \A h \in Handlers : pc'[h] \in InTransaction =>
              pc[h] \in InTransaction /\ cart'[h] = cart[h] /\ seen'[h] = seen[h]
  <2> SUFFICES ASSUME NEW h \in Handlers, pc'[h] \in InTransaction
               PROVE  /\ \A item, other \in cart'[h] : item.course = other.course => item = other
                      /\ \A method \in CreditMethods : seen'[h][method] >= Due(cart[h], method)'
    BY DEF OpenOrders
  <2>1. cart'[h] = cart[h] /\ seen'[h] = seen[h] /\ \A method : Due(cart[h], method)' = Due(cart[h], method)
    BY <1>1 DEF Due
  <2> QED BY <1>1, <2>1 DEF OpenOrders
<1>2. ASSUME NEW h \in Handlers, NEW c \in Customers, NEW items \in Carts, ReadCart(h, c, items) PROVE OpenOrders'
  <2> SUFFICES ASSUME NEW g \in Handlers, pc'[g] \in InTransaction
               PROVE  /\ \A item, other \in cart'[g] : item.course = other.course => item = other
                      /\ \A method \in CreditMethods : seen'[g][method] >= Due(cart[g], method)'
    BY DEF OpenOrders
  <2>1. CASE g = h
    <3>1. cart'[g] = items /\ seen'[g] = balance[c]
      BY <1>2, <2>1 DEF ReadCart, TypeOK
    <3>2. \A method : Due(cart[g], method)' = Due(items, method)
      BY <3>1 DEF Due
    <3>3. \A method \in CreditMethods : balance[c][method] >= Due(items, method)
      BY <1>2 DEF ReadCart, Affords
    <3> QED BY <1>2, <3>1, <3>2, <3>3 DEF ReadCart
  <2>2. CASE g # h
    <3>1. pc'[g] = pc[g] /\ cart'[g] = cart[g] /\ seen'[g] = seen[g]
      BY <1>2, <2>2 DEF ReadCart, TypeOK
    <3>2. \A method : Due(cart[g], method)' = Due(cart[g], method)
      BY <3>1 DEF Due
    <3> QED BY <3>1, <3>2 DEF OpenOrders
  <2> QED BY <2>1, <2>2
<1>3. ASSUME NEW h \in Handlers, SaveCustomer(h) PROVE OpenOrders'
  BY <1>1, <1>3 DEF SaveCustomer, Goto, TypeOK
<1>4. ASSUME NEW h \in Handlers, CommitOrder(h) \/ AbortOrder(h) \/ DeleteCourse(h) PROVE OpenOrders'
  BY <1>1, <1>4 DEF CommitOrder, AbortOrder, DeleteCourse, Return, TypeOK
<1>5. CASE CustomerChange
  BY <1>1, <1>5 DEF CustomerChange, SetActive, GrantCredit
<1>6. CASE CourseChange
  BY <1>1, <1>6 DEF CourseChange, UpdateCourse, CloseRegistration, CountForDeletion, TypeOK
<1>7. ASSUME NEW e \in enrollments, NEW status \in AdminStatuses, UpdateEnrollmentStatus(e, status) PROVE OpenOrders'
  BY <1>1, <1>7 DEF UpdateEnrollmentStatus
<1>8. CASE Crash \/ UNCHANGED vars
  BY <1>1, <1>8 DEF Crash, vars
<1> QED BY <1>2, <1>3, <1>4, <1>5, <1>6, <1>7, <1>8 DEF Next, Checkout

-----------------------------------------------------------------------------

LEMMA SpendingIs ==
  SpendingIsExplained <=> \A c \in Customers, method \in CreditMethods :
     balance[c][method] + SumFunctionOnSet(Paid, PaidWith(c, method)) = credited[c][method]
BY DEF SpendingIsExplained, Paid, PaidWith

\* Sums over the enrollments.
LEMMA PaidWithSums ==
  ASSUME TypeOK, IsFiniteSet(enrollments), NEW c, NEW method
  PROVE  /\ IsFiniteSet(PaidWith(c, method))
         /\ \A e \in enrollments : Paid[e] = e.amountPaid /\ Paid[e] \in Nat
         /\ SumFunctionOnSet(Paid, PaidWith(c, method)) \in Nat
<1>1. IsFiniteSet(PaidWith(c, method)) /\ PaidWith(c, method) \subseteq enrollments
  BY FS_Subset DEF PaidWith
<1>2. \A e \in enrollments : Paid[e] = e.amountPaid /\ Paid[e] \in Nat
  BY DEF TypeOK, Enrollments, Paid
<1>3. SumFunctionOnSet(Paid, PaidWith(c, method)) \in Nat
  BY <1>1, <1>2, SumIsNat
<1> QED BY <1>1, <1>2, <1>3

LEMMA CommitSpends ==
  ASSUME Types, FreshReads, OldOrders, SaleInv, NEW h \in Handlers, CommitOrder(h)
  PROVE  OneEnrollment' /\ IsFiniteSet(enrollments)' /\ SpendingIsExplained'
<1>1. PICK c, items : c = buyer[h] /\ items = cart[h]
  OBVIOUS
<1>2. /\ c \in Customers /\ items \in SUBSET Items /\ IsFiniteSet(items)
      /\ \A d \in Customers \ {c} : balance'[d] = balance[d]
      /\ \A method \in CreditMethods :
            balance'[c][method] = balance[c][method] - Due(items, method)
  BY <1>1, CommitTakes DEF SaleInv
<1>3. /\ enrollments' = enrollments \cup Sold(c, items)
      /\ \A e \in Sold(c, items) : e.order = orders + 1 /\ e.student = c
  BY <1>1, CommitSells
<1>4. \A item, other \in items : item.course = other.course => item = other
  BY <1>1 DEF SaleInv, OpenOrders, CommitOrder
<1>5. \A e \in enrollments : e.order \in Nat /\ e.order <= orders /\ orders \in Nat
  BY DEF Types, OldOrders
<1>6. enrollments \cap Sold(c, items) = {}
  BY <1>3, <1>5
<1>7. \A e, f \in Sold(c, items) : e.course = f.course => e = f
  <2> SUFFICES ASSUME NEW item \in items, NEW other \in items, item.course = other.course PROVE item = other
    BY DEF Sold
  <2> QED BY <1>4
<1>8. OneEnrollment'
  <2>1. \A e \in enrollments, f \in Sold(c, items) : e.order # f.order
    BY <1>3, <1>5
  <2> QED BY <1>3, <1>7, <2>1 DEF SaleInv, OneEnrollment
<1>9. \A e \in enrollments' : Paid'[e] = e.amountPaid
  BY DEF Paid
<1>10. IsFiniteSet(Sold(c, items))
  BY <1>2, SoldIsFinite
<1>11. IsFiniteSet(enrollments')
  BY <1>3, <1>10, FS_Union DEF SaleInv
<1>12. \A e \in Sold(c, items) : Paid'[e] \in Nat
  <2>1. \A e \in Sold(c, items) : e.amountPaid \in Nat
    BY <1>2 DEF Sold
  <2> QED BY <1>3, <1>9, <2>1
<1>13. credited' = credited
  BY DEF CommitOrder, historyVars
<1>14. ASSUME NEW d \in Customers, NEW method \in CreditMethods
       PROVE  balance'[d][method] + SumFunctionOnSet(Paid', PaidWith(d, method)') = credited'[d][method]
  <2> DEFINE S == PaidWith(d, method)
             X == {e \in Sold(c, items) : e.method = method}
  <2>1. /\ IsFiniteSet(S) /\ SumFunctionOnSet(Paid, S) \in Nat
        /\ \A e \in enrollments : Paid[e] = e.amountPaid /\ Paid[e] \in Nat
    BY PaidWithSums DEF SaleInv
  <2>2. S \subseteq enrollments
    BY DEF PaidWith
  <2>3. \A e \in S : Paid[e] = Paid'[e]
    BY <1>3, <1>9, <2>1, <2>2
  <2>4. SumFunctionOnSet(Paid, S) = SumFunctionOnSet(Paid', S)
    BY <2>1, <2>3, SumAgrees
  <2>5. balance[d][method] + SumFunctionOnSet(Paid, S) = credited[d][method]
    BY SpendingIs DEF SaleInv
  <2>6. CASE d # c
    <3>1. PaidWith(d, method)' = S
      BY <1>3, <2>6 DEF PaidWith
    <3> QED BY <1>2, <1>13, <2>4, <2>5, <2>6, <3>1
  <2>7. CASE d = c
    <3>1. PaidWith(d, method)' = S \cup X
      BY <1>3, <2>7 DEF PaidWith
    <3>2. IsFiniteSet(X) /\ S \cap X = {} /\ \A e \in S \cup X : Paid'[e] \in Int
      BY <1>6, <1>10, <1>12, <2>1, <2>2, <2>3, FS_Subset
    <3>3. SumFunctionOnSet(Paid', X) = Due(items, method)
      BY <1>2, <1>3, <1>4, <1>9, SoldCosts
    <3> HIDE DEF S, X
    <3>4. SumFunctionOnSet(Paid', S \cup X) = SumFunctionOnSet(Paid', S) + SumFunctionOnSet(Paid', X)
      BY <2>1, <3>2, SumJoins
    <3>5. balance[c][method] \in Nat /\ Due(items, method) \in Nat
      BY <1>2, DueIsNat DEF SaleInv, TypeOK, Credit
    <3> QED BY <1>2, <1>13, <2>1, <2>4, <2>5, <2>7, <3>1, <3>3, <3>4, <3>5
  <2> QED BY <2>6, <2>7
<1>15. SpendingIsExplained'
  BY <1>14 DEF SpendingIsExplained, Paid, PaidWith
<1> QED BY <1>8, <1>11, <1>15

\* An enrollment keeps its price whatever its status becomes.
LEMMA StatusSpends ==
  ASSUME SaleInv, NEW e \in enrollments, NEW status \in AdminStatuses,
         UpdateEnrollmentStatus(e, status)
  PROVE  OneEnrollment' /\ IsFiniteSet(enrollments)' /\ SpendingIsExplained'
<1> DEFINE n == [e EXCEPT !.status = status]
<1>1. e \in Enrollments /\ enrollments \subseteq Enrollments
  BY DEF SaleInv, TypeOK
<1>2. /\ n.order = e.order /\ n.course = e.course /\ n.student = e.student
      /\ n.method = e.method /\ n.amountPaid = e.amountPaid /\ e.amountPaid \in Nat
  BY <1>1 DEF Enrollments
<1>3. enrollments' = (enrollments \ {e}) \cup {n} /\ UNCHANGED <<balance, credited>>
  BY DEF UpdateEnrollmentStatus
<1> HIDE DEF n
<1>4. \A f \in enrollments \ {e} : f # n
  BY <1>2 DEF SaleInv, OneEnrollment
<1>5. OneEnrollment'
  BY <1>2, <1>3 DEF SaleInv, OneEnrollment
<1>6. IsFiniteSet(enrollments')
  BY <1>3, FS_RemoveElement, FS_AddElement DEF SaleInv
<1>7. \A f \in enrollments' : Paid'[f] = f.amountPaid
  BY DEF Paid
<1>8. ASSUME NEW c \in Customers, NEW method \in CreditMethods
      PROVE  balance'[c][method] + SumFunctionOnSet(Paid', PaidWith(c, method)') = credited'[c][method]
  <2> DEFINE S == PaidWith(c, method)
             Others == S \ {e}
  <2>7. S \subseteq enrollments
    BY DEF PaidWith
  <2>1. /\ IsFiniteSet(S) /\ S \subseteq enrollments
        /\ \A f \in enrollments : Paid[f] = f.amountPaid /\ Paid[f] \in Nat
    BY <2>7, PaidWithSums DEF SaleInv
  <2>2. IsFiniteSet(Others) /\ \A f \in Others : Paid[f] = Paid'[f] /\ Paid[f] \in Nat
    BY <1>3, <1>7, <2>1, FS_Subset
  <2>3. SumFunctionOnSet(Paid, Others) = SumFunctionOnSet(Paid', Others)
    BY <2>2, SumAgrees
  <2>4. balance[c][method] + SumFunctionOnSet(Paid, S) = credited[c][method]
    BY SpendingIs DEF SaleInv
  <2>5. CASE e \notin S
    <3>1. PaidWith(c, method)' = Others /\ Others = S
      BY <1>2, <1>3, <2>5 DEF PaidWith
    <3> QED BY <1>3, <2>3, <2>4, <3>1
  <2>6. CASE e \in S
    <3>1. PaidWith(c, method)' = Others \cup {n} /\ n \notin Others
      BY <1>2, <1>3, <1>4, <2>6 DEF PaidWith
    <3>2. Paid'[n] = e.amountPaid /\ Paid[e] = e.amountPaid
      BY <1>2, <1>3, <1>7, <2>1
    <3>3. \A f \in Others \cup {n} : Paid'[f] \in Int
      BY <1>2, <2>2, <3>2
    <3>4. \A f \in S : Paid[f] \in Int
      BY <2>1
    <3> HIDE DEF S
    <3>5. SumFunctionOnSet(Paid, S) = Paid[e] + SumFunctionOnSet(Paid, Others)
      BY <2>1, <2>6, <3>4, SumTakesAny
    <3> HIDE DEF Others
    <3>6. SumFunctionOnSet(Paid', Others \cup {n}) = Paid'[n] + SumFunctionOnSet(Paid', Others)
      BY <2>2, <3>1, <3>3, SumAdds
    <3> QED BY <1>3, <2>3, <2>4, <3>1, <3>2, <3>5, <3>6
  <2> QED BY <2>5, <2>6
<1>9. SpendingIsExplained'
  BY <1>8 DEF SpendingIsExplained, Paid, PaidWith
<1> QED BY <1>5, <1>6, <1>9

LEMMA SpendingStep ==
  ASSUME Types, FreshReads, OldOrders, SaleInv, [Next]_vars
  PROVE  OneEnrollment' /\ IsFiniteSet(enrollments)' /\ SpendingIsExplained'
<1> USE DEF courseVars, historyVars, handlerVars, saleVars
<1>1. CASE UNCHANGED <<enrollments, balance, credited>>
  BY <1>1 DEF SaleInv, OneEnrollment, SpendingIsExplained
<1>2. ASSUME NEW c \in Customers, NEW method \in CreditMethods, GrantCredit(c, method)
      PROVE  OneEnrollment' /\ IsFiniteSet(enrollments)' /\ SpendingIsExplained'
  <2>1. /\ enrollments' = enrollments
        /\ balance' = [balance EXCEPT ![c][method] = @ + 1]
        /\ credited' = [credited EXCEPT ![c][method] = @ + 1]
    BY <1>2 DEF GrantCredit
  <2>2. ASSUME NEW d \in Customers, NEW m \in CreditMethods
        PROVE  balance'[d][m] + SumFunctionOnSet(Paid', PaidWith(d, m)') = credited'[d][m]
    <3>1. SumFunctionOnSet(Paid', PaidWith(d, m)') = SumFunctionOnSet(Paid, PaidWith(d, m))
      BY <2>1 DEF Paid, PaidWith
    <3>2. /\ balance[d][m] + SumFunctionOnSet(Paid, PaidWith(d, m)) = credited[d][m]
          /\ SumFunctionOnSet(Paid, PaidWith(d, m)) \in Nat
      BY SpendingIs, PaidWithSums DEF SaleInv
    <3>3. /\ balance[d][m] \in Nat /\ credited[d][m] \in Nat
          /\ balance'[d][m] = IF d = c /\ m = method THEN balance[d][m] + 1 ELSE balance[d][m]
          /\ credited'[d][m] = IF d = c /\ m = method THEN credited[d][m] + 1 ELSE credited[d][m]
      BY <2>1 DEF SaleInv, TypeOK, Credit
    <3> QED BY <3>1, <3>2, <3>3
  <2>3. SpendingIsExplained'
    BY <2>2 DEF SpendingIsExplained, Paid, PaidWith
  <2> QED BY <2>1, <2>3 DEF SaleInv, OneEnrollment
<1>3. ASSUME NEW h \in Handlers, Checkout(h) \/ DeleteCourse(h)
      PROVE  OneEnrollment' /\ IsFiniteSet(enrollments)' /\ SpendingIsExplained'
  BY <1>1, <1>3, CommitSpends DEF Checkout, ReadCart, SaveCustomer, AbortOrder, DeleteCourse
<1>4. CASE CustomerChange
  BY <1>1, <1>2, <1>4 DEF CustomerChange, SetActive
<1>5. CASE CourseChange
  BY <1>1, <1>5 DEF CourseChange, UpdateCourse, CloseRegistration, CountForDeletion
<1>6. CASE Crash \/ UNCHANGED vars
  BY <1>1, <1>6 DEF Crash, vars
<1> QED BY <1>3, <1>4, <1>5, <1>6, StatusSpends DEF Next

-----------------------------------------------------------------------------

LEMMA PlacesFinite ==
  ASSUME IsFiniteSet(enrollments), NEW k
  PROVE  /\ IsFiniteSet(Overbooked(k)) /\ Cardinality(Overbooked(k)) \in Nat
         /\ IsFiniteSet(Registered(k)) /\ Cardinality(Registered(k)) \in Nat
         /\ Cardinality(Overbooked(k)) <= Cardinality(Registered(k))
         /\ IsFiniteSet(Taking(k)) /\ Cardinality(Taking(k)) \in Nat
         /\ Cardinality(Taking(k)) <= Cardinality(Handlers) /\ Cardinality(Handlers) \in Nat
<1>1. Registered(k) \subseteq enrollments /\ Overbooked(k) \subseteq Registered(k)
  BY DEF Registered, OfCourse, Overbooked
<1>2. IsFiniteSet(Registered(k)) /\ IsFiniteSet(Overbooked(k))
  BY <1>1, FS_Subset
<1>3. Taking(k) \subseteq Handlers
  BY DEF Taking
<1> QED BY <1>1, <1>2, <1>3, FS_Subset, FS_CardinalityType

\* Fewer places taken, or as many.
LEMMA PlacesStay ==
  ASSUME IsFiniteSet(enrollments), NEW k \in Offline, MaxStudents[k] > 0, PlacesInv,
         Overbooked(k)' \subseteq Overbooked(k), Taking(k)' \subseteq Taking(k)
  PROVE  Cardinality(Overbooked(k)') + Cardinality(Taking(k)') < MaxStudents[k] + Cardinality(Handlers)
<1>1. /\ Cardinality(Overbooked(k)') <= Cardinality(Overbooked(k)) /\ Cardinality(Overbooked(k)') \in Nat
      /\ Cardinality(Taking(k)') <= Cardinality(Taking(k)) /\ Cardinality(Taking(k)') \in Nat
  BY PlacesFinite, FS_Subset, FS_CardinalityType
<1>2. MaxStudents[k] \in Nat
  OBVIOUS
<1> QED BY <1>1, <1>2, PlacesFinite DEF PlacesInv

LEMMA ReadPlaces ==
  ASSUME Types, SaleInv, NEW h \in Handlers, NEW c \in Customers, NEW items \in Carts,
         ReadCart(h, c, items), NEW k \in Offline, MaxStudents[k] > 0
  PROVE  Cardinality(Overbooked(k)') + Cardinality(Taking(k)') < MaxStudents[k] + Cardinality(Handlers)
<1>1. enrollments' = enrollments /\ reinstated' = reinstated
  BY DEF ReadCart, saleVars, historyVars
<1>2. Overbooked(k)' = Overbooked(k)
  BY <1>1 DEF Overbooked, Registered, OfCourse
<1>3. CASE \E item \in items : item.course = k
  <2>1. Cardinality(Registered(k)) < MaxStudents[k]
    BY <1>3 DEF ReadCart, HasPlace
  <2>2. Taking(k)' \subseteq Handlers
    BY DEF Taking
  <2>3. Cardinality(Taking(k)') <= Cardinality(Handlers) /\ Cardinality(Taking(k)') \in Nat
    BY <2>2, FS_Subset, FS_CardinalityType
  <2>4. MaxStudents[k] \in Nat
    OBVIOUS
  <2> QED BY <1>2, <2>1, <2>3, <2>4, PlacesFinite DEF SaleInv
<1>4. CASE ~\E item \in items : item.course = k
  <2>1. Taking(k)' \subseteq Taking(k)
    BY <1>4 DEF ReadCart, Taking, SaleInv, TypeOK
  <2> QED BY <1>2, <2>1, PlacesStay DEF SaleInv
<1> QED BY <1>3, <1>4

LEMMA CommitPlaces ==
  ASSUME Types, OldOrders, SaleInv, NEW h \in Handlers, CommitOrder(h),
         NEW k \in Offline, MaxStudents[k] > 0
  PROVE  Cardinality(Overbooked(k)') + Cardinality(Taking(k)') < MaxStudents[k] + Cardinality(Handlers)
<1>1. PICK c, items : c = buyer[h] /\ items = cart[h]
  OBVIOUS
<1>2. enrollments' = enrollments \cup Sold(c, items) /\ reinstated' = reinstated
  BY <1>1, CommitSells DEF CommitOrder, historyVars
<1>3. /\ pc[h] = "saved" /\ pc'[h] = "idle"
      /\ \A g \in Handlers \ {h} : pc'[g] = pc[g] /\ cart'[g] = cart[g]
  BY DEF CommitOrder, Return, SaleInv, TypeOK
<1>4. Taking(k)' \subseteq Taking(k) \ {h}
  BY <1>3 DEF Taking
<1>5. \A item, other \in items : item.course = other.course => item = other
  BY <1>1, <1>3 DEF SaleInv, OpenOrders
<1>6. CASE \E item \in items : item.course = k
  <2>1. PICK item \in items : item.course = k
    BY <1>6
  <2> DEFINE e == [order |-> orders', student |-> c, course |-> item.course, ref |-> item.ref,
                   method |-> item.method, amountPaid |-> Price[item.course], status |-> "ACTIVE"]
  <2>2. \A f \in Sold(c, items) : f.course = k => f = e
    <3> SUFFICES ASSUME NEW other \in items, other.course = k PROVE other = item
      BY DEF Sold
    <3> QED BY <1>5, <2>1
  <2> HIDE DEF e
  <2>3. Overbooked(k)' \subseteq Overbooked(k) \cup {e}
    BY <1>2, <2>2 DEF Overbooked, Registered, OfCourse
  <2>4. h \in Taking(k)
    BY <1>1, <1>3, <2>1 DEF Taking
  <2>5. /\ IsFiniteSet(Overbooked(k)) /\ Cardinality(Overbooked(k)) \in Nat
        /\ IsFiniteSet(Taking(k)) /\ Cardinality(Taking(k)) \in Nat
        /\ Cardinality(Handlers) \in Nat /\ MaxStudents[k] \in Nat
    BY PlacesFinite DEF SaleInv
  <2>6. /\ IsFiniteSet(Overbooked(k) \cup {e})
        /\ Cardinality(Overbooked(k) \cup {e}) <= Cardinality(Overbooked(k)) + 1
    <3>1. /\ IsFiniteSet(Overbooked(k) \cup {e})
          /\ Cardinality(Overbooked(k) \cup {e})
               = IF e \in Overbooked(k) THEN Cardinality(Overbooked(k)) ELSE Cardinality(Overbooked(k)) + 1
      BY <2>5, FS_AddElement
    <3> QED BY <2>5, <3>1
  <2>7. IsFiniteSet(Taking(k) \ {h}) /\ Cardinality(Taking(k) \ {h}) = Cardinality(Taking(k)) - 1
    BY <2>4, <2>5, FS_RemoveElement
  <2>8. /\ Cardinality(Overbooked(k)') <= Cardinality(Overbooked(k) \cup {e})
        /\ Cardinality(Overbooked(k)') \in Nat /\ Cardinality(Overbooked(k) \cup {e}) \in Nat
    BY <2>3, <2>6, FS_Subset, FS_CardinalityType
  <2>9. /\ Cardinality(Taking(k)') <= Cardinality(Taking(k) \ {h})
        /\ Cardinality(Taking(k)') \in Nat
    BY <1>4, <2>7, FS_Subset, FS_CardinalityType
  <2>10. Cardinality(Overbooked(k)) + Cardinality(Taking(k)) < MaxStudents[k] + Cardinality(Handlers)
    BY DEF SaleInv, PlacesInv
  <2> QED BY <2>5, <2>6, <2>7, <2>8, <2>9, <2>10
<1>7. CASE ~\E item \in items : item.course = k
  <2>1. \A f \in Sold(c, items) : f.course # k
    BY <1>7 DEF Sold
  <2>2. Overbooked(k)' \subseteq Overbooked(k)
    BY <1>2, <2>1 DEF Overbooked, Registered, OfCourse
  <2> QED BY <1>4, <2>2, PlacesStay DEF SaleInv
<1> QED BY <1>6, <1>7

LEMMA PlacesStep ==
  ASSUME Types, OldOrders, SaleInv, [Next]_vars PROVE PlacesInv'
<1> USE DEF courseVars, historyVars, handlerVars, saleVars
<1> SUFFICES ASSUME NEW k \in Offline, MaxStudents[k] > 0
             PROVE  Cardinality(Overbooked(k)') + Cardinality(Taking(k)')
                      < MaxStudents[k] + Cardinality(Handlers)
  BY DEF PlacesInv
<1> DEFINE Within == Cardinality(Overbooked(k)') + Cardinality(Taking(k)')
                      < MaxStudents[k] + Cardinality(Handlers)
<1>1. CASE /\ UNCHANGED <<enrollments, reinstated>>
           /\ \A h \in Handlers : pc'[h] \in InTransaction => pc[h] \in InTransaction /\ cart'[h] = cart[h]
  <2>1. Overbooked(k)' = Overbooked(k)
    BY <1>1 DEF Overbooked, Registered, OfCourse
  <2>2. Taking(k)' \subseteq Taking(k)
    BY <1>1 DEF Taking
  <2> QED BY <2>1, <2>2, PlacesStay DEF SaleInv
<1> HIDE DEF Within
<1>2. ASSUME NEW h \in Handlers, SaveCustomer(h) \/ AbortOrder(h) \/ DeleteCourse(h) PROVE Within
  BY <1>1, <1>2 DEF SaveCustomer, Goto, AbortOrder, DeleteCourse, Return, SaleInv, TypeOK, Within
<1>3. CASE CustomerChange
  BY <1>1, <1>3 DEF CustomerChange, SetActive, GrantCredit, Within
<1>4. CASE CourseChange
  BY <1>1, <1>4 DEF CourseChange, UpdateCourse, CloseRegistration, CountForDeletion, SaleInv, TypeOK, Within
<1>5. CASE Crash \/ UNCHANGED vars
  BY <1>1, <1>5 DEF Crash, vars, Within
<1>6. ASSUME NEW e \in enrollments, NEW status \in AdminStatuses, UpdateEnrollmentStatus(e, status) PROVE Within
  <2>1. /\ enrollments' = (enrollments \ {e}) \cup {[e EXCEPT !.status = status]}
        /\ reinstated \subseteq reinstated'
        /\ status = "ACTIVE" => <<e.order, e.course>> \in reinstated'
        /\ UNCHANGED <<pc, cart>>
    BY <1>6 DEF UpdateEnrollmentStatus
  <2>2. e \in Enrollments
    BY DEF SaleInv, TypeOK
  <2> DEFINE n == [e EXCEPT !.status = status]
  <2>3. n.order = e.order /\ n.course = e.course /\ n.status = status
    BY <2>2 DEF Enrollments
  <2> HIDE DEF n
  <2>4. Overbooked(k)' \subseteq Overbooked(k)
    BY <2>1, <2>3 DEF Overbooked, Registered, OfCourse, n
  <2>5. Taking(k)' = Taking(k)
    BY <2>1 DEF Taking
  <2> QED BY <2>4, <2>5, PlacesStay DEF SaleInv, Within
<1>7. ASSUME NEW h \in Handlers, Checkout(h) PROVE Within
  BY <1>2, <1>7, ReadPlaces, CommitPlaces DEF Checkout, Within
<1> QED BY <1>2, <1>3, <1>4, <1>5, <1>6, <1>7 DEF Next, Within

LEMMA InitSales == Init => SaleInv
<1> SUFFICES ASSUME Init PROVE SaleInv
  OBVIOUS
<1>1. TypeOK
  BY DEF Init, TypeOK, Credit, NoCredit
<1>2. OpenOrders /\ OneEnrollment /\ enrollments = {}
  BY DEF Init, OpenOrders, OneEnrollment
<1>3. IsFiniteSet(enrollments) /\ SumFunctionOnSet(Paid, {}) = 0
  BY <1>2, FS_EmptySet, SumEmpty
<1>4. SpendingIsExplained
  <2>1. \A c, method : PaidWith(c, method) = {}
    BY <1>2 DEF PaidWith
  <2>2. \A c \in Customers, method \in CreditMethods : balance[c][method] = 0 /\ credited[c][method] = 0
    BY DEF Init, NoCredit
  <2>3. \A c \in Customers, method \in CreditMethods : SumFunctionOnSet(Paid, PaidWith(c, method)) = 0
    BY <1>3, <2>1
  <2> QED BY <2>2, <2>3, SpendingIs
<1>5. PlacesInv
  <2> SUFFICES ASSUME NEW k \in Offline, MaxStudents[k] > 0
               PROVE  Cardinality(Overbooked(k)) + Cardinality(Taking(k)) < MaxStudents[k] + Cardinality(Handlers)
    BY DEF PlacesInv
  <2>1. Overbooked(k) = {} /\ Taking(k) = {}
    BY DEF Init, Overbooked, Registered, OfCourse, Taking
  <2>2. Cardinality(Overbooked(k)) = 0 /\ Cardinality(Taking(k)) = 0
    BY <2>1, FS_EmptySet
  <2>3. Cardinality(Handlers) \in Nat /\ MaxStudents[k] \in Nat
    BY FS_CardinalityType
  <2> QED BY <2>2, <2>3
<1> QED BY <1>1, <1>2, <1>3, <1>4, <1>5 DEF SaleInv

-----------------------------------------------------------------------------
(* The theorems.                                                           *)

LEMMA NextIInv == IInv /\ [Next]_vars => IInv'
BY TypesStep, ReadsStep, PayerStep, OrdersStep DEF IInv

LEMMA Invariance == Spec => []IInv
BY InitIInv, NextIInv, PTL DEF Spec

LEMMA SaleStep == IInv /\ SaleInv /\ [Next]_vars => SaleInv'
BY SaleTypes, OpenOrdersStep, SpendingStep, PlacesStep DEF IInv, SaleInv

\* Whichever orders, grants, locks and enrollment changes are in between:
\* customers spent what their enrollments cost, no balance is overdrawn, a
\* student pays for a course once (unless the second order names it by _id),
\* and orders in flight are the most that a course is oversold by.
THEOREM OrdersAlwaysAddUp == Spec => []OrdersAddUp
<1>1. SaleInv => OverbookingIsBounded
  <2> SUFFICES ASSUME SaleInv, NEW k \in Offline, MaxStudents[k] > 0
               PROVE  Cardinality(Overbooked(k)) < MaxStudents[k] + Cardinality(Handlers)
    BY DEF OverbookingIsBounded
  <2>1. Cardinality(Overbooked(k)) + Cardinality(Taking(k)) < MaxStudents[k] + Cardinality(Handlers)
    BY DEF SaleInv, PlacesInv
  <2>2. MaxStudents[k] \in Nat
    OBVIOUS
  <2> QED BY <2>1, <2>2, PlacesFinite DEF SaleInv
<1>2. IInv /\ SaleInv => OrdersAddUp
  BY <1>1 DEF IInv, SaleInv, OrdersAddUp
<1> QED BY <1>2, InitIInv, InitSales, NextIInv, SaleStep, PTL DEF Spec

\* An order that is about to pay writes back the balance its customer still has.
THEOREM ReadsStayFresh == Spec => []FreshReads
<1>1. IInv => FreshReads
  BY DEF IInv
<1> QED BY <1>1, Invariance, PTL

\* The balance of a locked customer changes by a grant of credit only.
LEMMA LockedStep ==
  ASSUME IInv, [Next]_vars, NEW c \in Customers \ active, balance'[c] # balance[c]
  PROVE  \E method \in CreditMethods : GrantCredit(c, method)
<1> USE DEF IInv, Types, courseVars, historyVars, handlerVars, saleVars
<1>1. ASSUME NEW h \in Handlers, CommitOrder(h) PROVE balance'[c] = balance[c]
  <2>1. CASE ~Pays(cart[h])
    BY <1>1, <2>1 DEF CommitOrder
  <2>2. CASE Pays(cart[h])
    <3>1. buyer[h] \in active
      <4>1. Fresh(h)
        BY <1>1, <2>2 DEF CommitOrder, Fresh
      <4> QED BY <4>1 DEF FreshReads, ReadHolds
    <3>2. \E b : balance' = [balance EXCEPT ![buyer[h]] = b]
      BY <1>1, <2>2 DEF CommitOrder
    <3> QED BY <3>1, <3>2
  <2> QED BY <2>1, <2>2
<1>2. ASSUME NEW d \in Customers, NEW method \in CreditMethods, GrantCredit(d, method), d # c
      PROVE  balance'[c] = balance[c]
  BY <1>2 DEF GrantCredit
<1>3. CASE CustomerChange
  BY <1>2, <1>3 DEF CustomerChange, SetActive
<1>4. CASE CourseChange \/ Crash \/ UNCHANGED vars
  BY <1>4 DEF CourseChange, UpdateCourse, CloseRegistration, CountForDeletion, Crash, vars
<1>5. ASSUME NEW h \in Handlers, Checkout(h) \/ DeleteCourse(h) PROVE balance'[c] = balance[c]
  BY <1>1, <1>5 DEF Checkout, ReadCart, SaveCustomer, AbortOrder, DeleteCourse
<1> QED BY <1>3, <1>4, <1>5 DEF Next, UpdateEnrollmentStatus

\* An order that was read before the customer was locked takes no credit.
THEOREM LockedCustomersKeepTheirCredit == Spec => LockedCustomersKeepCredit
<1>1. ASSUME IInv, TypeOK, [Next]_vars, NEW c \in Customers \ active, NEW method \in CreditMethods
      PROVE  balance'[c][method] >= balance[c][method]
  <2>1. balance[c][method] \in Nat
    BY <1>1 DEF TypeOK, Credit
  <2>2. ASSUME NEW m \in CreditMethods, GrantCredit(c, m) PROVE balance'[c][method] >= balance[c][method]
    BY <1>1, <2>1, <2>2 DEF GrantCredit, TypeOK, Credit
  <2>3. balance'[c] # balance[c] => \E m \in CreditMethods : GrantCredit(c, m)
    BY <1>1, LockedStep
  <2> QED BY <2>1, <2>2, <2>3
<1>2. IInv /\ TypeOK /\ [Next]_vars => [\A c \in Customers \ active, method \in CreditMethods :
                balance'[c][method] >= balance[c][method]]_vars
  BY <1>1
<1>3. OrdersAddUp => TypeOK
  BY DEF OrdersAddUp
<1> QED BY <1>2, <1>3, Invariance, OrdersAlwaysAddUp, PTL DEF Spec, LockedCustomersKeepCredit

\* The rest is about Learning.
HIDE CheckoutAssumption DEF CreditMethods, Methods, EnrollmentStatuses, Items, InTransaction, PCs

-----------------------------------------------------------------------------
(* The catalogue.  What a member of staff has looked up stays so, unless    *)
(* another's request is in the histories for it.                            *)

CourseShape(x) ==
    /\ x = [state |-> x.state, template |-> x.template, from |-> x.from, days |-> x.days,
            curriculum |-> x.curriculum, lecturers |-> x.lecturers, version |-> x.version]
    /\ x.lecturers \subseteq Lecturers
DeskShape(x) == x = [step |-> x.step, on |-> x.on, doc |-> x.doc, writes |-> x.writes, from |-> x.from]
CatalogueTypes ==
    /\ courses = [c \in CourseIds |-> courses[c]]
    /\ \A c \in CourseIds : CourseShape(courses[c]) /\ courses[c].version \in Nat
    /\ faculty = [l \in Lecturers |-> faculty[l]] /\ enrolled \subseteq CourseIds
    /\ desks = [s \in Staff |-> desks[s]] /\ \A s \in Staff : DeskShape(desks[s])

Known(c) == c \in CourseIds /\ courses[c].state # "none"
FromTemplate(from) == from \in CourseIds => Known(from) /\ courses[from].template

\* What a member of staff, or an order, is about to do.
InsertFits(x) ==
    x.step = "insert" =>
        /\ x.on \in CourseIds /\ CourseShape(x.doc) /\ x.doc.state = "live" /\ x.doc.version \in Nat
        /\ FromTemplate(x.doc.from)
\* An update of a template brings its days with its curriculum; a course may
\* be given days of its own, and is in resized when they are saved.
SaveFits(x) ==
    x.step = "save" =>
        /\ Known(x.on) /\ x.doc.version \in Nat /\ x.doc.version <= courses[x.on].version
        /\ x.doc.lecturers \subseteq Lecturers
        /\ x.on \notin bare \cup resized =>
              /\ courses[x.on].template /\ "days" \in x.writes => "curriculum" \in x.writes
              /\ "curriculum" \in x.writes /\ (courses[x.on].template \/ "days" \notin x.writes) =>
                    C!MatchesDays(x.doc.days, x.doc.curriculum)
              /\ "days" \notin x.writes /\ x.doc.version = courses[x.on].version => x.doc.days = courses[x.on].days
DeleteFits(x) == x.step = "delete" => Known(x.on) /\ (C!Bought(x.on) => x.on \in boughtLate)
BuyFits(x) == x.step = "buy" => Known(x.on) /\ (courses[x.on].state = "deleted" => x.on \in boughtLate)
LecturerFits(x) ==
    x.step = "lecturer" =>
        /\ x.on \in Lecturers
        /\ "pull" \notin x.writes /\ C!InUse(x.on) => x.on \in hurried
DeskFits(x) == InsertFits(x) /\ SaveFits(x) /\ DeleteFits(x) /\ BuyFits(x) /\ LecturerFits(x)

CatalogueInv ==
    /\ CatalogueTypes
    /\ \A c \in CourseIds : FromTemplate(courses[c].from)
    /\ \A c \in enrolled : Known(c)
    /\ C!LecturersExist /\ C!NoStudentsBehind /\ C!DaysAreWhole
    /\ \A s \in Staff : DeskFits(desks[s])

LEMMA RestFits == DeskShape(C!AtRest) /\ DeskFits(C!AtRest)
BY DEF C!AtRest, DeskShape, DeskFits, InsertFits, SaveFits, DeleteFits, BuyFits, LecturerFits

LEMMA CatalogueFirst == LearningInit => (part = "catalogue" => CatalogueInv)
<1>. SUFFICES ASSUME LearningInit PROVE CatalogueInv
  OBVIOUS
<1>1. PICK start \in CatalogueStarts :
        /\ courses = start.courses
        /\ faculty = [l \in Lecturers |-> "active"]
        /\ enrolled = {} /\ desks = [s \in Staff |-> C!AtRest]
        /\ bare = {} /\ resized = {} /\ hurried = {} /\ boughtLate = {} /\ abandoned = {}
  BY DEF LearningInit, C!CatalogueInit
<1>2. courses = [c \in CourseIds |-> courses[c]]
  BY <1>1, CatalogueAssumption
<1>3. ASSUME NEW c \in CourseIds
      PROVE  /\ CourseShape(courses[c]) /\ courses[c].version \in Nat
             /\ FromTemplate(courses[c].from) /\ courses[c].lecturers \subseteq Lecturers
             /\ C!Live(c) => C!MatchesDays(courses[c].days, courses[c].curriculum)
  <2>. PICK x : x = courses[c]
    OBVIOUS
  <2>1. x \in [state : {"none", "live", "deleted"}, template : BOOLEAN, from : CourseIds \cup {NoCourse}, days : Nat,
               curriculum : [size : Nat, by : Nat], lecturers : SUBSET Lecturers, version : Nat]
    BY <1>1, CatalogueAssumption
  <2>2. /\ x.from \in CourseIds => courses[x.from].template /\ courses[x.from].state # "none"
        /\ x.state = "live" => C!MatchesDays(x.days, x.curriculum)
    BY <1>1, CatalogueAssumption
  <2>3. CourseShape(x) /\ x.version \in Nat /\ x.lecturers \subseteq Lecturers
    BY <2>1 DEF CourseShape
  <2>. QED
    BY <2>2, <2>3 DEF FromTemplate, Known, C!Live
<1>4. CatalogueTypes
  BY <1>1, <1>2, <1>3, RestFits DEF CatalogueTypes
<1>5. \A s \in Staff : DeskFits(desks[s])
  BY <1>1, RestFits
<1>6. C!LecturersExist /\ C!NoStudentsBehind /\ C!DaysAreWhole
  BY <1>1, <1>3 DEF C!LecturersExist, C!NoStudentsBehind, C!DaysAreWhole
<1>. QED
  BY <1>1, <1>3, <1>4, <1>5, <1>6 DEF CatalogueInv

LEMMA CatalogueRests == CatalogueInv /\ UNCHANGED catalogueVars => CatalogueInv'
<1>. SUFFICES ASSUME CatalogueInv, UNCHANGED catalogueVars PROVE CatalogueInv'
  OBVIOUS
<1>1. CatalogueTypes'
  BY DEF CatalogueInv, catalogueVars, CatalogueTypes, CourseShape, DeskShape
<1>2. (\A c \in CourseIds : FromTemplate(courses[c].from))' /\ (\A c \in enrolled : Known(c))'
  BY DEF CatalogueInv, catalogueVars, FromTemplate, Known
<1>3. C!LecturersExist' /\ C!NoStudentsBehind' /\ C!DaysAreWhole'
  BY DEF CatalogueInv, catalogueVars, C!LecturersExist, C!NoStudentsBehind, C!DaysAreWhole, C!Live, C!MatchesDays
<1>4. ASSUME NEW s \in Staff PROVE DeskFits(desks[s])'
  BY DEF CatalogueInv, catalogueVars, DeskFits, InsertFits, SaveFits, DeleteFits, BuyFits, LecturerFits,
         CourseShape, FromTemplate, Known, C!Bought, C!InUse, C!Live, C!MatchesDays
<1>. QED
  BY <1>1, <1>2, <1>3, <1>4 DEF CatalogueInv

\* A request begins with what fits what it looked up.
LEMMA BeginDeskKeeps ==
    ASSUME CatalogueInv, NEW s \in Staff, NEW op, NEW x, C!Begin(s, op, x), DeskShape(x), DeskFits(x)
    PROVE  CatalogueInv'
<1>1. /\ desks' = [desks EXCEPT ![s] = x]
      /\ UNCHANGED <<courses, faculty, enrolled, resized, bare, hurried, boughtLate, abandoned>>
  BY DEF C!Begin, C!catalogueHistory
<1>2. /\ desks' = [t \in Staff |-> desks'[t]]
      /\ \A t \in Staff : DeskShape(desks'[t]) /\ DeskFits(desks'[t])
  BY <1>1 DEF CatalogueInv, CatalogueTypes
<1>3. CatalogueTypes'
  BY <1>1, <1>2 DEF CatalogueInv, CatalogueTypes, CourseShape
<1>4. (\A c \in CourseIds : FromTemplate(courses[c].from))' /\ (\A c \in enrolled : Known(c))'
  BY <1>1 DEF CatalogueInv, FromTemplate, Known
<1>5. C!LecturersExist' /\ C!NoStudentsBehind' /\ C!DaysAreWhole'
  BY <1>1 DEF CatalogueInv, C!LecturersExist, C!NoStudentsBehind, C!DaysAreWhole, C!Live, C!MatchesDays
<1>6. ASSUME NEW t \in Staff PROVE DeskFits(desks[t])'
  <2>1. DeskFits(desks'[t])
    BY <1>2
  <2>2. InsertFits(desks[t])' /\ SaveFits(desks[t])'
    BY <1>1, <2>1 DEF DeskFits, InsertFits, SaveFits, CourseShape, FromTemplate, Known, C!MatchesDays
  <2>3. DeleteFits(desks[t])' /\ BuyFits(desks[t])' /\ LecturerFits(desks[t])'
    BY <1>1, <2>1 DEF DeskFits, DeleteFits, BuyFits, LecturerFits, Known, C!Bought, C!InUse, C!Live
  <2>. QED
    BY <2>2, <2>3 DEF DeskFits, InsertFits, SaveFits, DeleteFits, BuyFits, LecturerFits,
         CourseShape, FromTemplate, Known, C!Bought, C!InUse, C!Live, C!MatchesDays
<1>. QED
  BY <1>3, <1>4, <1>5, <1>6 DEF CatalogueInv

\* The requests, field by field.
LEMMA DeskIs ==
    ASSUME NEW step, NEW on, NEW doc, NEW writes
    PROVE  C!Desk(step, on, doc, writes) = [step |-> step, on |-> on, doc |-> doc, writes |-> writes, from |-> NoCourse]
<1>. PICK rest : rest = C!Blank
  OBVIOUS
<1>. DEFINE a == [C!AtRest EXCEPT !.step = step]
            b == [a EXCEPT !.on = on]
            d == [b EXCEPT !.doc = doc]
            e == [d EXCEPT !.writes = writes]
<1>1. C!AtRest = [step |-> "none", on |-> NoCourse, doc |-> rest, writes |-> {}, from |-> NoCourse]
  BY DEF C!AtRest
<1>2. a = [step |-> step, on |-> NoCourse, doc |-> rest, writes |-> {}, from |-> NoCourse]
  BY <1>1
<1>. HIDE DEF a
<1>3. b = [step |-> step, on |-> on, doc |-> rest, writes |-> {}, from |-> NoCourse]
  BY <1>2
<1>. HIDE DEF b
<1>4. d = [step |-> step, on |-> on, doc |-> doc, writes |-> {}, from |-> NoCourse]
  BY <1>3
<1>. HIDE DEF d
<1>5. e = [step |-> step, on |-> on, doc |-> doc, writes |-> writes, from |-> NoCourse]
  BY <1>4
<1>. QED
  BY <1>5 DEF a, b, d, e, C!Desk

LEMMA DeskFields ==
    ASSUME NEW step, NEW on, NEW doc, NEW writes, NEW x, x = C!Desk(step, on, doc, writes)
    PROVE  /\ DeskShape(x) /\ x.step = step /\ x.on = on /\ x.doc = doc /\ x.writes = writes
<1>1. x = [step |-> step, on |-> on, doc |-> doc, writes |-> writes, from |-> NoCourse]
  BY DeskIs
<1>. QED
  BY <1>1 DEF DeskShape

\* A new document is well formed.
LEMMA NewIsCourse ==
    ASSUME NEW template, NEW from, NEW days, NEW curriculum, NEW lecturers \in SUBSET Lecturers, NEW x,
           x = C!NewCourse(template, from, days, curriculum, lecturers)
    PROVE  CourseShape(x) /\ x.state = "live" /\ x.from = from /\ x.version = 0
<1>1. x = [state |-> "live", template |-> template, from |-> from, days |-> days,
           curriculum |-> curriculum, lecturers |-> lecturers, version |-> 0]
  BY DEF C!NewCourse
<1>. QED
  BY <1>1 DEF CourseShape

LEMMA InsertBegins ==
    ASSUME CatalogueInv, NEW s \in Staff, NEW op, NEW c \in CourseIds, NEW x, C!Begin(s, op, x),
           DeskShape(x), x.step = "insert", x.on = c,
           CourseShape(x.doc), x.doc.state = "live", x.doc.version = 0, FromTemplate(x.doc.from)
    PROVE  CatalogueInv'
<1>1. DeskFits(x)
  BY DEF DeskFits, InsertFits, SaveFits, DeleteFits, BuyFits, LecturerFits
<1>. QED
  BY <1>1, BeginDeskKeeps

LEMMA CreatesKeep ==
    ASSUME CatalogueInv, NEW s \in Staff, NEW c \in CourseIds, NEW lecturers \in SUBSET Lecturers,
           \/ \E days, size : C!CreateTemplate(s, c, days, size, lecturers)
           \/ C!CreateCourse(s, c, lecturers)
    PROVE  CatalogueInv'
<1>1. FromTemplate(NoCourse)
  BY CatalogueAssumption DEF FromTemplate
<1>2. ASSUME NEW template, NEW days, NEW curriculum,
             C!Begin(s, "create", C!Desk("insert", c, C!NewCourse(template, NoCourse, days, curriculum, lecturers), {}))
      PROVE  CatalogueInv'
  <2>. PICK doc, x : doc = C!NewCourse(template, NoCourse, days, curriculum, lecturers) /\ x = C!Desk("insert", c, doc, {})
    OBVIOUS
  <2>1. CourseShape(doc) /\ doc.state = "live" /\ doc.from = NoCourse /\ doc.version = 0
    BY NewIsCourse
  <2>2. DeskShape(x) /\ x.step = "insert" /\ x.on = c /\ x.doc = doc
    BY DeskFields
  <2>. QED
    BY <1>1, <1>2, <2>1, <2>2, InsertBegins
<1>. QED
  BY <1>2 DEF C!CreateTemplate, C!CreateCourse

LEMMA CloneKeeps ==
    ASSUME CatalogueInv, NEW s \in Staff, NEW c \in CourseIds, NEW from \in CourseIds, C!Clone(s, c, from)
    PROVE  CatalogueInv'
<1>. PICK no : no = FALSE
  OBVIOUS
<1>. PICK doc, y, x :
        /\ doc = C!NewCourse(no, from, courses[from].days, courses[from].curriculum, courses[from].lecturers)
        /\ y = C!Desk("insert", c, doc, {}) /\ x = [y EXCEPT !.from = from]
  OBVIOUS
<1>1. C!Begin(s, "clone", x)
  BY DEF C!Clone
<1>2. CourseShape(doc) /\ doc.state = "live" /\ doc.from = from /\ doc.version = 0
  <2>1. courses[from].lecturers \in SUBSET Lecturers
    BY DEF CatalogueInv, CatalogueTypes, CourseShape
  <2>. QED
    BY <2>1, NewIsCourse
<1>3. y = [step |-> "insert", on |-> c, doc |-> doc, writes |-> {}, from |-> NoCourse]
  BY DeskIs
<1>4. x = [step |-> "insert", on |-> c, doc |-> doc, writes |-> {}, from |-> from]
  BY <1>3
<1>5. DeskShape(x) /\ x.step = "insert" /\ x.on = c /\ x.doc = doc
  BY <1>4 DEF DeskShape
<1>6. FromTemplate(from)
  BY DEF C!Clone, C!Template, C!Live, FromTemplate, Known
<1>. QED
  BY <1>1, <1>2, <1>5, <1>6, InsertBegins

\* The document an update will save.
Replaced(old, days, curriculum, lecturers) ==
    [old EXCEPT !.days = days, !.curriculum = curriculum, !.lecturers = lecturers]
LEMMA ReplacedIs ==
    ASSUME NEW old, CourseShape(old), NEW days, NEW curriculum, NEW lecturers, NEW x,
           x = Replaced(old, days, curriculum, lecturers)
    PROVE  x.days = days /\ x.curriculum = curriculum /\ x.lecturers = lecturers /\ x.version = old.version
<1>. DEFINE a == [old EXCEPT !.days = days]
            b == [a EXCEPT !.curriculum = curriculum]
<1>1. a = [state |-> old.state, template |-> old.template, from |-> old.from, days |-> days,
           curriculum |-> old.curriculum, lecturers |-> old.lecturers, version |-> old.version]
  BY DEF CourseShape
<1>2. x = [b EXCEPT !.lecturers = lecturers]
  BY DEF Replaced
<1>. HIDE DEF a
<1>3. b = [state |-> old.state, template |-> old.template, from |-> old.from, days |-> days,
           curriculum |-> curriculum, lecturers |-> old.lecturers, version |-> old.version]
  BY <1>1
<1>. HIDE DEF b
<1>4. x = [state |-> old.state, template |-> old.template, from |-> old.from, days |-> days,
           curriculum |-> curriculum, lecturers |-> lecturers, version |-> old.version]
  BY <1>2, <1>3
<1>. QED
  BY <1>4

LEMMA UpdatesKeep ==
    ASSUME CatalogueInv, NEW s \in Staff, NEW c \in CourseIds, NEW days, NEW curriculum, NEW lecturers \in SUBSET Lecturers,
           C!UpdateTemplate(s, c, days, curriculum, lecturers) \/ C!UpdateCourse(s, c, days, curriculum, lecturers)
    PROVE  CatalogueInv'
<1>. PICK old : old = courses[c]
  OBVIOUS
<1>0. CourseShape(old) /\ old.version \in Nat
  BY DEF CatalogueInv, CatalogueTypes
<1>1. PICK chosen, new, x :
        /\ new = Replaced(old, days, chosen, lecturers)
        /\ C!Begin(s, "update", x) /\ x = C!Desk("save", c, new, C!Changes(old, new))
        /\ old.state = "live"
        /\ \/ old.template /\ C!MatchesDays(days, chosen)
           \/ ~old.template /\ (chosen # old.curriculum /\ chosen.size # old.days => C!MatchesDays(days, chosen))
  <2>1. CASE C!UpdateTemplate(s, c, days, curriculum, lecturers)
    BY <2>1 DEF Replaced, C!UpdateTemplate, C!Update, C!Template, C!Live
  <2>2. CASE C!UpdateCourse(s, c, days, curriculum, lecturers)
    BY <2>2 DEF Replaced, C!UpdateCourse, C!Update, C!Deployed, C!Live
  <2>. QED
    BY <2>1, <2>2
<1>2. new.days = days /\ new.curriculum = chosen /\ new.lecturers = lecturers /\ new.version = old.version
  BY <1>0, <1>1, ReplacedIs
<1>3. /\ DeskShape(x) /\ x.step = "save" /\ x.on = c /\ x.doc = new
      /\ "days" \in x.writes <=> old.days # days
      /\ "curriculum" \in x.writes <=> old.curriculum # chosen
  <2>1. DeskShape(x) /\ x.step = "save" /\ x.on = c /\ x.doc = new /\ x.writes = C!Changes(old, new)
    BY <1>1, DeskFields
  <2>. QED
    BY <1>2, <2>1 DEF C!Changes
<1>4. c \notin bare \cup resized => C!MatchesDays(old.days, old.curriculum)
  BY <1>1 DEF CatalogueInv, C!DaysAreWhole, C!Live
<1>5. SaveFits(x)
  <2>1. Known(c) /\ new.version <= old.version
    BY <1>0, <1>1, <1>2 DEF Known
  <2>2. ASSUME c \notin bare \cup resized
        PROVE  /\ old.template /\ "days" \in x.writes => "curriculum" \in x.writes
               /\ "curriculum" \in x.writes /\ (old.template \/ "days" \notin x.writes) =>
                     C!MatchesDays(new.days, new.curriculum)
               /\ "days" \notin x.writes => new.days = old.days
    BY <1>1, <1>2, <1>3, <1>4, <2>2 DEF C!MatchesDays
  <2>. QED
    BY <1>0, <1>2, <1>3, <2>1, <2>2 DEF SaveFits
<1>6. DeskFits(x)
  BY <1>3, <1>5 DEF DeskFits, InsertFits, DeleteFits, BuyFits, LecturerFits
<1>. QED
  BY <1>1, <1>3, <1>6, BeginDeskKeeps

LEMMA DeletionsBegin ==
    ASSUME CatalogueInv, NEW s \in Staff, NEW c \in CourseIds, C!DeleteCourse(s, c) \/ C!DeleteTemplate(s, c)
    PROVE  CatalogueInv'
<1>1. PICK op, x : C!Begin(s, op, x) /\ x = C!Desk("delete", c, C!Blank, {})
  BY DEF C!DeleteCourse, C!DeleteTemplate
<1>2. DeskShape(x) /\ x.step = "delete" /\ x.on = c
  BY <1>1, DeskFields
<1>3. Known(c) /\ ~C!Bought(c)
  <2>1. CASE C!DeleteCourse(s, c)
    <3>1. \A d \in CourseIds : courses[d].from # c
      BY <2>1 DEF CatalogueInv, FromTemplate, C!DeleteCourse, C!Deployed
    <3>. QED
      BY <2>1, <3>1 DEF CatalogueInv, CatalogueTypes, C!DeleteCourse, C!Deployed, C!Live, C!Bought, Known
  <2>2. CASE C!DeleteTemplate(s, c)
    BY <2>2 DEF CatalogueInv, CatalogueTypes, C!DeleteTemplate, C!Template, C!Live, C!Bought, Known
  <2>. QED
    BY <2>1, <2>2
<1>4. DeskFits(x)
  BY <1>2, <1>3 DEF DeskFits, InsertFits, SaveFits, DeleteFits, BuyFits, LecturerFits
<1>. QED
  BY <1>1, <1>2, <1>4, BeginDeskKeeps

LEMMA OrderKeeps ==
    ASSUME CatalogueInv, NEW s \in Staff, NEW c \in CourseIds, C!Order(s, c)
    PROVE  CatalogueInv'
<1>1. PICK x : C!Begin(s, "order", x) /\ x = C!Desk("buy", c, C!Blank, {}) /\ C!Live(c)
  BY DEF C!Order, C!Deployed
<1>2. DeskShape(x) /\ x.step = "buy" /\ x.on = c
  BY <1>1, DeskFields
<1>3. DeskFits(x)
  BY <1>1, <1>2 DEF DeskFits, InsertFits, SaveFits, DeleteFits, BuyFits, LecturerFits, Known, C!Live
<1>. QED
  BY <1>1, <1>2, <1>3, BeginDeskKeeps

LEMMA TakeAwayKeeps ==
    ASSUME CatalogueInv, NEW s \in Staff, NEW l \in Lecturers, NEW to \in {"inactive", "deleted"}, NEW force \in BOOLEAN,
           C!TakeAway(s, l, to, force)
    PROVE  CatalogueInv'
<1>. PICK writes : writes = (IF force /\ C!InUse(l) THEN {"pull"} ELSE {}) \cup {to}
  OBVIOUS
<1>1. PICK op, x : C!Begin(s, op, x) /\ x = C!Desk("lecturer", l, C!Blank, writes) /\ (force \/ ~C!InUse(l))
  BY DEF C!TakeAway
<1>2. DeskShape(x) /\ x.step = "lecturer" /\ x.on = l /\ x.writes = writes
  BY <1>1, DeskFields
<1>3. "pull" \notin writes => ~C!InUse(l)
  BY <1>1
<1>4. DeskFits(x)
  BY <1>2, <1>3 DEF DeskFits, InsertFits, SaveFits, DeleteFits, BuyFits, LecturerFits
<1>. QED
  BY <1>1, <1>2, <1>4, BeginDeskKeeps

LEMMA EndLeaves ==
    ASSUME CatalogueInv, NEW s \in Staff, C!End(s)
    PROVE  /\ desks' = [t \in Staff |-> desks'[t]] /\ desks'[s] = C!AtRest
           /\ \A t \in Staff \ {s} : desks'[t] = desks[t]
           /\ \A t \in Staff : DeskShape(desks'[t])
           /\ \A t \in Staff : desks'[t].step # "none" => t # s
<1>1. /\ desks' = [t \in Staff |-> desks'[t]] /\ desks'[s] = C!AtRest
      /\ \A t \in Staff \ {s} : desks'[t] = desks[t]
  BY DEF CatalogueInv, CatalogueTypes, C!End
<1>2. C!AtRest.step = "none"
  BY DEF C!AtRest
<1>. QED
  BY <1>1, <1>2, RestFits DEF CatalogueInv, CatalogueTypes

\* Steps after which every known course is still known, came from where it did
\* and is of no lower version, and who bought or deletes is in the histories.
LEMMA OthersFit ==
    ASSUME CatalogueInv, NEW s \in Staff, \A t \in Staff \ {s} : desks'[t] = desks[t],
           \A c \in CourseIds : Known(c) =>
              /\ courses'[c].template = courses[c].template /\ courses'[c].from = courses[c].from
              /\ courses'[c].state # "none"
              /\ courses'[c].version \in Nat /\ courses[c].version <= courses'[c].version
              /\ c \notin bare' \cup resized' /\ courses'[c].version = courses[c].version => courses'[c].days = courses[c].days,
           boughtLate \subseteq boughtLate',
           \A t \in Staff \ {s} : desks[t].step = "delete" /\ C!Bought(desks[t].on)' =>
              C!Bought(desks[t].on) \/ desks[t].on \in boughtLate',
           \A t \in Staff \ {s} : desks[t].step = "buy" /\ courses'[desks[t].on].state = "deleted" =>
              courses[desks[t].on].state = "deleted" \/ desks[t].on \in boughtLate',
           bare \cup resized \subseteq bare' \cup resized',
           \A t \in Staff \ {s} : desks[t].step = "lecturer" /\ C!InUse(desks[t].on)' =>
              C!InUse(desks[t].on) \/ desks[t].on \in hurried',
           hurried \subseteq hurried'
    PROVE  \A t \in Staff \ {s} : DeskFits(desks[t])'
<1>. SUFFICES ASSUME NEW t \in Staff \ {s} PROVE DeskFits(desks[t])'
  OBVIOUS
<1>. PICK x : x = desks[t]
  OBVIOUS
<1>1. desks'[t] = x /\ DeskFits(x)
  BY DEF CatalogueInv
<1>2. \A c : Known(c) => Known(c)'
  BY DEF Known
<1>3. \A from : FromTemplate(from) => FromTemplate(from)'
  BY <1>2 DEF FromTemplate, Known
<1>4. InsertFits(x)'
  BY <1>1, <1>3 DEF DeskFits, InsertFits, CourseShape
<1>5. SaveFits(x)'
  <2>. SUFFICES ASSUME x.step = "save" PROVE SaveFits(x)'
    BY DEF SaveFits
  <2>1. /\ Known(x.on) /\ x.doc.version \in Nat /\ x.doc.version <= courses[x.on].version
        /\ x.doc.lecturers \subseteq Lecturers
    BY <1>1 DEF DeskFits, SaveFits
  <2>2. courses[x.on].version \in Nat
    BY <2>1 DEF CatalogueInv, CatalogueTypes, Known
  <2>3. /\ Known(x.on)' /\ x.doc.version <= courses'[x.on].version
        /\ courses'[x.on].template = courses[x.on].template
        /\ x.doc.version = courses'[x.on].version => courses'[x.on].version = courses[x.on].version
    BY <1>2, <2>1, <2>2 DEF Known
  <2>4. ASSUME x.on \notin bare' \cup resized'
        PROVE  /\ courses'[x.on].template /\ "days" \in x.writes => "curriculum" \in x.writes
               /\ "curriculum" \in x.writes /\ (courses'[x.on].template \/ "days" \notin x.writes) =>
                     C!MatchesDays(x.doc.days, x.doc.curriculum)
               /\ "days" \notin x.writes /\ x.doc.version = courses'[x.on].version => x.doc.days = courses'[x.on].days
    <3>1. x.on \notin bare \cup resized
      BY <2>4
    <3>2. /\ courses[x.on].template /\ "days" \in x.writes => "curriculum" \in x.writes
          /\ "curriculum" \in x.writes /\ (courses[x.on].template \/ "days" \notin x.writes) =>
                C!MatchesDays(x.doc.days, x.doc.curriculum)
          /\ "days" \notin x.writes /\ x.doc.version = courses[x.on].version => x.doc.days = courses[x.on].days
      BY <1>1, <3>1 DEF DeskFits, SaveFits
    <3>3. courses'[x.on].version = courses[x.on].version => courses'[x.on].days = courses[x.on].days
      BY <2>1, <2>4 DEF Known
    <3>. QED
      BY <2>3, <3>2, <3>3
  <2>. QED
    BY <2>1, <2>3, <2>4 DEF SaveFits, C!MatchesDays
<1>6. DeleteFits(x)'
  BY <1>1, <1>2 DEF DeskFits, DeleteFits
<1>7. BuyFits(x)'
  BY <1>1, <1>2 DEF DeskFits, BuyFits
<1>8. LecturerFits(x)'
  BY <1>1 DEF DeskFits, LecturerFits
<1>. QED
  BY <1>1, <1>4, <1>5, <1>6, <1>7, <1>8, SMTT(30)
     DEF DeskFits, InsertFits, SaveFits, DeleteFits, BuyFits, LecturerFits, FromTemplate, Known,
         C!Bought, C!InUse, C!Live, C!MatchesDays, CourseShape

\* Steps after which courses are in the state they were in, and have the students
\* they had.
LEMMA SameFit ==
    ASSUME CatalogueInv, NEW s \in Staff, \A t \in Staff \ {s} : desks'[t] = desks[t],
           \A c \in CourseIds : Known(c) =>
              /\ courses'[c].template = courses[c].template /\ courses'[c].from = courses[c].from
              /\ courses'[c].state = courses[c].state
              /\ courses'[c].version \in Nat /\ courses[c].version <= courses'[c].version
              /\ c \notin bare' \cup resized' /\ courses'[c].version = courses[c].version => courses'[c].days = courses[c].days,
           UNCHANGED <<enrolled, boughtLate>>, bare \cup resized \subseteq bare' \cup resized',
           \A t \in Staff \ {s} : desks[t].step = "lecturer" /\ C!InUse(desks[t].on)' =>
              C!InUse(desks[t].on) \/ desks[t].on \in hurried',
           hurried \subseteq hurried'
    PROVE  \A t \in Staff \ {s} : DeskFits(desks[t])'
<1>1. \A c : C!Bought(c)' => C!Bought(c)
  BY DEF CatalogueInv, C!Bought, C!Live, Known
<1>2. \A t \in Staff \ {s} : C!Bought(desks[t].on)' => C!Bought(desks[t].on)
  BY <1>1 DEF C!Bought, C!Live
<1>3. \A t \in Staff \ {s} : desks[t].step = "buy" => Known(desks[t].on)
  BY DEF CatalogueInv, DeskFits, BuyFits
<1>4. \A c \in CourseIds : Known(c) => courses'[c].state # "none"
  BY DEF Known
<1>. QED
  BY <1>2, <1>3, <1>4, OthersFit DEF Known

LEMMA EndFits ==
    ASSUME CatalogueInv, NEW s \in Staff, C!End(s), \A t \in Staff \ {s} : DeskFits(desks[t])'
    PROVE  \A t \in Staff : DeskFits(desks[t])'
<1>1. DeskFits(desks[s])'
  BY EndLeaves DEF DeskFits, InsertFits, SaveFits, DeleteFits, BuyFits, LecturerFits, C!AtRest
<1>. QED
  BY <1>1

LEMMA InsertKeeps ==
    ASSUME CatalogueInv, NEW s \in Staff, C!Insert(s)
    PROVE  CatalogueInv'
<1>. PICK x, c, doc : x = desks[s] /\ c = x.on /\ doc = x.doc
  OBVIOUS
<1>1. /\ x.step = "insert" /\ C!End(s)
      /\ courses' = IF courses[c].state = "none" THEN [courses EXCEPT ![c] = doc] ELSE courses
      /\ bare' = IF ~C!MatchesDays(doc.days, doc.curriculum) THEN bare \cup {c} ELSE bare
      /\ resized' = IF x.from \in resized THEN resized \cup {c} ELSE resized
      /\ hurried' = hurried \cup {l \in doc.lecturers : faculty[l] # "active" \/ l \in C!Leaving(s)}
      /\ UNCHANGED <<faculty, enrolled, boughtLate, abandoned>>
  BY DEF C!Insert
<1>2. c \in CourseIds /\ CourseShape(doc) /\ doc.state = "live" /\ doc.version \in Nat /\ FromTemplate(doc.from)
  BY <1>1 DEF CatalogueInv, DeskFits, InsertFits
<1>3. /\ courses' = [d \in CourseIds |-> courses'[d]]
      /\ \A d \in CourseIds : courses'[d] = courses[d] \/ (d = c /\ ~Known(c) /\ courses'[c] = doc)
  BY <1>1, <1>2 DEF CatalogueInv, CatalogueTypes, Known
<1>4. bare \cup resized \subseteq bare' \cup resized' /\ hurried \subseteq hurried'
  BY <1>1
<1>5. \A d : Known(d) => courses'[d] = courses[d] /\ d \in CourseIds
  BY <1>3 DEF Known
<1>6. CatalogueTypes'
  <2>1. \A d \in CourseIds : CourseShape(courses'[d]) /\ courses'[d].version \in Nat
    BY <1>2, <1>3 DEF CatalogueInv, CatalogueTypes
  <2>. QED
    BY <1>1, <1>3, <2>1, EndLeaves DEF CatalogueInv, CatalogueTypes
<1>7. /\ \A d \in CourseIds : FromTemplate(courses[d].from)'
      /\ \A d \in enrolled' : Known(d)'
  <2>1. \A from : FromTemplate(from) => FromTemplate(from)'
    BY <1>5 DEF FromTemplate, Known
  <2>2. \A d \in CourseIds : FromTemplate(courses'[d].from)
    BY <1>2, <1>3 DEF CatalogueInv
  <2>3. \A d \in CourseIds : FromTemplate(courses[d].from)'
    BY <1>5, <2>2 DEF FromTemplate, Known
  <2>4. \A d \in enrolled' : Known(d)'
    BY <1>1, <1>5 DEF CatalogueInv, Known
  <2>. QED
    BY <2>3, <2>4
<1>8. C!LecturersExist'
  <2>. SUFFICES ASSUME NEW d \in CourseIds, courses'[d].state = "live", NEW l \in courses'[d].lecturers
                PROVE  faculty[l] = "active" \/ l \in hurried'
    BY <1>1 DEF C!LecturersExist, C!Live
  <2>1. CASE courses'[d] = courses[d]
    BY <1>4, <2>1 DEF CatalogueInv, C!LecturersExist, C!Live
  <2>2. CASE courses'[d] = doc
    BY <1>1, <2>2
  <2>. QED
    BY <1>3, <2>1, <2>2
<1>9. C!NoStudentsBehind'
  BY <1>1, <1>2, <1>3 DEF CatalogueInv, C!NoStudentsBehind
<1>10. C!DaysAreWhole'
  <2>. SUFFICES ASSUME NEW d \in CourseIds, courses'[d].state = "live", d \notin bare' \cup resized'
                PROVE  C!MatchesDays(courses'[d].days, courses'[d].curriculum)
    BY DEF C!DaysAreWhole, C!Live, C!MatchesDays
  <2>1. CASE courses'[d] = courses[d]
    BY <1>4, <2>1 DEF CatalogueInv, C!DaysAreWhole, C!Live
  <2>2. CASE d = c /\ courses'[c] = doc
    BY <1>1, <2>2
  <2>. QED
    BY <1>3, <2>1, <2>2
<1>11. ASSUME NEW t \in Staff \ {s}, desks[t].step = "lecturer", C!InUse(desks[t].on)'
       PROVE  C!InUse(desks[t].on) \/ desks[t].on \in hurried'
  <2>. PICK l : l = desks[t].on
    OBVIOUS
  <2>1. desks'[t] = desks[t]
    BY <1>1, EndLeaves
  <2>2. PICK d \in CourseIds : courses'[d].state = "live" /\ l \in courses'[d].lecturers
    BY <1>11, <2>1 DEF C!InUse, C!Live
  <2>3. CASE courses'[d] = courses[d]
    BY <2>2, <2>3 DEF C!InUse, C!Live
  <2>4. CASE courses'[d] = doc
    <3>1. l \in Lecturers
      BY <1>11 DEF CatalogueInv, DeskFits, LecturerFits
    <3>2. l \in C!Leaving(s)
      BY <1>11, <3>1 DEF C!Leaving
    <3>. QED
      BY <1>1, <2>2, <2>4, <3>2
  <2>. QED
    BY <1>3, <2>3, <2>4
<1>12. \A d \in CourseIds : Known(d) =>
              /\ courses'[d].template = courses[d].template /\ courses'[d].from = courses[d].from
              /\ courses'[d].state = courses[d].state
              /\ courses'[d].version \in Nat /\ courses[d].version <= courses'[d].version
              /\ d \notin bare' \cup resized' /\ courses'[d].version = courses[d].version => courses'[d].days = courses[d].days
  BY <1>5 DEF CatalogueInv, CatalogueTypes
<1>13. \A t \in Staff : DeskFits(desks[t])'
  BY <1>1, <1>4, <1>11, <1>12, EndLeaves, SameFit, EndFits
<1>. QED
  BY <1>6, <1>7, <1>8, <1>9, <1>10, <1>13 DEF CatalogueInv

\* What is left of the document of a course that is saved.
Saved(c, days, curriculum, lecturers, raised) ==
    [courses EXCEPT ![c].days = days, ![c].curriculum = curriculum, ![c].lecturers = lecturers,
                    ![c].version = IF raised # {} THEN @ + 1 ELSE @]
SavedTo(c, days, curriculum, lecturers, raised) ==
    /\ courses' = [d \in CourseIds |-> courses'[d]]
    /\ \A d \in CourseIds \ {c} : courses'[d] = courses[d]
    /\ courses'[c] = [state |-> courses[c].state, template |-> courses[c].template, from |-> courses[c].from,
                      days |-> days, curriculum |-> curriculum, lecturers |-> lecturers,
                      version |-> IF raised # {} THEN courses[c].version + 1 ELSE courses[c].version]
LEMMA SavedIs ==
    ASSUME CatalogueInv, NEW c \in CourseIds, NEW days, NEW curriculum, NEW lecturers, NEW raised,
           courses' = Saved(c, days, curriculum, lecturers, raised)
    PROVE  SavedTo(c, days, curriculum, lecturers, raised)
<1>. DEFINE e1 == [courses EXCEPT ![c].days = days]
            e2 == [e1 EXCEPT ![c].curriculum = curriculum]
            e3 == [e2 EXCEPT ![c].lecturers = lecturers]
            version == IF raised # {} THEN e3[c].version + 1 ELSE e3[c].version
<1>. PICK old : old = courses[c]
  OBVIOUS
<1>1. /\ courses = [d \in CourseIds |-> courses[d]]
      /\ old = [state |-> old.state, template |-> old.template, from |-> old.from, days |-> old.days,
                curriculum |-> old.curriculum, lecturers |-> old.lecturers, version |-> old.version]
  BY DEF CatalogueInv, CatalogueTypes, CourseShape
<1>2. /\ e1 = [d \in CourseIds |-> e1[d]] /\ \A d \in CourseIds \ {c} : e1[d] = courses[d]
      /\ e1[c] = [state |-> old.state, template |-> old.template, from |-> old.from, days |-> days,
                  curriculum |-> old.curriculum, lecturers |-> old.lecturers, version |-> old.version]
  BY <1>1
<1>3. courses' = [e3 EXCEPT ![c].version = version]
  BY DEF Saved
<1>. HIDE DEF e1
<1>4. /\ e2 = [d \in CourseIds |-> e2[d]] /\ \A d \in CourseIds \ {c} : e2[d] = courses[d]
      /\ e2[c] = [state |-> old.state, template |-> old.template, from |-> old.from, days |-> days,
                  curriculum |-> curriculum, lecturers |-> old.lecturers, version |-> old.version]
  BY <1>2
<1>. HIDE DEF e2
<1>5. /\ e3 = [d \in CourseIds |-> e3[d]] /\ \A d \in CourseIds \ {c} : e3[d] = courses[d]
      /\ e3[c] = [state |-> old.state, template |-> old.template, from |-> old.from, days |-> days,
                  curriculum |-> curriculum, lecturers |-> lecturers, version |-> old.version]
  BY <1>4
<1>6. version = IF raised # {} THEN old.version + 1 ELSE old.version
  BY <1>5
<1>. HIDE DEF version, e3
<1>. PICK y : y = [state |-> old.state, template |-> old.template, from |-> old.from, days |-> days,
                   curriculum |-> curriculum, lecturers |-> lecturers, version |-> version]
  OBVIOUS
<1>7. [e3[c] EXCEPT !.version = version] = y
  BY <1>5
<1>8. courses' = [e3 EXCEPT ![c] = y]
  BY <1>3, <1>7
<1>9. /\ courses' = [d \in CourseIds |-> courses'[d]] /\ \A d \in CourseIds \ {c} : courses'[d] = courses[d]
      /\ courses'[c] = y
  BY <1>5, <1>8
<1>. QED
  BY <1>6, <1>9 DEF SavedTo

LEMMA SaveCourseKeeps ==
    ASSUME CatalogueInv, NEW s \in Staff, C!SaveCourse(s)
    PROVE  CatalogueInv'
<1>. PICK x, c, old : x = desks[s] /\ c = x.on /\ old = courses[c]
  OBVIOUS
<1>. PICK days, curriculum, lecturers, raised :
        /\ days = IF "days" \in x.writes THEN x.doc.days ELSE old.days
        /\ curriculum = IF "curriculum" \in x.writes THEN x.doc.curriculum ELSE old.curriculum
        /\ lecturers = IF "lecturers" \in x.writes THEN x.doc.lecturers ELSE old.lecturers
        /\ raised = x.writes \cap {"curriculum", "lecturers"}
  OBVIOUS
<1>1. /\ x.step = "save" /\ C!End(s)
      /\ raised # {} => old.version = x.doc.version
      /\ resized' = IF ~old.template /\ "days" \in x.writes THEN resized \cup {c} ELSE resized
      /\ hurried' = IF "lecturers" \in x.writes
                    THEN hurried \cup {l \in x.doc.lecturers : faculty[l] # "active" \/ l \in C!Leaving(s)} ELSE hurried
      /\ UNCHANGED <<faculty, enrolled, bare, boughtLate, abandoned>>
  BY DEF C!SaveCourse, C!Conflicts
<1>2. SaveFits(x) /\ Known(c) /\ c \in CourseIds
  BY <1>1 DEF CatalogueInv, DeskFits, SaveFits, Known
<1>3. /\ courses' = [d \in CourseIds |-> courses'[d]]
      /\ \A d \in CourseIds \ {c} : courses'[d] = courses[d]
      /\ courses'[c] = [state |-> old.state, template |-> old.template, from |-> old.from,
                        days |-> days, curriculum |-> curriculum, lecturers |-> lecturers,
                        version |-> IF raised # {} THEN old.version + 1 ELSE old.version]
  <2>1. courses' = Saved(c, days, curriculum, lecturers, raised)
    BY DEF C!SaveCourse, Saved
  <2>2. SavedTo(c, days, curriculum, lecturers, raised)
    BY <1>2, <2>1, SavedIs
  <2>. QED
    BY <2>2 DEF SavedTo
<1>4. /\ courses'[c].state = old.state /\ courses'[c].template = old.template /\ courses'[c].from = old.from
      /\ courses'[c].days = days /\ courses'[c].curriculum = curriculum /\ courses'[c].lecturers = lecturers
      /\ courses'[c].version = IF raised # {} THEN old.version + 1 ELSE old.version
      /\ CourseShape(courses'[c])
  <2>1. old.lecturers \subseteq Lecturers /\ x.doc.lecturers \subseteq Lecturers
    BY <1>1, <1>2 DEF CatalogueInv, CatalogueTypes, CourseShape, SaveFits
  <2>. QED
    BY <1>3, <2>1 DEF CourseShape
<1>5. old.version \in Nat /\ courses'[c].version \in Nat
  BY <1>2, <1>4 DEF CatalogueInv, CatalogueTypes
<1>6. \A d \in CourseIds : /\ courses'[d].state = courses[d].state /\ courses'[d].template = courses[d].template
                           /\ courses'[d].from = courses[d].from
  BY <1>3, <1>4
<1>7. bare \cup resized \subseteq bare' \cup resized' /\ hurried \subseteq hurried'
  BY <1>1
<1>8. CatalogueTypes'
  <2>1. \A d \in CourseIds : CourseShape(courses'[d]) /\ courses'[d].version \in Nat
    BY <1>3, <1>4, <1>5 DEF CatalogueInv, CatalogueTypes
  <2>. QED
    BY <1>1, <1>3, <2>1, EndLeaves DEF CatalogueInv, CatalogueTypes
<1>9. /\ \A d \in CourseIds : FromTemplate(courses[d].from)'
      /\ \A d \in enrolled' : Known(d)'
  <2>1. \A d \in CourseIds : FromTemplate(courses[d].from)
    BY DEF CatalogueInv
  <2>2. \A d \in CourseIds : FromTemplate(courses[d].from)'
    BY <1>6, <2>1 DEF FromTemplate, Known
  <2>3. \A d \in enrolled' : Known(d)'
    BY <1>1, <1>6 DEF CatalogueInv, Known
  <2>. QED
    BY <2>2, <2>3
<1>10. C!LecturersExist'
  <2>. SUFFICES ASSUME NEW d \in CourseIds, courses'[d].state = "live", NEW l \in courses'[d].lecturers
                PROVE  faculty[l] = "active" \/ l \in hurried'
    BY <1>1 DEF C!LecturersExist, C!Live
  <2>1. CASE l \in courses[d].lecturers
    BY <1>6, <1>7, <2>1 DEF CatalogueInv, C!LecturersExist, C!Live
  <2>2. CASE l \notin courses[d].lecturers
    <3>1. d = c /\ l \in lecturers /\ l \notin old.lecturers
      BY <1>3, <1>4, <2>2
    <3>2. "lecturers" \in x.writes /\ l \in x.doc.lecturers
      BY <3>1
    <3>. QED
      BY <1>1, <3>2
  <2>. QED
    BY <2>1, <2>2
<1>11. C!NoStudentsBehind'
  BY <1>1, <1>6 DEF CatalogueInv, C!NoStudentsBehind
<1>12. c \notin bare' \cup resized' /\ old.state = "live" => C!MatchesDays(days, curriculum)
  <2>. SUFFICES ASSUME c \notin bare' \cup resized', old.state = "live" PROVE C!MatchesDays(days, curriculum)
    OBVIOUS
  <2>1. C!MatchesDays(old.days, old.curriculum)
    BY <1>2, <1>7 DEF CatalogueInv, C!DaysAreWhole, C!Live
  <2>2. /\ old.template /\ "days" \in x.writes => "curriculum" \in x.writes
        /\ "curriculum" \in x.writes /\ (old.template \/ "days" \notin x.writes) =>
              C!MatchesDays(x.doc.days, x.doc.curriculum)
        /\ "days" \notin x.writes /\ x.doc.version = old.version => x.doc.days = old.days
    BY <1>1, <1>2, <1>7 DEF SaveFits
  <2>3. ~old.template => "days" \notin x.writes
    BY <1>1
  <2>4. CASE "curriculum" \in x.writes
    <3>1. x.doc.version = old.version
      BY <1>1, <2>4
    <3>2. days = x.doc.days /\ curriculum = x.doc.curriculum
      BY <2>2, <2>4, <3>1
    <3>. QED
      BY <2>2, <2>3, <2>4, <3>2
  <2>5. CASE "curriculum" \notin x.writes
    BY <2>1, <2>2, <2>3, <2>5
  <2>. QED
    BY <2>4, <2>5
<1>13. C!DaysAreWhole'
  <2>. SUFFICES ASSUME NEW d \in CourseIds, courses'[d].state = "live", d \notin bare' \cup resized'
                PROVE  C!MatchesDays(courses'[d].days, courses'[d].curriculum)
    BY DEF C!DaysAreWhole, C!Live, C!MatchesDays
  <2>1. CASE d = c
    BY <1>4, <1>12, <2>1
  <2>2. CASE d # c
    BY <1>3, <1>7, <2>2 DEF CatalogueInv, C!DaysAreWhole, C!Live
  <2>. QED
    BY <2>1, <2>2
<1>14. ASSUME NEW t \in Staff \ {s}, desks[t].step = "lecturer", C!InUse(desks[t].on)'
       PROVE  C!InUse(desks[t].on) \/ desks[t].on \in hurried'
  <2>. PICK l : l = desks[t].on
    OBVIOUS
  <2>1. desks'[t] = desks[t]
    BY <1>1, EndLeaves
  <2>2. PICK d \in CourseIds : courses'[d].state = "live" /\ l \in courses'[d].lecturers
    BY <1>14, <2>1 DEF C!InUse, C!Live
  <2>3. CASE l \in courses[d].lecturers
    BY <1>6, <2>2, <2>3 DEF C!InUse, C!Live
  <2>4. CASE l \notin courses[d].lecturers
    <3>1. d = c /\ l \in lecturers /\ l \notin old.lecturers
      BY <1>3, <1>4, <2>2, <2>4
    <3>2. "lecturers" \in x.writes /\ l \in x.doc.lecturers
      BY <3>1
    <3>3. l \in Lecturers
      BY <1>14 DEF CatalogueInv, DeskFits, LecturerFits
    <3>4. l \in C!Leaving(s)
      BY <1>14, <3>3 DEF C!Leaving
    <3>. QED
      BY <1>1, <3>2, <3>4
  <2>. QED
    BY <2>3, <2>4
<1>15. c \notin bare' \cup resized' /\ courses'[c].version = old.version => days = old.days
  <2>. SUFFICES ASSUME c \notin bare' \cup resized', courses'[c].version = old.version, "days" \in x.writes PROVE FALSE
    OBVIOUS
  <2>1. raised = {}
    BY <1>4, <1>5
  <2>2. "curriculum" \notin x.writes
    BY <2>1
  <2>3. old.template => "curriculum" \in x.writes
    BY <1>1, <1>2, <1>7 DEF SaveFits
  <2>. QED
    BY <1>1, <2>2, <2>3
<1>16. \A d \in CourseIds : Known(d) =>
              /\ courses'[d].template = courses[d].template /\ courses'[d].from = courses[d].from
              /\ courses'[d].state = courses[d].state
              /\ courses'[d].version \in Nat /\ courses[d].version <= courses'[d].version
              /\ d \notin bare' \cup resized' /\ courses'[d].version = courses[d].version => courses'[d].days = courses[d].days
  <2>1. ASSUME NEW d \in CourseIds
        PROVE  /\ courses'[d].version \in Nat /\ courses[d].version <= courses'[d].version
               /\ d \notin bare' \cup resized' /\ courses'[d].version = courses[d].version => courses'[d].days = courses[d].days
    <3>1. CASE d = c
      BY <1>4, <1>5, <1>15, <3>1
    <3>2. CASE d # c
      BY <1>3, <3>2 DEF CatalogueInv, CatalogueTypes
    <3>. QED
      BY <3>1, <3>2
  <2>. QED
    BY <1>6, <2>1
<1>17. \A t \in Staff : DeskFits(desks[t])'
  BY <1>1, <1>7, <1>14, <1>16, EndLeaves, SameFit, EndFits
<1>. QED
  BY <1>8, <1>9, <1>10, <1>11, <1>13, <1>17 DEF CatalogueInv

\* Steps that leave the courses and those who bought them alone.
LEMMA CoursesRest ==
    ASSUME CatalogueInv, NEW s \in Staff, C!End(s),
           UNCHANGED <<courses, enrolled, resized, bare, boughtLate, abandoned>>,
           hurried \subseteq hurried', faculty' = [l \in Lecturers |-> faculty'[l]], C!LecturersExist'
    PROVE  CatalogueInv'
<1>1. CatalogueTypes'
  BY EndLeaves DEF CatalogueInv, CatalogueTypes, CourseShape
<1>2. (\A d \in CourseIds : FromTemplate(courses[d].from))' /\ (\A d \in enrolled : Known(d))'
  BY DEF CatalogueInv, FromTemplate, Known
<1>3. C!NoStudentsBehind' /\ C!DaysAreWhole'
  BY DEF CatalogueInv, C!NoStudentsBehind, C!DaysAreWhole, C!Live, C!MatchesDays
<1>4. \A t \in Staff \ {s} : desks'[t] = desks[t]
  BY EndLeaves
<1>5. ASSUME NEW t \in Staff \ {s}, desks[t].step = "lecturer", C!InUse(desks[t].on)'
      PROVE  C!InUse(desks[t].on) \/ desks[t].on \in hurried'
  BY <1>4, <1>5 DEF C!InUse, C!Live
<1>6. \A d \in CourseIds : Known(d) =>
              /\ courses'[d].template = courses[d].template /\ courses'[d].from = courses[d].from
              /\ courses'[d].state = courses[d].state
              /\ courses'[d].version \in Nat /\ courses[d].version <= courses'[d].version
              /\ d \notin bare' \cup resized' /\ courses'[d].version = courses[d].version => courses'[d].days = courses[d].days
  BY DEF CatalogueInv, CatalogueTypes
<1>7. \A t \in Staff : DeskFits(desks[t])'
  BY <1>4, <1>5, <1>6, SameFit, EndFits
<1>. QED
  BY <1>1, <1>2, <1>3, <1>7 DEF CatalogueInv

LEMMA RefuseSaveKeeps ==
    ASSUME CatalogueInv, NEW s \in Staff, C!RefuseSave(s)
    PROVE  CatalogueInv'
<1>1. C!End(s) /\ UNCHANGED <<courses, faculty, enrolled, resized, bare, hurried, boughtLate, abandoned>>
  BY DEF C!RefuseSave, C!catalogueHistory
<1>2. C!LecturersExist' /\ faculty' = [l \in Lecturers |-> faculty'[l]]
  BY <1>1 DEF CatalogueInv, CatalogueTypes, C!LecturersExist, C!Live
<1>. QED
  BY <1>1, <1>2, CoursesRest

\* A lecturer who is taken away is in no course, or was assigned meanwhile.
LEMMA SaveLecturerKeeps ==
    ASSUME CatalogueInv, NEW s \in Staff, C!SaveLecturer(s)
    PROVE  CatalogueInv'
<1>. PICK l : l = desks[s].on
  OBVIOUS
<1>1. /\ desks[s].step = "lecturer" /\ "pull" \notin desks[s].writes /\ C!End(s)
      /\ faculty' = [faculty EXCEPT ![l] = IF "deleted" \in desks[s].writes THEN "deleted"
                                           ELSE IF @ = "deleted" THEN @ ELSE "inactive"]
      /\ hurried \subseteq hurried'
      /\ UNCHANGED <<courses, enrolled, resized, bare, boughtLate, abandoned>>
  BY DEF C!SaveLecturer
<1>2. l \in Lecturers /\ (C!InUse(l) => l \in hurried)
  BY <1>1 DEF CatalogueInv, DeskFits, LecturerFits
<1>3. faculty' = [m \in Lecturers |-> faculty'[m]] /\ \A m \in Lecturers \ {l} : faculty'[m] = faculty[m]
  BY <1>1 DEF CatalogueInv, CatalogueTypes
<1>4. C!LecturersExist'
  <2>. SUFFICES ASSUME NEW c \in CourseIds, courses[c].state = "live", NEW m \in courses[c].lecturers
                PROVE  faculty'[m] = "active" \/ m \in hurried'
    BY <1>1 DEF C!LecturersExist, C!Live
  <2>1. m \in Lecturers
    BY DEF CatalogueInv, CatalogueTypes, CourseShape
  <2>2. CASE m = l
    BY <1>1, <1>2, <2>2 DEF C!InUse, C!Live
  <2>3. CASE m # l
    BY <1>1, <1>3, <2>1, <2>3 DEF CatalogueInv, C!LecturersExist, C!Live
  <2>. QED
    BY <2>2, <2>3
<1>. QED
  BY <1>1, <1>3, <1>4, CoursesRest

LEMMA ActivateKeeps ==
    ASSUME CatalogueInv, NEW l \in Lecturers, C!Activate(l)
    PROVE  CatalogueInv'
<1>1. /\ faculty' = [faculty EXCEPT ![l] = "active"]
      /\ UNCHANGED <<courses, enrolled, desks, resized, bare, hurried, boughtLate, abandoned>>
  BY DEF C!Activate, C!catalogueHistory
<1>2. /\ faculty' = [m \in Lecturers |-> faculty'[m]] /\ faculty'[l] = "active"
      /\ \A m \in Lecturers \ {l} : faculty'[m] = faculty[m]
  BY <1>1 DEF CatalogueInv, CatalogueTypes
<1>3. CatalogueTypes'
  BY <1>1, <1>2 DEF CatalogueInv, CatalogueTypes, CourseShape, DeskShape
<1>4. (\A c \in CourseIds : FromTemplate(courses[c].from))' /\ (\A c \in enrolled : Known(c))'
  BY <1>1 DEF CatalogueInv, FromTemplate, Known
<1>5. C!LecturersExist'
  <2>. SUFFICES ASSUME NEW c \in CourseIds, courses[c].state = "live", NEW m \in courses[c].lecturers
                PROVE  faculty'[m] = "active" \/ m \in hurried
    BY <1>1 DEF C!LecturersExist, C!Live
  <2>1. m \in Lecturers
    BY DEF CatalogueInv, CatalogueTypes, CourseShape
  <2>2. faculty[m] = "active" \/ m \in hurried
    BY DEF CatalogueInv, C!LecturersExist, C!Live
  <2>. QED
    BY <1>2, <2>1, <2>2
<1>6. C!NoStudentsBehind' /\ C!DaysAreWhole'
  BY <1>1 DEF CatalogueInv, C!NoStudentsBehind, C!DaysAreWhole, C!Live, C!MatchesDays
<1>7. ASSUME NEW t \in Staff PROVE DeskFits(desks[t])'
  <2>1. DeskFits(desks[t])
    BY DEF CatalogueInv
  <2>2. InsertFits(desks[t])' /\ SaveFits(desks[t])'
    BY <1>1, <2>1 DEF DeskFits, InsertFits, SaveFits, CourseShape, FromTemplate, Known, C!MatchesDays
  <2>3. DeleteFits(desks[t])' /\ BuyFits(desks[t])' /\ LecturerFits(desks[t])'
    BY <1>1, <2>1 DEF DeskFits, DeleteFits, BuyFits, LecturerFits, Known, C!Bought, C!InUse, C!Live
  <2>. QED
    BY <2>2, <2>3 DEF DeskFits, InsertFits, SaveFits, DeleteFits, BuyFits, LecturerFits,
         CourseShape, FromTemplate, Known, C!Bought, C!InUse, C!Live, C!MatchesDays
<1>. QED
  BY <1>3, <1>4, <1>5, <1>6, <1>7 DEF CatalogueInv

\* A forced removal takes the lecturer out of every course at once.
LEMMA PullLecturerKeeps ==
    ASSUME CatalogueInv, NEW s \in Staff, C!PullLecturer(s)
    PROVE  CatalogueInv'
<1>. PICK x, l : x = desks[s] /\ l = x.on
  OBVIOUS
<1>1. /\ x.step = "lecturer" /\ courses' = [c \in CourseIds |-> [courses[c] EXCEPT !.lecturers = @ \ {l}]]
      /\ desks' = [desks EXCEPT ![s].writes = @ \ {"pull"}]
      /\ UNCHANGED <<faculty, enrolled, resized, bare, hurried, boughtLate, abandoned>>
  BY DEF C!PullLecturer, C!catalogueHistory
<1>2. ASSUME NEW c \in CourseIds
      PROVE  /\ CourseShape(courses'[c]) /\ courses'[c].lecturers = courses[c].lecturers \ {l}
             /\ courses'[c].state = courses[c].state /\ courses'[c].template = courses[c].template
             /\ courses'[c].from = courses[c].from /\ courses'[c].days = courses[c].days
             /\ courses'[c].curriculum = courses[c].curriculum /\ courses'[c].version = courses[c].version
  <2>. PICK old : old = courses[c]
    OBVIOUS
  <2>1. CourseShape(old)
    BY DEF CatalogueInv, CatalogueTypes
  <2>2. courses'[c] = [old EXCEPT !.lecturers = old.lecturers \ {l}]
    BY <1>1
  <2>3. courses'[c] = [state |-> old.state, template |-> old.template, from |-> old.from, days |-> old.days,
                       curriculum |-> old.curriculum, lecturers |-> old.lecturers \ {l}, version |-> old.version]
    BY <2>1, <2>2 DEF CourseShape
  <2>. QED
    BY <2>1, <2>3 DEF CourseShape
<1>3. courses' = [c \in CourseIds |-> courses'[c]]
  BY <1>1
<1>4. /\ desks' = [t \in Staff |-> desks'[t]]
      /\ \A t \in Staff \ {s} : desks'[t] = desks[t]
      /\ DeskShape(desks'[s]) /\ desks'[s].step = x.step /\ desks'[s].on = l
  <2>. PICK y : y = [x EXCEPT !.writes = x.writes \ {"pull"}]
    OBVIOUS
  <2>1. desks' = [desks EXCEPT ![s] = y]
    BY <1>1
  <2>2. y = [step |-> x.step, on |-> x.on, doc |-> x.doc, writes |-> x.writes \ {"pull"}, from |-> x.from]
    <3>1. DeskShape(x)
      BY DEF CatalogueInv, CatalogueTypes
    <3>. QED
      BY <3>1 DEF DeskShape
  <2>3. DeskShape(y) /\ y.step = x.step /\ y.on = l
    BY <2>2 DEF DeskShape
  <2>. QED
    BY <2>1, <2>3 DEF CatalogueInv, CatalogueTypes
<1>5. CatalogueTypes'
  <2>1. \A t \in Staff : DeskShape(desks'[t])
    BY <1>4 DEF CatalogueInv, CatalogueTypes
  <2>2. \A c \in CourseIds : CourseShape(courses'[c]) /\ courses'[c].version \in Nat
    BY <1>2 DEF CatalogueInv, CatalogueTypes
  <2>. QED
    BY <1>1, <1>3, <1>4, <2>1, <2>2 DEF CatalogueInv, CatalogueTypes
<1>6. (\A d \in CourseIds : FromTemplate(courses[d].from))' /\ (\A d \in enrolled : Known(d))'
  <2>1. \A d \in CourseIds : FromTemplate(courses[d].from)
    BY DEF CatalogueInv
  <2>2. \A d \in CourseIds : FromTemplate(courses[d].from)'
    BY <1>2, <2>1 DEF FromTemplate, Known
  <2>. QED
    BY <1>1, <1>2, <2>2 DEF CatalogueInv, Known
<1>7. C!LecturersExist' /\ C!NoStudentsBehind'
  BY <1>1, <1>2 DEF CatalogueInv, C!LecturersExist, C!NoStudentsBehind, C!Live
<1>8. C!DaysAreWhole'
  BY <1>1, <1>2 DEF CatalogueInv, C!DaysAreWhole, C!Live, C!MatchesDays
<1>9. \A m : (\E c \in CourseIds : courses'[c].state = "live" /\ m \in courses'[c].lecturers) => C!InUse(m) /\ m # l
  BY <1>2 DEF C!InUse, C!Live
<1>10. ASSUME NEW t \in Staff \ {s}, desks[t].step = "lecturer", C!InUse(desks[t].on)'
       PROVE  C!InUse(desks[t].on) \/ desks[t].on \in hurried'
  BY <1>4, <1>9, <1>10 DEF C!InUse, C!Live
<1>11. \A d \in CourseIds : Known(d) =>
              /\ courses'[d].template = courses[d].template /\ courses'[d].from = courses[d].from
              /\ courses'[d].state = courses[d].state
              /\ courses'[d].version \in Nat /\ courses[d].version <= courses'[d].version
              /\ d \notin bare' \cup resized' /\ courses'[d].version = courses[d].version => courses'[d].days = courses[d].days
  BY <1>2 DEF CatalogueInv, CatalogueTypes
<1>12. \A t \in Staff \ {s} : DeskFits(desks[t])'
  BY <1>1, <1>4, <1>10, <1>11, SameFit
<1>13. DeskFits(desks[s])'
  <2>1. l \in Lecturers
    BY <1>1 DEF CatalogueInv, DeskFits, LecturerFits
  <2>2. ~C!InUse(l)'
    BY <1>9 DEF C!InUse, C!Live
  <2>3. LecturerFits(desks[s])'
    BY <1>4, <2>1, <2>2 DEF LecturerFits, C!InUse, C!Live
  <2>. QED
    BY <1>1, <1>4, <2>3 DEF DeskFits, InsertFits, SaveFits, DeleteFits, BuyFits
<1>14. \A t \in Staff : DeskFits(desks[t])'
  BY <1>12, <1>13
<1>. QED
  BY <1>5, <1>6, <1>7, <1>8, <1>14 DEF CatalogueInv

\* A course that is deleted has no students, or is being bought.
LEMMA SaveDeletionKeeps ==
    ASSUME CatalogueInv, NEW s \in Staff, C!SaveDeletion(s)
    PROVE  CatalogueInv'
<1>. PICK c, old : c = desks[s].on /\ old = courses[c]
  OBVIOUS
<1>1. /\ desks[s].step = "delete" /\ C!End(s)
      /\ courses' = [courses EXCEPT ![c].state = "deleted"]
      /\ boughtLate' = IF C!Buying(c) THEN boughtLate \cup {c} ELSE boughtLate
      /\ abandoned' = IF C!Bought(c) THEN abandoned \cup {c} ELSE abandoned
      /\ UNCHANGED <<faculty, enrolled, resized, bare, hurried>>
  BY DEF C!SaveDeletion
<1>2. c \in CourseIds /\ Known(c) /\ (C!Bought(c) => c \in boughtLate)
  BY <1>1 DEF CatalogueInv, DeskFits, DeleteFits, Known
<1>3. boughtLate \subseteq boughtLate'
  BY <1>1
<1>4. /\ courses' = [d \in CourseIds |-> courses'[d]]
      /\ \A d \in CourseIds \ {c} : courses'[d] = courses[d]
      /\ courses'[c] = [state |-> "deleted", template |-> old.template, from |-> old.from, days |-> old.days,
                        curriculum |-> old.curriculum, lecturers |-> old.lecturers, version |-> old.version]
  <2>. PICK y : y = [old EXCEPT !.state = "deleted"]
    OBVIOUS
  <2>1. CourseShape(old)
    BY <1>2 DEF CatalogueInv, CatalogueTypes
  <2>2. y = [state |-> "deleted", template |-> old.template, from |-> old.from, days |-> old.days,
             curriculum |-> old.curriculum, lecturers |-> old.lecturers, version |-> old.version]
    BY <2>1 DEF CourseShape
  <2>3. courses' = [courses EXCEPT ![c] = y]
    BY <1>1, <1>2
  <2>. QED
    BY <1>2, <2>2, <2>3 DEF CatalogueInv, CatalogueTypes
<1>5. ASSUME NEW d \in CourseIds
      PROVE  /\ CourseShape(courses'[d]) /\ courses'[d].lecturers = courses[d].lecturers
             /\ courses'[d].state = (IF d = c THEN "deleted" ELSE courses[d].state)
             /\ courses'[d].template = courses[d].template
             /\ courses'[d].from = courses[d].from /\ courses'[d].days = courses[d].days
             /\ courses'[d].curriculum = courses[d].curriculum /\ courses'[d].version = courses[d].version
  <2>1. CourseShape(courses[d])
    BY DEF CatalogueInv, CatalogueTypes
  <2>2. CASE d = c
    BY <1>4, <2>1, <2>2 DEF CourseShape
  <2>3. CASE d # c
    BY <1>4, <2>1, <2>3
  <2>. QED
    BY <2>2, <2>3
<1>6. \A d : Known(d) => Known(d)' /\ (courses'[d].state = "live" => courses[d].state = "live")
  BY <1>5 DEF Known
<1>7. CatalogueTypes'
  <2>1. \A d \in CourseIds : CourseShape(courses'[d]) /\ courses'[d].version \in Nat
    BY <1>5 DEF CatalogueInv, CatalogueTypes
  <2>. QED
    BY <1>1, <1>4, <2>1, EndLeaves DEF CatalogueInv, CatalogueTypes
<1>8. (\A d \in CourseIds : FromTemplate(courses[d].from))' /\ (\A d \in enrolled : Known(d))'
  <2>1. \A d \in CourseIds : FromTemplate(courses[d].from)
    BY DEF CatalogueInv
  <2>2. \A d \in CourseIds : FromTemplate(courses[d].from)'
    BY <1>5, <2>1 DEF FromTemplate, Known
  <2>. QED
    BY <1>1, <1>6, <2>2 DEF CatalogueInv
<1>9. \A d \in CourseIds : courses'[d].state = "live" => courses[d].state = "live"
  BY <1>5
<1>10. C!LecturersExist' /\ C!DaysAreWhole'
  BY <1>1, <1>5, <1>9 DEF CatalogueInv, C!LecturersExist, C!DaysAreWhole, C!Live, C!MatchesDays
<1>11. C!NoStudentsBehind'
  <2>1. abandoned' \subseteq boughtLate'
    BY <1>1, <1>2, <1>3 DEF CatalogueInv, C!NoStudentsBehind
  <2>2. ASSUME NEW d \in CourseIds, courses'[d].state = "deleted", d \notin boughtLate' PROVE d \notin enrolled
    BY <1>2, <1>3, <1>5, <2>2 DEF CatalogueInv, C!NoStudentsBehind, C!Bought
  <2>. QED
    BY <1>1, <2>1, <2>2 DEF C!NoStudentsBehind
<1>12. \A t \in Staff \ {s} : desks'[t] = desks[t]
  BY <1>1, EndLeaves
<1>13. \A m : (\E d \in CourseIds : courses'[d].state = "live" /\ m \in courses'[d].lecturers) => C!InUse(m)
  BY <1>5, <1>9 DEF C!InUse, C!Live
<1>14. ASSUME NEW t \in Staff \ {s}, desks[t].step = "lecturer", C!InUse(desks[t].on)'
       PROVE  C!InUse(desks[t].on) \/ desks[t].on \in hurried'
  BY <1>12, <1>13, <1>14 DEF C!InUse, C!Live
<1>15. ASSUME NEW t \in Staff \ {s}, desks[t].step = "delete", C!Bought(desks[t].on)'
       PROVE  C!Bought(desks[t].on) \/ desks[t].on \in boughtLate'
  <2>1. enrolled \subseteq CourseIds
    BY DEF CatalogueInv, CatalogueTypes
  <2>. QED
    BY <1>1, <1>5, <1>9, <1>12, <1>15, <2>1 DEF C!Bought, C!Live
<1>16. ASSUME NEW t \in Staff \ {s}, desks[t].step = "buy", courses'[desks[t].on].state = "deleted"
       PROVE  courses[desks[t].on].state = "deleted" \/ desks[t].on \in boughtLate'
  <2>. PICK d : d = desks[t].on
    OBVIOUS
  <2>1. d \in CourseIds
    BY <1>16 DEF CatalogueInv, DeskFits, BuyFits, Known
  <2>2. CASE d = c
    BY <1>1, <1>16, <2>2 DEF C!Buying
  <2>3. CASE d # c
    BY <1>5, <1>16, <2>1, <2>3
  <2>. QED
    BY <2>2, <2>3
<1>17. \A d \in CourseIds : Known(d) =>
              /\ courses'[d].template = courses[d].template /\ courses'[d].from = courses[d].from
              /\ courses'[d].state # "none"
              /\ courses'[d].version \in Nat /\ courses[d].version <= courses'[d].version
              /\ d \notin bare' \cup resized' /\ courses'[d].version = courses[d].version => courses'[d].days = courses[d].days
  BY <1>5 DEF CatalogueInv, CatalogueTypes, Known
<1>18. bare \cup resized \subseteq bare' \cup resized' /\ hurried \subseteq hurried'
  BY <1>1
<1>19. \A t \in Staff \ {s} : DeskFits(desks[t])'
  BY <1>3, <1>12, <1>14, <1>15, <1>16, <1>17, <1>18, OthersFit
<1>20. \A t \in Staff : DeskFits(desks[t])'
  BY <1>1, <1>19, EndFits
<1>. QED
  BY <1>7, <1>8, <1>10, <1>11, <1>20 DEF CatalogueInv

\* An order for a course that is being deleted, or for one made from a template
\* that is, is in the histories.
LEMMA EnrollKeeps ==
    ASSUME CatalogueInv, NEW s \in Staff, C!Enroll(s)
    PROVE  CatalogueInv'
<1>. PICK c : c = desks[s].on
  OBVIOUS
<1>. PICK late : late = {d \in {c, courses[c].from} : \E t \in Staff : desks[t].step = "delete" /\ desks[t].on = d}
  OBVIOUS
<1>1. /\ desks[s].step = "buy" /\ C!End(s)
      /\ enrolled' = enrolled \cup {c} /\ boughtLate' = boughtLate \cup late
      /\ UNCHANGED <<courses, faculty, resized, bare, hurried, abandoned>>
  BY DEF C!Enroll
<1>2. c \in CourseIds /\ Known(c) /\ (courses[c].state = "deleted" => c \in boughtLate)
  BY <1>1 DEF CatalogueInv, DeskFits, BuyFits, Known
<1>3. boughtLate \subseteq boughtLate' /\ bare \cup resized \subseteq bare' \cup resized' /\ hurried \subseteq hurried'
  BY <1>1
<1>4. CatalogueTypes'
  BY <1>1, <1>2, EndLeaves DEF CatalogueInv, CatalogueTypes, CourseShape
<1>5. (\A d \in CourseIds : FromTemplate(courses[d].from))' /\ (\A d \in enrolled : Known(d))'
  BY <1>1, <1>2 DEF CatalogueInv, FromTemplate, Known
<1>6. C!LecturersExist' /\ C!DaysAreWhole'
  BY <1>1 DEF CatalogueInv, C!LecturersExist, C!DaysAreWhole, C!Live, C!MatchesDays
<1>7. C!NoStudentsBehind'
  BY <1>1, <1>2, <1>3 DEF CatalogueInv, C!NoStudentsBehind
<1>8. \A t \in Staff \ {s} : desks'[t] = desks[t]
  BY <1>1, EndLeaves
<1>9. ASSUME NEW t \in Staff \ {s}, desks[t].step = "lecturer", C!InUse(desks[t].on)'
      PROVE  C!InUse(desks[t].on) \/ desks[t].on \in hurried'
  BY <1>1, <1>8, <1>9 DEF C!InUse, C!Live
<1>10. ASSUME NEW t \in Staff \ {s}, desks[t].step = "delete", C!Bought(desks[t].on)'
       PROVE  C!Bought(desks[t].on) \/ desks[t].on \in boughtLate'
  <2>. PICK d : d = desks[t].on
    OBVIOUS
  <2>1. d \in enrolled' \/ \E e \in enrolled' : courses[e].state = "live" /\ courses[e].from = d
    BY <1>1, <1>8, <1>10 DEF C!Bought, C!Live
  <2>2. CASE d \in enrolled \/ \E e \in enrolled : courses[e].state = "live" /\ courses[e].from = d
    BY <2>2 DEF C!Bought, C!Live
  <2>3. CASE d \in {c, courses[c].from}
    BY <1>1, <1>10, <2>3
  <2>. QED
    BY <1>1, <2>1, <2>2, <2>3
<1>11. \A t \in Staff \ {s} : desks[t].step = "buy" /\ courses'[desks[t].on].state = "deleted" =>
           courses[desks[t].on].state = "deleted" \/ desks[t].on \in boughtLate'
  BY <1>1
<1>12. \A d \in CourseIds : Known(d) =>
              /\ courses'[d].template = courses[d].template /\ courses'[d].from = courses[d].from
              /\ courses'[d].state # "none"
              /\ courses'[d].version \in Nat /\ courses[d].version <= courses'[d].version
              /\ d \notin bare' \cup resized' /\ courses'[d].version = courses[d].version => courses'[d].days = courses[d].days
  BY <1>1 DEF CatalogueInv, CatalogueTypes, Known
<1>13. \A t \in Staff \ {s} : DeskFits(desks[t])'
  BY <1>3, <1>8, <1>9, <1>10, <1>11, <1>12, OthersFit
<1>14. \A t \in Staff : DeskFits(desks[t])'
  BY <1>1, <1>13, EndFits
<1>. QED
  BY <1>4, <1>5, <1>6, <1>7, <1>14 DEF CatalogueInv

LEMMA CatalogueNextKeeps == CatalogueInv /\ C!CatalogueNext => CatalogueInv'
<1>. SUFFICES ASSUME CatalogueInv, C!CatalogueNext PROVE CatalogueInv'
  OBVIOUS
<1>1. ASSUME NEW s \in Staff, NEW c \in CourseIds, NEW ls \in SUBSET Lecturers, NEW n \in Shapes,
             C!CreateTemplate(s, c, n, n, ls) \/ C!CreateTemplate(s, c, n, 0, ls)
      PROVE  CatalogueInv'
  BY <1>1, CreatesKeep
<1>2. ASSUME NEW s \in Staff, NEW c \in CourseIds, NEW ls \in SUBSET Lecturers, NEW n \in Shapes, NEW x,
             C!UpdateTemplate(s, c, n, x, ls) \/ C!UpdateCourse(s, c, n, x, ls)
      PROVE  CatalogueInv'
  BY <1>2, UpdatesKeep
<1>3. ASSUME NEW s \in Staff, NEW c \in CourseIds, NEW ls \in SUBSET Lecturers, C!CreateCourse(s, c, ls)
      PROVE  CatalogueInv'
  BY <1>3, CreatesKeep
<1>4. ASSUME NEW s \in Staff, NEW c \in CourseIds,
             (\E from \in CourseIds : C!Clone(s, c, from)) \/ C!DeleteCourse(s, c) \/ C!DeleteTemplate(s, c) \/ C!Order(s, c)
      PROVE  CatalogueInv'
  BY <1>4, CloneKeeps, DeletionsBegin, OrderKeeps
<1>5. ASSUME NEW s \in Staff,
             C!Insert(s) \/ C!SaveCourse(s) \/ C!RefuseSave(s) \/ C!SaveDeletion(s) \/ C!Enroll(s)
                \/ C!PullLecturer(s) \/ C!SaveLecturer(s)
      PROVE  CatalogueInv'
  BY <1>5, InsertKeeps, SaveCourseKeeps, RefuseSaveKeeps, SaveDeletionKeeps, EnrollKeeps, PullLecturerKeeps, SaveLecturerKeeps
<1>6. ASSUME NEW s \in Staff, NEW l \in Lecturers, NEW to \in {"inactive", "deleted"}, NEW force \in BOOLEAN,
             C!TakeAway(s, l, to, force)
      PROVE  CatalogueInv'
  BY <1>6, TakeAwayKeeps
<1>7. ASSUME NEW l \in Lecturers, C!Activate(l) PROVE CatalogueInv'
  BY <1>7, ActivateKeeps
<1>. QED
  BY <1>1, <1>2, <1>3, <1>4, <1>5, <1>6, <1>7 DEF C!CatalogueNext

\* A live course's lecturers are there and active, nobody studies what is
\* deleted, and a template has the days it announces, but where requests
\* overlapped or a number of days was set unchecked: for any courses, lecturers
\* and members of staff.
THEOREM CatalogueStaysAgreed == LearningSpec => []CatalogueAgrees
<1>. DEFINE Kept == part = "catalogue" => CatalogueInv
            all == <<part, classVars, catalogueVars, bookVars, payVars, programmeVars, orderVars>>
<1>1. LearningInit => Kept
  BY CatalogueFirst
<1>2. Kept /\ [LearningNext]_all => Kept'
  <2>. SUFFICES ASSUME Kept, [LearningNext]_all
                PROVE  Kept'
    OBVIOUS
  <2>1. CASE part = "catalogue" /\ C!CatalogueNext /\ part' = part
    BY <2>1, CatalogueNextKeeps
  <2>2. CASE part' = part /\ UNCHANGED catalogueVars
    BY <2>2, CatalogueRests
  <2>3. CASE part # "catalogue" /\ part' = part
    BY <2>3
  <2>. QED
    BY <2>1, <2>2, <2>3 DEF LearningNext
<1>3. Kept => CatalogueAgrees
  BY DEF CatalogueInv, CatalogueAgrees, C!CatalogueAgrees
<1>. QED
  BY <1>1, <1>2, <1>3, PTL DEF LearningSpec
===============================================================================
