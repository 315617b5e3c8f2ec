---------------------------- MODULE WebhookIntake ----------------------------
(***************************************************************************)
(* Deliveries of the SmaxAi platform: modules/system/webhook, its          *)
(* idempotency check (core/middleware/webhookAuth), the retries of         *)
(* log.controller, and the customers it shares with modules/customer.      *)
(*                                                                         *)
(* No delivery runs in a transaction: every await is a step of its own.    *)
(* Customers, subscriptions, logs and events are documents, named by their *)
(* position; a customer is known by one key, an e-mail, a phone or, for a  *)
(* business, an alias.  Left out: names, labels, dates and quotas, the     *)
(* snapshot of the plan in an event, the staff member it is given to.      *)
(***************************************************************************)
EXTENDS Integers, Sequences, FiniteSets

CONSTANTS
    Users, Bizs,        \* keys of users and of businesses
    Unique,             \* keys under a unique index: e-mails of users, aliases
    Orders, Deliveries, \* ids the sender gives
    Handlers,           \* requests and retries in flight at the same time
    Scenarios,          \* bound: what the sender sends, set of sets of messages
    MaxLogs, MaxRetries, MaxFaults, MaxDeletions,   \* bounds
    None

PlanTypes == {"sap_het_han", "can_nang_cap"}
BizTypes == PlanTypes \cup {"biz_moi"}
OrderTypes == {"order_create", "order_active"}
UserTypes == {"user_login", "user_moi"}
OrderStatuses == {"active", "expired", "cancelled", "pending", "none", "paid"}

\* A delivery; an older sap_het_han or can_nang_cap names no business.
Messages ==
    [type : BizTypes \cup OrderTypes \cup UserTypes, delivery : Deliveries \cup {None},
     user : Users \cup {None}, biz : Bizs \cup {None}, order : Orders \cup {None},
     status : OrderStatuses]

ASSUME WebhookAssumption ==
    /\ IsFiniteSet(Handlers)
    /\ Users \cap Bizs = {}
    /\ Unique \subseteq Users \cup Bizs
    /\ Scenarios \subseteq SUBSET Messages
    /\ \A m \in UNION Scenarios :
        /\ m.type \in UserTypes => m.user # None
        /\ m.type \in OrderTypes => m.order # None
        /\ m.type = "biz_moi" => m.biz # None
    /\ {MaxLogs, MaxRetries, MaxFaults, MaxDeletions} \subseteq Nat
    /\ None \notin Users \cup Bizs \cup Orders \cup Deliveries

VARIABLES
    inbox,          \* the messages the sender keeps sending
    logs,           \* the webhook logs, oldest first
    customers,      \* the customers, oldest first
    subscriptions,  \* the subscriptions, oldest first
    events,         \* the events made: their log and their customer
    job,            \* handler -> what it is at:
                    \*   at, todo: the step, and the parts of the work left;
                    \*   msg, log: the message and its log;
                    \*   found: the document of the last look-up, or 0;
                    \*   free: whether the subscription it found had no owner;
                    \*   business: the business it works for, or 0
    staff,          \* the deletion a member of staff has begun
    faults,         \* crashes and failed calls so far
    unlinked,       \* logs that left a user without the link (history)
    contended,      \* orders two handlers looked for before either wrote (history)
    exposed,        \* customers deleted while a delivery worked with them (history)
    abandoned       \* logs whose handler crashed, or could not say it failed (history)

documentVars == <<logs, customers, subscriptions, events>>
historyVars == <<unlinked, contended, exposed, abandoned>>
vars == <<inbox, documentVars, job, staff, faults, historyVars>>

-----------------------------------------------------------------------------

Settled == {"processed", "failed"}
CustomerSteps == {"find", "save", "look", "insert", "last"}

\* The processor of each type: the documents it works on, in this order.
ProcessUserLogin == <<"user">>
ProcessNewRegistration == <<"user", "event">>
ProcessNewBiz == <<"biz", "user", "order", "event">>
ProcessPlanExpired(m) == IF m.biz = None THEN <<"event">> ELSE ProcessNewBiz
ProcessPlanUpgrade(m) == IF m.biz = None THEN <<"event">> ELSE ProcessNewBiz
ProcessOrderCreate == <<"order">>
ProcessOrderActive == <<"order">>

Processor(m) ==
    CASE m.type = "user_login" -> ProcessUserLogin
      [] m.type = "user_moi" -> ProcessNewRegistration
      [] m.type = "biz_moi" -> ProcessNewBiz
      [] m.type = "sap_het_han" -> ProcessPlanExpired(m)
      [] m.type = "can_nang_cap" -> ProcessPlanUpgrade(m)
      [] m.type = "order_create" -> ProcessOrderCreate
      [] m.type = "order_active" -> ProcessOrderActive

\* ... of those the message names.
Work(m) ==
    LET Named(part) == /\ part = "user" => m.user # None
                       /\ part = "order" => m.order # None
    IN  SelectSeq(Processor(m), Named)

\* The step a part of the work begins with.
Entry(todo) ==
    IF todo = <<>> THEN "finish"
    ELSE IF Head(todo) \in {"biz", "user"} THEN "find" ELSE Head(todo)

NoJob == [at |-> "idle", todo |-> <<>>, msg |-> None, log |-> 0, found |-> 0,
          free |-> FALSE, business |-> 0]
Idle(h) == job[h].at = "idle"
Goto(h, step) == job' = [job EXCEPT ![h].at = step]
Stop(h) == job' = [job EXCEPT ![h] = NoJob]
Begin(h, step, m, l) ==
    job' = [job EXCEPT ![h] = [NoJob EXCEPT !.at = step, !.todo = Work(m), !.msg = m, !.log = l]]
Role(h) == Head(job[h].todo)

\* Customers under a key: all of them, and those the soft-delete filter shows.
Named(key) == {c \in DOMAIN customers : customers[c].key = key /\ customers[c].state # "purged"}
Live(key) == {c \in Named(key) : customers[c].state = "live"}
OfOrder(o) == {s \in DOMAIN subscriptions : subscriptions[s].order = o}

\* findOne: some document of the set, 0 when there is none.
OneOf(docs) == IF docs = {} THEN {0} ELSE docs

\* The customer a handler looks for: the business, or the user.
KeyOf(h) == IF Role(h) = "biz" THEN job[h].msg.biz ELSE job[h].msg.user

\* The user of a business delivery gets the link to that business.
LinksOf(h) == IF job[h].msg.type \in BizTypes THEN {job[h].business} ELSE {}

Handling(h, l) == ~Idle(h) /\ job[h].log = l

\* Another handler looked for the order before anybody had written it.
Looked(h, o) ==
    \E g \in Handlers \ {h} : job[g].at = "order_save" /\ job[g].found = 0 /\ job[g].msg.order = o

\* The customer a handler will name in its event.
Holds(h, c) == ~Idle(h) /\ c \in {job[h].found, job[h].business}

-----------------------------------------------------------------------------
\* Receiving

Init ==
    /\ inbox \in Scenarios
    /\ logs = <<>> /\ customers = <<>> /\ subscriptions = <<>> /\ events = <<>>
    /\ job = [h \in Handlers |-> NoJob]
    /\ staff = [op |-> "idle", customer |-> 0]
    /\ faults = 0
    /\ unlinked = {} /\ contended = {} /\ exposed = {} /\ abandoned = {}

Delivered(id) == \E l \in DOMAIN logs : logs[l].msg.delivery = id

\* checkIdempotency lets a delivery in that no log knows yet.
Receive(h, m) ==
    /\ Idle(h)
    /\ Len(logs) + Cardinality({g \in Handlers : job[g].at = "accepted"}) < MaxLogs
    /\ m.delivery # None => ~Delivered(m.delivery)
    /\ Begin(h, "accepted", m, 0)
    /\ UNCHANGED <<inbox, documentVars, staff, faults, historyVars>>

\* Steps that touch no customer, subscription or event.
OnlyLogs == UNCHANGED <<inbox, customers, subscriptions, events, staff, faults, historyVars>>

NewLog(h) ==
    /\ logs' = Append(logs, [msg |-> job[h].msg, status |-> "received", retries |-> 0])
    /\ job' = [job EXCEPT ![h].at = "logged", ![h].log = Len(logs) + 1]

\* The log is created; the unique index refuses a second one of a delivery.
CreateLog(h) ==
    /\ job[h].at = "accepted"
    /\ IF job[h].msg.delivery # None /\ Delivered(job[h].msg.delivery)
       THEN Stop(h) /\ UNCHANGED logs
       ELSE NewLog(h)
    /\ OnlyLogs

SetStatus(l, status) == logs' = [logs EXCEPT ![l].status = status]

\* The log becomes "processing" and the processor of its type begins.
StartProcessing(h) ==
    /\ job[h].at = "logged"
    /\ SetStatus(job[h].log, "processing")
    /\ Goto(h, Entry(job[h].todo))
    /\ OnlyLogs

\* A member of staff has a log processed again, whatever its status.
RetryEvent(h, l) ==
    /\ Idle(h)
    /\ logs[l].retries < MaxRetries
    /\ logs' = [logs EXCEPT ![l].retries = @ + 1]
    /\ Begin(h, "logged", logs[l].msg, l)
    /\ OnlyLogs

Finish(h) ==
    /\ job[h].at = "finish"
    /\ SetStatus(job[h].log, "processed")
    /\ Stop(h)
    /\ OnlyLogs

\* A save or the processor threw: the log says so, unless this save fails
\* too, and the caller gets the error.
FinishFailed(h) ==
    /\ job[h].at = "failing"
    /\ \/ SetStatus(job[h].log, "failed") /\ UNCHANGED abandoned
       \/ abandoned' = abandoned \cup {job[h].log} /\ UNCHANGED logs
    /\ Stop(h)
    /\ UNCHANGED <<inbox, customers, subscriptions, events, staff, faults,
                   unlinked, contended, exposed>>

-----------------------------------------------------------------------------
\* Customers

\* On to the next part of the work; i is the document settled on, or 0.
Proceed(h, i) ==
    job' = [job EXCEPT ![h].at = Entry(Tail(job[h].todo)), ![h].todo = Tail(@), ![h].found = i,
                       ![h].free = FALSE,
                       ![h].business = IF Role(h) = "biz" THEN i ELSE @]

\* The delivery leaves its user without the link to its business.
Unlink(h) ==
    unlinked' = IF Role(h) = "user" THEN unlinked \cup {job[h].log : b \in LinksOf(h)}
                ELSE unlinked

OnlyCustomers ==
    UNCHANGED <<inbox, logs, subscriptions, events, staff, faults, contended, exposed, abandoned>>

\* findOneWithDeleted.  A deleted user is skipped by a login and by a
\* business delivery; otherwise a deleted customer counts as none.
FindCustomer(h) ==
    /\ job[h].at = "find"
    /\ \E c \in OneOf(Named(KeyOf(h))) :
        LET deleted == c # 0 /\ customers[c].state = "deleted"
            skipped == deleted /\ Role(h) = "user" /\ job[h].msg.type # "user_moi"
        IN  \/ skipped /\ Proceed(h, 0) /\ Unlink(h)
            \/ ~skipped /\ (c = 0 \/ deleted) /\ Goto(h, "look") /\ UNCHANGED unlinked
            \/ /\ c # 0 /\ ~deleted
               /\ job' = [job EXCEPT ![h].at = "save", ![h].found = c]
               /\ UNCHANGED unlinked
    /\ UNCHANGED customers /\ OnlyCustomers

\* The call in hand fails.  An error over a business's user is swallowed.
Fail(h) ==
    IF job[h].at \in CustomerSteps /\ Role(h) = "user" /\ LinksOf(h) # {}
    THEN Proceed(h, 0) /\ Unlink(h)
    ELSE Goto(h, "failing") /\ UNCHANGED unlinked

\* A customer that exists is updated; the save of a purged one fails.  The
\* link is pushed, so a stale copy loses no link another delivery wrote.
\* (mutated form: the array is written back as it was read)
SaveLinksAsRead(h) ==
    /\ job[h].at = "save"
    /\ LET c == job[h].found IN
       \/ /\ customers[c].state # "purged"
          /\ customers' = [customers EXCEPT ![c].links =
                IF Role(h) = "user" /\ LinksOf(h) # {} THEN LinksOf(h) ELSE @]
          /\ Proceed(h, c) /\ UNCHANGED unlinked
       \/ customers[c].state = "purged" /\ Fail(h) /\ UNCHANGED customers
    /\ OnlyCustomers
SaveCustomer(h) ==
    /\ job[h].at = "save"
    /\ LET c == job[h].found IN
       \/ /\ customers[c].state # "purged"
          /\ customers' = [customers EXCEPT ![c].links =
                IF Role(h) = "user" THEN @ \cup LinksOf(h) ELSE @]
          /\ Proceed(h, c) /\ UNCHANGED unlinked
       \/ customers[c].state = "purged" /\ Fail(h) /\ UNCHANGED customers
    /\ OnlyCustomers

\* findOrCreateCustomer and findOrCreateBizCustomer look again, deleted
\* customers left out; one that turns up is used as it is, without the link.
LookAgain(h) ==
    /\ job[h].at = "look"
    /\ \E c \in OneOf(Live(KeyOf(h))) :
        \/ c # 0 /\ Proceed(h, c) /\ Unlink(h)
        \/ c = 0 /\ Goto(h, "insert") /\ UNCHANGED unlinked
    /\ UNCHANGED customers /\ OnlyCustomers

\* Customer.create; the unique indexes count deleted customers too.
InsertCustomer(h) ==
    /\ job[h].at = "insert"
    /\ IF KeyOf(h) \in Unique /\ Named(KeyOf(h)) # {}
       THEN Goto(h, "last") /\ UNCHANGED customers
       ELSE /\ customers' = Append(customers, [key |-> KeyOf(h), state |-> "live",
                    links |-> IF Role(h) = "user" THEN LinksOf(h) ELSE {}])
            /\ Proceed(h, Len(customers) + 1)
    /\ UNCHANGED unlinked /\ OnlyCustomers

\* After E11000: the customer that is there, unless it is a deleted one.
\* (mutated form: it looks until one is there)
LookLastForever(h) ==
    /\ job[h].at = "last"
    /\ \E c \in Live(KeyOf(h)) : Proceed(h, c) /\ Unlink(h)
    /\ UNCHANGED customers /\ OnlyCustomers
LookLast(h) ==
    /\ job[h].at = "last"
    /\ \E c \in OneOf(Live(KeyOf(h))) :
        \/ c # 0 /\ Proceed(h, c) /\ Unlink(h)
        \/ c = 0 /\ Fail(h)
    /\ UNCHANGED customers /\ OnlyCustomers

-----------------------------------------------------------------------------
\* Subscriptions

\* The subscription of the order, by its external id.
FindOrder(h) ==
    /\ job[h].at = "order"
    /\ \E s \in OneOf(OfOrder(job[h].msg.order)) :
        /\ job' = [job EXCEPT ![h].at = "order_save", ![h].found = s,
                              ![h].free = s # 0 /\ subscriptions[s].owner = 0]
        /\ contended' = IF s = 0 /\ Looked(h, job[h].msg.order)
                        THEN contended \cup {job[h].msg.order} ELSE contended
    /\ UNCHANGED <<inbox, documentVars, staff, faults, unlinked, exposed, abandoned>>

\* What a new subscription's owner may be: the business of the delivery, or
\* the author of the order if a customer carries his third-party id.
Owners(h) ==
    IF job[h].msg.type \in BizTypes THEN {job[h].business}
    ELSE {0} \cup (IF job[h].msg.user = None THEN {} ELSE Live(job[h].msg.user))

NewSubscription(h, status) ==
    \E c \in Owners(h) :
        subscriptions' = Append(subscriptions,
            [order |-> job[h].msg.order, status |-> status, owner |-> c])

OrderDone(h) ==
    /\ Proceed(h, 0)
    /\ UNCHANGED <<inbox, logs, customers, events, staff, faults, historyVars>>

\* A business delivery makes the subscription or takes an ownerless one.
SaveBizOrder(h) ==
    /\ job[h].at = "order_save" /\ job[h].msg.type \in BizTypes
    /\ LET s == job[h].found IN
       IF s = 0 THEN NewSubscription(h, job[h].msg.status)
       ELSE subscriptions' = [subscriptions EXCEPT ![s].owner =
                IF job[h].free THEN job[h].business ELSE @]
    /\ OrderDone(h)

\* order_create leaves an order that is known as it is.
OrderCreate(h) ==
    /\ job[h].at = "order_save" /\ job[h].msg.type = "order_create"
    /\ IF job[h].found = 0 THEN NewSubscription(h, job[h].msg.status)
       ELSE UNCHANGED subscriptions
    /\ OrderDone(h)

\* order_active activates the subscription; without one it makes an active one.
OrderActive(h) ==
    /\ job[h].at = "order_save" /\ job[h].msg.type = "order_active"
    /\ LET s == job[h].found IN
       IF s = 0 THEN NewSubscription(h, "active")
       ELSE subscriptions' = [subscriptions EXCEPT ![s].status = "active"]
    /\ OrderDone(h)

-----------------------------------------------------------------------------
\* Events, failures and the deletion of customers

\* The customer of the event: the business, or the user of the delivery; an
\* old sap_het_han or can_nang_cap looks for its user here.
EventCustomers(h) ==
    CASE job[h].business # 0 -> {job[h].business}
      [] job[h].msg.type \in UserTypes -> {job[h].found}
      [] OTHER -> IF job[h].msg.user = None THEN {0} ELSE OneOf(Live(job[h].msg.user))

CreateEvent(h) ==
    /\ job[h].at = "event"
    /\ \E c \in EventCustomers(h) :
        /\ events' = Append(events, [log |-> job[h].log, customer |-> c])
        /\ exposed' = IF staff.op # "idle" THEN exposed \cup ({staff.customer} \cap {c})
                      ELSE exposed
    /\ Goto(h, "finish")
    /\ UNCHANGED <<inbox, logs, customers, subscriptions, staff, faults, unlinked, contended,
                   abandoned>>

\* The process that runs the handler dies: its log stays as it is.
Crash(h) ==
    /\ ~Idle(h) /\ faults < MaxFaults
    /\ faults' = faults + 1
    /\ abandoned' = abandoned \cup ({job[h].log} \ {0})
    /\ Stop(h)
    /\ UNCHANGED <<inbox, documentVars, staff, unlinked, contended, exposed>>

\* A database call of the processor fails, or one of the saves around it.
CallFails(h) ==
    /\ job[h].at \in CustomerSteps \cup {"logged", "order", "order_save", "event", "finish"}
    /\ faults < MaxFaults
    /\ faults' = faults + 1
    /\ Fail(h)
    /\ UNCHANGED <<inbox, documentVars, staff, contended, exposed, abandoned>>

Linked(c) == \E e \in DOMAIN events : events[e].customer = c

\* A forced and a permanent deletion take the customer out of all events.
EventsWithout(c) ==
    [e \in DOMAIN events |-> [events[e] EXCEPT !.customer = IF @ = c THEN 0 ELSE @]]

StartDeletion(c, op) ==
    /\ staff.op = "idle"
    /\ Cardinality({d \in DOMAIN customers : customers[d].state # "live"}) < MaxDeletions
    /\ events' = IF op = "delete" THEN events ELSE EventsWithout(c)
    /\ staff' = [op |-> op, customer |-> c]
    /\ UNCHANGED <<inbox, logs, customers, subscriptions, job, faults, historyVars>>

\* deleteCustomer refuses a customer that events name, unless it is forced.
DeleteCustomer(c, op) ==
    /\ customers[c].state = "live"
    /\ op = "delete" => ~Linked(c)
    /\ StartDeletion(c, op)

\* permanentDeleteCustomer: only of a deleted customer.
PurgeCustomer(c) ==
    /\ staff.op = "idle"
    /\ customers[c].state = "deleted"
    /\ events' = EventsWithout(c)
    /\ staff' = [op |-> "purge", customer |-> c]
    /\ UNCHANGED <<inbox, logs, customers, subscriptions, job, faults, historyVars>>

\* The customer document is marked deleted, or removed, afterwards.
FinishDeletion ==
    /\ staff.op # "idle"
    /\ customers' = [customers EXCEPT ![staff.customer].state =
                        IF staff.op = "purge" THEN "purged" ELSE "deleted"]
    /\ exposed' = IF \E h \in Handlers : Holds(h, staff.customer)
                  THEN exposed \cup {staff.customer} ELSE exposed
    /\ staff' = [op |-> "idle", customer |-> 0]
    /\ UNCHANGED <<inbox, logs, subscriptions, events, job, faults, unlinked, contended,
                   abandoned>>

RestoreCustomer(c) ==
    /\ staff.op = "idle"
    /\ customers[c].state = "deleted"
    /\ customers' = [customers EXCEPT ![c].state = "live"]
    /\ UNCHANGED <<inbox, logs, subscriptions, events, job, staff, faults, historyVars>>

-----------------------------------------------------------------------------

Process(h) ==
    \/ CreateLog(h) \/ StartProcessing(h) \/ Finish(h) \/ FinishFailed(h)
    \/ FindCustomer(h) \/ SaveCustomer(h) \/ LookAgain(h) \/ InsertCustomer(h) \/ LookLast(h)
    \/ FindOrder(h) \/ SaveBizOrder(h) \/ OrderCreate(h) \/ OrderActive(h)
    \/ CreateEvent(h)

Next ==
    \/ \E h \in Handlers :
        \/ \E m \in inbox : Receive(h, m)
        \/ \E l \in DOMAIN logs : RetryEvent(h, l)
        \/ Process(h)
        \/ Crash(h) \/ CallFails(h)
    \/ \E c \in DOMAIN customers :
        \/ \E op \in {"delete", "force"} : DeleteCustomer(c, op)
        \/ PurgeCustomer(c) \/ RestoreCustomer(c)
    \/ FinishDeletion

\* A handler that runs goes on: every await of it returns.
Spec == Init /\ [][Next]_vars /\ \A h \in Handlers : WF_vars(Process(h))

-----------------------------------------------------------------------------
\* Properties

Count(S) == Cardinality(S)
EventsOf(l) == {e \in DOMAIN events : events[e].log = l}

\* The documents are well-formed and the links name businesses.
TypeOK ==
    /\ inbox \in Scenarios
    /\ \A l \in DOMAIN logs : /\ logs[l].msg \in inbox
                              /\ logs[l].status \in Settled \cup {"received", "processing"}
                              /\ logs[l].retries \in 0..MaxRetries
    /\ \A c \in DOMAIN customers :
        /\ customers[c].key \in Users \cup Bizs
        /\ customers[c].state \in {"live", "deleted", "purged"}
        /\ \A b \in customers[c].links : customers[b].key \in Bizs
    /\ \A s \in DOMAIN subscriptions :
        /\ subscriptions[s].order \in Orders
        /\ subscriptions[s].status \in OrderStatuses
        /\ subscriptions[s].owner \in {0} \cup DOMAIN customers
    /\ \A h \in Handlers : job[h].log \in {0} \cup DOMAIN logs

\* A delivery with an id has one log, and its processing made at most one
\* event, plus one for each time staff had it retried: the check of the
\* middleware may let two copies in, the index refuses the second.
OncePerDelivery ==
    /\ \A l, k \in DOMAIN logs :
        l # k => logs[l].msg.delivery # logs[k].msg.delivery \/ logs[l].msg.delivery = None
    /\ \A l \in DOMAIN logs : Count(EventsOf(l)) <= 1 + logs[l].retries

\* An order has one subscription unless two handlers looked for it before
\* either had written it; and once an order_active was processed it has an
\* active one, whatever is delivered again or late - the only one, if nobody
\* contended for it.
OrdersAreExplained ==
    \A o \in Orders :
        /\ Count(OfOrder(o)) > 1 => o \in contended
        /\ \A l \in DOMAIN logs :
            logs[l].msg.type = "order_active" /\ logs[l].msg.order = o
                /\ logs[l].status = "processed"
            => \E s \in OfOrder(o) : subscriptions[s].status = "active"

\* A business delivery that was processed left its user linked to its
\* business, whatever other deliveries did to that user since, unless it
\* skipped him: deleted, in error, or created by somebody else meanwhile.
LinksAreKept ==
    \A l \in DOMAIN logs : LET m == logs[l].msg IN
        logs[l].status = "processed" /\ m.type \in BizTypes /\ m.biz # None /\ m.user # None
            /\ l \notin unlinked
        => \E c \in DOMAIN customers : customers[c].key = m.user
            /\ \E b \in customers[c].links : customers[b].key = m.biz

\* Every reference between documents leads to a document of the right kind:
\* links to businesses, owners and events to customers.  An event names a
\* deleted customer only if a delivery was working with it at the deletion.
ReferencesHold ==
    /\ TypeOK
    /\ \A e \in DOMAIN events : events[e].customer # 0 =>
        customers[events[e].customer].state = "live" \/ events[e].customer \in exposed

\* All of it: repeated, late and overlapping deliveries count once, and what
\* they wrote about customers, orders and links hangs together.
IntakeAddsUp == OncePerDelivery /\ OrdersAreExplained /\ LinksAreKept /\ ReferencesHold

\* A log a handler works on is processed or failed in the end, unless the
\* handler crashed or the save that says "failed" failed itself: then it stays
\* "processing" until staff have it processed again.
Attended(l) ==
    /\ l \in DOMAIN logs
    /\ logs[l].status \notin Settled
    /\ \E h \in Handlers : Handling(h, l)
Settles(l) == l \in DOMAIN logs /\ logs[l].status \in Settled
LogsSettle == \A l \in 1..MaxLogs : Attended(l) ~> Settles(l) \/ l \in abandoned
=============================================================================
