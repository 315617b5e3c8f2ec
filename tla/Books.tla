-------------------------------- MODULE Books --------------------------------
(***************************************************************************)
(* A plan of expected expenses or revenues and the records made from it    *)
(* (modules/finance/expense, modules/finance/revenue).                     *)
(*                                                                         *)
(* Changing a plan removes its records, saves it and makes the records     *)
(* again, one save after another, with nothing that holds other requests   *)
(* off.  A record that was approved stops the change, unless it is forced. *)
(* Left out: proportions of companies, which are checked and copied, and   *)
(* the categories (module References).                                     *)
(***************************************************************************)
EXTENDS Integers, FiniteSets, FiniteSetsExt, Functions

CONSTANTS
    Accountants,        \* requests at the same time
    Plans,              \* bound: the contents [kind, amount, months] a plan may have
    BookStarts,         \* bound: the operations of a behaviour
    MaxBookRequests, NoPlan

VARIABLES
    plan,       \* its stored contents, or NoPlan
    records,    \* its records: [no, month, amount, status]
    lastNo,     \* the counter of transaction numbers
    ledgers,    \* request -> what it still has to do
    bookOps, bookRequests,
    disturbed,  \* why the records may differ from the plan (history)
    approvedNos, excused    \* records once approved; those that may be gone (history)

bookVars == <<plan, records, lastNo, ledgers, bookOps, bookRequests, disturbed, approvedNos, excused>>
bookHistory == <<disturbed, approvedNos, excused>>

BookOps == {"create", "update", "delete", "approve", "cancel", "deleteRecord", "stop", "fail"}
Idle == [step |-> "none", plan |-> NoPlan, months |-> {}, force |-> FALSE]
Busy(r) == ledgers[r].step # "none"

BooksInit ==
    \E ops \in BookStarts :
        /\ bookOps = ops /\ plan = NoPlan /\ records = {} /\ lastNo = 0
        /\ ledgers = [r \in Accountants |-> Idle] /\ bookRequests = 0
        /\ disturbed = {} /\ approvedNos = {} /\ excused = {}

Request(op) ==
    /\ op \in bookOps /\ bookRequests < MaxBookRequests
    /\ bookRequests' = bookRequests + 1 /\ UNCHANGED bookOps
\* Request r begins; one that is under way does not wait for it.
Begin(r, op, ledger) ==
    /\ ~Busy(r) /\ Request(op)
    /\ ledgers' = [ledgers EXCEPT ![r] = ledger]
    /\ disturbed' = IF \E s \in Accountants : Busy(s) THEN disturbed \cup {"overlap"} ELSE disturbed

\* _generateExpected...: a yearly amount in whole parts, the rest in the last
\* month; any other amount every month.
LastMonth(p) == Max(p.months)
\* (mutated form: the rest is dropped)
ShareWithoutRest(p, m) == IF p.kind = "yearly" THEN p.amount \div Cardinality(p.months) ELSE p.amount
Share(p, m) ==
    IF p.kind # "yearly" THEN p.amount
    ELSE LET part == p.amount \div Cardinality(p.months) IN
         IF m = LastMonth(p) THEN p.amount - part * (Cardinality(p.months) - 1) ELSE part

\* What is left to a request that makes the records of p: nothing, if p is for no month.
Making(p) == IF p.months = {} THEN Idle ELSE [Idle EXCEPT !.step = "generate", !.plan = p, !.months = p.months]

\* createExpected...: the next plan is begun once nothing is left of the last one.
Create(r, p) ==
    /\ plan = NoPlan /\ records = {} /\ \A s \in Accountants : ~Busy(s)
    /\ Begin(r, "create", Making(p))
    /\ plan' = p
    /\ UNCHANGED <<records, lastNo, approvedNos, excused>>

\* updateExpected... and deleteExpected...
Update(r, p, force) ==
    /\ plan # NoPlan
    /\ Begin(r, "update", [Idle EXCEPT !.step = "check", !.plan = p, !.force = force])
    /\ UNCHANGED <<plan, records, lastNo, approvedNos, excused>>
Delete(r, force) ==
    /\ plan # NoPlan
    /\ Begin(r, "delete", [Idle EXCEPT !.step = "check", !.force = force])
    /\ UNCHANGED <<plan, records, lastNo, approvedNos, excused>>

\* _removeExpected...: the approved records are looked for first.
NoneApproved == \A x \in records : x.status # "approved"
Check(r) ==
    /\ ledgers[r].step = "check"
    /\ ledgers' = [ledgers EXCEPT ![r] =
          IF ledgers[r].force \/ NoneApproved THEN [@ EXCEPT !.step = "remove"] ELSE Idle]
    /\ UNCHANGED <<plan, records, lastNo, bookOps, bookRequests, bookHistory>>
Remove(r) ==
    /\ ledgers[r].step = "remove"
    /\ records' = {}
    /\ excused' = IF ledgers[r].force THEN excused \cup approvedNos ELSE excused
    /\ ledgers' = [ledgers EXCEPT ![r].step = "save"]
    /\ UNCHANGED <<plan, lastNo, bookOps, bookRequests, disturbed, approvedNos>>

\* save() of the plan, which fails if it was deleted; or its deletion.
Save(r) ==
    /\ ledgers[r].step = "save"
    /\ plan' = IF plan = NoPlan THEN NoPlan ELSE ledgers[r].plan
    /\ ledgers' = [ledgers EXCEPT ![r] =
          IF plan = NoPlan \/ @.plan = NoPlan THEN Idle ELSE Making(@.plan)]
    /\ UNCHANGED <<records, lastNo, bookOps, bookRequests, bookHistory>>

\* One record after the other, in the order of the months.
Generate(r) ==
    LET x == ledgers[r]  m == Min(x.months) IN
    /\ x.step = "generate"
    /\ lastNo' = lastNo + 1
    /\ records' = records \cup
          {[no |-> lastNo + 1, month |-> m, amount |-> Share(x.plan, m), status |-> "pending"]}
    /\ ledgers' = [ledgers EXCEPT ![r] =
          IF x.months = {m} THEN Idle ELSE [x EXCEPT !.months = @ \ {m}]]
    /\ UNCHANGED <<plan, bookOps, bookRequests, bookHistory>>

\* updateExpense of a record made from a plan: only its status.
SetStatus(x, op, status) ==
    /\ x \in records /\ Request(op)
    /\ records' = (records \ {x}) \cup {[x EXCEPT !.status = status]}
    /\ approvedNos' = IF status = "approved" THEN approvedNos \cup {x.no} ELSE approvedNos \ {x.no}
    \* Approved after an unforced request has looked for approved ones.
    /\ excused' = IF \E r \in Accountants : ledgers[r].step = "remove" THEN excused \cup {x.no} ELSE excused
    /\ UNCHANGED <<plan, lastNo, ledgers, disturbed>>
DeleteRecord(x) ==
    /\ x \in records /\ Request("deleteRecord")
    /\ records' = records \ {x}
    /\ excused' = excused \cup {x.no} /\ disturbed' = disturbed \cup {"byHand"}
    /\ UNCHANGED <<plan, lastNo, ledgers, approvedNos>>

\* The save of a plan refuses what is not valid, which nobody looked at
\* before, and any save may fail: the request ends where it is, its records
\* gone or not all made.
SaveFails(r) ==
    /\ ledgers[r].step \in {"save", "generate"} /\ Request("fail")
    /\ ledgers' = [ledgers EXCEPT ![r] = Idle]
    /\ disturbed' = disturbed \cup {"fail"}
    /\ UNCHANGED <<plan, records, lastNo, approvedNos, excused>>

StopBooks ==
    /\ Request("stop") /\ \E r \in Accountants : Busy(r)
    /\ ledgers' = [r \in Accountants |-> Idle]
    /\ disturbed' = disturbed \cup {"stop"}
    /\ UNCHANGED <<plan, records, lastNo, approvedNos, excused>>

BooksNext ==
    \/ \E r \in Accountants :
          \/ \E p \in Plans : Create(r, p) \/ \E force \in BOOLEAN : Update(r, p, force)
          \/ \E force \in BOOLEAN : Delete(r, force)
          \/ Check(r) \/ Remove(r) \/ Save(r) \/ Generate(r) \/ SaveFails(r)
    \/ \E x \in records : SetStatus(x, "approve", "approved") \/ SetStatus(x, "cancel", "cancelled")
                          \/ DeleteRecord(x)
    \/ StopBooks

-----------------------------------------------------------------------------
\* Properties

Total(s) == SumFunctionOnSet([x \in s |-> x.amount], s)

\* Between requests, each month of the plan has one record, and a yearly
\* plan's records, if it has months, make up its amount; unless two requests
\* worked on the plan at once, one was cut off or failed after it had removed
\* the records, or a record was deleted by hand.
PlanIsSpread ==
    (disturbed = {} /\ \A r \in Accountants : ~Busy(r)) =>
        IF plan = NoPlan THEN records = {}
        ELSE /\ {x.month : x \in records} = plan.months
             /\ Cardinality(records) = Cardinality(plan.months)
             /\ IF plan.kind = "yearly" THEN plan.months # {} => Total(records) = plan.amount
                ELSE \A x \in records : x.amount = plan.amount

\* An approved record is only removed by force or by hand, or if it was
\* approved while the plan was being changed.
ApprovedIsKept == \A n \in approvedNos \ excused : \E x \in records : x.no = n

BooksAreKept == PlanIsSpread /\ ApprovedIsKept
=============================================================================
