------------------------------- MODULE Payroll -------------------------------
(***************************************************************************)
(* The salary records of one month (modules/finance/salary): made and      *)
(* brought up to date from the staff's settings, edited by hand, paid.     *)
(*                                                                         *)
(* Generation and editing read the records, compute, and write with one    *)
(* bulkWrite, an ordered list of separate writes whose filter is the id    *)
(* alone.  Social insurance and income tax are treated alike and are one   *)
(* field here, as are the additions and the deductions.                    *)
(***************************************************************************)
EXTENDS Integers, FiniteSets, FiniteSetsExt

CONSTANTS
    Employees,          \* numbers, in the order the staff are stored
    Clerks,
    Amounts,            \* bound: the amounts that occur
    PayStarts,          \* bound: [salaries, ops] a behaviour begins with
    MaxPayRequests, Null

VARIABLES
    settings,   \* employee -> [basic, tax, here]: here is employed in this month
    salaries,   \* employee -> the record of the month
    offices,    \* request -> the writes it has left
    payOps, payRequests,
    mixed,      \* records a generation wrote over an edit made meanwhile (history)
    crossed,    \* records written from a copy that was old (history)
    byHand,     \* employee -> the values set by hand (history)
    paidAs      \* employee -> what was paid, each time (history)

payVars == <<settings, salaries, offices, payOps, payRequests, mixed, crossed, byHand, paidAs>>
payHistory == <<mixed, crossed, byHand, paidAs>>

AllPayOps == {"configure", "generate", "force", "edit", "pay"}
Salary == [state |-> "made", basic |-> 0, tax |-> 0, worked |-> Null, plus |-> 0, minus |-> 0,
           total |-> 0, received |-> 0, status |-> "pending", overrides |-> {}]
NoSalary == [Salary EXCEPT !.state = "none"]
Made(e) == salaries[e].state = "made"
AtRest == [kind |-> "none", docs |-> <<>>, left |-> {}, stale |-> {}, edited |-> {}, field |-> Null]
ByNobody == [basic |-> Null, tax |-> Null]

PayInit ==
    \E start \in PayStarts :
        /\ payOps = start.ops /\ salaries = start.salaries
        /\ settings = [e \in Employees |-> [basic |-> 1, tax |-> 0, here |-> TRUE]]
        /\ offices = [c \in Clerks |-> AtRest] /\ payRequests = 0
        /\ mixed = {} /\ crossed = {}
        /\ byHand = [e \in Employees |-> ByNobody] /\ paidAs = [e \in Employees |-> {}]

Request(op) ==
    /\ op \in payOps /\ payRequests < MaxPayRequests
    /\ payRequests' = payRequests + 1 /\ UNCHANGED payOps

\* The staff's settings change (modules/hr/staff).
Configure(e, amount, here) ==
    /\ Request("configure")
    /\ settings' = [settings EXCEPT ![e] = [basic |-> amount, tax |-> amount, here |-> here]]
    /\ UNCHANGED <<salaries, offices, payHistory>>

\* Request c has read the records and has the given documents to write.
Begin(c, op, kind, docs, field) ==
    /\ offices[c].kind = "none" /\ Request(op)
    /\ offices' = [offices EXCEPT ![c] =
          [AtRest EXCEPT !.kind = kind, !.docs = docs, !.left = DOMAIN docs, !.field = field]]
    /\ UNCHANGED <<settings, salaries, payHistory>>

\* What a record comes to.
Base(x) == IF x.worked # Null THEN x.worked ELSE x.basic
Summed(x) == [x EXCEPT !.total = Base(x) + x.plus, !.received = Base(x) + x.plus - x.minus - x.tax]

\* generateSalaryForMonth: what was set by hand stays, unless it is forced.
Renewed(e, force) ==
    LET x == IF force THEN [salaries[e] EXCEPT !.overrides = {}] ELSE salaries[e] IN
    Summed([x EXCEPT !.basic = IF "basic" \in x.overrides THEN x.basic ELSE settings[e].basic,
                     !.tax = IF "tax" \in x.overrides THEN x.tax ELSE settings[e].tax])
\* (mutated form: a paid record is brought up to date as well)
NeedsUpdateEvenPaid(e, force) == Renewed(e, force) # salaries[e]
NeedsUpdate(e, force) ==
    LET new == Renewed(e, force) IN
    /\ salaries[e].status = "pending"
    /\ new.basic # salaries[e].basic \/ new.tax # salaries[e].tax \/ new.overrides # salaries[e].overrides
Fresh(e) == Summed([Salary EXCEPT !.basic = settings[e].basic, !.tax = settings[e].tax])

Generate(c, force) ==
    LET due == {e \in Employees : settings[e].here /\ (Made(e) => NeedsUpdate(e, force))} IN
    Begin(c, IF force THEN "force" ELSE "generate", IF force THEN "force" ELSE "generate",
          [e \in due |-> IF Made(e) THEN Renewed(e, force) ELSE Fresh(e)], {e \in due : Made(e)})

\* batchUpdateSalaries: the fields given, the sums, and what was changed by
\* hand.  Whether the record was paid is not asked.
Edited(e, field, amount) ==
    Summed([salaries[e] EXCEPT
        ![field] = amount,
        !.overrides = IF field \in {"basic", "tax"} /\ salaries[e][field] # amount THEN @ \cup {field} ELSE @])
Edit(c, es, field, amount) ==
    /\ \A e \in es : Made(e)
    /\ Begin(c, "edit", "edit", [e \in es |-> Edited(e, field, amount)], field)

\* One write after the other.  An insert is refused if the month has a record
\* by now, and ends the list.
Refused(c, e) == offices[c].kind \in {"generate", "force"} /\ e \notin offices[c].field /\ Made(e)
Written(c, e) ==
    LET x == offices[c].docs[e]  old == salaries[e] IN
    IF offices[c].kind = "edit" THEN [x EXCEPT !.status = old.status]
    ELSE IF ~Made(e) THEN x
    ELSE [old EXCEPT !.basic = x.basic, !.tax = x.tax, !.total = x.total, !.received = x.received,
                     !.overrides = IF offices[c].kind = "force" THEN {} ELSE @]
Touch(c, e) ==
    [d \in Clerks |->
        IF d = c THEN IF offices[c].left = {e} THEN AtRest ELSE [offices[c] EXCEPT !.left = @ \ {e}]
        ELSE IF e \in offices[d].left
             THEN [offices[d] EXCEPT !.stale = @ \cup {e},
                                     !.edited = IF offices[c].kind = "edit" THEN @ \cup {e} ELSE @]
             ELSE offices[d]]
Write(c) ==
    LET x == offices[c]  e == Min(x.left) IN
    /\ x.kind \in {"generate", "force", "edit"} /\ x.left # {} /\ ~Refused(c, e)
    /\ salaries' = [salaries EXCEPT ![e] = Written(c, e)]
    /\ offices' = Touch(c, e)
    /\ mixed' = IF x.kind # "edit" /\ e \in x.edited THEN mixed \cup {e} ELSE mixed \ {e}
    /\ crossed' = IF e \in x.stale THEN crossed \cup {e} ELSE crossed
    /\ byHand' = [byHand EXCEPT ![e] =
          IF x.kind = "force" THEN ByNobody
          ELSE IF x.kind = "edit" /\ x.field \in {"basic", "tax"} /\ x.docs[e][x.field] # salaries[e][x.field]
               THEN [@ EXCEPT ![x.field] = x.docs[e][x.field]] ELSE @]
    /\ paidAs' = [paidAs EXCEPT ![e] = IF x.kind = "edit" /\ @ # {} THEN {x.docs[e].received} ELSE @]
    /\ UNCHANGED <<settings, payOps, payRequests>>
EndList(c) ==
    /\ offices[c].kind \in {"generate", "force", "edit"}
    /\ offices[c].left # {} => Refused(c, Min(offices[c].left))
    /\ offices' = [offices EXCEPT ![c] = AtRest]
    /\ UNCHANGED <<settings, salaries, payOps, payRequests, payHistory>>

\* paySalary, with the amount the payer was shown.
Pay(c, e) ==
    /\ Made(e) /\ salaries[e].status # "paid"
    /\ Begin(c, "pay", "pay", [f \in {e} |-> salaries[e]], Null)
SavePayment(c) ==
    LET x == offices[c]  e == Min(x.left) IN
    /\ x.kind = "pay"
    /\ salaries' = [salaries EXCEPT ![e].status = "paid"]
    /\ offices' = Touch(c, e)
    /\ crossed' = IF e \in x.stale THEN crossed \cup {e} ELSE crossed
    /\ paidAs' = [paidAs EXCEPT ![e] = @ \cup {x.docs[e].received}]
    /\ UNCHANGED <<settings, payOps, payRequests, mixed, byHand>>

PayNext ==
    \/ \E e \in Employees, a \in Amounts, here \in BOOLEAN : Configure(e, a, here)
    \/ \E c \in Clerks :
          \/ \E force \in BOOLEAN : Generate(c, force)
          \/ \E es \in SUBSET Employees \ {{}}, a \in Amounts :
                \/ \E field \in {"basic", "tax", "plus", "minus", "worked"} : Edit(c, es, field, a)
                \/ Edit(c, es, "worked", Null)
          \/ Write(c) \/ EndList(c)
          \/ \E e \in Employees : Pay(c, e)
          \/ SavePayment(c)

-----------------------------------------------------------------------------
\* Properties

\* A record's sums are those of its parts, however its writers overlap, but
\* for a generation that read it before an edit and wrote after it.
SumsAddUp == \A e \in Employees : (Made(e) /\ e \notin mixed) => salaries[e] = Summed(salaries[e])

\* A value set by hand stays until the month is generated by force, unless
\* the record was written from an old copy.
HandIsKept ==
    \A e \in Employees : e \notin crossed =>
        \A f \in {"basic", "tax"} : byHand[e][f] # Null => salaries[e][f] = byHand[e][f]

\* A record is paid once, and comes to what was paid until somebody edits it,
\* unless it was written while it was paid.
PaidIsKept ==
    \A e \in Employees : (salaries[e].status = "paid" /\ e \notin crossed) =>
        paidAs[e] = {salaries[e].received}

PayIsExplained == SumsAddUp /\ HandIsKept /\ PaidIsKept
=============================================================================
