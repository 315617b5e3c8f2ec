-------------------------------- MODULE Learning -------------------------------
(***************************************************************************)
(* Courses and their students, the messages about orders, the books, the   *)
(* salaries and the programmes.  They share no document, so each behaviour *)
(* is about one of the parts, chosen by its start, and the others rest.    *)
(***************************************************************************)
EXTENDS Integers, Sequences, FiniteSets

CONSTANTS Works, Readers, Pupils, LastHour, MaxClassRequests, MaxLesson, Unset,
          CourseIds, Lecturers, Staff, Shapes, MaxCatalogueRequests, NoCourse,
          Accountants, MaxBookRequests, NoPlan,
          Employees, Clerks, Amounts, MaxPayRequests, Null,
          Managers, Goal, Steps, Dates, MaxProgrammeRequests,
          Orders, Baskets, Sorts, Rules, Switchers, MaxRuleChanges, Nothing,
          Plans, ClassStarts, CatalogueStarts, BookStarts, PayStarts, ProgrammeStarts, OrderStarts  \* of the parts

VARIABLES part,
          taught, enrollment, works, hour, reads, viewCount, counting, pupils, classOps, classRequests,
          dueLesson, judged, blurred, lostViews,
          courses, faculty, enrolled, desks, courseOps, courseRequests, unlocked,
          resized, bare, hurried, boughtLate, abandoned,
          plan, records, lastNo, ledgers, bookOps, bookRequests, disturbed, approvedNos, excused,
          settings, salaries, offices, payOps, payRequests, mixed, crossed, byHand, paidAs,
          programme, drafts, lastId, programmeOps, programmeRequests, marked, kept, confused, newer,
          hooks, jobs, received, logs, switchers, orderOps, ruleChanges,
          sent, known, unlogged, toggled, shuffled

classVars == <<taught, enrollment, works, hour, reads, viewCount, counting, pupils, classOps, classRequests,
               dueLesson, judged, blurred, lostViews>>
catalogueVars == <<courses, faculty, enrolled, desks, courseOps, courseRequests, unlocked,
                   resized, bare, hurried, boughtLate, abandoned>>
bookVars == <<plan, records, lastNo, ledgers, bookOps, bookRequests, disturbed, approvedNos, excused>>
payVars == <<settings, salaries, offices, payOps, payRequests, mixed, crossed, byHand, paidAs>>
programmeVars == <<programme, drafts, lastId, programmeOps, programmeRequests, marked, kept, confused, newer>>
orderVars == <<hooks, jobs, received, logs, switchers, orderOps, ruleChanges,
               sent, known, unlogged, toggled, shuffled>>

R == INSTANCE Classroom WITH course <- taught
\* A course has days in an order, and begins at an hour.
ASSUME ClassAssumption ==
    \A start \in ClassStarts :
        /\ start.course.days \in Seq([unlockAt : Int \cup {Unset}, delay : Int])
        /\ start.course.start \in Int

C == INSTANCE Catalogue WITH None <- NoCourse
B == INSTANCE Books

\* What was made from something was made from a template; courses begin with
\* the days they announce.
ASSUME CatalogueAssumption ==
    /\ NoCourse \notin CourseIds
    /\ \A start \in CatalogueStarts :
        /\ start.courses \in [CourseIds ->
              [state : {"none", "live", "deleted"}, template : BOOLEAN, from : CourseIds \cup {NoCourse}, days : Nat,
               curriculum : [size : Nat, by : Nat], lecturers : SUBSET Lecturers, version : Nat]]
        /\ \A c \in CourseIds : LET x == start.courses[c] IN
              /\ x.from \in CourseIds => start.courses[x.from].template /\ start.courses[x.from].state # "none"
              /\ x.state = "live" => C!MatchesDays(x.days, x.curriculum)

\* A plan has an amount and is for finitely many months.
ASSUME BookAssumption ==
    /\ Plans \subseteq [kind : {"yearly", "monthly"}, amount : Nat, months : SUBSET Nat]
    /\ \A p \in Plans : IsFiniteSet(p.months)
    /\ NoPlan \notin Plans

P == INSTANCE Payroll

\* A month begins with records that add up, are yet to be paid and were set by nobody.
ASSUME PayAssumption ==
    /\ IsFiniteSet(Employees) /\ Employees \subseteq Nat /\ Amounts \subseteq Int /\ Null \notin Int
    /\ \A start \in PayStarts :
        /\ start.salaries \in [Employees ->
              [state : {"none", "made"}, basic : Int, tax : Int, worked : Int \cup {Null}, plus : Int, minus : Int,
               total : Int, received : Int, status : {"pending"}, overrides : SUBSET {"basic", "tax"}]]
        /\ \A e \in Employees : LET x == start.salaries[e] IN
              IF x.state = "none" THEN x = P!NoSalary ELSE x = P!Summed(x)

G == INSTANCE Programmes
O == INSTANCE OrderWebhooks WITH Items <- Baskets, TypeOf <- Sorts

LearningInit ==
    /\ R!ClassInit /\ C!CatalogueInit /\ B!BooksInit /\ P!PayInit /\ G!ProgrammesInit /\ O!OrdersInit
    /\ part \in {"class", "catalogue", "books", "pay", "programme", "orders"}
    /\ (part = "class") = (classOps # {}) /\ (part = "catalogue") = (courseOps # {})
    /\ (part = "books") = (bookOps # {}) /\ (part = "pay") = (payOps # {})
    /\ (part = "programme") = (programmeOps # {}) /\ (part = "orders") = (orderOps # {})

LearningNext ==
    \/ part = "class" /\ R!ClassNext
       /\ UNCHANGED <<part, catalogueVars, bookVars, payVars, programmeVars, orderVars>>
    \/ part = "catalogue" /\ C!CatalogueNext
       /\ UNCHANGED <<part, classVars, bookVars, payVars, programmeVars, orderVars>>
    \/ part = "books" /\ B!BooksNext
       /\ UNCHANGED <<part, classVars, catalogueVars, payVars, programmeVars, orderVars>>
    \/ part = "pay" /\ P!PayNext
       /\ UNCHANGED <<part, classVars, catalogueVars, bookVars, programmeVars, orderVars>>
    \/ part = "programme" /\ G!ProgrammesNext
       /\ UNCHANGED <<part, classVars, catalogueVars, bookVars, payVars, orderVars>>
    \/ part = "orders" /\ O!OrdersNext
       /\ UNCHANGED <<part, classVars, catalogueVars, bookVars, payVars, programmeVars>>

LearningSpec == LearningInit /\ [][LearningNext]_<<part, classVars, catalogueVars, bookVars, payVars, programmeVars, orderVars>>

\* The properties of the six, stated and explained in their modules.

\* Days are earned in order, places kept, works judged as seen, views counted (Classroom).
ClassroomIsFair == part = "class" => R!ClassroomIsFair
\* Lecturers exist, no student is left behind, days are counted (Catalogue).
CatalogueAgrees == part = "catalogue" => C!CatalogueAgrees
\* A plan is spread over its months, what was approved is kept (Books).
BooksAreKept == part = "books" => B!BooksAreKept
\* Salaries add up, what was set by hand or paid stays (Payroll).
PayIsExplained == part = "pay" => P!PayIsExplained
\* Tasks are as marked, the indicator is the latest milestone's (Programmes).
ProgrammesAddUp == part = "programme" => G!ProgrammesAddUp
\* Orders tell the rules they should, once, and log what they can (OrderWebhooks).
DeliveriesAreExplained == part = "orders" => O!DeliveriesAreExplained
===============================================================================
