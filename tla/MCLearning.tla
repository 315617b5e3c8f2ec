------------------------------ MODULE MCLearning ------------------------------
(* Where the parts start; each has a start at which it rests.  The         *)
(* instances in Learning need the starts, so these use instances of their own. *)
EXTENDS Learning, TLC

CONSTANTS k1, k2, l1, o1, r1, r2

R0 == INSTANCE Classroom WITH ClassStarts <- {}, course <- taught
\* Three days of a fixed calendar, two that begin with each student, and two of
\* them that must be passed in order; then one whose works are handed in.
Days(course_) == [course |-> course_, ops |-> {"submitDay", "tick", "status", "stop"}]
NoDays == R0!Course(TRUE, 0, <<R0!Day(Unset, 0)>>, FALSE, FALSE, FALSE, 0)
MCClassStarts == {
    Days(R0!Course(TRUE, 1, <<R0!Day(Unset, 0), R0!Day(2, 0), R0!Day(Unset, 3)>>, FALSE, TRUE, FALSE, 1)),
    Days(R0!Course(FALSE, 1, <<R0!Day(Unset, 0), R0!Day(Unset, 2)>>, FALSE, FALSE, TRUE, 1)),
    Days(R0!Course(FALSE, 1, <<R0!Day(Unset, 0), R0!Day(Unset, 2)>>, TRUE, FALSE, FALSE, 0)),
    [course |-> NoDays, ops |-> {"submit", "resubmit", "withdraw", "review", "status"}],
    [course |-> NoDays, ops |-> {"view", "lesson", "stop", "tick"}],
    [course |-> NoDays, ops |-> {}] }

C0 == INSTANCE Catalogue WITH CatalogueStarts <- {}, None <- NoCourse
Template == C0!NewCourse(TRUE, NoCourse, 1, C0!Curriculum(1, 9), {})
MCCatalogueStarts == {
    [courses |-> (k1 :> Template @@ k2 :> C0!Blank), ops |-> {"create", "update", "clone"}, unlocked |-> TRUE],
    [courses |-> (k1 :> Template @@ k2 :> C0!NewCourse(FALSE, k1, 1, C0!Curriculum(1, 9), {l1})),
     ops |-> C0!CourseOps \ {"create"}, unlocked |-> FALSE],
    [courses |-> (k1 :> C0!NewCourse(TRUE, NoCourse, 1, C0!Curriculum(1, 9), {l1}) @@ k2 :> C0!Blank),
     ops |-> C0!LecturerOps \cup {"create", "clone", "update"}, unlocked |-> FALSE],
    [courses |-> (k1 :> Template @@ k2 :> C0!Blank), ops |-> {}, unlocked |-> FALSE] }

Plan(kind, amount, months) == [kind |-> kind, amount |-> amount, months |-> months]
MCPlans == {Plan("yearly", 5, {1, 2}), Plan("monthly", 2, {1}), Plan("yearly", 3, {1, 3}), Plan("yearly", 4, {})}
B0 == INSTANCE Books WITH BookStarts <- {}, Plans <- MCPlans
MCBookStarts == {B0!BookOps, {}}

P0 == INSTANCE Payroll WITH PayStarts <- {}
NoSalaries == [e \in Employees |-> P0!NoSalary]
MCPayStarts == {
    [ops |-> {"generate", "force", "configure"}, salaries |-> NoSalaries],
    [ops |-> P0!AllPayOps, salaries |-> [NoSalaries EXCEPT ![1] = P0!Salary]],
    [ops |-> {}, salaries |-> NoSalaries] }

G0 == INSTANCE Programmes WITH ProgrammeStarts <- {}
ByTasks == G0!Programme("task", <<G0!Task(1, FALSE), G0!Task(2, FALSE)>>, <<>>, G0!NoTargets)
MCProgrammeStarts == {
    [ops |-> {"addTask", "markTask", "deleteTask", "update", "switchType"}, programme |-> ByTasks],
    [ops |-> G0!ProgrammeOps \ {"addTask", "markTask", "deleteTask"},
     programme |-> G0!Programme("metric", <<>>, <<G0!Milestone(3, 1, 1)>>, 1)],
    [ops |-> {}, programme |-> ByTasks] }

\* One order of two courses of two types.
MCCarts == o1 :> <<k1, k2>>
MCTypes == k1 :> 1 @@ k2 :> 2
O0 == INSTANCE OrderWebhooks WITH OrderStarts <- {}, Items <- MCCarts, TypeOf <- MCTypes
Hooks(one, other, ops) == [rules |-> (r1 :> one @@ r2 :> other), ops |-> ops]
MCOrderStarts == {
    Hooks(O0!Hook(O0!Course(k1), TRUE), O0!Hook(O0!Global, TRUE), {"order", "stop"}),
    Hooks(O0!Hook(O0!CourseType(2), TRUE), O0!Hook(O0!CourseType(2), TRUE), {"order", "update"}),
    Hooks(O0!Hook(O0!CourseType(2), TRUE), Nothing, {"order", "create", "stop"}),
    Hooks(O0!Hook(O0!Global, TRUE), O0!Hook(O0!Global, FALSE), {"order", "toggle", "delete"}),
    Hooks(Nothing, Nothing, {}) }

\* The requests of the parts bear the same names.
Symmetry == Permutations(Pupils) \cup Permutations(Readers)
===============================================================================
