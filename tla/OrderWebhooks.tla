---------------------------- MODULE OrderWebhooks ----------------------------
(***************************************************************************)
(* What is told to other systems about a paid order.  After the commit the *)
(* checkout leaves a job in memory; the job reads the active rules once,   *)
(* and then, course by course, sends one message to every rule of the      *)
(* narrowest scope that matches, waits for all the answers, and logs them. *)
(* Nothing is sent twice, and what a stop interrupts is not taken up again.*)
(***************************************************************************)
EXTENDS Integers, Sequences, FiniteSets

CONSTANTS
    Orders,             \* order groups, each one job
    Items, TypeOf,      \* order -> its courses, in their order; course -> its type
    Rules,              \* ids of rules, each given once
    Switchers,          \* toggleRule requests at the same time
    OrderStarts,        \* bound: [rules, ops] a behaviour begins with
    MaxRuleChanges,     \* bound
    Nothing

VARIABLES
    hooks,      \* rule -> [scope, active], or Nothing
    jobs,       \* order -> what its job has read and has still to do
    received,   \* <<order, course, rule>> that reached the other system
    logs,       \* <<order, course, rule, status>> of the delivery logs
    switchers,  \* request -> [rule, to]: read and about to be saved, or Nothing
    orderOps, ruleChanges,
    sent,       \* <<order, course, rule>> put on the way (history)
    known,      \* order -> what the rules were, from its commit to its reading (history)
    unlogged,   \* sent, but the log refused or never tried (history)
    toggled, shuffled   \* rule -> its last answered state; rules saved over (history)

orderVars == <<hooks, jobs, received, logs, switchers, orderOps, ruleChanges, sent, known, unlogged, toggled, shuffled>>
ruleHistory == <<toggled, shuffled>>

Hook(scope, active) == [scope |-> scope, active |-> active]
Course(c) == [type |-> "specific", of |-> c]
CourseType(t) == [type |-> "course_type", of |-> t]
Global == [type |-> "global", of |-> Nothing]
Courses == UNION {{Items[o][i] : i \in DOMAIN Items[o]} : o \in Orders}
Scopes == {Global} \cup {Course(c) : c \in Courses} \cup {CourseType(TypeOf[c]) : c \in Courses}

NoJob == [stage |-> "none", active |-> Nothing, left |-> <<>>, waiting |-> {}, answers |-> {}]
Standing(rules) == {<<r, rules[r].scope>> : r \in {x \in Rules : rules[x] # Nothing /\ rules[x].active}}

OrdersInit ==
    \E start \in OrderStarts :
        /\ hooks = start.rules /\ orderOps = start.ops
        /\ jobs = [o \in Orders |-> NoJob]
        /\ received = {} /\ logs = {} /\ sent = {} /\ unlogged = {}
        /\ switchers = [s \in Switchers |-> Nothing] /\ ruleChanges = 0
        /\ known = [o \in Orders |-> {}]
        /\ toggled = [r \in Rules |-> start.rules[r] # Nothing /\ start.rules[r].active] /\ shuffled = {}

-----------------------------------------------------------------------------
\* The rules

\* Rules are now as given; jobs that have yet to read them may find them so.
SetRules(rules) ==
    /\ ruleChanges < MaxRuleChanges /\ ruleChanges' = ruleChanges + 1
    /\ hooks' = rules
    /\ known' = [o \in Orders |->
          IF jobs[o].stage = "queued" THEN known[o] \cup {Standing(rules)} ELSE known[o]]
    /\ UNCHANGED <<jobs, received, logs, orderOps, sent, unlogged>>

\* createRule: only an id nobody had is given.
CreateRule(r, scope) ==
    /\ "create" \in orderOps /\ hooks[r] = Nothing /\ ~toggled[r] /\ r \notin shuffled
    /\ SetRules([hooks EXCEPT ![r] = Hook(scope, TRUE)])
    /\ toggled' = [toggled EXCEPT ![r] = TRUE]
    /\ UNCHANGED <<switchers, shuffled>>

\* updateRule sets the fields given, in one call.
UpdateRule(r, scope, active) ==
    /\ "update" \in orderOps /\ hooks[r] # Nothing /\ Hook(scope, active) # hooks[r]
    /\ SetRules([hooks EXCEPT ![r] = Hook(scope, active)])
    /\ toggled' = [toggled EXCEPT ![r] = active]
    /\ shuffled' = IF \E s \in Switchers : switchers[s] # Nothing /\ switchers[s].rule = r
                   THEN shuffled \cup {r} ELSE shuffled
    /\ UNCHANGED switchers

\* toggleRule reads the rule and saves the opposite.
ReadToggle(s, r) ==
    /\ "toggle" \in orderOps /\ switchers[s] = Nothing /\ hooks[r] # Nothing
    /\ switchers' = [switchers EXCEPT ![s] = [rule |-> r, to |-> ~hooks[r].active]]
    /\ shuffled' = IF \E x \in Switchers : switchers[x] # Nothing /\ switchers[x].rule = r
                   THEN shuffled \cup {r} ELSE shuffled
    /\ UNCHANGED <<hooks, jobs, received, logs, orderOps, ruleChanges, sent, known, unlogged, toggled>>
SaveToggle(s) ==
    LET r == switchers[s].rule IN
    /\ switchers[s] # Nothing /\ hooks[r] # Nothing
    /\ SetRules([hooks EXCEPT ![r].active = switchers[s].to])
    /\ switchers' = [switchers EXCEPT ![s] = Nothing]
    /\ toggled' = [toggled EXCEPT ![r] = ~@]
    /\ UNCHANGED shuffled
\* The rule was deleted: the save fails.
ToggleNothing(s) ==
    /\ switchers[s] # Nothing /\ hooks[switchers[s].rule] = Nothing
    /\ switchers' = [switchers EXCEPT ![s] = Nothing]
    /\ UNCHANGED <<hooks, jobs, received, logs, orderOps, ruleChanges, sent, known, unlogged, ruleHistory>>

DeleteRule(r) ==
    /\ "delete" \in orderOps /\ hooks[r] # Nothing
    /\ SetRules([hooks EXCEPT ![r] = Nothing])
    /\ shuffled' = shuffled \cup {r}
    /\ UNCHANGED <<switchers, toggled>>

-----------------------------------------------------------------------------
\* An order's job

Job(o, job) == jobs' = [jobs EXCEPT ![o] = job]
KeepRules == UNCHANGED <<hooks, switchers, orderOps, ruleChanges, ruleHistory>>

\* dispatch, after the commit: the rules are read in a later turn.
Dispatch(o) ==
    /\ "order" \in orderOps /\ jobs[o].stage = "none"
    /\ Job(o, [NoJob EXCEPT !.stage = "queued"])
    /\ known' = [known EXCEPT ![o] = {Standing(hooks)}]
    /\ KeepRules /\ UNCHANGED <<received, logs, sent, unlogged>>

LoadRules(o) ==
    /\ jobs[o].stage = "queued"
    /\ Job(o, [NoJob EXCEPT !.stage = IF Standing(hooks) = {} THEN "done" ELSE "next",
                            !.active = Standing(hooks), !.left = Items[o]])
    /\ KeepRules /\ UNCHANGED <<received, logs, sent, known, unlogged>>

Scoped(active, type, of) == {p[1] : p \in {x \in active : x[2].type = type /\ x[2].of = of}}
\* (mutated form: every rule that matches is told, whatever its scope)
ResolveAll(active, c) ==
    Scoped(active, "specific", c) \cup Scoped(active, "course_type", TypeOf[c])
    \cup Scoped(active, "global", Nothing)
Resolve(active, c) ==
    LET specific == Scoped(active, "specific", c)
        courseType == Scoped(active, "course_type", TypeOf[c])
    IN IF specific # {} THEN specific
       ELSE IF courseType # {} THEN courseType
       ELSE Scoped(active, "global", Nothing)

\* The next course's messages leave together; a course without rules is passed over.
SendAll(o) ==
    LET c == Head(jobs[o].left)
        rules == Resolve(jobs[o].active, c)
    IN /\ jobs[o].stage = "next" /\ jobs[o].left # <<>>
       /\ Job(o, IF rules = {} THEN [jobs[o] EXCEPT !.left = Tail(@)]
                 ELSE [jobs[o] EXCEPT !.stage = "sending", !.waiting = rules])
       /\ sent' = sent \cup {<<o, c, r>> : r \in rules}
       /\ KeepRules /\ UNCHANGED <<received, logs, known, unlogged>>
Finish(o) ==
    /\ jobs[o].stage = "next" /\ jobs[o].left = <<>>
    /\ Job(o, [jobs[o] EXCEPT !.stage = "done"])
    /\ KeepRules /\ UNCHANGED <<received, logs, sent, known, unlogged>>

\* An answer in time; or an answer that refuses, no connection, five seconds passed
\* (failed, or timeout).  A message that fails may have been taken all the same.
Answer(o, r, status) ==
    LET c == Head(jobs[o].left) IN
    /\ jobs[o].stage = "sending" /\ r \in jobs[o].waiting
    /\ Job(o, [jobs[o] EXCEPT !.waiting = @ \ {r}, !.answers = @ \cup {<<r, status>>},
                              !.stage = IF jobs[o].waiting = {r} THEN "logging" ELSE @])
    /\ \/ received' = received \cup {<<o, c, r>>}
       \/ status # "success" /\ UNCHANGED received
    /\ KeepRules /\ UNCHANGED <<logs, sent, known, unlogged>>

\* A log for each answer, one after the other; one that cannot be saved is passed over.  An answer
\* whose body has a text called status is such a one: its code is read from the body.
LogAnswer(o, saved) ==
    LET c == Head(jobs[o].left)
        answer == CHOOSE a \in jobs[o].answers : TRUE
        message == <<o, c, answer[1]>>
        last == jobs[o].answers = {answer}
    IN /\ jobs[o].stage = "logging"
       /\ logs' = IF saved THEN logs \cup {<<o, c, answer[1], answer[2]>>} ELSE logs
       /\ unlogged' = IF saved THEN unlogged ELSE unlogged \cup {message}
       /\ Job(o, [jobs[o] EXCEPT !.answers = @ \ {answer},
                                 !.stage = IF last THEN "next" ELSE @,
                                 !.left = IF last THEN Tail(@) ELSE @])
       /\ KeepRules /\ UNCHANGED <<received, sent, known>>

\* The server stops: jobs and their messages' logs are gone; what was on the way may arrive.
Lost(o) == jobs[o].stage \notin {"none", "done"}
Unanswered(o) == IF jobs[o].stage \in {"sending", "logging"}
                 THEN {<<o, Head(jobs[o].left), r>> : r \in jobs[o].waiting} ELSE {}
StopServer ==
    /\ "stop" \in orderOps /\ ruleChanges < MaxRuleChanges /\ ruleChanges' = ruleChanges + 1
    /\ jobs' = [o \in Orders |-> IF Lost(o) THEN [NoJob EXCEPT !.stage = "lost"] ELSE jobs[o]]
    /\ \E arrived \in SUBSET UNION {Unanswered(o) : o \in Orders} : received' = received \cup arrived
    /\ switchers' = [s \in Switchers |-> Nothing]
    /\ UNCHANGED <<hooks, logs, orderOps, sent, known, unlogged, ruleHistory>>

OrdersNext ==
    \/ \E r \in Rules, scope \in Scopes : CreateRule(r, scope)
    \/ \E r \in Rules, scope \in Scopes, active \in BOOLEAN : UpdateRule(r, scope, active)
    \/ \E s \in Switchers, r \in Rules : ReadToggle(s, r)
    \/ \E s \in Switchers : SaveToggle(s)
    \/ \E s \in Switchers : ToggleNothing(s)
    \/ \E r \in Rules : DeleteRule(r)
    \/ \E o \in Orders : Dispatch(o)
    \/ \E o \in Orders : LoadRules(o)
    \/ \E o \in Orders : SendAll(o)
    \/ \E o \in Orders : Finish(o)
    \/ \E o \in Orders, r \in Rules, status \in {"success", "failed"} : Answer(o, r, status)
    \/ \E o \in Orders, saved \in BOOLEAN : LogAnswer(o, saved)
    \/ StopServer

-----------------------------------------------------------------------------
Told(o, c) == {m[3] : m \in {x \in sent : x[1] = o /\ x[2] = c}}
Entries(m) == {l \in logs : <<l[1], l[2], l[3]>> = m}
Rank(scope) == CASE scope.type = "specific" -> 1 [] scope.type = "course_type" -> 2 [] OTHER -> 3
Concerns(scope, c) == scope \in {Global, Course(c), CourseType(TypeOf[c])}

\* A finished order told, for each of its courses, exactly the rules that stood at
\* one moment between its commit and its reading, concern the course, and have no
\* narrower rule beside them; no order has told anybody else.
OrdersTellTheirRules ==
    \A o \in Orders : \A c \in {Items[o][i] : i \in DOMAIN Items[o]} :
        \/ Told(o, c) = {} /\ jobs[o].stage # "done"
        \/ \E standing \in known[o] :
              LET concerned == {p \in standing : Concerns(p[2], c)} IN
              Told(o, c) = {p[1] : p \in {x \in concerned : \A y \in concerned : Rank(x[2]) <= Rank(y[2])}}
\* A delivery is logged once at most, as a success only if it was received; once
\* the job is done nothing sent is without its log, except where the log failed.
DeliveriesAreLogged ==
    /\ \A l \in logs : <<l[1], l[2], l[3]>> \in sent /\ (l[4] = "success" => <<l[1], l[2], l[3]>> \in received)
    /\ \A m \in sent : /\ Cardinality(Entries(m)) <= 1
                       /\ jobs[m[1]].stage = "done" => ((Entries(m) = {}) = (m \in unlogged))
    /\ received \subseteq sent
\* A rule is as the last answered request left it, unless two overlapped on it.
RulesAreAsSwitched ==
    \A r \in Rules : hooks[r] # Nothing /\ r \notin shuffled => hooks[r].active = toggled[r]

DeliveriesAreExplained == OrdersTellTheirRules /\ DeliveriesAreLogged /\ RulesAreAsSwitched
===============================================================================
