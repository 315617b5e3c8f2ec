------------------------------ MODULE AccessRules ------------------------------
(***************************************************************************)
(* Who may list, open and change a task, event, lead, programme or folder  *)
(* of the job board, and give it to whom (core/middleware/resourceAccess   *)
(* with its configurations taskAccess, eventAccess, leadAccess, metaAccess *)
(* and jobWorkAccess; core/utils/managerScope, resourceScope).             *)
(*                                                                         *)
(* A request passes a chain of middleware before its handler: it gets the  *)
(* caller's account, then the document, then who is under the caller, and  *)
(* the handler reads the document again and saves it.  Others may change   *)
(* the document and the accounts in between.  Left out: the permission a   *)
(* route asks for first (it depends on the caller's role alone; Cache has  *)
(* the cached roles), and what else the handlers write (Assignments).      *)
(***************************************************************************)
EXTENDS Integers, FiniteSets, FiniteSetsExt

CONSTANTS
    Colleagues, Papers, Visitors,
    Departments, Teams,     \* departments and the groups in them
    Duties,                 \* functions of the staff
    AccessStarts,           \* bound: [profiles, papers, newKind, ops] a behaviour
                            \* begins with
    MaxVisits,              \* bound: requests
    Unknown

VARIABLES
    profiles,   \* colleague -> the account
    papers,     \* paper -> its kind, creator and assignees, or Unknown
    visits,     \* request -> what it has found out so far
    newKind,    \* the kind of document that is created
    visitOps, visitCount,
    hands,      \* paper -> <<assignee, who assigned>> (history)
    taken,      \* <<paper, former assignee, who removed>> (history)
    outrun,       \* papers saved by a request whose checks were out of date (history)
    moved       \* colleagues whose account was changed (history)

accessVars == <<profiles, papers, visits, newKind, visitOps, visitCount, hands, taken, outrun, moved>>

VisitOps == {"create", "update", "selfAssign", "unassign"}

Profile(role, lead, member, duties) ==
    [role |-> role, lead |-> lead, member |-> member, duties |-> duties,
     creator |-> Unknown, active |-> TRUE]
Paper(kind, creator, assignees) == [kind |-> kind, creator |-> creator, assignees |-> assignees]

-----------------------------------------------------------------------------
\* Managers (managerScope).  p is an account as the request has it, me its id.

isOwnerOrAdmin(p) == p.role \in {"OWNER", "ADMIN"}
InDepartment(p) == (p.lead \cup p.member) \cap Departments # {}

\* (An account without departments, as owners and administrators may be,
\* leads nothing, whatever its groups say.)
isUserManagerial(p) == p.role = "MANAGER" \/ (InDepartment(p) /\ p.lead # {})

\* What a manager leads: by name, or all his departments if he leads none.
Led(p) ==
    IF ~InDepartment(p) THEN {}
    ELSE IF p.lead = {} /\ p.role = "MANAGER" THEN p.member \cap Departments
    ELSE p.lead
Subordinates(p, me) == {q \in Colleagues \ {me} : Led(p) \cap profiles[q].member # {}}

-----------------------------------------------------------------------------
\* Access to one document (requireResourceAccess)

\* The flags the routes of a kind are configured with.
Flags(assignee, unassigned, subAssignee) ==
    [assignee |-> assignee, unassigned |-> unassigned, subAssignee |-> subAssignee]
OpenFlags(kind) ==      \* read, update, self-assign
    IF kind = "folder" THEN Flags(TRUE, FALSE, FALSE) ELSE Flags(TRUE, TRUE, TRUE)
WorkFlags(kind) ==      \* everything else
    CASE kind \in {"task", "program"} -> Flags(TRUE, FALSE, TRUE)
      [] kind \in {"event", "lead"} -> Flags(TRUE, TRUE, TRUE)
      [] kind = "folder" -> Flags(FALSE, FALSE, FALSE)

Passes(p, me, d, flags) ==
    \/ isOwnerOrAdmin(p)
    \/ d.creator = me
    \/ flags.assignee /\ me \in d.assignees
    \/ flags.unassigned /\ d.assignees = {}
    \/ /\ isUserManagerial(p)
       /\ \/ flags.subAssignee /\ d.assignees \cap Subordinates(p, me) # {}
          \/ d.creator \in Subordinates(p, me)

\* buildResourceScopeFilter as the lists of tasks, events, leads and
\* programmes use it.
InList(p, me, d) ==
    \/ isOwnerOrAdmin(p)
    \/ me \in d.assignees
    \/ isUserManagerial(p) /\ d.assignees \cap Subordinates(p, me) # {}
    \/ d.assignees = {}

\* requireBulkResourceAccess: to reorder folders one must have made each, or
\* lead who made it.
MayReorder(p, me, docs) ==
    \/ isOwnerOrAdmin(p)
    \/ \A d \in docs : d.creator = me \/ (isUserManagerial(p) /\ d.creator \in Subordinates(p, me))

\* scopeAssignmentList: the accounts one sees in the list, and
\* userResourceAccess: those one may change.
UserList(p, me) ==
    IF isOwnerOrAdmin(p) THEN Colleagues
    ELSE {me} \cup (IF isUserManagerial(p) THEN Subordinates(p, me) ELSE {})
MayChangeUser(p, me, q) ==
    \/ isOwnerOrAdmin(p) \/ profiles[q].creator = me
    \/ isUserManagerial(p) /\ {q, profiles[q].creator} \cap Subordinates(p, me) # {}

-----------------------------------------------------------------------------
\* Who may assign and remove whom

SharesDuty(p, q) == p.duties \cap profiles[q].duties # {}
\* Programmes do not go by functions.
ByDuty(kind) == kind # "program"

\* enforceAssignmentRules for the people that are added.
MayAssign(p, me, kind, added) ==
    LET others == added \ {me} IN
    \/ isOwnerOrAdmin(p) \/ others = {}
    \/ /\ IF isUserManagerial(p) THEN others \subseteq Subordinates(p, me) ELSE ByDuty(kind)
       /\ ByDuty(kind) => \A q \in added : SharesDuty(p, q)

\* enforceUnassignmentRules for those that are left out.
MayRemove(p, me, removed) ==
    \/ isOwnerOrAdmin(p) \/ removed \subseteq {me}
    \/ isUserManagerial(p) /\ removed \ {me} \subseteq Subordinates(p, me)

-----------------------------------------------------------------------------
\* Requests

Outside == [at |-> "outside", who |-> Unknown, me |-> Unknown, op |-> "update", paper |-> Unknown,
            list |-> {}, seen |-> {}, stale |-> FALSE]

AccessInit ==
    \E start \in AccessStarts :
        /\ profiles = start.profiles /\ papers = start.papers
        /\ newKind = start.newKind /\ visitOps = start.ops
        /\ visits = [v \in Visitors |-> Outside] /\ visitCount = 0
        /\ hands = [i \in Papers |->
                      IF papers[i] = Unknown THEN {} ELSE {<<q, Unknown>> : q \in papers[i].assignees}]
        /\ taken = {} /\ outrun = {} /\ moved = {}

OnlyVisits == UNCHANGED <<profiles, papers, newKind, visitOps, visitCount, hands, taken, outrun, moved>>

\* authenticateRequest: the account as it is now.  What is asked for: the
\* assignees of a new or changed document, the one to remove.
Arrive(v, op, me, i, list) ==
    /\ visits[v] = Outside /\ op \in visitOps /\ visitCount < MaxVisits
    /\ op = "unassign" => Cardinality(list) = 1
    /\ op = "selfAssign" => list = {me}
    /\ visitCount' = visitCount + 1
    /\ visits' = [visits EXCEPT ![v] =
                    [at |-> IF op = "create" THEN "rules" ELSE "access", who |-> profiles[me], me |-> me,
                     op |-> op, paper |-> i, list |-> list, seen |-> {}, stale |-> FALSE]]
    /\ UNCHANGED <<profiles, papers, newKind, visitOps, hands, taken, outrun, moved>>

\* requireResourceAccess; the document it reads is kept for the rules.
MayEnter(x) ==
    LET d == papers[x.paper] IN
    d # Unknown /\ Passes(x.who, x.me, d, IF x.op = "unassign" THEN WorkFlags(d.kind) ELSE OpenFlags(d.kind))
CheckAccess(v) ==
    LET x == visits[v] IN
    /\ x.at = "access" /\ MayEnter(x)
    /\ visits' = [visits EXCEPT ![v].at = IF x.op = "update" THEN "rules" ELSE "handler",
                                ![v].seen = papers[x.paper].assignees]
    /\ OnlyVisits

\* enforceAssignmentRules, enforceUnassignmentRules.  The latter is on the
\* route of unassign as well, but looks for a list there, which is not sent.
KindOf(x) == IF x.op = "create" THEN newKind ELSE papers[x.paper].kind
\* (mutated form: anybody may be left out)
MayOmit(x) == MayAssign(x.who, x.me, KindOf(x), x.list \ x.seen)
MayGoOn(x) ==
    /\ MayAssign(x.who, x.me, KindOf(x), x.list \ x.seen)
    /\ MayRemove(x.who, x.me, x.seen \ x.list)
CheckRules(v) ==
    /\ visits[v].at = "rules" /\ MayGoOn(visits[v])
    /\ visits' = [visits EXCEPT ![v].at = "handler"]
    /\ OnlyVisits

\* _resolveAssignees: events drop who is not active, tasks and leads refuse
\* such a list, programmes do not ask.
Active(list) == {q \in list : profiles[q].active}
Resolves(kind, list) == kind \in {"task", "lead"} => Active(list) = list
Resolved(kind, list) == IF kind = "event" THEN Active(list) ELSE list

\* Only staff and managers need a function to assign themselves.
MayTake(p, kind) == ByDuty(kind) /\ p.role \in {"STAFF", "MANAGER"} => p.duties # {}

\* What the handlers still refuse; a second function is not kept apart.
Works(x) ==
    LET d == papers[x.paper] IN
    CASE x.op = "create" -> d = Unknown /\ Resolves(newKind, x.list)
      [] x.op = "update" -> Resolves(d.kind, x.list)
      [] x.op = "selfAssign" ->
            /\ d.kind \in {"event", "lead", "program"} /\ x.me \notin d.assignees /\ MayTake(x.who, d.kind)
            /\ d.kind = "lead" => Resolves(d.kind, d.assignees \cup {x.me})
      [] x.op = "unassign" -> d.kind = "event" /\ x.list \subseteq d.assignees

Refuse(v) ==
    LET x == visits[v] IN
    /\ \/ x.at = "access" /\ ~MayEnter(x)
       \/ x.at = "rules" /\ ~MayGoOn(x)
       \/ x.at = "handler" /\ ~Works(x)
    /\ visits' = [visits EXCEPT ![v] = Outside]
    /\ OnlyVisits

\* The handler reads the document again and saves it: its assignees become new.
SaveAssignees(v, op, kind, creator, new) ==
    LET x == visits[v]
        i == x.paper
        old == IF papers[i] = Unknown THEN {} ELSE papers[i].assignees
    IN  /\ x.at = "handler" /\ x.op = op /\ Works(x)
        /\ papers' = [papers EXCEPT ![i] = Paper(kind, creator, new)]
        /\ hands' = [hands EXCEPT ![i] =
                       {a \in @ : a[1] \in new} \cup {<<q, x.me>> : q \in new \ old}]
        /\ taken' = taken \cup {<<i, q, x.me>> : q \in old \ new}
        /\ outrun' = IF x.stale THEN outrun \cup {i} ELSE outrun
        /\ visits' = [w \in Visitors |->
                        IF w = v THEN Outside
                        ELSE IF visits[w].at = "outside" \/ visits[w].paper # i THEN visits[w]
                        ELSE [visits[w] EXCEPT !.stale = TRUE]]
        /\ UNCHANGED <<profiles, newKind, visitOps, visitCount, moved>>

\* createTask, createEvent, createLead, createProgram
create(v) ==
    LET x == visits[v] IN SaveAssignees(v, "create", newKind, x.me, Resolved(newKind, x.list))

\* updateTask, updateEvent, updateLead, updateProgram
update(v) ==
    LET x == visits[v]  d == papers[x.paper] IN
    SaveAssignees(v, "update", d.kind, d.creator, Resolved(d.kind, x.list))

\* selfAssignEvent, selfAssignLead and selfAssignProgram; a lead's other
\* assignees are resolved again.
selfAssign(v) ==
    LET x == visits[v]  d == papers[x.paper] IN
    SaveAssignees(v, "selfAssign", d.kind, d.creator, d.assignees \cup {x.me})

unassignEvent(v) ==
    LET x == visits[v]  d == papers[x.paper] IN
    SaveAssignees(v, "unassign", d.kind, d.creator, d.assignees \ x.list)

\* The account of a colleague is changed by an administrator.
ChangeAccount(q, profile) ==
    /\ "move" \in visitOps /\ moved = {} /\ profile # profiles[q]
    /\ profiles' = [profiles EXCEPT ![q] = profile]
    /\ moved' = {q}
    /\ UNCHANGED <<papers, visits, newKind, visitOps, visitCount, hands, taken, outrun>>

AccessNext ==
    \/ \E v \in Visitors :
          \/ \E op \in VisitOps, me \in Colleagues, i \in Papers, list \in SUBSET Colleagues :
                Arrive(v, op, me, i, list)
          \/ CheckAccess(v) \/ CheckRules(v) \/ Refuse(v)
          \/ create(v) \/ update(v) \/ selfAssign(v) \/ unassignEvent(v)
    \/ \E q \in Colleagues :
          \/ ChangeAccount(q, [profiles[q] EXCEPT !.active = FALSE])
          \/ \E d \in Departments : ChangeAccount(q, [profiles[q] EXCEPT !.lead = {}, !.member = {d}])
          \/ ChangeAccount(q, [profiles[q] EXCEPT !.duties = {}])

-----------------------------------------------------------------------------
\* Properties

\* The filter of a list and the check of a document are written apart,
\* "behavioral flags (matching requireResourceAccess)": what is in
\* somebody's list he may open, though he may open what he created, or his
\* subordinates did, without its being in his list.
ListsCanBeOpened ==
    \A me \in Colleagues, i \in Papers :
        /\ papers[i] # Unknown /\ papers[i].kind # "folder"
        /\ InList(profiles[me], me, papers[i])
        => Passes(profiles[me], me, papers[i], OpenFlags(papers[i].kind))

\* Whoever may do something else with a document may open it; folders one
\* may put in order one may update; accounts one sees, but for one's own,
\* one may change.
MoreNeedsLess ==
    \A me \in Colleagues :
        LET account == profiles[me] IN
        /\ \A i \in Papers : papers[i] # Unknown =>
             /\ Passes(account, me, papers[i], WorkFlags(papers[i].kind))
                  => Passes(account, me, papers[i], OpenFlags(papers[i].kind))
             /\ MayReorder(account, me, {papers[i]}) => Passes(account, me, papers[i], OpenFlags(papers[i].kind))
        /\ \A q \in UserList(account, me) \ {me} : MayChangeUser(account, me, q)

\* Work comes from oneself, from an administrator, from who leads one, or
\* from somebody with the same function; and except through unassign, only
\* they, and not the last, take it away.  Unless the document was saved by a
\* request that had checked an older one, or the account of one of the two
\* has changed.
IsOver(me, q) == isUserManagerial(profiles[me]) /\ q \in Subordinates(profiles[me], me)
Entitled(me, q) == q = me \/ isOwnerOrAdmin(profiles[me]) \/ IsOver(me, q)
WorkComesFromColleagues ==
    \A i \in Papers \ outrun : \A a \in hands[i] :
        \/ a[2] = Unknown \/ {a[1], a[2]} \cap moved # {} \/ Entitled(a[2], a[1])
        \/ /\ ByDuty(papers[i].kind) /\ ~isUserManagerial(profiles[a[2]])
           /\ SharesDuty(profiles[a[2]], a[1])
WorkIsTakenByColleagues ==
    "unassign" \notin visitOps =>
        \A t \in taken : t[1] \in outrun \/ {t[2], t[3]} \cap moved # {} \/ Entitled(t[3], t[2])

AccessIsConsistent ==
    ListsCanBeOpened /\ MoreNeedsLess /\ WorkComesFromColleagues /\ WorkIsTakenByColleagues
=============================================================================
