------------------------------ MODULE MCOffice ------------------------------
(***************************************************************************)
(* The office: tasks and their chains, the shared documents and their      *)
(* assignees, funnels and leads, the job board, the things documents refer *)
(* to, and who may do what with them.  They keep their documents in        *)
(* collections of their own, so each behaviour is about one of the parts,  *)
(* chosen by its start, and the others rest.                               *)
(***************************************************************************)
EXTENDS Integers, Sequences, FiniteSets, TLC

CONSTANTS TaskIds, Events, Leads, Templates, Workers, MaxTaskRequests, MaxSteps, Nil,
          SharedEvents, SharedLeads, People, Editors, LastStage, MaxEdits, Void,
          FunnelIds, LeadIds, Agents, MaxGroups, MaxFunnelRequests, Nobody,
          Rules, JobIds, Folders, Statuses, Clerks, Horizon, LastDay, MaxBoardRequests, Cleared,
          Deleters, Authors, LastGeneration, MaxReferenceRequests, Missing,
          Colleagues, Papers, Visitors, Departments, Teams, Duties, MaxVisits, Unknown,
          mia, sam, tom, i1, d1, d2, x1, x2,
          t1, t2, e1, l1, a, b, ev, ld, p, q, f1, f2, r1, j1, g1, g2, g3, s1, s2

VARIABLES part,
          tasks, subjects, chains, work, taskRequests, taskOps, wasClosed, byUpdate, cutOff, closers, late,
          links, mixed,
          docs, edits, lastEntry, docOps, editCount, assignedTo, noted, stageDue, crossed,
          funnels, groups, statuses, leads, leadTasks, config, agents, lastGroup, funnelOps, funnelRequests,
          damaged, overtaken, twins, asked, chainless, astray,
          rules, jobs, parent, statusOrder, day, up, cronDue, clerks, boardOps, boardRequests,
          disturbed, uncovered, misplaced, dropped,
          kind, target, generation, refs, hidden, deleters, authors, referenceRequests, outdated,
          profiles, papers, visits, newKind, visitOps, visitCount, hands, taken, outrun, moved

taskVars == <<tasks, subjects, chains, work, taskRequests, taskOps, wasClosed, byUpdate, cutOff, closers, late,
              links, mixed>>
docVars == <<docs, edits, lastEntry, docOps, editCount, assignedTo, noted, stageDue, crossed>>
funnelVars == <<funnels, groups, statuses, leads, leadTasks, config, agents, lastGroup, funnelOps, funnelRequests,
                damaged, overtaken, twins, asked, chainless, astray>>
boardVars == <<rules, jobs, parent, statusOrder, day, up, cronDue, clerks, boardOps, boardRequests,
               disturbed, uncovered, misplaced, dropped>>
referenceVars == <<kind, target, generation, refs, hidden, deleters, authors, referenceRequests, outdated>>
accessVars == <<profiles, papers, visits, newKind, visitOps, visitCount, hands, taken, outrun, moved>>

\* Where the components start; each has a start at which it rests.

T0 == INSTANCE Tasks WITH TaskStarts <- {}
NoChains == [c \in T0!Chains |-> T0!NoChain]
MCTaskStarts == {
    [tasks |-> (t1 :> T0!Task("active", <<e1>>) @@ t2 :> T0!NoTask),
     chains |-> [NoChains EXCEPT ![<<t1, a>>] = T0!NewChain, ![<<t1, b>>] = T0!NewChain],
     ops |-> T0!TaskOps \cup T0!ChainOps \cup {"fault"}],
    [tasks |-> (t1 :> T0!Task("active", <<e1>>) @@ t2 :> T0!NoTask),
     chains |-> [NoChains EXCEPT ![<<t1, a>>] = T0!NewChain, ![<<e1, a>>] = T0!NewChain],
     ops |-> T0!LinkOps \cup T0!DeleteOps \cup {"closeTask", "add", "fault"}],
    [tasks |-> (t1 :> T0!NoTask @@ t2 :> T0!NoTask), chains |-> NoChains, ops |-> {}] }

D0 == INSTANCE Assignments WITH DocStarts <- {}
MCDocStarts == {
    [docs |-> (ev :> D0!Doc(<<>>, <<1>>, 1) @@ ld :> D0!Doc(<<>>, <<2>>, 1)),
     ops |-> D0!EditOps \ {"create", "unassign", "assign"}],
    [docs |-> (ev :> D0!NoDoc @@ ld :> D0!Doc(<<p>>, <<>>, 2)),
     ops |-> {"create", "selfAssign", "unassign", "assign"}],
    [docs |-> (ev :> D0!NoDoc @@ ld :> D0!NoDoc), ops |-> {}] }

F0 == INSTANCE Funnels WITH FunnelStarts <- {}
NoLeads == [l \in LeadIds |-> F0!NoLead]
MCFunnelStarts == {
    [funnels |-> (f1 :> F0!Funnel(1, TRUE) @@ f2 :> F0!NoFunnel), leads |-> NoLeads, config |-> Nobody,
     ops |-> F0!FunnelOps \cup {"createLead", "stop"}],
    [funnels |-> (f1 :> F0!Funnel(1, TRUE) @@ f2 :> F0!NoFunnel), leads |-> NoLeads,
     config |-> F0!Config(f1, 1, TRUE, FALSE),
     ops |-> {"trigger", "regroup", "createLead", "archiveLead", "unarchiveLead", "configure", "unconfigure"}],
    [funnels |-> (f1 :> F0!Funnel(1, FALSE) @@ f2 :> F0!NoFunnel),
     leads |-> [NoLeads EXCEPT ![l1] = F0!Lead(f1, Nobody, FALSE)], config |-> F0!Config(f1, 1, TRUE, FALSE),
     ops |-> {"trigger", "deleteLead", "regroup", "deleteFunnel", "moveLead", "archiveLead"}],
    [funnels |-> (f1 :> F0!NoFunnel @@ f2 :> F0!NoFunnel), leads |-> NoLeads, config |-> Nobody, ops |-> {}] }

B0 == INSTANCE JobBoard WITH BoardStarts <- {}
NoJobs == [j \in JobIds |-> B0!NoJob]
Flat == g1 :> Cleared @@ g2 :> g1 @@ g3 :> "none"
Free == g1 :> Cleared @@ g2 :> Cleared @@ g3 :> "none"
MCBoardStarts == {
    [rules |-> (r1 :> B0!Rule(FALSE, B0!BoardDays)), jobs |-> NoJobs, parent |-> Free, statuses |-> <<s1>>,
     ops |-> B0!RuleOps \cup B0!TimeOps],
    [rules |-> (r1 :> B0!NoRule), jobs |-> NoJobs, parent |-> Free, statuses |-> <<s1, s2>>,
     ops |-> {"saveRule", "edit", "deleteJob", "midnight", "fault"}],
    [rules |-> (r1 :> B0!NoRule), jobs |-> NoJobs, parent |-> Free, statuses |-> <<s1>>,
     ops |-> {"saveRule", "deleteStatus"}],
    [rules |-> (r1 :> B0!NoRule), jobs |-> [NoJobs EXCEPT ![j1] = B0!Job(Cleared, 0, s1, g2)], parent |-> Flat,
     statuses |-> <<s1, s2>>, ops |-> B0!JobOps \cup B0!PlaceOps],
    [rules |-> (r1 :> B0!NoRule), jobs |-> NoJobs, parent |-> Free, statuses |-> <<>>, ops |-> {}] }

R0 == INSTANCE References WITH ReferenceStarts <- {}, overtaken <- outdated
MCReferenceStarts == R0!AllKinds \cup {R0!AtRest}

A0 == INSTANCE AccessRules WITH AccessStarts <- {}
Accounts(roles) ==
    {account \in {A0!Profile(role, lead, member, {x1}) : <<role, lead, member>> \in
                    roles \X {{}, {d1}, {g1}} \X {{}, {d1}, {d2}, {d1, g1}}} :
        account.lead \cap account.member = {} /\ A0!InDepartment(account)}
Manager == A0!Profile("MANAGER", {}, {d1}, {x1})
Leader == A0!Profile("STAFF", {d1}, {}, {x1})
Member == A0!Profile("STAFF", {}, {d1}, {x1, x2})
\* Every pair of accounts for what may be seen and opened; a manager, somebody
\* in his department and a colleague; a leader, a member and an administrator.
MCAccessStarts ==
    {[profiles |-> (mia :> account @@ sam :> other @@ tom :> A0!Profile("STAFF", {}, {d1}, {x2})),
      papers |-> (i1 :> A0!Paper(sort, creator, people)), newKind |-> "task", ops |-> {}] :
        <<account, other, sort, creator, people>> \in
            Accounts({"MANAGER", "STAFF"}) \X Accounts({"STAFF"}) \X {"task", "event", "folder"}
            \X {mia, tom, Unknown} \X {{}, {sam}, {tom}}}
    \cup
    {[profiles |-> (mia :> Manager @@ sam :> Member @@ tom :> A0!Profile("STAFF", {}, {d2}, {x2})),
      papers |-> (i1 :> A0!Paper(about[1], sam, {sam})), newKind |-> "task",
      ops |-> {"update", "selfAssign"} \cup about[2]] :
        about \in {<<"event", {"unassign"}>>, <<"task", {}>>, <<"program", {}>>,
                    <<"lead", {"move"}>>, <<"event", {"move"}>>}}
    \cup
    {[profiles |-> (mia :> Leader @@ sam :> Member @@ tom :> A0!Profile("ADMIN", {}, {}, {})),
      papers |-> (i1 :> Unknown), newKind |-> sort, ops |-> {"create", "update", "selfAssign"}] :
        sort \in {"task", "program"}}
    \cup
    {[profiles |-> (mia :> Leader @@ sam :> Member @@ tom :> Member),
      papers |-> (i1 :> Unknown), newKind |-> Unknown, ops |-> {}]}

T == INSTANCE Tasks WITH TaskStarts <- MCTaskStarts
D == INSTANCE Assignments WITH DocStarts <- MCDocStarts
F == INSTANCE Funnels WITH FunnelStarts <- MCFunnelStarts
B == INSTANCE JobBoard WITH BoardStarts <- MCBoardStarts
A == INSTANCE AccessRules WITH AccessStarts <- MCAccessStarts
R == INSTANCE References WITH ReferenceStarts <- MCReferenceStarts, overtaken <- outdated

Init ==
    /\ part \in {"tasks", "docs", "funnels", "board", "references", "access"}
    /\ T!TasksInit /\ (part = "tasks") = (taskOps # {})
    /\ D!DocsInit /\ (part = "docs") = (docOps # {})
    /\ F!FunnelsInit /\ (part = "funnels") = (funnelOps # {})
    /\ B!BoardInit /\ (part = "board") = (boardOps # {})
    /\ R!ReferencesInit /\ (part = "references") = (kind # R!AtRest)
    /\ part = "references" \/ \A d \in R!Docs : refs[d] = Missing
    /\ A!AccessInit /\ (part = "access") = (newKind # Unknown)

Next ==
    \/ part = "tasks" /\ T!TasksNext /\ UNCHANGED <<part, docVars, funnelVars, boardVars, referenceVars, accessVars>>
    \/ part = "docs" /\ D!DocsNext /\ UNCHANGED <<part, taskVars, funnelVars, boardVars, referenceVars, accessVars>>
    \/ part = "funnels" /\ F!FunnelsNext /\ UNCHANGED <<part, taskVars, docVars, boardVars, referenceVars, accessVars>>
    \/ part = "board" /\ B!BoardNext /\ UNCHANGED <<part, taskVars, docVars, funnelVars, referenceVars, accessVars>>
    \/ part = "references" /\ R!ReferencesNext /\ UNCHANGED <<part, taskVars, docVars, funnelVars, boardVars, accessVars>>
    \/ part = "access" /\ A!AccessNext /\ UNCHANGED <<part, taskVars, docVars, funnelVars, boardVars, referenceVars>>

Spec == Init /\ [][Next]_<<part, taskVars, docVars, funnelVars, boardVars, referenceVars, accessVars>>

\* The properties of the six, stated and explained in their modules.

\* A closed task's chains rest and stay closed, deletions take everything
\* along, and links are only lost for a known reason (Tasks).
TasksStayConsistent == part = "tasks" => T!TasksStayConsistent
\* Assignees, time lines and stages follow from the edits made (Assignments).
EditsAreExplained == part = "docs" => D!EditsAreExplained
\* Nothing refers to what is deleted, unless the deletion was overtaken (References).
ReferencesResolve == part = "references" => R!ReferencesResolve
\* Lists agree with the access to documents, and work comes from and is taken
\* by whom the rules name, unless they looked at an old document (AccessRules).
AccessIsConsistent == part = "access" => A!AccessIsConsistent

Symmetry == Permutations(Workers)
=============================================================================
