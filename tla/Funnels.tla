------------------------------- MODULE Funnels -------------------------------
(***************************************************************************)
(* Sales funnels and the leads in them: modules/lead/funnel,               *)
(* modules/lead/leadConfig, the creation of leads (modules/lead/lead) and  *)
(* the integrations that create or update a lead when something happens    *)
(* elsewhere (modules/system/integrationConfig).                           *)
(*                                                                         *)
(* A funnel has a copy of a template group of statuses; choosing another   *)
(* group, or deleting the funnel, is refused once it has leads, and moves  *)
(* through several documents.  An integration looks for the customer's     *)
(* lead in its funnel and creates one if there is none; tasks come with    *)
(* the lead, from the funnel or from the integration.  All leads here are  *)
(* of one customer.  Left out: leads without a funnel, folders and groups  *)
(* of funnels, names, and the cache of lists.                              *)
(***************************************************************************)
EXTENDS Integers, Sequences, FiniteSets, SequencesExt

CONSTANTS
    FunnelIds, LeadIds, Agents,
    MaxGroups,              \* bound: groups copied for funnels
    FunnelStarts,           \* bound: [funnels, leads, config, ops] to begin with
    MaxFunnelRequests,      \* bound: requests
    Nobody

Template == 0
GroupIds == 0 .. MaxGroups
StatusesOf(g) == {<<g, 1>>, <<g, 2>>}
FunnelOps == {"createFunnel", "regroup", "reorder", "deleteFunnel", "deleteGroup", "deleteStatus"}

VARIABLES
    funnels,    \* funnel -> [state, group, auto: leads get a task]
    groups,     \* group -> the order of its statuses, or Nobody
    statuses,   \* the statuses there are
    leads,      \* lead -> [state, funnel, status, archived, made: by an integration]
    leadTasks,  \* lead -> number of tasks made for it
    config,     \* what the integration does, or Nobody
    agents,     \* request in progress
    lastGroup, funnelOps, funnelRequests,
    damaged,    \* funnels that lost statuses to an administrator or a crash (history)
    overtaken,  \* leads put in a funnel that was changed meanwhile (history)
    twins,      \* funnels with overlapping triggers, or leads moved or brought
                \* back into them (history)
    asked,      \* lead -> number of requests that asked for a task (history)
    chainless,  \* leads whose funnel's chains could not be added (history)
    astray      \* leads last given a funnel without a status, or a status that
                \* is not of the funnel (history)

funnelStore == <<funnels, groups, statuses, leads, leadTasks, config>>
funnelHistory == <<damaged, overtaken, twins, asked, chainless, astray>>
funnelVars == <<funnelStore, agents, lastGroup, funnelOps, funnelRequests, funnelHistory>>
Bounds == <<lastGroup, funnelOps, funnelRequests>>

-----------------------------------------------------------------------------

Funnel(group, auto) == [state |-> "live", group |-> group, auto |-> auto]
NoFunnel == [Funnel(0, FALSE) EXCEPT !.state = "none"]
Lead(f, status, made) ==
    [state |-> "live", funnel |-> f, status |-> status, archived |-> FALSE, made |-> made]
NoLead == [Lead(Nobody, Nobody, FALSE) EXCEPT !.state = "none"]
Config(f, g, task, always) ==
    [funnel |-> f, group |-> g, task |-> task, always |-> always]

IsLive(f) == funnels[f].state = "live"
LeadsIn(f) == {l \in LeadIds : leads[l].state = "live" /\ leads[l].funnel = f}

Off == [at |-> "idle", funnel |-> Nobody, lead |-> Nobody, group |-> 0, copy |-> 0,
        status |-> Nobody, fits |-> TRUE, config |-> Nobody, auto |-> FALSE, asked |-> FALSE]
Goto(a, at) == agents' = [agents EXCEPT ![a].at = at]
Done(a) == agents' = [agents EXCEPT ![a] = Off]

FunnelsInit ==
    \E start \in FunnelStarts :
        /\ funnels = start.funnels /\ leads = start.leads
        /\ config = start.config /\ funnelOps = start.ops
        /\ groups = [g \in GroupIds |-> IF g <= 1 THEN <<<<g, 1>>, <<g, 2>>>> ELSE Nobody]
        /\ statuses = StatusesOf(0) \cup StatusesOf(1)
        /\ agents = [a \in Agents |-> Off]
        /\ lastGroup = 1 /\ funnelRequests = 0
        /\ damaged = {} /\ overtaken = {} /\ twins = {} /\ chainless = {} /\ astray = {}
        /\ leadTasks = [l \in LeadIds |-> 0] /\ asked = [l \in LeadIds |-> 0]

Request(op) ==
    /\ op \in funnelOps /\ funnelRequests < MaxFunnelRequests
    /\ funnelRequests' = funnelRequests + 1
Begin(a, op, job) ==
    /\ Request(op) /\ agents[a] = Off
    /\ agents' = [agents EXCEPT ![a] = job]
    /\ UNCHANGED <<funnelStore, lastGroup, funnelOps, funnelHistory>>

-----------------------------------------------------------------------------
\* Funnels and their groups of statuses

CreateFunnel(a, f) ==
    /\ ~IsLive(f) /\ funnels[f].state = "none" /\ groups[Template] # Nobody
    /\ \A b \in Agents : agents[b].funnel # f
    /\ Begin(a, "createFunnel", [Off EXCEPT !.at = "newStatuses", !.funnel = f])

Regroup(a, f) ==
    /\ IsLive(f) /\ groups[Template] # Nobody /\ LeadsIn(f) = {}
    /\ Begin(a, "regroup", [Off EXCEPT !.at = "newStatuses", !.funnel = f, !.copy = funnels[f].group])

\* _cloneStatusGroupForFunnel: the statuses, then the group.
CloneStatuses(a) ==
    /\ agents[a].at = "newStatuses" /\ lastGroup < MaxGroups
    /\ lastGroup' = lastGroup + 1
    /\ statuses' = statuses \cup StatusesOf(lastGroup + 1)
    /\ agents' = [agents EXCEPT ![a].at = "newGroup", ![a].group = lastGroup + 1]
    /\ UNCHANGED <<funnels, groups, leads, leadTasks, config, funnelOps, funnelRequests, funnelHistory>>

CloneGroup(a) ==
    LET g == agents[a].group IN
    /\ agents[a].at = "newGroup"
    /\ groups' = [groups EXCEPT ![g] = <<<<g, 1>>, <<g, 2>>>>]
    /\ Goto(a, IF agents[a].copy = 0 THEN "saveFunnel" ELSE "dropGroup")
    /\ UNCHANGED <<funnels, statuses, leads, leadTasks, config, Bounds, funnelHistory>>

\* _deleteClonedStatusGroup: the group, then its statuses; a template stays.
DropGroup(a) ==
    LET g == agents[a].copy  after == IF agents[a].group = 0 THEN Off ELSE [agents[a] EXCEPT !.at = "saveFunnel"] IN
    /\ agents[a].at = "dropGroup"
    /\ IF g # Template /\ groups[g] # Nobody
       THEN /\ groups' = [groups EXCEPT ![g] = Nobody]
            /\ Goto(a, "dropStatuses")
       ELSE UNCHANGED groups /\ agents' = [agents EXCEPT ![a] = after]
    /\ UNCHANGED <<funnels, statuses, leads, leadTasks, config, Bounds, funnelHistory>>

DropStatuses(a) ==
    /\ agents[a].at = "dropStatuses"
    /\ statuses' = statuses \ StatusesOf(agents[a].copy)
    /\ IF agents[a].group = 0 THEN Done(a) ELSE Goto(a, "saveFunnel")
    /\ UNCHANGED <<funnels, groups, leads, leadTasks, config, Bounds, funnelHistory>>

\* A funnel deleted meanwhile is not saved.
SaveFunnel(a) ==
    LET f == agents[a].funnel IN
    /\ agents[a].at = "saveFunnel"
    /\ funnels' = IF funnels[f].state = "deleted" THEN funnels
                  ELSE [funnels EXCEPT ![f].state = "live", ![f].group = agents[a].group]
    /\ Done(a)
    /\ UNCHANGED <<groups, statuses, leads, leadTasks, config, Bounds, funnelHistory>>

\* updateFunnel with customStatusOrder: of the copy's group.
Reorder(a, f) ==
    LET g == funnels[f].group IN
    /\ IsLive(f) /\ g # Template /\ groups[g] # Nobody
    /\ Begin(a, "reorder", [Off EXCEPT !.at = "saveOrder", !.funnel = f, !.copy = g])

SaveOrder(a) ==
    LET g == agents[a].copy IN
    /\ agents[a].at = "saveOrder"
    /\ groups' = IF groups[g] = Nobody THEN groups ELSE [groups EXCEPT ![g] = Reverse(@)]
    /\ Done(a)
    /\ UNCHANGED <<funnels, statuses, leads, leadTasks, config, Bounds, funnelHistory>>

DeleteFunnel(a, f) ==
    /\ IsLive(f) /\ LeadsIn(f) = {}
    /\ Begin(a, "deleteFunnel", [Off EXCEPT !.at = "removeFunnel", !.funnel = f])

RemoveFunnel(a) ==
    LET f == agents[a].funnel IN
    /\ agents[a].at = "removeFunnel"
    /\ IF IsLive(f)
       THEN /\ funnels' = [funnels EXCEPT ![f].state = "deleted"]
            /\ agents' = [agents EXCEPT ![a].at = "dropGroup", ![a].copy = funnels[f].group]
       ELSE UNCHANGED funnels /\ Done(a)
    /\ UNCHANGED <<groups, statuses, leads, leadTasks, config, Bounds, funnelHistory>>

\* leadConfig.deleteGroup deletes any group; deleteStatus one that no group has.
DeleteGroup(g) ==
    /\ Request("deleteGroup") /\ groups[g] # Nobody
    /\ groups' = [groups EXCEPT ![g] = Nobody]
    /\ damaged' = damaged \cup {f \in FunnelIds : funnels[f].group = g \/ \E a \in Agents :
                                    agents[a].funnel = f /\ agents[a].group = g}
    /\ UNCHANGED <<funnels, statuses, leads, leadTasks, config, agents, lastGroup, funnelOps,
                   overtaken, twins, asked, chainless, astray>>

DeleteStatus(a, s) ==
    /\ s \in statuses /\ \A g \in GroupIds : groups[g] # Nobody => s \notin ToSet(groups[g])
    /\ Begin(a, "deleteStatus", [Off EXCEPT !.at = "removeStatus", !.status = s])

RemoveStatus(a) ==
    LET s == agents[a].status IN
    /\ agents[a].at = "removeStatus"
    /\ statuses' = statuses \ {s}
    /\ damaged' = damaged \cup {f \in FunnelIds : funnels[f].group = s[1] \/ \E b \in Agents :
                                    agents[b].funnel = f /\ agents[b].group = s[1]}
    /\ Done(a)
    /\ UNCHANGED <<funnels, groups, leads, leadTasks, config, Bounds, overtaken, twins, asked, chainless, astray>>

-----------------------------------------------------------------------------
\* Leads

\* Where a lead is put, a status of group g was chosen: is it too late?
TooLate(f, g) ==
    \/ ~IsLive(f) \/ funnels[f].group # g
    \/ \E a \in Agents : agents[a].funnel = f /\
          \/ agents[a].at = "removeFunnel"
          \/ agents[a].copy # 0 /\ agents[a].at \in
                {"newStatuses", "newGroup", "dropGroup", "dropStatuses", "saveFunnel"}

PutLead(l, lead, g) ==
    /\ leads' = [leads EXCEPT ![l] = lead]
    /\ overtaken' = IF TooLate(lead.funnel, g) THEN overtaken \cup {l} ELSE overtaken \ {l}

\* What a request may name as the status: one of the group, one of another, none.
Namable(g) == StatusesOf(g) \cup {<<Template, 1>>, Nobody}

\* createLead looks whether the funnel exists; its status is not checked.
CreateLead(a, l, f, s) ==
    /\ leads[l].state = "none" /\ \A b \in Agents : agents[b].lead # l
    /\ IsLive(f) /\ s \in Namable(funnels[f].group)
    /\ Begin(a, "createLead", [Off EXCEPT !.at = "insertLead", !.lead = l, !.funnel = f,
                !.group = funnels[f].group, !.auto = funnels[f].auto, !.status = s,
                !.fits = s \in StatusesOf(funnels[f].group) \cup {Nobody}])

InsertLead(a) ==
    LET x == agents[a]  l == x.lead IN
    /\ x.at = "insertLead"
    /\ PutLead(l, Lead(x.funnel, x.status, x.config # Nobody), x.group)
    /\ astray' = IF x.fits THEN astray ELSE astray \cup {l}
    /\ agents' = [agents EXCEPT ![a] = IF x.auto THEN [x EXCEPT !.at = "autoTask"]
                                        ELSE IF x.config = Nobody THEN Off
                                        ELSE [x EXCEPT !.at = "ownTask"]]
    /\ UNCHANGED <<funnels, groups, statuses, leadTasks, config, Bounds, damaged, twins, asked, chainless>>

\* A task of the lead, asked for once per request.
NewTask(a) ==
    LET l == agents[a].lead IN
    /\ leadTasks' = [leadTasks EXCEPT ![l] = @ + 1]
    /\ asked' = IF agents[a].asked THEN asked ELSE [asked EXCEPT ![l] = @ + 1]

\* The funnel's task: its chains are added one by one, and if one cannot be
\* added, createLead forgets the task (_autoTask stays unset).
AutoTask(a) ==
    LET x == agents[a] IN
    /\ x.at = "autoTask" /\ NewTask(a)
    /\ \E added \in BOOLEAN :
          /\ agents' = [agents EXCEPT ![a] =
                IF x.config = Nobody THEN Off
                ELSE [x EXCEPT !.at = "ownTask", !.auto = added, !.asked = TRUE]]
          /\ chainless' = IF added THEN chainless ELSE chainless \cup {x.lead}
    /\ UNCHANGED <<funnels, groups, statuses, leads, config, Bounds, damaged, overtaken, twins, astray>>

\* updateLead with a funnel, a status, or both (Nobody: not named): nothing
\* is checked.  It fits when it names a status of the funnel, which lives.
MoveLead(a, l, f, s) ==
    LET to == IF f = Nobody THEN leads[l].funnel ELSE f  g == funnels[to].group IN
    /\ leads[l].state = "live"
    /\ s \in Namable(g) /\ (f # Nobody \/ s # Nobody)
    /\ Begin(a, "moveLead", [Off EXCEPT !.at = "saveMove", !.lead = l, !.funnel = f, !.group = g,
                                         !.status = s, !.fits = IsLive(to) /\ s \in StatusesOf(g)])

SaveMove(a) ==
    LET x == agents[a]
        lead == [leads[x.lead] EXCEPT !.funnel = IF x.funnel = Nobody THEN @ ELSE x.funnel,
                                      !.status = IF x.status = Nobody THEN @ ELSE x.status] IN
    /\ x.at = "saveMove"
    /\ PutLead(x.lead, lead, x.group)
    /\ astray' = IF x.fits THEN astray \ {x.lead} ELSE astray \cup {x.lead}
    /\ twins' = twins \cup {lead.funnel} /\ Done(a)
    /\ UNCHANGED <<funnels, groups, statuses, leadTasks, config, Bounds, damaged, asked, chainless>>

DeleteLead(l) ==
    /\ Request("deleteLead") /\ leads[l].state = "live"
    /\ leads' = [leads EXCEPT ![l].state = "deleted"]
    /\ UNCHANGED <<funnels, groups, statuses, leadTasks, config, agents, lastGroup, funnelOps, funnelHistory>>

\* archiveLead: at the last status of the group its funnel has.
ArchiveLead(a, l) ==
    LET f == leads[l].funnel  g == funnels[f].group IN
    /\ leads[l].state = "live" /\ IsLive(f) /\ groups[g] # Nobody
    /\ leads[l].status = Last(groups[g])
    /\ Begin(a, "archiveLead", [Off EXCEPT !.at = "archive", !.lead = l])
UnarchiveLead(a, l) ==
    /\ leads[l].state = "live"
    /\ Begin(a, "unarchiveLead", [Off EXCEPT !.at = "unarchive", !.lead = l])

SaveArchived(a) ==
    LET l == agents[a].lead IN
    /\ agents[a].at \in {"archive", "unarchive"}
    /\ leads' = [leads EXCEPT ![l].archived = agents[a].at = "archive"]
    /\ twins' = IF agents[a].at = "unarchive" THEN twins \cup {leads[l].funnel} ELSE twins
    /\ Done(a)
    /\ UNCHANGED <<funnels, groups, statuses, leadTasks, config, Bounds, damaged, overtaken, asked, chainless, astray>>

-----------------------------------------------------------------------------
\* Integrations

\* createConfig, updateConfig: a status of the funnel's group is configured;
\* the unique index admits one per source and type.
Configure(f, task, always) ==
    /\ Request("configure") /\ IsLive(f)
    /\ config' = Config(f, funnels[f].group, task, always)
    /\ UNCHANGED <<funnels, groups, statuses, leads, leadTasks, agents, lastGroup, funnelOps, funnelHistory>>

\* deleteConfig, or its status made inactive.
Unconfigure ==
    /\ Request("unconfigure") /\ config # Nobody
    /\ config' = Nobody
    /\ UNCHANGED <<funnels, groups, statuses, leads, leadTasks, agents, lastGroup, funnelOps, funnelHistory>>

\* executeActions: nothing without a configuration.
Trigger(a) ==
    /\ config # Nobody
    /\ Request("trigger") /\ agents[a] = Off
    /\ agents' = [agents EXCEPT ![a] = [Off EXCEPT !.at = "findLead", !.config = config,
                                                    !.funnel = config.funnel]]
    /\ twins' = IF config.always \/ \E b \in Agents : agents[b].config # Nobody
                THEN twins \cup {config.funnel} ELSE twins
    /\ UNCHANGED <<funnelStore, lastGroup, funnelOps, damaged, overtaken, asked, chainless, astray>>

FoundLeads(f) == {l \in LeadsIn(f) : ~leads[l].archived}

\* The customer's lead in the funnel, or a new one; the funnel is looked for
\* by createLead, which fails without it.
FindLead(a) ==
    LET x == agents[a]  c == x.config  f == c.funnel IN
    /\ x.at = "findLead"
    /\ IF ~c.always /\ FoundLeads(f) # {}
       THEN \E l \in FoundLeads(f) :
              agents' = [agents EXCEPT ![a].at = "saveLead", ![a].lead = l, ![a].status = leads[l].status]
       ELSE IF ~IsLive(f) THEN Done(a)
       ELSE \E l \in {l \in LeadIds : leads[l].state = "none" /\ \A b \in Agents : agents[b].lead # l} :
              agents' = [agents EXCEPT ![a].at = "insertLead", ![a].lead = l, ![a].group = c.group,
                                       ![a].status = <<c.group, 1>>, ![a].auto = funnels[f].auto]
    /\ UNCHANGED <<funnelStore, Bounds, funnelHistory>>

\* A lead that has no status yet gets the configured one.
SaveLead(a) ==
    LET x == agents[a] IN
    /\ x.at = "saveLead"
    /\ IF x.status = Nobody
       THEN PutLead(x.lead, [leads[x.lead] EXCEPT !.status = <<x.config.group, 1>>], x.config.group)
       ELSE UNCHANGED <<leads, overtaken>>
    /\ Goto(a, "ownTask")
    /\ UNCHANGED <<funnels, groups, statuses, leadTasks, config, Bounds, damaged, twins, asked, chainless, astray>>

\* createTask: the funnel's task gets the chains too, or there is a new one.
OwnTask(a) ==
    /\ agents[a].at = "ownTask"
    /\ IF agents[a].config.task /\ ~agents[a].auto THEN NewTask(a) ELSE UNCHANGED <<leadTasks, asked>>
    /\ Done(a)
    /\ UNCHANGED <<funnels, groups, statuses, leads, config, Bounds, damaged, overtaken, twins, chainless, astray>>

\* The server stops: a funnel may be left with a group that was deleted.
StopServer ==
    /\ "stop" \in funnelOps
    /\ agents' = [a \in Agents |-> Off]
    /\ damaged' = damaged \cup {agents[a].funnel : a \in Agents}
    /\ funnelOps' = funnelOps \ {"stop"}
    /\ UNCHANGED <<funnelStore, lastGroup, funnelRequests, overtaken, twins, asked, chainless, astray>>

Named == (GroupIds \X (1 .. 2)) \cup {Nobody}

FunnelsNext ==
    \/ StopServer \/ Unconfigure
    \/ \E f \in FunnelIds, task, always \in BOOLEAN : Configure(f, task, always)
    \/ \E g \in GroupIds : DeleteGroup(g)
    \/ \E l \in LeadIds : DeleteLead(l)
    \/ \E a \in Agents :
          \/ \E f \in FunnelIds :
                \/ CreateFunnel(a, f) \/ Regroup(a, f) \/ Reorder(a, f) \/ DeleteFunnel(a, f)
                \/ \E l \in LeadIds, s \in Named : CreateLead(a, l, f, s)
          \/ \E l \in LeadIds, f \in FunnelIds \cup {Nobody}, s \in Named : MoveLead(a, l, f, s)
          \/ \E l \in LeadIds : ArchiveLead(a, l) \/ UnarchiveLead(a, l)
          \/ \E s \in statuses : DeleteStatus(a, s)
          \/ CloneStatuses(a) \/ CloneGroup(a) \/ DropGroup(a) \/ DropStatuses(a) \/ SaveFunnel(a)
          \/ SaveOrder(a) \/ RemoveFunnel(a) \/ RemoveStatus(a) \/ InsertLead(a) \/ AutoTask(a)
          \/ SaveMove(a) \/ SaveArchived(a) \/ Trigger(a) \/ FindLead(a) \/ SaveLead(a) \/ OwnTask(a)

-----------------------------------------------------------------------------
\* Properties

Regrouping(f) ==
    \E a \in Agents : agents[a].funnel = f /\ agents[a].at \in {"dropStatuses", "saveFunnel"}

\* A funnel has its group, with all statuses, whatever updates and deletions
\* overlap, unless an administrator deleted one of them or a crash came
\* between the deletion of the old group and the saving of the funnel.
FunnelsAreWhole ==
    \A f \in FunnelIds \ damaged :
        IsLive(f) /\ funnels[f].group # 0 /\ ~Regrouping(f) =>
            /\ groups[funnels[f].group] # Nobody
            /\ ToSet(groups[funnels[f].group]) \subseteq statuses

\* "This funnel has customers": a lead is in a funnel that exists, at a
\* status of its group, unless the funnel was changed after the choice, or the
\* request that put it there named a funnel without a status or two that do
\* not belong together, which nothing refuses.
LeadsHaveTheirStatus ==
    \A l \in LeadIds \ (overtaken \cup astray) :
        LET f == leads[l].funnel IN
        leads[l].state = "live" =>
            IsLive(f) /\ (leads[l].status # Nobody => leads[l].status \in StatusesOf(funnels[f].group))

\* Smart upsert: integrations leave one active lead of a customer in a
\* funnel, unless they overlap or somebody moved or reopened a lead.
OneLeadPerFunnel ==
    \A f \in FunnelIds \ twins :
        Cardinality({l \in LeadsIn(f) : leads[l].made /\ ~leads[l].archived}) <= 1

\* "Avoid creating two tasks" (integrationConfig): a lead gets one task per
\* request that asks for one, unless the funnel's chains could not be added.
OneTaskPerRequest == \A l \in LeadIds \ chainless : leadTasks[l] <= asked[l]

=============================================================================
