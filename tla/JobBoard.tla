------------------------------- MODULE JobBoard -------------------------------
(***************************************************************************)
(* The job board: folders and jobs (modules/job/jobWork), the statuses and *)
(* repeat rules they refer to (modules/job/jobConfig), and the jobs made   *)
(* from the rules (jobRecurringTask.service, core/utils/cron.js).          *)
(*                                                                         *)
(* Saving a rule deletes its coming jobs that nobody touched and makes     *)
(* those of the next Horizon days; every midnight, and when the server     *)
(* starts, the jobs of the day Horizon days ahead are made.  Jobs are made *)
(* on the days that have none: a search and an insertion, with no index    *)
(* behind them.  When making them fails the console says so, and the       *)
(* request or the daily run goes on; once in a behaviour a call fails or   *)
(* the server stops.  Left out: names, assignees, checklists, the order of *)
(* folders and statuses, types and channels, and rescheduling a job.       *)
(***************************************************************************)
EXTENDS Integers, Sequences, FiniteSets, SequencesExt, FiniteSetsExt

CONSTANTS
    Rules, JobIds, Folders, Statuses, Clerks,
    Horizon,                \* days ahead that have jobs (30 in the code)
    LastDay,                \* bound: days that pass
    BoardStarts,            \* bound: [rules, jobs, parent, statuses, ops] to begin with
    MaxBoardRequests,       \* bound: requests
    Cleared                 \* null

BoardDays == 0 .. (LastDay + Horizon)
RuleOps == {"saveRule", "deleteRule"}
JobOps == {"edit", "deleteJob", "createJob"}
PlaceOps == {"createFolder", "moveFolder", "deleteFolder", "deleteStatus"}
TimeOps == {"midnight", "fault"}

VARIABLES
    rules,      \* rule -> [state, active, days]
    jobs,       \* job -> [state, rule, day, status, folder, touched]
    parent,     \* folder -> its parent, Cleared at the top, "none" if there is no such folder
    statusOrder,\* the statuses, the default one first
    day, up, cronDue,
    clerks,     \* requests and cron runs in progress
    boardOps, boardRequests,
    disturbed,  \* rules that two runs worked on at once, or a fault stopped one (history)
    uncovered,  \* <<rule, day>> without a job for a known reason (history)
    misplaced,  \* jobs and folders put at what was not there or being deleted (history)
    dropped     \* touched jobs that a request deleted (history)

boardStore == <<rules, jobs, parent, statusOrder>>
clockVars == <<day, up, cronDue>>
boardHistory == <<disturbed, uncovered, misplaced, dropped>>
boardVars == <<boardStore, clockVars, clerks, boardOps, boardRequests, boardHistory>>

-----------------------------------------------------------------------------

Rule(active, days) == [state |-> "live", active |-> active, days |-> days]
NoRule == [Rule(FALSE, {}) EXCEPT !.state = "none"]
Job(r, d, s, f) == [state |-> "live", rule |-> r, day |-> d, status |-> s, folder |-> f, touched |-> FALSE]
NoJob == [Job(Cleared, 0, Cleared, Cleared) EXCEPT !.state = "none"]
LiveJobs == {j \in JobIds : jobs[j].state = "live"}
Unused == {j \in JobIds : jobs[j].state = "none"}
DefaultStatus == IF statusOrder = <<>> THEN Cleared ELSE Head(statusOrder)
Exists(f) == parent[f] # "none"
Kept == "kept"      \* a field a request does not name

AtRest == [at |-> "idle", rule |-> Cleared, copy |-> NoRule, days |-> {}, target |-> 0, todo |-> <<>>, copies |-> <<>>,
           status |-> Cleared, job |-> Cleared, folder |-> Cleared, places |-> {}]
Goto(c, at) == clerks' = [clerks EXCEPT ![c].at = at]
Done(c) == clerks' = [clerks EXCEPT ![c] = AtRest]

BoardInit ==
    \E start \in BoardStarts :
        /\ rules = start.rules /\ jobs = start.jobs /\ parent = start.parent
        /\ boardOps = start.ops /\ statusOrder = start.statuses
        /\ day = 0 /\ up = TRUE /\ cronDue = FALSE
        /\ clerks = [c \in Clerks |-> AtRest] /\ boardRequests = 0
        /\ disturbed = {} /\ uncovered = {} /\ misplaced = {} /\ dropped = {}

Request(op) ==
    /\ up /\ op \in boardOps /\ boardRequests < MaxBoardRequests
    /\ boardRequests' = boardRequests + 1

\* Runs that may still write jobs of rule r, or delete them.
WorksOn(c, r) == clerks[c].rule = r \/ r \in ToSet(clerks[c].todo)
Collide(rs, c) == disturbed \cup {r \in rs : \E b \in Clerks \ {c} : WorksOn(b, r)}

-----------------------------------------------------------------------------
\* Repeat rules and their jobs

\* createRepeatRule, updateRepeatRule: the rule is read, its channels and
\* folder are looked up, and it is saved.
ReadRule(c, r, active, days) ==
    /\ clerks[c] = AtRest /\ rules[r].state # "deleted"
    /\ Request("saveRule")
    /\ clerks' = [clerks EXCEPT ![c] = [AtRest EXCEPT !.at = "saveRule", !.rule = r,
                                                       !.copy = Rule(active, days)]]
    /\ disturbed' = Collide({r}, c)
    /\ UNCHANGED <<boardStore, clockVars, boardOps, uncovered, misplaced, dropped>>

\* A rule deleted meanwhile is not saved.
SaveRule(c) ==
    LET r == clerks[c].rule IN
    /\ clerks[c].at = "saveRule"
    /\ IF rules[r].state = "deleted" THEN UNCHANGED rules /\ Done(c)
       ELSE rules' = [rules EXCEPT ![r] = clerks[c].copy] /\ Goto(c, "deleteUntouched")
    /\ UNCHANGED <<jobs, parent, statusOrder, clockVars, boardOps, boardRequests, boardHistory>>

Untouched(r) ==
    {j \in LiveJobs : /\ jobs[j].rule = r /\ jobs[j].day >= day
                      /\ jobs[j].status = DefaultStatus /\ ~jobs[j].touched}

\* syncTasksForUpdatedRule; syncTasksForDeletedRule ends with it.
DeleteUntouched(c) ==
    LET r == clerks[c].rule  x == clerks[c].copy IN
    /\ clerks[c].at \in {"deleteUntouched", "cleanUp"}
    /\ jobs' = [j \in JobIds |-> IF j \in Untouched(r)
                                 THEN [NoJob EXCEPT !.touched = jobs[j].touched] ELSE jobs[j]]
    /\ clerks' = [clerks EXCEPT ![c] =
          IF @.at = "cleanUp" THEN [@ EXCEPT !.at = "removeRule"]
          ELSE IF ~x.active \/ x.days \cap (day .. (day + Horizon)) = {} THEN AtRest
          ELSE [@ EXCEPT !.at = "findJobs", !.days = x.days \cap (day .. (day + Horizon))]]
    /\ UNCHANGED <<rules, parent, statusOrder, clockVars, boardOps, boardRequests, boardHistory>>

\* _generateTasksForDates: the default status, the days that have a job;
\* without a status nothing is made.
FindJobs(c) ==
    LET r == clerks[c].rule
        taken == {jobs[j].day : j \in {j \in LiveJobs : jobs[j].rule = r}}
    IN
    /\ clerks[c].at = "findJobs"
    /\ IF DefaultStatus = Cleared
       THEN /\ clerks' = [clerks EXCEPT ![c].at = "nextRule"]
            /\ uncovered' = uncovered \cup ({r} \X clerks[c].days)
       ELSE /\ clerks' = [clerks EXCEPT ![c].at = "insertJobs", ![c].status = DefaultStatus,
                                        ![c].days = @ \ taken]
            /\ UNCHANGED uncovered
    /\ UNCHANGED <<boardStore, clockVars, boardOps, boardRequests, disturbed, misplaced, dropped>>

\* insertMany: the jobs of these days, of which count get in.
StatusGone(s) == s \notin ToSet(statusOrder) \/ \E c \in Clerks : s \in clerks[c].places
Insert(c, made, count) ==
    LET x == clerks[c]
        fresh == SetToSeq(Unused)
        number(j) == CHOOSE i \in DOMAIN fresh : fresh[i] = j
        new == {j \in Unused : number(j) <= count}
    IN
    /\ x.at = "insertJobs" /\ count <= Len(fresh)
    /\ jobs' = [j \in JobIds |-> IF j \in new THEN Job(x.rule, made[number(j)], x.status, Cleared) ELSE jobs[j]]
    /\ misplaced' = IF StatusGone(x.status) THEN misplaced \cup new ELSE misplaced \ new
    /\ clerks' = [clerks EXCEPT ![c].at = "nextRule"]
    /\ UNCHANGED <<rules, parent, statusOrder, clockVars, boardRequests, disturbed, dropped>>

InsertJobs(c) ==
    LET made == SetToSeq(clerks[c].days) IN
    Insert(c, made, Len(made)) /\ UNCHANGED <<boardOps, uncovered>>

\* The daily run goes on with its next rule, as it was when the run began.
NextRule(c) ==
    LET x == clerks[c] IN
    /\ x.at = "nextRule"
    /\ clerks' = [clerks EXCEPT ![c] =
          IF x.todo = <<>> THEN AtRest
          ELSE [x EXCEPT !.at = "findJobs", !.rule = Head(x.todo), !.copy = Head(x.copies),
                         !.todo = Tail(@), !.copies = Tail(@), !.days = {x.target}]]
    /\ UNCHANGED <<boardStore, clockVars, boardOps, boardRequests, boardHistory>>

\* runDailyCron: the active rules that have that day, one after the other.
RunCron(c) ==
    LET rs == {r \in Rules : rules[r].state = "live" /\ rules[r].active /\ (day + Horizon) \in rules[r].days}
        list == SetToSeq(rs)
    IN
    /\ up /\ cronDue /\ clerks[c] = AtRest
    /\ cronDue' = FALSE
    /\ clerks' = [clerks EXCEPT ![c].at = "nextRule", ![c].todo = list, ![c].target = day + Horizon,
                                ![c].copies = [i \in DOMAIN list |-> rules[list[i]]]]
    /\ disturbed' = Collide(rs, c)
    /\ UNCHANGED <<boardStore, day, up, boardOps, boardRequests, uncovered, misplaced, dropped>>

DeleteRule(c, r) ==
    /\ clerks[c] = AtRest /\ rules[r].state = "live" /\ Request("deleteRule")
    /\ clerks' = [clerks EXCEPT ![c].at = "cleanUp", ![c].rule = r]
    /\ disturbed' = Collide({r}, c)
    /\ UNCHANGED <<boardStore, clockVars, boardOps, uncovered, misplaced, dropped>>

RemoveRule(c) ==
    /\ clerks[c].at = "removeRule"
    /\ rules' = [rules EXCEPT ![clerks[c].rule].state = "deleted"]
    /\ Done(c)
    /\ UNCHANGED <<jobs, parent, statusOrder, clockVars, boardOps, boardRequests, boardHistory>>

\* Midnight.  A server that is down runs nothing, and runs once when it is up.
Midnight ==
    /\ "midnight" \in boardOps /\ day < LastDay
    /\ day' = day + 1 /\ cronDue' = up
    /\ uncovered' = IF up /\ ~cronDue THEN uncovered
                    ELSE uncovered \cup (Rules \X {day + Horizon})
    /\ UNCHANGED <<boardStore, up, clerks, boardOps, boardRequests, disturbed, misplaced, dropped>>

Fault == "fault" \in boardOps /\ boardOps' = boardOps \ {"fault"}

GoDown ==
    /\ up /\ Fault
    /\ up' = FALSE /\ cronDue' = FALSE
    /\ clerks' = [c \in Clerks |-> AtRest]
    /\ uncovered' = uncovered \cup {p \in Rules \X BoardDays : \E c \in Clerks : WorksOn(c, p[1])}
    /\ disturbed' = disturbed \cup {r \in Rules : \E c \in Clerks : WorksOn(c, r)}
    /\ UNCHANGED <<boardStore, day, boardRequests, misplaced, dropped>>

StartUp ==
    /\ ~up /\ up' = TRUE /\ cronDue' = TRUE
    /\ UNCHANGED <<boardStore, day, clerks, boardOps, boardRequests, boardHistory>>

\* A call fails.  createRepeatRule and updateRepeatRule keep the rule without
\* its jobs, deleteRepeatRule deletes it without them - or, when its own call
\* fails, leaves it without its jobs.
SyncFails(c) ==
    /\ clerks[c].at \in {"deleteUntouched", "cleanUp", "removeRule"} /\ Fault
    /\ disturbed' = disturbed \cup {clerks[c].rule}
    /\ IF clerks[c].at = "cleanUp" THEN Goto(c, "removeRule") ELSE Done(c)
    /\ UNCHANGED <<boardStore, clockVars, boardRequests, uncovered, misplaced, dropped>>

\* The daily run goes on with its next rule.
FindFails(c) ==
    /\ clerks[c].at = "findJobs" /\ Fault
    /\ uncovered' = uncovered \cup ({clerks[c].rule} \X clerks[c].days)
    /\ Goto(c, "nextRule")
    /\ UNCHANGED <<boardStore, clockVars, boardRequests, disturbed, misplaced, dropped>>

\* An insertion that fails leaves the days it has not come to.
InsertFails(c) ==
    LET made == SetToSeq(clerks[c].days) IN
    /\ Fault
    /\ \E count \in 0 .. Len(made) - 1 :
          /\ Insert(c, made, count)
          /\ uncovered' = uncovered \cup ({clerks[c].rule} \X {made[i] : i \in (count + 1) .. Len(made)})

\* The rules cannot be read: nothing is made that day.
CronFails ==
    /\ up /\ cronDue /\ Fault
    /\ cronDue' = FALSE
    /\ uncovered' = uncovered \cup (Rules \X {day + Horizon})
    /\ UNCHANGED <<boardStore, day, up, clerks, boardRequests, disturbed, misplaced, dropped>>

-----------------------------------------------------------------------------
\* Jobs, folders and statuses

FolderGone(f) == f # Cleared /\ (~Exists(f) \/ \E c \in Clerks : f \in clerks[c].places)
PutJob(j, job) ==
    /\ jobs' = [jobs EXCEPT ![j] = job]
    /\ misplaced' = IF FolderGone(job.folder) \/ (job.status # Cleared /\ StatusGone(job.status))
                    THEN misplaced \cup {j} ELSE misplaced \ {j}

\* createTask, updateTask, updateTaskStatus: any status and any folder, which
\* are not checked; an edit may name one of them only.
ChooseJob(c, j, s, f) ==
    /\ clerks[c] = AtRest
    /\ \/ j \in LiveJobs /\ Request("edit") /\ {s, f} # {Kept}
       \/ jobs[j].state = "none" /\ Request("createJob") /\ Kept \notin {s, f}
    /\ clerks' = [clerks EXCEPT ![c] = [AtRest EXCEPT !.at = IF j \in LiveJobs THEN "saveJob" ELSE "newJob",
                                                       !.job = j, !.status = s, !.folder = f]]
    /\ UNCHANGED <<boardStore, clockVars, boardOps, boardHistory>>

\* A job deleted meanwhile is not saved.
Named(value, old) == IF value = Kept THEN old ELSE value
SaveJob(c) ==
    LET x == clerks[c] IN
    /\ x.at = "saveJob"
    /\ IF x.job \in LiveJobs
       THEN PutJob(x.job, [jobs[x.job] EXCEPT !.status = Named(x.status, @), !.folder = Named(x.folder, @),
                                              !.touched = TRUE])
       ELSE UNCHANGED <<jobs, misplaced>>
    /\ Done(c)
    /\ UNCHANGED <<rules, parent, statusOrder, clockVars, boardOps, boardRequests, disturbed, uncovered, dropped>>

NewJob(c) ==
    LET x == clerks[c] IN
    /\ x.at = "newJob" /\ jobs[x.job].state = "none"
    /\ PutJob(x.job, [Job(Cleared, day, x.status, x.folder) EXCEPT !.touched = TRUE])
    /\ Done(c)
    /\ UNCHANGED <<rules, parent, statusOrder, clockVars, boardOps, boardRequests, disturbed, uncovered, dropped>>

DeleteJob(j) ==
    /\ Request("deleteJob") /\ j \in LiveJobs
    /\ jobs' = [jobs EXCEPT ![j] = [jobs[j] EXCEPT !.state = "deleted"]]
    /\ dropped' = dropped \cup {j}
    /\ uncovered' = uncovered \cup {<<jobs[j].rule, jobs[j].day>>}
    /\ UNCHANGED <<rules, parent, statusOrder, clockVars, clerks, boardOps, disturbed, misplaced>>

\* A folder and those below it, as they were when all folders were read.
Below(f) ==
    LET reach[n \in 0 .. Cardinality(Folders)] ==
          IF n = 0 THEN {f} ELSE reach[n - 1] \cup {g \in Folders : Exists(g) /\ parent[g] \in reach[n - 1]}
    IN  reach[Cardinality(Folders)]
Cyclic(f) == parent[f] \in Below(f)

\* createFolder, updateFolder: any parent, which is not checked: one that is
\* not there, or the folder itself, or one below it.
ChooseFolder(c, f, g) ==
    /\ clerks[c] = AtRest
    /\ IF Exists(f) THEN Request("moveFolder") ELSE Request("createFolder") /\ g # f
    /\ clerks' = [clerks EXCEPT ![c] = [AtRest EXCEPT !.at = IF Exists(f) THEN "moveFolder" ELSE "newFolder",
                                                       !.job = f, !.folder = g]]
    /\ UNCHANGED <<boardStore, clockVars, boardOps, boardHistory>>

SaveFolder(c) ==
    LET x == clerks[c] IN
    /\ x.at \in {"moveFolder", "newFolder"}
    /\ (x.at = "newFolder") = ~Exists(x.job)
    /\ parent' = [parent EXCEPT ![x.job] = x.folder]
    /\ misplaced' = IF FolderGone(x.folder) THEN misplaced \cup {x.job} ELSE misplaced \ {x.job}
    /\ Done(c)
    /\ UNCHANGED <<rules, jobs, statusOrder, clockVars, boardOps, boardRequests, disturbed, uncovered, dropped>>

\* deleteFolder: its jobs are put outside, then it goes with all below it.
\* Folders in a circle cannot be deleted: the search for those below them does
\* not end.
DeleteFolder(c, f) ==
    /\ clerks[c] = AtRest /\ Exists(f) /\ Request("deleteFolder")
    /\ \A g \in Below(f) : ~Cyclic(g)
    /\ clerks' = [clerks EXCEPT ![c].at = "emptyFolders", ![c].places = Below(f)]
    /\ UNCHANGED <<boardStore, clockVars, boardOps, boardHistory>>

EmptyFolders(c) ==
    /\ clerks[c].at = "emptyFolders"
    /\ jobs' = [j \in JobIds |-> IF jobs[j].folder \in clerks[c].places
                                 THEN [jobs[j] EXCEPT !.folder = Cleared] ELSE jobs[j]]
    /\ Goto(c, "removeFolders")
    /\ UNCHANGED <<rules, parent, statusOrder, clockVars, boardOps, boardRequests, boardHistory>>

RemoveFolders(c) ==
    LET gone == clerks[c].places IN
    /\ clerks[c].at = "removeFolders"
    /\ parent' = [f \in Folders |-> IF f \in gone THEN "none" ELSE parent[f]]
    /\ misplaced' = misplaced \cup {f \in Folders \ gone : parent[f] \in gone}
    /\ Done(c)
    /\ UNCHANGED <<rules, jobs, statusOrder, clockVars, boardOps, boardRequests, disturbed, uncovered, dropped>>

\* deleteStatus: refused while jobs have it, unless forced.
DeleteStatus(c, s, force) ==
    LET used == \E j \in LiveJobs : jobs[j].status = s IN
    /\ clerks[c] = AtRest /\ s \in ToSet(statusOrder) /\ (used => force)
    /\ Request("deleteStatus")
    /\ clerks' = [clerks EXCEPT ![c].at = IF used THEN "clearStatus" ELSE "removeStatus",
                                ![c].status = s, ![c].places = {s}]
    /\ UNCHANGED <<boardStore, clockVars, boardOps, boardHistory>>

ClearStatus(c) ==
    /\ clerks[c].at = "clearStatus"
    /\ jobs' = [j \in JobIds |-> IF jobs[j].status = clerks[c].status
                                 THEN [jobs[j] EXCEPT !.status = Cleared] ELSE jobs[j]]
    /\ disturbed' = disturbed \cup Rules       \* their jobs have no status now
    /\ Goto(c, "removeStatus")
    /\ UNCHANGED <<rules, parent, statusOrder, clockVars, boardOps, boardRequests, uncovered, misplaced, dropped>>

RemoveStatus(c) ==
    LET s == clerks[c].status IN
    /\ clerks[c].at = "removeStatus"
    /\ statusOrder' = SelectSeq(statusOrder, LAMBDA t : t # s)
    /\ disturbed' = disturbed \cup Rules       \* another status is the default now
    /\ Done(c)
    /\ UNCHANGED <<rules, jobs, parent, clockVars, boardOps, boardRequests, uncovered, misplaced, dropped>>

BoardNext ==
    \/ Midnight \/ GoDown \/ StartUp \/ CronFails
    \/ \E c \in Clerks : SyncFails(c) \/ FindFails(c) \/ InsertFails(c)
    \/ \E j \in JobIds : DeleteJob(j)
    \/ \E c \in Clerks :
          \/ \E r \in Rules :
                \/ \E active \in BOOLEAN, days \in {BoardDays, {d \in BoardDays : d % 2 = 0}} :
                      ReadRule(c, r, active, days)
                \/ DeleteRule(c, r)
          \/ SaveRule(c) \/ DeleteUntouched(c) \/ FindJobs(c) \/ InsertJobs(c) \/ NextRule(c)
          \/ RunCron(c) \/ RemoveRule(c)
          \/ \E j \in JobIds, s \in Statuses \cup {Kept}, f \in Folders \cup {Cleared, Kept} : ChooseJob(c, j, s, f)
          \/ SaveJob(c) \/ NewJob(c)
          \/ \E f \in Folders, g \in Folders \cup {Cleared} : ChooseFolder(c, f, g)
          \/ \E f \in Folders : DeleteFolder(c, f)
          \/ SaveFolder(c) \/ EmptyFolders(c) \/ RemoveFolders(c)
          \/ \E s \in Statuses, force \in BOOLEAN : DeleteStatus(c, s, force)
          \/ ClearStatus(c) \/ RemoveStatus(c)

-----------------------------------------------------------------------------
\* Properties

Quiet(r) == \A c \in Clerks : ~WorksOn(c, r)
JobsOf(r, d) == {j \in LiveJobs : jobs[j].rule = r /\ jobs[j].day = d}

\* A rule has one job a day, from today to the horizon, and no job on another
\* coming day that nobody touched: unless two runs worked on it at once, a
\* job was deleted, the server was down when a day was to be added, or a call
\* failed - then only that rule, or those days of it, go without.
RulesAreFollowed ==
    \A r \in Rules : (Quiet(r) /\ up /\ ~cronDue /\ r \notin disturbed) =>
        LET x == rules[r] IN
        \A d \in day .. (day + Horizon) :
            /\ Cardinality(JobsOf(r, d)) <= 1
            /\ (x.state = "live" /\ x.active /\ d \in x.days /\ <<r, d>> \notin uncovered)
                  => JobsOf(r, d) # {}
            /\ (x.state # "live" \/ ~x.active \/ d \notin x.days) =>
                  \A j \in JobsOf(r, d) : jobs[j].touched

\* Saving or deleting a rule never takes away a job somebody worked on.
TouchedJobsStay ==
    \A j \in JobIds : (jobs[j].state # "live" /\ jobs[j].touched) => j \in dropped

\* Folders, and the folders and statuses of jobs, exist, unless something was
\* put at a place that was not there, or was being deleted: a deletion leaves
\* nothing behind in what it deletes.
PlacesExist ==
    /\ \A j \in LiveJobs \ misplaced :
          /\ jobs[j].folder # Cleared => Exists(jobs[j].folder)
          /\ jobs[j].status # Cleared => jobs[j].status \in ToSet(statusOrder)
    /\ \A f \in Folders \ misplaced : (Exists(f) /\ parent[f] # Cleared) => Exists(parent[f])

=============================================================================
