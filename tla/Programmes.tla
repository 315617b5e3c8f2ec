------------------------------ MODULE Programmes ------------------------------
(***************************************************************************)
(* A programme with its checklist, its indicator and the milestones that   *)
(* move it (modules/system/meta), as several people work on it.            *)
(*                                                                         *)
(* A request reads the programme, changes its copy and saves the changes:  *)
(* push and pull change the stored array, a field of an element is written *)
(* at the element's place, and unshift replaces the array.  There are no   *)
(* versions.  Everything but updateProgram calls _recalculateProgress      *)
(* without waiting for it: it computes after the save, and what it         *)
(* computes is not stored.  Left out: comments, attachments and persons in *)
(* charge, which only use push and pull; an update that gives the          *)
(* programme another type at once; and the other fields.                   *)
(***************************************************************************)
EXTENDS Integers, Sequences, FiniteSets, SequencesExt

CONSTANTS
    Managers,           \* requests at the same time
    Goal,               \* the indicator's target
    Steps, Dates,       \* bounds: what a milestone adds, and when
    ProgrammeStarts,    \* bound: [programme, ops] a behaviour begins with
    MaxProgrammeRequests

VARIABLES
    programme,  \* its stored document
    drafts,     \* request -> what it will write
    lastId, programmeOps, programmeRequests,
    marked,     \* task -> how it was last marked, for those that exist (history)
    kept,       \* the milestones that exist (history)
    confused,   \* what overlapping requests, or a date in the past, changed (history)
    newer       \* something changed since the progress was stored (history)

programmeVars == <<programme, drafts, lastId, programmeOps, programmeRequests, marked, kept, confused, newer>>
programmeHistory == <<marked, kept, confused, newer>>

ProgrammeOps == {"addTask", "markTask", "deleteTask", "addMilestone", "setCurrent", "updateMilestone",
                 "deleteMilestone", "update", "replaceTargets", "switchType"}
Task(id, done) == [id |-> id, done |-> done]
Milestone(id, total, date) == [id |-> id, total |-> total, date |-> date]
\* The current value of a programme without targets, and of a draft that
\* does not write it.
NoTargets == -1
Unwritten == -2
Programme(type, tasks, milestones, current) ==
    [type |-> type, tasks |-> tasks, milestones |-> milestones, current |-> current, progress |-> 0]

\* How a request writes an array: not at all, by push, by pull, one element's
\* field, or all of it.
Keep == [how |-> "keep"]
NoDraft == [op |-> "none", tasks |-> Keep, milestones |-> Keep, current |-> Unwritten, progress |-> -1, old |-> {}]

ProgrammesInit ==
    \E start \in ProgrammeStarts :
        /\ programme = start.programme /\ programmeOps = start.ops
        /\ drafts = [m \in Managers |-> NoDraft] /\ lastId = 9 /\ programmeRequests = 0
        /\ marked = {<<start.programme.tasks[i].id, start.programme.tasks[i].done>> :
                        i \in DOMAIN start.programme.tasks}
        /\ kept = {start.programme.milestones[i].id : i \in DOMAIN start.programme.milestones}
        /\ confused = {} /\ newer = TRUE

Begin(m, op, draft) ==
    /\ drafts[m].op = "none" /\ op \in programmeOps /\ programmeRequests < MaxProgrammeRequests
    /\ drafts' = [drafts EXCEPT ![m] = [draft EXCEPT !.op = op]]
    /\ programmeRequests' = programmeRequests + 1
    /\ UNCHANGED <<programme, programmeOps, programmeHistory>>

-----------------------------------------------------------------------------
\* Requests

AddTask(m) ==
    /\ Begin(m, "addTask", [NoDraft EXCEPT !.tasks = [how |-> "push", value |-> Task(lastId + 1, FALSE)]])
    /\ lastId' = lastId + 1
\* updateTask: at the place the task had when it was read.
MarkTask(m, i, done) ==
    /\ Begin(m, "markTask", [NoDraft EXCEPT !.tasks =
            [how |-> "place", at |-> i, id |-> programme.tasks[i].id, value |-> done]])
    /\ UNCHANGED lastId
DeleteTask(m, i) ==
    /\ Begin(m, "deleteTask", [NoDraft EXCEPT !.tasks = [how |-> "pull", id |-> programme.tasks[i].id]])
    /\ UNCHANGED lastId

\* Milestones only of an indicator, while the programme's type counts one.
Counts == programme.type = "metric" /\ programme.current # NoTargets
AddingMilestone(current, date) ==
    [NoDraft EXCEPT !.milestones =
        [how |-> "set", value |-> <<Milestone(lastId + 1, current, date)>> \o programme.milestones],
        !.current = current]
AddMilestone(m, added, date) ==
    /\ Counts
    /\ Begin(m, "addMilestone", AddingMilestone(programme.current + added, date))
    /\ lastId' = lastId + 1
\* addBatchMilestones: the value itself; nothing if it did not change.
SetCurrent(m, value, date) ==
    /\ Counts
    /\ Begin(m, "setCurrent", IF value = programme.current THEN NoDraft ELSE AddingMilestone(value, date))
    /\ lastId' = lastId + 1

\* updateMilestone and deleteMilestone: the indicator is then that of the
\* latest one, the first of them in the list among those of one date.
LatestTotal(ms) ==
    IF ms = <<>> THEN 0
    ELSE ms[CHOOSE i \in DOMAIN ms :
               /\ \A j \in DOMAIN ms : ms[j].date <= ms[i].date
               /\ \A j \in 1 .. i - 1 : ms[j].date < ms[i].date].total
Latest(ms) == IF programme.current = NoTargets THEN Unwritten ELSE LatestTotal(ms)
UpdateMilestone(m, i, total) ==
    /\ Begin(m, "updateMilestone", [NoDraft EXCEPT
          !.milestones = [how |-> "place", at |-> i, id |-> programme.milestones[i].id, value |-> total],
          !.current = Latest([programme.milestones EXCEPT ![i].total = total])])
    /\ UNCHANGED lastId
\* (mutated form: the indicator is forgotten)
DeleteMilestoneOnly(m, i) ==
    /\ Begin(m, "deleteMilestone", [NoDraft EXCEPT
          !.milestones = [how |-> "pull", id |-> programme.milestones[i].id]])
    /\ UNCHANGED lastId
DeleteMilestone(m, i) ==
    /\ Begin(m, "deleteMilestone", [NoDraft EXCEPT
          !.milestones = [how |-> "pull", id |-> programme.milestones[i].id],
          !.current = Latest(RemoveAt(programme.milestones, i))])
    /\ UNCHANGED lastId

\* _recalculateProgress
Percent(part, whole) == (200 * part + whole) \div (2 * whole)
ProgressOf(p) ==
    IF p.type = "metric" THEN IF p.current = NoTargets THEN 0 ELSE Percent(p.current, Goal)
    ELSE IF p.tasks = <<>> THEN 0
         ELSE Percent(Len(SelectSeq(p.tasks, LAMBDA t : t.done)), Len(p.tasks))
\* updateProgram: a programme whose type counts tasks loses its targets; those
\* of another may be replaced, with the current value that is given.
Update(m) ==
    LET drops == programme.type = "task" /\ programme.current # NoTargets IN
    /\ Begin(m, "update", [NoDraft EXCEPT !.current = IF drops THEN NoTargets ELSE Unwritten,
                                          !.progress = ProgressOf(programme)])
    /\ UNCHANGED lastId
ReplaceTargets(m, current) ==
    /\ programme.type = "metric"
    /\ Begin(m, "replaceTargets", [NoDraft EXCEPT !.current = current,
                                       !.progress = ProgressOf([programme EXCEPT !.current = current])])
    /\ UNCHANGED lastId

\* updateConfig gives the type of programme the other kind of indicator.
SwitchType ==
    /\ "switchType" \in programmeOps /\ programmeRequests < MaxProgrammeRequests
    /\ programme' = [programme EXCEPT !.type = IF @ = "metric" THEN "task" ELSE "metric"]
    /\ programmeRequests' = programmeRequests + 1 /\ newer' = TRUE
    /\ drafts' = [m \in Managers |->
          IF drafts[m].op = "none" THEN NoDraft ELSE [drafts[m] EXCEPT !.old = @ \cup {"progress"}]]
    /\ UNCHANGED <<lastId, programmeOps, marked, kept, confused>>

-----------------------------------------------------------------------------
\* save()

\* Writing a field beyond the end makes elements of it that have no id.
WithTask(ts, w) ==
    CASE w.how = "keep" -> ts
      [] w.how = "push" -> Append(ts, w.value)
      [] w.how = "pull" -> SelectSeq(ts, LAMBDA t : t.id # w.id)
      [] w.how = "place" -> [i \in 1 .. (IF w.at > Len(ts) THEN w.at ELSE Len(ts)) |->
                                IF i # w.at THEN IF i <= Len(ts) THEN ts[i] ELSE Task(0, FALSE)
                                ELSE Task(IF i <= Len(ts) THEN ts[i].id ELSE 0, w.value)]
WithMilestone(ms, w) ==
    CASE w.how = "keep" -> ms
      [] w.how = "set" -> w.value
      [] w.how = "pull" -> SelectSeq(ms, LAMBDA x : x.id # w.id)
      [] w.how = "place" -> [i \in 1 .. (IF w.at > Len(ms) THEN w.at ELSE Len(ms)) |->
                                IF i # w.at THEN IF i <= Len(ms) THEN ms[i] ELSE Milestone(0, 0, 0)
                                ELSE IF i <= Len(ms) THEN [ms[i] EXCEPT !.total = w.value]
                                     ELSE Milestone(0, w.value, 0)]

\* What of the others' copies is old once w is written.
Ages(w) ==
    (IF w.tasks.how = "pull" THEN {"places"} ELSE {}) \cup
    (IF w.tasks # Keep \/ w.milestones # Keep \/ w.current # Unwritten \/ w.progress >= 0
     THEN {"progress"} ELSE {}) \cup
    (IF w.milestones # Keep \/ w.current # Unwritten THEN {"milestones"} ELSE {})
\* What w then leaves in doubt.
Doubts(w) ==
    (IF "places" \in w.old /\ w.tasks.how = "place" THEN {"tasks"} ELSE {}) \cup
    (IF "progress" \in w.old /\ w.progress >= 0 THEN {"progress"} ELSE {}) \cup
    (IF ("milestones" \in w.old /\ (w.milestones # Keep \/ w.current # Unwritten)) \/ w.op = "replaceTargets"
     THEN {"milestones"} ELSE {}) \cup
    (IF w.current = NoTargets THEN {"targets"} ELSE {}) \cup
    (IF w.milestones.how = "set" /\ \E i \in 2 .. Len(w.milestones.value) :
            w.milestones.value[i].date > w.milestones.value[1].date THEN {"current"} ELSE {})

\* A value written to a target that is gone is nobody's.
Save(m) ==
    LET w == drafts[m]
        lost == w.current = Unwritten \/ (programme.current = NoTargets /\ w.op # "replaceTargets") IN
    /\ w.op # "none"
    /\ programme' = [programme EXCEPT
          !.tasks = WithTask(@, w.tasks), !.milestones = WithMilestone(@, w.milestones),
          !.current = IF lost THEN @ ELSE w.current,
          !.progress = IF w.progress >= 0 THEN w.progress ELSE @]
    /\ drafts' = [n \in Managers |->
          IF n = m \/ drafts[n].op = "none" THEN NoDraft ELSE [drafts[n] EXCEPT !.old = @ \cup Ages(w)]]
    /\ marked' =
          CASE w.tasks.how = "keep" -> marked
            [] w.tasks.how = "push" -> marked \cup {<<w.tasks.value.id, FALSE>>}
            [] w.tasks.how = "pull" -> {x \in marked : x[1] # w.tasks.id}
            [] w.tasks.how = "place" -> {x \in marked : x[1] # w.tasks.id} \cup
                   (IF \E x \in marked : x[1] = w.tasks.id THEN {<<w.tasks.id, w.tasks.value>>} ELSE {})
    /\ kept' = CASE w.milestones.how = "set" -> kept \cup {w.milestones.value[1].id}
                 [] w.milestones.how = "pull" -> kept \ {w.milestones.id}
                 [] OTHER -> kept
    /\ confused' = confused \cup Doubts(w)
    /\ newer' = IF w.progress >= 0 THEN FALSE ELSE newer \/ Ages(w) # {}
    /\ UNCHANGED <<lastId, programmeOps, programmeRequests>>

ProgrammesNext ==
    \/ \E m \in Managers :
          \/ AddTask(m)
          \/ \E i \in DOMAIN programme.tasks : DeleteTask(m, i) \/ \E done \in BOOLEAN : MarkTask(m, i, done)
          \/ \E n \in Steps, date \in Dates : AddMilestone(m, n, date) \/ SetCurrent(m, n, date)
          \/ \E i \in DOMAIN programme.milestones :
                DeleteMilestone(m, i) \/ \E n \in Steps : UpdateMilestone(m, i, n)
          \/ Update(m) \/ \E n \in Steps : ReplaceTargets(m, n)
          \/ Save(m)
    \/ SwitchType

-----------------------------------------------------------------------------
\* Properties

\* A task that was added and not deleted is there however requests overlap,
\* and is done if it was last marked so, unless one was deleted meanwhile.
TasksAreMarked ==
    LET there == {<<programme.tasks[i].id, programme.tasks[i].done>> : i \in DOMAIN programme.tasks} IN
    /\ {x[1] : x \in marked} \subseteq {x[1] : x \in there}
    /\ "tasks" \notin confused => there = marked

\* Milestones stay, and the indicator is that of the latest, unless requests
\* overlapped, the targets were replaced, or one was dated back; a programme
\* that has milestones has its indicator, unless it was updated while its
\* type counted tasks.
IndicatorIsBacked ==
    "milestones" \notin confused =>
        /\ {programme.milestones[i].id : i \in DOMAIN programme.milestones} = kept
        /\ ({"current", "targets"} \cap confused = {} /\ (programme.milestones # <<>> \/ programme.current # NoTargets))
               => programme.current = LatestTotal(programme.milestones)

\* The stored progress is right as long as nothing changed since the last
\* update of the programme itself.
ProgressIsDue == (~newer /\ "progress" \notin confused) => programme.progress = ProgressOf(programme)

ProgrammesAddUp == TasksAreMarked /\ IndicatorIsBacked /\ ProgressIsDue
=============================================================================
