-------------------------------- MODULE Tasks --------------------------------
(***************************************************************************)
(* Tasks, the action chains added to them, and what deleting an event or a *)
(* lead does to both: modules/job/task, modules/job/taskActionChain and    *)
(* the deletions of modules/event and modules/lead.                        *)
(*                                                                         *)
(* Closing a task, and deleting an event or a lead, save several documents *)
(* one after the other; chains and links may be added and saved between.   *)
(* A chain is saved with all its steps, and its status and index if they   *)
(* changed; a link is pushed, an unlinking sets the array.  The deletions  *)
(* go on when a part of the closing fails: once in a behaviour the server  *)
(* stops, or one call to the database fails.  Left out: the                *)
(* fields a request only replaces (name, assignees, tags, note), logs, and *)
(* the branches of a step: a result may have any outcome here.             *)
(***************************************************************************)
EXTENDS Integers, Sequences, FiniteSets, SequencesExt

CONSTANTS
    TaskIds, Events, Leads, Templates,
    Workers,                \* requests in flight
    TaskStarts,             \* bound: [tasks, chains, ops] a behaviour begins with
    MaxTaskRequests,        \* bound: requests
    MaxSteps,               \* bound: steps of a chain
    Nil

Subjects == Events \cup Leads
Chains == (TaskIds \cup Events) \X Templates     \* one per owner and template
OwnedBy(o) == {c \in Chains : c[1] = o}
LinkOps == {"link", "unlink", "createTask"}
ChainOps == {"add", "save", "inject", "delay", "note", "branch", "automation",
             "closeChain", "deleteChain"}
TaskOps == {"update", "closeTask", "archive", "unarchive", "deleteTask"}
DeleteOps == {"deleteEvent", "deleteLead"}

VARIABLES
    tasks,      \* task -> its document
    subjects,   \* event or lead -> whether it is deleted
    chains,     \* chain -> its document
    work,       \* worker -> its request: at, the task, subject and chain it
                \* is about, what it will save, the chains and tasks left to do
    taskRequests, taskOps,
    wasClosed,  \* tasks that were closed once (history)
    byUpdate,   \* tasks an update closed (history)
    cutOff,     \* tasks and subjects whose closing stopped or failed (history)
    closers,    \* tasks a finished request closed a chain and the task of (history)
    late,       \* chains and links made when their owner was closed or
                \* subject deleted, or while it was being deleted (history)
    links,      \* task -> subjects linked by a request, not unlinked since (history)
    mixed       \* tasks and chains saved from an old copy (history)

storeVars == <<tasks, subjects, chains>>
taskHistory == <<wasClosed, byUpdate, cutOff, closers, late, links, mixed>>
taskVars == <<storeVars, work, taskRequests, taskOps, taskHistory>>

-----------------------------------------------------------------------------
\* Documents

Task(status, linked) ==
    [state |-> "live", status |-> status, archived |-> FALSE, linked |-> linked]
NoTask == [Task("active", <<>>) EXCEPT !.state = "none"]
Found(t) == tasks[t].state = "live"
Editable(t) == Found(t) /\ tasks[t].status # "closed"

Step(status) == [status |-> status, locked |-> FALSE]
NewChain == [state |-> "live", status |-> "active", index |-> 1,
             steps |-> <<Step("active"), Step("pending")>>]
NoChain == [NewChain EXCEPT !.state = "none"]
Live(c) == chains[c].state = "live"
Open(c) == Live(c) /\ chains[c].status # "closed"
HasCurrent(doc) == doc.index \in DOMAIN doc.steps   \* not after old steps were put back
Current(doc) == doc.steps[doc.index]
Waiting(c) == Open(c) /\ HasCurrent(chains[c]) /\ ~Current(chains[c]).locked

Closed(doc) ==
    LET closed == [doc EXCEPT !.status = "closed"]
    IN  IF HasCurrent(doc) /\ ~Current(doc).locked
        THEN [closed EXCEPT !.steps[doc.index].status = "skipped"] ELSE closed
Locked(doc) == [doc EXCEPT !.steps[doc.index] = [status |-> "done", locked |-> TRUE]]
Activated(doc, i) == [doc EXCEPT !.steps[i].status = "active", !.index = i]

\* What save() writes of an edited chain, and what that leaves stored.
Write(c, new) == [chain |-> c, steps |-> new.steps,
                  status |-> IF new.status # chains[c].status THEN new.status ELSE Nil,
                  index |-> IF new.index # chains[c].index THEN new.index ELSE Nil]
Saved(doc, w) == [doc EXCEPT !.steps = w.steps,
                             !.status = IF w.status # Nil THEN w.status ELSE @,
                             !.index = IF w.index # Nil THEN w.index ELSE @]

NoWork == [at |-> "idle", op |-> "none", task |-> Nil, subject |-> Nil, write |-> Nil,
           linked |-> <<>>, rest |-> {}, todo |-> {}, old |-> FALSE]
Goto(w, step) == work' = [work EXCEPT ![w].at = step]
Done(w) == work' = [work EXCEPT ![w] = NoWork]
Deleting(s) == \E w \in Workers : work[w].subject = s /\ work[w].op \in DeleteOps
Gone(s) == subjects[s] = "deleted" \/ Deleting(s)

TasksInit ==
    \E start \in TaskStarts :
        /\ tasks = start.tasks /\ chains = start.chains /\ taskOps = start.ops
        /\ subjects = [s \in Subjects |-> "live"]
        /\ work = [w \in Workers |-> NoWork] /\ taskRequests = 0
        /\ wasClosed = {} /\ byUpdate = {} /\ cutOff = {} /\ closers = {} /\ late = {} /\ mixed = {}
        /\ links = [t \in TaskIds |-> ToSet(start.tasks[t].linked)]

\* A request begins with what it reads.
Begin(w, op, at, job) ==
    /\ work[w].at = "idle" /\ op \in taskOps /\ taskRequests < MaxTaskRequests
    /\ taskRequests' = taskRequests + 1
    /\ work' = [work EXCEPT ![w] = [job EXCEPT !.op = op, !.at = at]]
    /\ UNCHANGED <<storeVars, taskOps, taskHistory>>

OnTask(t) == [NoWork EXCEPT !.task = t, !.linked = tasks[t].linked]
OnChain(c) == [NoWork EXCEPT !.task = c[1]]
Steady == UNCHANGED <<taskRequests, taskOps>>

\* Other requests hold an old copy of x from now on.
Outdate(w, x) ==
    [v \in Workers |->
        IF v # w /\ (work[v].task = x \/ (work[v].write # Nil /\ work[v].write.chain = x))
        THEN [work[v] EXCEPT !.old = TRUE] ELSE work[v]]

-----------------------------------------------------------------------------
\* Tasks and their links

\* createTask keeps the links to the events and leads it finds.
CreateTask(w, t, s) ==
    /\ tasks[t].state = "none" /\ subjects[s] = "live"
    /\ \A v \in Workers : work[v].task # t
    /\ Begin(w, "createTask", "create", [OnTask(t) EXCEPT !.linked = <<s>>])

SaveLinks(t, linked) ==
    /\ tasks' = [tasks EXCEPT ![t].state = IF @ = "none" THEN "live" ELSE @, ![t].linked = linked]
    /\ late' = late \cup {<<t, s>> : s \in {s \in ToSet(linked) \ ToSet(tasks[t].linked) : Gone(s)}}
    /\ UNCHANGED <<subjects, chains, wasClosed, byUpdate, cutOff, closers>> /\ Steady

SaveTask(w) ==
    LET t == work[w].task IN
    /\ work[w].at = "create"
    /\ SaveLinks(t, work[w].linked)
    /\ links' = [links EXCEPT ![t] = ToSet(work[w].linked)]
    /\ Done(w) /\ UNCHANGED mixed

\* linkEvent, linkLead: the subject exists and is not linked yet.
LinkSubject(w, t, s) ==
    /\ Editable(t) /\ subjects[s] = "live" /\ s \notin ToSet(tasks[t].linked)
    /\ Begin(w, "link", "push", [OnTask(t) EXCEPT !.subject = s])

PushLink(w) ==
    LET t == work[w].task  s == work[w].subject IN
    /\ work[w].at = "push"
    /\ SaveLinks(t, Append(tasks[t].linked, s))
    /\ links' = [links EXCEPT ![t] = @ \cup {s}]
    /\ mixed' = IF work[w].old THEN mixed \cup {t} ELSE mixed
    /\ work' = [Outdate(w, t) EXCEPT ![w] = NoWork]

\* unlinkEvent, unlinkLead: of a link that need not be there.
UnlinkSubject(w, t, s) ==
    /\ Editable(t)
    /\ Begin(w, "unlink", "set", [OnTask(t) EXCEPT !.subject = s])

SetLinks(w) ==
    LET t == work[w].task  s == work[w].subject IN
    /\ work[w].at = "set"
    /\ SaveLinks(t, SelectSeq(work[w].linked, LAMBDA x : x # s))
    /\ links' = [links EXCEPT ![t] = @ \ {s}]
    /\ mixed' = IF work[w].old THEN mixed \cup {t} ELSE mixed
    /\ work' = [Outdate(w, t) EXCEPT ![w] = NoWork]

\* updateTask accepts the status "closed" and does nothing about the chains.
UpdateTask(w, t) == Editable(t) /\ Begin(w, "update", "saveClosed", OnTask(t))

MarkClosed(t) == tasks' = [tasks EXCEPT ![t].status = "closed"]

SaveUpdate(w) ==
    LET t == work[w].task IN
    /\ work[w].at = "saveClosed"
    /\ MarkClosed(t) /\ Done(w)
    /\ wasClosed' = wasClosed \cup {t} /\ byUpdate' = byUpdate \cup {t}
    /\ UNCHANGED <<subjects, chains, cutOff, closers, late, links, mixed>> /\ Steady

ArchiveTask(w, t) ==
    /\ Found(t) /\ tasks[t].status = "closed"
    /\ Begin(w, "archive", "archive", OnTask(t))
UnarchiveTask(w, t) == Found(t) /\ Begin(w, "unarchive", "unarchive", OnTask(t))
DeleteTask(w, t) == Found(t) /\ Begin(w, "deleteTask", "deleteTask", OnTask(t))

SaveFlag(w) ==
    LET t == work[w].task  at == work[w].at IN
    /\ at \in {"archive", "unarchive", "deleteTask"}
    /\ tasks' = [tasks EXCEPT ![t].archived = IF at = "deleteTask" THEN @ ELSE at = "archive",
                              ![t].state = IF at = "deleteTask" THEN "deleted" ELSE @]
    /\ Done(w)
    /\ UNCHANGED <<subjects, chains, taskHistory>> /\ Steady

-----------------------------------------------------------------------------
\* Chains of a task

\* addChainToTask (addChain for an event): the unique index admits one per
\* template.  Nothing is asked of the task.
AddChain(c) ==
    /\ "add" \in taskOps /\ taskRequests < MaxTaskRequests
    /\ chains[c].state = "none"
    /\ IF c[1] \in TaskIds THEN tasks[c[1]].state # "none" ELSE subjects[c[1]] = "live"
    /\ taskRequests' = taskRequests + 1
    /\ chains' = [chains EXCEPT ![c] = NewChain]
    /\ late' = IF (IF c[1] \in TaskIds THEN tasks[c[1]].status = "closed" ELSE Gone(c[1]))
               THEN late \cup {c} ELSE late \ {c}
    /\ mixed' = mixed \ {c}
    /\ UNCHANGED <<tasks, subjects, work, taskOps, wasClosed, byUpdate, cutOff, closers, links>>

\* ordinary: the step the index points to stays the current one.
Edit(w, op, c, new, ordinary) ==
    Begin(w, op, "saveChain", [OnChain(c) EXCEPT !.write = Write(c, new), !.old = ~ordinary])

\* saveCurrentStep: the chosen step, the closing, or the next step.  The
\* chosen one may have been locked before.
SaveCurrentStep(w, c) ==
    Waiting(c) /\
    LET doc == Locked(chains[c])  next == doc.index + 1 IN
       \/ \E i \in DOMAIN doc.steps : Edit(w, "save", c, Activated(doc, i), ~doc.steps[i].locked)
       \/ Edit(w, "save", c, [doc EXCEPT !.status = "closed"], TRUE)
       \/ Edit(w, "save", c, IF next \in DOMAIN doc.steps THEN Activated(doc, next) ELSE doc,
               next \in DOMAIN doc.steps => ~doc.steps[next].locked)

\* ... and the result is close_task: closeTask follows.
SaveClosingStep(w, c) ==
    /\ Waiting(c)
    /\ Begin(w, "save", "saveCloser",
             [OnChain(c) EXCEPT !.write = Write(c, [Locked(chains[c]) EXCEPT !.status = "closed"])])

InjectStep(w, c) ==
    /\ Open(c) /\ Len(chains[c].steps) < MaxSteps
    /\ \E i \in 0 .. Len(chains[c].steps) :
          Edit(w, "inject", c, [chains[c] EXCEPT !.steps = InsertAt(@, i + 1, Step("pending"))],
               i >= chains[c].index)

\* These change a field left out here, and save all steps.
UpdateCurrentStepDelay(w, c) ==
    Waiting(c) /\ Edit(w, "delay", c, chains[c], TRUE)
UpdateStepNote(w, c) == Live(c) /\ Edit(w, "note", c, chains[c], TRUE)
ConfigureBranch(w, c) ==
    /\ Open(c) /\ \E i \in DOMAIN chains[c].steps : ~chains[c].steps[i].locked
    /\ Edit(w, "branch", c, chains[c], TRUE)
ExecuteBlockAutomation(w, c) ==
    Open(c) /\ HasCurrent(chains[c]) /\ Edit(w, "automation", c, chains[c], TRUE)

CloseChain(w, c) == Open(c) /\ Edit(w, "closeChain", c, Closed(chains[c]), TRUE)

SaveChain(w) ==
    LET x == work[w].write IN
    /\ work[w].at \in {"saveChain", "saveCloser"}
    /\ chains' = [chains EXCEPT ![x.chain] = Saved(@, x)]
    /\ mixed' = IF work[w].old THEN mixed \cup {x.chain} ELSE mixed
    /\ work' = [Outdate(w, x.chain) EXCEPT ![w] =
                  IF work[w].at = "saveChain" THEN NoWork
                  ELSE [work[w] EXCEPT !.at = "closeRead", !.write = Nil]]
    /\ UNCHANGED <<tasks, subjects, wasClosed, byUpdate, cutOff, closers, late, links>> /\ Steady

\* deleteChain removes the document; saves of it that are under way fail.
DeleteChain(w, c) ==
    /\ Open(c) /\ c[1] \in TaskIds
    /\ work[w].at = "idle" /\ "deleteChain" \in taskOps /\ taskRequests < MaxTaskRequests
    /\ taskRequests' = taskRequests + 1
    /\ chains' = [chains EXCEPT ![c] = NoChain]
    /\ work' = [v \in Workers |->
                  IF work[v].write # Nil /\ work[v].write.chain = c THEN NoWork
                  ELSE [work[v] EXCEPT !.rest = {x \in @ : x.chain # c}]]
    /\ UNCHANGED <<tasks, subjects, taskOps, taskHistory>>

-----------------------------------------------------------------------------
\* Closing a task, on its own or as a part of something else

CloseTask(w, t) == Editable(t) /\ Begin(w, "closeTask", "closeSave", OnTask(t))

\* What comes after closeTask, or after its error: the next task, the end.
After(job) ==
    IF job.todo # {} THEN [job EXCEPT !.at = "closeNext"]
    ELSE IF job.op = "deleteEvent" THEN [job EXCEPT !.at = "deleteSubject"]
    ELSE NoWork

CloseNext(w) ==
    /\ work[w].at = "closeNext"
    /\ \E t \in work[w].todo :
          work' = [work EXCEPT ![w].task = t, ![w].todo = @ \ {t}, ![w].at = "closeRead"]
    /\ UNCHANGED <<storeVars, taskHistory>> /\ Steady

CloseRead(w) ==
    /\ work[w].at = "closeRead"
    /\ IF Editable(work[w].task) THEN Goto(w, "closeSave") /\ UNCHANGED closers
       ELSE /\ work' = [work EXCEPT ![w] = After(@)]
            /\ closers' = IF work[w].op = "save" THEN closers \cup {work[w].task} ELSE closers
    /\ UNCHANGED <<storeVars, wasClosed, byUpdate, cutOff, late, links, mixed>> /\ Steady

CloseSave(w) ==
    LET t == work[w].task IN
    /\ work[w].at = "closeSave"
    /\ MarkClosed(t) /\ Goto(w, "closeFind")
    /\ wasClosed' = wasClosed \cup {t}
    /\ UNCHANGED <<subjects, chains, byUpdate, cutOff, closers, late, links, mixed>> /\ Steady

\* (mutated form: the chains of the task's first template only)
CloseFindOne(w) ==
    /\ work[w].at = "closeFind"
    /\ \E one \in Templates :
          work' = [work EXCEPT ![w].at = "closeChains",
              ![w].rest = {Write(c, Closed(chains[c])) : c \in {c \in OwnedBy(work[w].task) :
                                                                   Open(c) /\ c[2] = one}}]
    /\ UNCHANGED <<storeVars, taskHistory>> /\ Steady
CloseFind(w) ==
    /\ work[w].at = "closeFind"
    /\ work' = [work EXCEPT ![w].at = "closeChains",
          ![w].rest = {Write(c, Closed(chains[c])) : c \in {c \in OwnedBy(work[w].task) : Open(c)}}]
    /\ UNCHANGED <<storeVars, taskHistory>> /\ Steady

\* Promise.all: in any order.
CloseOne(w) ==
    /\ work[w].at = "closeChains"
    /\ \E x \in work[w].rest :
          /\ chains' = [chains EXCEPT ![x.chain] = Saved(@, x)]
          /\ mixed' = IF x.steps # Closed(chains[x.chain]).steps THEN mixed \cup {x.chain} ELSE mixed
          /\ work' = [Outdate(w, x.chain) EXCEPT ![w].rest = @ \ {x}]
    /\ UNCHANGED <<tasks, subjects, wasClosed, byUpdate, cutOff, closers, late, links>> /\ Steady

CloseEnd(w) ==
    /\ work[w].at = "closeChains" /\ work[w].rest = {}
    /\ work' = [work EXCEPT ![w] = After(@)]
    /\ closers' = IF work[w].op = "save" THEN closers \cup {work[w].task} ELSE closers
    /\ UNCHANGED <<storeVars, wasClosed, byUpdate, cutOff, late, links, mixed>> /\ Steady

-----------------------------------------------------------------------------
\* Deleting an event or a lead

\* An event's chains are deleted, its tasks closed, and then it is deleted;
\* a lead is deleted first.
DeleteEvent(w, s) ==
    /\ subjects[s] = "live" /\ s \in Events
    /\ Begin(w, "deleteEvent", "dropChains",
             [NoWork EXCEPT !.subject = s, !.rest = {c \in OwnedBy(s) : Live(c)}])

DropChain(w) ==
    /\ work[w].at = "dropChains"
    /\ \E c \in work[w].rest :
          /\ chains' = [chains EXCEPT ![c].state = "deleted"]
          /\ work' = [work EXCEPT ![w].rest = @ \ {c}]
    /\ UNCHANGED <<tasks, subjects, taskHistory>> /\ Steady

DeleteLead(w, s) ==
    /\ subjects[s] = "live" /\ s \in Leads
    /\ Begin(w, "deleteLead", "deleteSubject", [NoWork EXCEPT !.subject = s])

DeleteSubject(w) ==
    /\ work[w].at = "deleteSubject"
    /\ subjects' = [subjects EXCEPT ![work[w].subject] = "deleted"]
    /\ IF work[w].op = "deleteLead" THEN Goto(w, "findTasks") ELSE Done(w)
    /\ UNCHANGED <<tasks, chains, taskHistory>> /\ Steady

FindTasks(w) ==
    /\ work[w].at = "findTasks" \/ (work[w].at = "dropChains" /\ work[w].rest = {})
    /\ work' = [work EXCEPT ![w] = After([@ EXCEPT !.todo =
          {t \in TaskIds : Editable(t) /\ work[w].subject \in ToSet(tasks[t].linked)}])]
    /\ UNCHANGED <<storeVars, taskHistory>> /\ Steady

\* The server stops: requests in flight are lost where they are.
Crash ==
    /\ "fault" \in taskOps
    /\ \E w \in Workers : work[w].at # "idle"
    /\ cutOff' = cutOff \cup {work[w].task : w \in Workers} \cup {work[w].subject : w \in Workers}
                        \cup UNION {work[w].todo : w \in Workers}
    /\ work' = [w \in Workers |-> NoWork]
    /\ taskOps' = taskOps \ {"fault"}
    /\ UNCHANGED <<storeVars, taskRequests, wasClosed, byUpdate, closers, late, links, mixed>>

Fault(w, after, failed) ==
    /\ "fault" \in taskOps
    /\ taskOps' = taskOps \ {"fault"}
    /\ work' = [work EXCEPT ![w] = after]
    /\ cutOff' = cutOff \cup failed
    /\ UNCHANGED <<storeVars, taskRequests, wasClosed, byUpdate, closers, late, links, mixed>>

\* Task.find fails: the deletion says so in the console and goes on without it.
FindFails(w) ==
    /\ work[w].at = "findTasks" \/ (work[w].at = "dropChains" /\ work[w].rest = {})
    /\ Fault(w, After(work[w]), {work[w].subject})

\* closeTask fails: so does its request, but a deletion goes on to the next task.
CloseFails(w) ==
    /\ work[w].at \in {"closeRead", "closeSave", "closeFind"}
    /\ Fault(w, After(work[w]), {work[w].task})

\* ... or one save of a chain in it; the other saves have been sent.
CloseOneFails(w) ==
    /\ work[w].at = "closeChains"
    /\ \E x \in work[w].rest :
          Fault(w, [work[w] EXCEPT !.rest = @ \ {x}], {work[w].task})

\* Another save fails, and its request with it.
RequestFails(w) ==
    /\ work[w].at \in {"create", "push", "set", "saveClosed", "archive", "unarchive", "deleteTask",
                       "saveChain", "saveCloser", "deleteSubject"}
       \/ (work[w].at = "dropChains" /\ work[w].rest # {})
    /\ Fault(w, NoWork, {})

TasksNext ==
    \/ Crash
    \/ \E w \in Workers : FindFails(w) \/ CloseFails(w) \/ CloseOneFails(w) \/ RequestFails(w)
    \/ \E c \in Chains : AddChain(c)
    \/ \E w \in Workers :
          \/ \E t \in TaskIds :
                \/ \E s \in Subjects : CreateTask(w, t, s) \/ LinkSubject(w, t, s) \/ UnlinkSubject(w, t, s)
                \/ UpdateTask(w, t) \/ ArchiveTask(w, t) \/ UnarchiveTask(w, t)
                \/ DeleteTask(w, t) \/ CloseTask(w, t)
          \/ \E c \in TaskIds \X Templates :
                \/ SaveCurrentStep(w, c) \/ SaveClosingStep(w, c) \/ InjectStep(w, c)
                \/ UpdateCurrentStepDelay(w, c) \/ UpdateStepNote(w, c) \/ ConfigureBranch(w, c)
                \/ ExecuteBlockAutomation(w, c) \/ CloseChain(w, c) \/ DeleteChain(w, c)
          \/ SaveTask(w) \/ PushLink(w) \/ SetLinks(w) \/ SaveUpdate(w) \/ SaveFlag(w)
          \/ SaveChain(w) \/ CloseNext(w) \/ CloseRead(w) \/ CloseSave(w) \/ CloseFind(w)
          \/ CloseOne(w) \/ CloseEnd(w)
          \/ \E s \in Subjects : DeleteEvent(w, s) \/ DeleteLead(w, s)
          \/ DropChain(w) \/ DeleteSubject(w) \/ FindTasks(w)

-----------------------------------------------------------------------------
\* Properties

Closing(t) == \E w \in Workers :
    work[w].task = t /\ work[w].at \in {"closeFind", "closeChains"}

\* "Close all action chains associated with this task" (closeTask): a closed
\* task has no active chain, except one that was added after it was closed,
\* or if an update closed it, or the closing stopped or failed half-way.
ClosedTasksAreQuiet ==
    \A t \in TaskIds :
        /\ Found(t) /\ tasks[t].status = "closed" /\ ~Closing(t)
        /\ t \notin byUpdate \cup cutOff
        => \A c \in OwnedBy(t) : Open(c) => c \in late

\* The current step of a closed chain is done or skipped, unless a save put
\* back old steps or the chain had left its ordinary course.
ClosedChainsRest ==
    \A c \in Chains : Live(c) /\ chains[c].status = "closed" /\ c \notin mixed =>
        Current(chains[c]).status \in {"done", "skipped"}

\* A chain that ends with close_task closed its task; and no task that was
\* closed is open again, whatever copies were saved, or archived while open.
ClosingIsFinal ==
    \A t \in TaskIds :
        /\ t \in wasClosed => tasks[t].status = "closed"
        /\ t \in closers => tasks[t].status = "closed" \/ ~Found(t)
        /\ tasks[t].archived => tasks[t].status = "closed"

\* deleteEvent and deleteLead leave no chain of the event, and every task
\* linked to the event or lead closed, except what was added meanwhile: one
\* task that could not be closed keeps no other one open.
DeletionsCascade ==
    \A s \in Subjects : subjects[s] = "deleted" /\ ~Deleting(s) =>
        /\ \A c \in Chains : c[1] = s /\ Live(c) => c \in late
        /\ s \notin cutOff =>
            \A t \in TaskIds \ cutOff :
              Found(t) /\ s \in ToSet(tasks[t].linked) =>
                tasks[t].status = "closed" \/ <<t, s>> \in late

\* The links of a task are those made and not undone, each once, unless two
\* requests changed them at the same time.
LinksAreExplained ==
    \A t \in TaskIds \ mixed :
        /\ ToSet(tasks[t].linked) = links[t]
        /\ IsInjective(tasks[t].linked)

TasksStayConsistent ==
    ClosedTasksAreQuiet /\ ClosedChainsRest /\ ClosingIsFinal /\ DeletionsCascade /\ LinksAreExplained
=============================================================================
