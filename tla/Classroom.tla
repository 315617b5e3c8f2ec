------------------------------ MODULE Classroom ------------------------------
(***************************************************************************)
(* What a student does after enrolling: the days of a challenge            *)
(* (getMyProgress, submitDayAssignment), the place in an online course     *)
(* (updateProgress), the works handed in and reviewed (courseSubmission),  *)
(* and the articles read (knowledge).                                      *)
(*                                                                         *)
(* A request reads a document and saves it later: an array grows by push,  *)
(* and only the fields that differ from what was read are written.  Time   *)
(* is counted in hours from the enrollment.                                *)
(***************************************************************************)
EXTENDS Integers, Sequences, FiniteSets, SequencesExt, Functions

CONSTANTS
    Works,              \* ids of submissions, all for one lesson of one enrollment
    Readers, Pupils,    \* people who open the article; requests at the same time
    ClassStarts,        \* bound: [course, ops] a behaviour begins with
    LastHour, MaxClassRequests, MaxLesson,      \* bounds
    Unset               \* a day without a time of its own; nothing to grade yet

VARIABLES
    course,     \* its days and its submission settings
    enrollment, \* [status, progress, lastLesson]
    works,      \* submission -> its document
    hour,
    reads, viewCount, counting,     \* KnowledgeRead; its article; $inc to come
    pupils,     \* request -> what it read and will write
    classOps, classRequests,
    dueLesson,  \* the furthest lesson reported (history)
    judged,     \* submission -> the contents its reviewer saw (history)
    blurred,    \* what was written from an old copy (history)
    lostViews   \* increments lost in a stop (history)

classVars == <<course, enrollment, works, hour, reads, viewCount, counting, pupils, classOps, classRequests,
               dueLesson, judged, blurred, lostViews>>
classHistory == <<dueLesson, judged, blurred, lostViews>>

DayIds == DOMAIN course.days

\* A day: when it opens by the calendar (or Unset), and hours after the start.
Day(unlockAt, delay) == [unlockAt |-> unlockAt, delay |-> delay]
Course(fixed, start, days, advance, autoNext, lateAllowed, deadline) ==
    [fixed |-> fixed, start |-> start, days |-> days, advance |-> advance,
     autoNext |-> autoNext, late |-> lateAllowed, deadline |-> deadline]

NoWork == [state |-> "none", status |-> "pending", content |-> 0]
Waiting == [kind |-> "none", on |-> Unset, value |-> 0, status |-> Unset, at |-> 0, old |-> FALSE]

ClassInit ==
    \E start \in ClassStarts :
        /\ course = start.course /\ classOps = start.ops
        /\ enrollment = [status |-> "ACTIVE", progress |-> <<>>, lastLesson |-> 0]
        /\ works = [w \in Works |-> NoWork]
        /\ hour = 0 /\ reads = {} /\ viewCount = 0 /\ counting = 0
        /\ pupils = [r \in Pupils |-> Waiting] /\ classRequests = 0
        /\ dueLesson = 0 /\ judged = [w \in Works |-> 0] /\ blurred = {} /\ lostViews = 0

\* Request r has read what it needs, and is about to write.
Start(r, op, request) ==
    /\ pupils[r].kind = "none" /\ op \in classOps /\ classRequests < MaxClassRequests
    /\ pupils' = [pupils EXCEPT ![r] = request]
    /\ classRequests' = classRequests + 1
    /\ UNCHANGED <<course, enrollment, works, hour, reads, viewCount, counting, classOps, classHistory>>

\* r has written `on`: what others read of it is old, and was r's own?
Wrote(r, on) ==
    /\ pupils' = [s \in Pupils |->
          IF s = r THEN Waiting
          ELSE IF pupils[s].on = on THEN [pupils[s] EXCEPT !.old = TRUE] ELSE pupils[s]]
    /\ blurred' = IF pupils[r].old THEN blurred \cup {on} ELSE blurred

-----------------------------------------------------------------------------
\* The days of a challenge

Unlock(d) ==
    IF course.fixed /\ course.days[d].unlockAt # Unset THEN course.days[d].unlockAt
    ELSE (IF course.fixed THEN course.start ELSE 0) + course.days[d].delay
Completed(d) == \E i \in DOMAIN enrollment.progress : enrollment.progress[i].day = d
Overdue(d) == course.deadline > 0 /\ hour > Unlock(d) + course.deadline

\* (mutated form: the day itself opens the day)
UnlockedBySelf(d) ==
    \/ hour >= Unlock(d) \/ course.advance
    \/ course.autoNext /\ d > 1
Unlocked(d) ==
    \/ hour >= Unlock(d) \/ course.advance
    \/ course.autoNext /\ d > 1 /\ Completed(d - 1)
CanSubmit(d) == ~Completed(d) /\ Unlocked(d) /\ (Overdue(d) => course.late)

\* submitDayAssignment: a new entry is pushed; the enrollment's status is not asked.
SubmitDay(r, d) ==
    /\ CanSubmit(d)
    /\ Start(r, "submitDay", [Waiting EXCEPT !.kind = "day", !.on = <<"day", d>>, !.value = d, !.at = hour])
SaveDay(r) ==
    /\ pupils[r].kind = "day"
    /\ enrollment' = [enrollment EXCEPT
          !.progress = Append(@, [day |-> pupils[r].value, at |-> pupils[r].at])]
    /\ Wrote(r, pupils[r].on)
    /\ UNCHANGED <<course, works, hour, reads, viewCount, counting, classOps, classRequests,
                   dueLesson, judged, lostViews>>

Tick ==
    /\ "tick" \in classOps /\ hour < LastHour /\ hour' = hour + 1
    /\ UNCHANGED <<course, enrollment, works, reads, viewCount, counting, pupils, classOps, classRequests,
                   classHistory>>

\* updateProgress: only a lesson further on than the one read is saved.
ReportLesson(r, n) ==
    /\ n > enrollment.lastLesson
    /\ Start(r, "lesson", [Waiting EXCEPT !.kind = "lesson", !.on = <<"lesson", 0>>, !.value = n])
SaveLesson(r) ==
    /\ pupils[r].kind = "lesson"
    /\ enrollment' = [enrollment EXCEPT !.lastLesson = pupils[r].value]
    /\ dueLesson' = IF pupils[r].value > dueLesson THEN pupils[r].value ELSE dueLesson
    /\ Wrote(r, <<"lesson", 0>>)
    /\ UNCHANGED <<course, works, hour, reads, viewCount, counting, classOps, classRequests, judged, lostViews>>

\* updateEnrollmentStatus, and each document of updateBatchEnrollmentStatus.
SetStatus(status) ==
    /\ "status" \in classOps /\ classRequests < MaxClassRequests
    /\ enrollment' = [enrollment EXCEPT !.status = status]
    /\ classRequests' = classRequests + 1
    /\ UNCHANGED <<course, works, hour, reads, viewCount, counting, pupils, classOps, classHistory>>

-----------------------------------------------------------------------------
\* Works

Live(w) == works[w].state = "live"
Content == classRequests + 1        \* a new one each time

SubmitWork(r, w) ==
    /\ enrollment.status = "ACTIVE" /\ works[w].state = "none" /\ \A v \in Works : ~Live(v)
    /\ Start(r, "submit", [Waiting EXCEPT !.kind = "submit", !.on = w, !.value = Content])
\* create(): the index admits one live work per lesson.
SaveNewWork(r) ==
    LET w == pupils[r].on IN
    /\ pupils[r].kind = "submit"
    /\ works' = IF \E v \in Works : Live(v) \/ (v = w /\ works[v].state # "none") THEN works
                ELSE [works EXCEPT ![w] = [state |-> "live", status |-> "pending", content |-> pupils[r].value]]
    /\ pupils' = [pupils EXCEPT ![r] = Waiting]
    /\ UNCHANGED <<course, enrollment, hour, reads, viewCount, counting, classOps, classRequests, classHistory>>

\* updateSubmission: the status is written only if it was not pending already.
Resubmit(r, w) ==
    /\ Live(w) /\ works[w].status # "approved"
    /\ Start(r, "resubmit", [Waiting EXCEPT !.kind = "resubmit", !.on = w, !.value = Content,
                 !.status = IF works[w].status = "pending" THEN Unset ELSE "pending"])
SaveWork(r) ==
    LET w == pupils[r].on IN
    /\ pupils[r].kind = "resubmit"
    /\ works' = [works EXCEPT ![w].content = pupils[r].value,
                              ![w].status = IF pupils[r].status = Unset THEN @ ELSE "pending"]
    /\ Wrote(r, w)
    /\ UNCHANGED <<course, enrollment, hour, reads, viewCount, counting, classOps, classRequests,
                   dueLesson, judged, lostViews>>

Withdraw(r, w) ==
    /\ Live(w) /\ works[w].status = "pending"
    /\ Start(r, "withdraw", [Waiting EXCEPT !.kind = "withdraw", !.on = w])
SaveWithdrawal(r) ==
    LET w == pupils[r].on IN
    /\ pupils[r].kind = "withdraw"
    /\ works' = [works EXCEPT ![w].state = "deleted"]
    /\ Wrote(r, w)
    /\ UNCHANGED <<course, enrollment, hour, reads, viewCount, counting, classOps, classRequests,
                   dueLesson, judged, lostViews>>

\* reviewSubmission: any live work, at any status.
Review(r, w, verdict) ==
    /\ Live(w)
    /\ Start(r, "review", [Waiting EXCEPT !.kind = "review", !.on = w, !.value = works[w].content,
                 !.status = IF works[w].status = verdict THEN Unset ELSE verdict])
SaveReview(r) ==
    LET w == pupils[r].on  verdict == pupils[r].status IN
    /\ pupils[r].kind = "review"
    /\ works' = IF verdict = Unset THEN works ELSE [works EXCEPT ![w].status = verdict]
    /\ judged' = [judged EXCEPT ![w] = pupils[r].value]
    /\ Wrote(r, w)
    /\ UNCHANGED <<course, enrollment, hour, reads, viewCount, counting, classOps, classRequests,
                   dueLesson, lostViews>>

-----------------------------------------------------------------------------
\* Articles

\* getKnowledgeByIdentifier: one record per reader and day, then the counter.
View(v) ==
    /\ "view" \in classOps
    /\ <<v, hour>> \notin reads
    /\ reads' = reads \cup {<<v, hour>>} /\ counting' = counting + 1
    /\ UNCHANGED <<course, enrollment, works, hour, viewCount, pupils, classOps, classRequests, classHistory>>
CountView ==
    /\ counting > 0
    /\ counting' = counting - 1 /\ viewCount' = viewCount + 1
    /\ UNCHANGED <<course, enrollment, works, hour, reads, pupils, classOps, classRequests, classHistory>>

\* The process stops: requests end where they are.
StopClass ==
    /\ "stop" \in classOps /\ classRequests < MaxClassRequests
    /\ classRequests' = classRequests + 1
    /\ pupils' = [r \in Pupils |-> Waiting]
    /\ lostViews' = lostViews + counting /\ counting' = 0
    /\ UNCHANGED <<course, enrollment, works, hour, reads, viewCount, classOps, dueLesson, judged, blurred>>

ClassNext ==
    \/ \E r \in Pupils :
          \/ \E d \in DayIds : SubmitDay(r, d)
          \/ \E n \in 1 .. MaxLesson : ReportLesson(r, n)
          \/ \E w \in Works : SubmitWork(r, w) \/ Resubmit(r, w) \/ Withdraw(r, w)
                              \/ \E verdict \in {"approved", "rejected"} : Review(r, w, verdict)
          \/ SaveDay(r) \/ SaveLesson(r)
          \/ SaveNewWork(r) \/ SaveWork(r) \/ SaveWithdrawal(r) \/ SaveReview(r)
    \/ Tick \/ CountView \/ StopClass
    \/ \E status \in {"ACTIVE", "LOCKED"} : SetStatus(status)
    \/ \E v \in Readers : View(v)

-----------------------------------------------------------------------------
\* Properties

Entries(d) == {i \in DOMAIN enrollment.progress : enrollment.progress[i].day = d}

\* A day has one entry, unless two were submitted at the same time; and one
\* handed in before its time, without advance, follows the day before it.
DaysAreEarned ==
    \A d \in DayIds :
        /\ <<"day", d>> \notin blurred => Cardinality(Entries(d)) <= 1
        /\ \A i \in Entries(d) :
              LET early == enrollment.progress[i].at < Unlock(d) IN
              (early /\ ~course.advance) =>
                  d > 1 /\ \E j \in Entries(d - 1) : j < i /\ enrollment.progress[j].at <= enrollment.progress[i].at

\* The place in a course never goes back, unless two reports overlapped.
PlaceIsKept == <<"lesson", 0>> \notin blurred => enrollment.lastLesson = dueLesson

\* A lesson has one live work.  An approved one has the contents its
\* reviewer saw and stays, unless it was written by two at the same time.
WorksAreJudged ==
    /\ Cardinality({w \in Works : Live(w)}) <= 1
    /\ \A w \in Works : (works[w].status = "approved" /\ w \notin blurred) =>
          Live(w) /\ works[w].content = judged[w]

\* An article's counter misses only views whose increment is on its way or
\* was lost in a stop, however its readers overlap.
ViewsAreCounted == viewCount + counting + lostViews = Cardinality(reads)

ClassroomIsFair == DaysAreEarned /\ PlaceIsKept /\ WorksAreJudged /\ ViewsAreCounted
=============================================================================
