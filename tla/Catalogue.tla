------------------------------ MODULE Catalogue ------------------------------
(***************************************************************************)
(* Courses, the templates they are cloned from, and their lecturers        *)
(* (modules/course: courseChallenge, courseOnline, courseOffline,          *)
(* courseLecturer), as several members of staff edit them while orders     *)
(* come in (module Checkout).                                              *)
(*                                                                         *)
(* References are looked up before the document is saved, in a step of     *)
(* their own.  A save that replaces an array is refused if the version it  *)
(* read is no longer the stored one; one that replaces other fields, and   *)
(* updateMany's $pull, neither look at the version nor raise it.           *)
(***************************************************************************)
EXTENDS Integers, Sequences, FiniteSets

CONSTANTS
    CourseIds, Lecturers, Staff,
    Shapes,             \* bound: numbers of days
    CatalogueStarts,    \* bound: [courses, ops, unlocked] a behaviour begins with
    MaxCatalogueRequests, None

VARIABLES
    courses,    \* course or template -> its document
    faculty,    \* lecturer -> "active", "inactive" or "deleted"
    enrolled,   \* courses with an enrollment
    desks,      \* member of staff, or an order -> what it read and will do
    courseOps, courseRequests,
    unlocked,   \* the setting ENABLE_CLONE_UPDATE
    resized,    \* courses whose number of days was set unchecked (history)
    bare,       \* those that were created without a curriculum (history)
    hurried,    \* lecturers assigned while they were taken away (history)
    boughtLate, \* courses and templates bought while they were deleted (history)
    abandoned   \* those that had students when their deletion was saved (history)

catalogueVars == <<courses, faculty, enrolled, desks, courseOps, courseRequests, unlocked,
                   resized, bare, hurried, boughtLate, abandoned>>
catalogueHistory == <<resized, bare, hurried, boughtLate, abandoned>>

CourseOps == {"create", "update", "clone", "deleteCourse", "deleteTemplate", "order"}
LecturerOps == {"deactivate", "activate", "deleteLecturer"}

\* A curriculum: its days, and who wrote it.
Curriculum(n, by) == [size |-> n, by |-> by]
NewCourse(template, from, days, curriculum, lecturers) ==
    [state |-> "live", template |-> template, from |-> from, days |-> days,
     curriculum |-> curriculum, lecturers |-> lecturers, version |-> 0]
Blank == [NewCourse(FALSE, None, 0, Curriculum(0, 0), {}) EXCEPT !.state = "none"]

Live(c) == courses[c].state = "live"
Template(c) == Live(c) /\ courses[c].template
Deployed(c) == Live(c) /\ ~courses[c].template

AtRest == [step |-> "none", on |-> None, doc |-> Blank, writes |-> {}, from |-> None]
Desk(step, on, doc, writes) == [AtRest EXCEPT !.step = step, !.on = on, !.doc = doc, !.writes = writes]

CatalogueInit ==
    \E start \in CatalogueStarts :
        /\ courses = start.courses /\ courseOps = start.ops /\ unlocked = start.unlocked
        /\ faculty = [l \in Lecturers |-> "active"]
        /\ enrolled = {} /\ desks = [s \in Staff |-> AtRest] /\ courseRequests = 0
        /\ resized = {} /\ bare = {} /\ hurried = {}
        /\ boughtLate = {} /\ abandoned = {}

Begin(s, op, desk) ==
    /\ desks[s].step = "none" /\ op \in courseOps /\ courseRequests < MaxCatalogueRequests
    /\ desks' = [desks EXCEPT ![s] = desk]
    /\ courseRequests' = courseRequests + 1
    /\ UNCHANGED <<courses, faculty, enrolled, courseOps, unlocked, catalogueHistory>>

\* The end of request s, with what it wrote.
End(s) == desks' = [desks EXCEPT ![s] = AtRest]

-----------------------------------------------------------------------------
\* Courses

AllActive(lecturers) == \A l \in lecturers : faculty[l] = "active"
\* Lecturers some other request is taking away.
Leaving(s) == {l \in Lecturers : \E t \in Staff \ {s} : desks[t].step = "lecturer" /\ desks[t].on = l}
MatchesDays(days, curriculum) == curriculum.size = days

\* createTemplate: a curriculum, if one is given, has the days that are announced.
CreateTemplate(s, c, days, size, lecturers) ==
    /\ courses[c].state = "none" /\ (size # 0 => MatchesDays(days, Curriculum(size, 0)))
    /\ AllActive(lecturers)
    /\ Begin(s, "create", Desk("insert", c, NewCourse(TRUE, None, days, Curriculum(size, courseRequests), lecturers), {}))

\* createCourse of courseOnline and courseOffline: no days to compare.
CreateCourse(s, c, lecturers) ==
    /\ courses[c].state = "none" /\ AllActive(lecturers)
    /\ Begin(s, "create", Desk("insert", c, NewCourse(FALSE, None, 0, Curriculum(0, 0), lecturers), {}))

\* cloneTemplateToCourse: the template's days and lecturers as they were read,
\* the lecturers without a look at them.
Clone(s, c, from) ==
    /\ Template(from) /\ courses[c].state = "none"
    /\ Begin(s, "clone", [Desk("insert", c, NewCourse(FALSE, from, courses[from].days, courses[from].curriculum,
                                                      courses[from].lecturers), {}) EXCEPT !.from = from])

Insert(s) ==
    LET x == desks[s]  c == x.on IN
    /\ x.step = "insert"
    /\ courses' = IF courses[c].state = "none" THEN [courses EXCEPT ![c] = x.doc] ELSE courses
    /\ bare' = IF ~MatchesDays(x.doc.days, x.doc.curriculum) THEN bare \cup {c} ELSE bare
    /\ resized' = IF x.from \in resized THEN resized \cup {c} ELSE resized
    /\ hurried' = hurried \cup {l \in x.doc.lecturers : faculty[l] # "active" \/ l \in Leaving(s)}
    /\ End(s)
    /\ UNCHANGED <<faculty, enrolled, courseOps, courseRequests, unlocked, boughtLate, abandoned>>

\* The fields of an update that differ from the document that was read.
Changes(old, new) == {f \in {"days", "curriculum", "lecturers"} : old[f] # new[f]}
Update(s, c, new) ==
    /\ new.lecturers # {} => AllActive(new.lecturers)
    /\ Begin(s, "update", Desk("save", c, new, Changes(courses[c], new)))

\* updateTemplate: the days and the curriculum that result must agree.
UpdateTemplate(s, c, days, curriculum, lecturers) ==
    /\ Template(c) /\ MatchesDays(days, curriculum)
    /\ Update(s, c, [courses[c] EXCEPT !.days = days, !.curriculum = curriculum, !.lecturers = lecturers])

\* updateCourse: a curriculum of another size than the days that are stored is
\* compared with those that are given; the days alone are not compared.  While
\* ENABLE_CLONE_UPDATE is off the curriculum is dropped, and the days are not.
UpdateCourse(s, c, days, curriculum, lecturers) ==
    LET kept == IF unlocked THEN curriculum ELSE courses[c].curriculum IN
    /\ Deployed(c)
    /\ (kept # courses[c].curriculum /\ kept.size # courses[c].days) => MatchesDays(days, kept)
    /\ Update(s, c, [courses[c] EXCEPT !.days = days, !.curriculum = kept, !.lecturers = lecturers])

Conflicts(x) == x.writes \cap {"curriculum", "lecturers"} # {} /\ courses[x.on].version # x.doc.version

SaveCourse(s) ==
    LET x == desks[s]  c == x.on
        Field(f) == IF f \in x.writes THEN x.doc[f] ELSE courses[c][f]
    IN
    /\ x.step = "save" /\ ~Conflicts(x)
    /\ courses' = [courses EXCEPT
          ![c].days = Field("days"), ![c].curriculum = Field("curriculum"), ![c].lecturers = Field("lecturers"),
          ![c].version = IF x.writes \cap {"curriculum", "lecturers"} # {} THEN @ + 1 ELSE @]
    /\ resized' = IF ~courses[c].template /\ "days" \in x.writes THEN resized \cup {c} ELSE resized
    /\ hurried' = IF "lecturers" \in x.writes
                  THEN hurried \cup {l \in x.doc.lecturers : faculty[l] # "active" \/ l \in Leaving(s)} ELSE hurried
    /\ End(s)
    /\ UNCHANGED <<faculty, enrolled, courseOps, courseRequests, unlocked, bare, boughtLate, abandoned>>
RefuseSave(s) ==
    /\ desks[s].step = "save" /\ Conflicts(desks[s])
    /\ End(s)
    /\ UNCHANGED <<courses, faculty, enrolled, courseOps, courseRequests, unlocked, catalogueHistory>>

\* deleteCourse and deleteTemplate: not with students; a template, not with
\* students of the courses made from it.
DeleteCourse(s, c) ==
    /\ Deployed(c) /\ c \notin enrolled
    /\ Begin(s, "deleteCourse", Desk("delete", c, Blank, {}))
\* (mutated form: the courses made from it are not asked)
DeleteTemplateOnly(s, c) ==
    /\ Template(c) /\ c \notin enrolled
    /\ Begin(s, "deleteTemplate", Desk("delete", c, Blank, {}))
DeleteTemplate(s, c) ==
    /\ Template(c) /\ c \notin enrolled
    /\ \A d \in CourseIds : (Live(d) /\ courses[d].from = c) => d \notin enrolled
    /\ Begin(s, "deleteTemplate", Desk("delete", c, Blank, {}))
\* Students of the course, and of those made from it.
Bought(c) == c \in enrolled \/ \E d \in enrolled : Live(d) /\ courses[d].from = c
Buying(c) == \E t \in Staff : desks[t].step = "buy" /\ (desks[t].on = c \/ courses[desks[t].on].from = c)
SaveDeletion(s) ==
    LET c == desks[s].on IN
    /\ desks[s].step = "delete"
    /\ courses' = [courses EXCEPT ![c].state = "deleted"]
    /\ boughtLate' = IF Buying(c) THEN boughtLate \cup {c} ELSE boughtLate
    /\ abandoned' = IF Bought(c) THEN abandoned \cup {c} ELSE abandoned
    /\ End(s)
    /\ UNCHANGED <<faculty, enrolled, courseOps, courseRequests, unlocked, resized, bare, hurried>>

\* An order finds the course, and enrolls the student when it commits.
Order(s, c) == Deployed(c) /\ Begin(s, "order", Desk("buy", c, Blank, {}))
Enroll(s) ==
    /\ desks[s].step = "buy"
    /\ enrolled' = enrolled \cup {desks[s].on}
    /\ boughtLate' = boughtLate \cup
          {c \in {desks[s].on, courses[desks[s].on].from} :
              \E t \in Staff : desks[t].step = "delete" /\ desks[t].on = c}
    /\ End(s)
    /\ UNCHANGED <<courses, faculty, courseOps, courseRequests, unlocked, resized, bare, hurried, abandoned>>

-----------------------------------------------------------------------------
\* Lecturers

InUse(l) == \E c \in CourseIds : Live(c) /\ l \in courses[c].lecturers

\* updateLecturer with isActive false, and deleteLecturer: refused in use, or
\* (force) taken out of every course; then saved.
TakeAway(s, l, to, force) ==
    /\ faculty[l] = "active" \/ (faculty[l] = "inactive" /\ to = "deleted")
    /\ force \/ ~InUse(l)
    /\ Begin(s, IF to = "deleted" THEN "deleteLecturer" ELSE "deactivate",
             Desk("lecturer", l, Blank, (IF force /\ InUse(l) THEN {"pull"} ELSE {}) \cup {to}))
PullLecturer(s) ==
    LET l == desks[s].on IN
    /\ desks[s].step = "lecturer" /\ "pull" \in desks[s].writes
    /\ courses' = [c \in CourseIds |-> [courses[c] EXCEPT !.lecturers = @ \ {l}]]
    /\ desks' = [desks EXCEPT ![s].writes = @ \ {"pull"}]
    /\ UNCHANGED <<faculty, enrolled, courseOps, courseRequests, unlocked, catalogueHistory>>
\* Another request has looked l up and not saved yet.
BeingAssigned(l) == \E t \in Staff : desks[t].step \in {"insert", "save"} /\ l \in desks[t].doc.lecturers
SaveLecturer(s) ==
    LET l == desks[s].on IN
    /\ desks[s].step = "lecturer" /\ "pull" \notin desks[s].writes
    /\ faculty' = [faculty EXCEPT ![l] = IF "deleted" \in desks[s].writes THEN "deleted"
                                         ELSE IF @ = "deleted" THEN @ ELSE "inactive"]
    /\ hurried' = IF BeingAssigned(l) THEN hurried \cup {l} ELSE hurried
    /\ End(s)
    /\ UNCHANGED <<courses, enrolled, courseOps, courseRequests, unlocked, resized, bare, boughtLate,
                   abandoned>>

\* updateLecturer with isActive true.
Activate(l) ==
    /\ faculty[l] = "inactive" /\ "activate" \in courseOps /\ courseRequests < MaxCatalogueRequests
    /\ faculty' = [faculty EXCEPT ![l] = "active"]
    /\ courseRequests' = courseRequests + 1
    /\ UNCHANGED <<courses, enrolled, desks, courseOps, unlocked, catalogueHistory>>

CatalogueNext ==
    \/ \E s \in Staff, c \in CourseIds :
          \/ \E ls \in SUBSET Lecturers, n \in Shapes :
                \/ CreateTemplate(s, c, n, n, ls) \/ CreateTemplate(s, c, n, 0, ls)
                \/ \E m \in Shapes : \E x \in {courses[c].curriculum, Curriculum(m, courseRequests)} :
                      UpdateTemplate(s, c, n, x, ls) \/ UpdateCourse(s, c, n, x, ls)
          \/ \E ls \in SUBSET Lecturers : CreateCourse(s, c, ls)
          \/ \E from \in CourseIds : Clone(s, c, from)
          \/ DeleteCourse(s, c) \/ DeleteTemplate(s, c) \/ Order(s, c)
    \/ \E s \in Staff : Insert(s) \/ SaveCourse(s) \/ RefuseSave(s) \/ SaveDeletion(s) \/ Enroll(s)
                        \/ PullLecturer(s) \/ SaveLecturer(s)
    \/ \E s \in Staff, l \in Lecturers, to \in {"inactive", "deleted"}, force \in BOOLEAN : TakeAway(s, l, to, force)
    \/ \E l \in Lecturers : Activate(l)

-----------------------------------------------------------------------------
\* Properties

\* A course's lecturers are there and active, unless one was taken away while
\* a request that had looked them up assigned them.
LecturersExist ==
    \A c \in CourseIds : Live(c) =>
        \A l \in courses[c].lecturers : faculty[l] = "active" \/ l \in hurried

\* A deleted course has no students, and a template had none in the courses
\* made from it when it was deleted, unless one bought at the same time.
NoStudentsBehind ==
    /\ abandoned \subseteq boughtLate
    /\ \A c \in CourseIds :
          (courses[c].state = "deleted" /\ c \notin boughtLate) => c \notin enrolled

\* A template keeps as many days as it announces, however its editors
\* overlap; a course does as long as its number of days is not changed.
DaysAreWhole ==
    \A c \in CourseIds : (Live(c) /\ c \notin bare \cup resized) =>
        MatchesDays(courses[c].days, courses[c].curriculum)

CatalogueAgrees == LecturersExist /\ NoStudentsBehind /\ DaysAreWhole
=============================================================================
