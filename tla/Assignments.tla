----------------------------- MODULE Assignments -----------------------------
(***************************************************************************)
(* Events and leads as several people work on them: their assignees, their *)
(* timeline, their stage and their archive flag (modules/event/event,      *)
(* modules/lead/lead).                                                     *)
(*                                                                         *)
(* A request reads the document, works on its copy and saves the changes.  *)
(* How a change is written decides what happens to the changes of others:  *)
(* push appends to the array that is stored, while filter, unshift and an  *)
(* assignment replace it by the copy's.  There are no versions.  Left out: *)
(* the fields a request only replaces, the matching of customers, and the  *)
(* deletions (module Tasks).                                               *)
(***************************************************************************)
EXTENDS Integers, Sequences, FiniteSets, SequencesExt

CONSTANTS
    SharedEvents, SharedLeads, People, Editors,
    LastStage,          \* of the stages 1, 2, ... of a lead; the last one closes it
    DocStarts,          \* bound: [docs, ops] a behaviour begins with
    MaxEdits,           \* bound: requests
    Void

Docs == SharedEvents \cup SharedLeads
EditOps == {"create", "selfAssign", "unassign", "assign", "addTimeline", "deleteTimeline",
            "confirmStage", "setStage", "archive", "unarchive"}

VARIABLES
    docs,       \* event or lead -> its document
    edits,      \* editor -> its request: the document, what it will write
    lastEntry,  \* the last timeline entry made
    docOps, editCount,
    assignedTo, \* document -> the people who should be assigned (history)
    noted,      \* document -> the timeline entries it should have (history)
    stageDue,   \* lead -> the stage it should be at (history)
    crossed     \* <<document, field>> written from an old copy (history)

docVars == <<docs, edits, lastEntry, docOps, editCount, assignedTo, noted, stageDue, crossed>>
docHistory == <<assignedTo, noted, stageDue, crossed>>

-----------------------------------------------------------------------------
\* Writing

Keep == [how |-> "keep", value |-> Void]
Push(x) == [how |-> "push", value |-> x]
Replace(x) == [how |-> "set", value |-> x]
\* An assignment that changes nothing is not sent.
Change(old, new) == IF old = new THEN Keep ELSE Replace(new)

After(old, write) ==
    CASE write.how = "keep" -> old
      [] write.how = "push" -> Append(old, write.value)
      [] write.how = "set" -> write.value

Fields == {"assignees", "timeline", "stage", "archived"}
NoChange == [f \in Fields |-> Keep]

Doc(assignees, timeline, stage) ==
    [state |-> "live", assignees |-> assignees, timeline |-> timeline,
     stage |-> stage, archived |-> FALSE]
NoDoc == [Doc(<<>>, <<>>, 1) EXCEPT !.state = "none"]

Resting == [doc |-> Void, write |-> NoChange, old |-> FALSE,
            plus |-> {}, minus |-> {}, entry |-> 0, dropped |-> 0, confirms |-> FALSE]
Free(e) == edits[e].doc = Void

DocsInit ==
    \E start \in DocStarts :
        /\ docs = start.docs /\ docOps = start.ops
        /\ edits = [e \in Editors |-> Resting]
        /\ lastEntry = 9 /\ editCount = 0 /\ crossed = {}
        /\ assignedTo = [d \in Docs |-> ToSet(start.docs[d].assignees)]
        /\ noted = [d \in Docs |-> ToSet(start.docs[d].timeline)]
        /\ stageDue = [d \in Docs |-> start.docs[d].stage]

\* e has read document d, and is about to save.
Read(e, op, d, request) ==
    /\ Free(e) /\ op \in docOps /\ editCount < MaxEdits /\ docs[d].state = "live"
    /\ editCount' = editCount + 1
    /\ edits' = [edits EXCEPT ![e] = [request EXCEPT !.doc = d]]
    /\ UNCHANGED <<docs, docOps, docHistory>>

Writing(field, write) == [Resting EXCEPT !.write[field] = write]

-----------------------------------------------------------------------------
\* Requests

\* createEvent begins the timeline; createLead does not.
CreateDoc(d, people) ==
    /\ "create" \in docOps /\ editCount < MaxEdits /\ docs[d].state = "none"
    /\ LET first == IF d \in SharedEvents THEN <<lastEntry + 1>> ELSE <<>> IN
       /\ docs' = [docs EXCEPT ![d] = Doc(people, first, 1)]
       /\ noted' = [noted EXCEPT ![d] = ToSet(first)]
    /\ assignedTo' = [assignedTo EXCEPT ![d] = ToSet(people)]
    /\ lastEntry' = lastEntry + 1 /\ editCount' = editCount + 1
    /\ UNCHANGED <<edits, docOps, stageDue, crossed>>

\* (mutated form: the whole array is set)
SelfAssignEventBySetting(e, d, p) ==
    /\ d \in SharedEvents /\ p \notin ToSet(docs[d].assignees)
    /\ Read(e, "selfAssign", d,
            [Writing("assignees", Replace(Append(docs[d].assignees, p))) EXCEPT !.plus = {p}])
    /\ UNCHANGED lastEntry
SelfAssignEvent(e, d, p) ==
    /\ d \in SharedEvents /\ p \notin ToSet(docs[d].assignees)
    /\ Read(e, "selfAssign", d, [Writing("assignees", Push(p)) EXCEPT !.plus = {p}])
    /\ UNCHANGED lastEntry

SelfAssignLead(e, d, p) ==
    /\ d \in SharedLeads /\ p \notin ToSet(docs[d].assignees)
    /\ Read(e, "selfAssign", d,
            [Writing("assignees", Replace(Append(docs[d].assignees, p))) EXCEPT !.plus = {p}])
    /\ UNCHANGED lastEntry

UnassignEvent(e, d, p) ==
    /\ d \in SharedEvents /\ p \in ToSet(docs[d].assignees)
    /\ Read(e, "unassign", d,
            [Writing("assignees", Replace(SelectSeq(docs[d].assignees, LAMBDA q : q # p)))
               EXCEPT !.minus = {p}])
    /\ UNCHANGED lastEntry

\* updateEvent and updateLead with the assignees.
Assign(e, d, people) ==
    /\ Read(e, "assign", d,
            IF docs[d].assignees = people THEN Resting
            ELSE [Writing("assignees", Replace(people))
                    EXCEPT !.plus = ToSet(people), !.minus = People \ ToSet(people)])
    /\ UNCHANGED lastEntry

\* updateLead with a stage (that of an event is a text).
SetStage(e, d, stage) ==
    /\ d \in SharedLeads
    /\ Read(e, "setStage", d, Writing("stage", Change(docs[d].stage, stage)))
    /\ UNCHANGED lastEntry

\* A new entry: unshift for an event, push for a lead.
Noting(d) ==
    [Writing("timeline", IF d \in SharedEvents THEN Replace(<<lastEntry + 1>> \o docs[d].timeline)
                         ELSE Push(lastEntry + 1)) EXCEPT !.entry = lastEntry + 1]

AddTimeline(e, d) == Read(e, "addTimeline", d, Noting(d)) /\ lastEntry' = lastEntry + 1

DeleteEventTimeline(e, d, n) ==
    /\ d \in SharedEvents /\ n \in ToSet(docs[d].timeline)
    /\ Read(e, "deleteTimeline", d,
            [Writing("timeline", Replace(SelectSeq(docs[d].timeline, LAMBDA m : m # n)))
               EXCEPT !.dropped = n])
    /\ UNCHANGED lastEntry

\* confirmStage: the stage after the one that was read, and an entry.
ConfirmStage(e, d) ==
    LET next == docs[d].stage + 1 IN
    /\ d \in SharedLeads /\ next <= LastStage
    /\ Read(e, "confirmStage", d, [Noting(d) EXCEPT !.write["stage"] = Replace(next), !.confirms = TRUE])
    /\ lastEntry' = lastEntry + 1

\* An event gets an entry with either; a lead must be at its last stage.
ArchiveEvent(e, d, flag) ==
    /\ d \in SharedEvents
    /\ Read(e, IF flag THEN "archive" ELSE "unarchive", d,
            [Noting(d) EXCEPT !.write["archived"] = Change(docs[d].archived, flag)])
    /\ lastEntry' = lastEntry + 1
ArchiveLead(e, d) ==
    /\ d \in SharedLeads /\ docs[d].stage = LastStage
    /\ Read(e, "archive", d, Writing("archived", Change(docs[d].archived, TRUE)))
    /\ UNCHANGED lastEntry
UnarchiveLead(e, d) ==
    /\ d \in SharedLeads
    /\ Read(e, "unarchive", d, Writing("archived", Change(docs[d].archived, FALSE)))
    /\ UNCHANGED lastEntry

\* save(): every changed field as it is to be written.
Save(e) ==
    LET x == edits[e]  d == x.doc
        written == {f \in Fields : x.write[f] # Keep}
    IN
    /\ ~Free(e)
    /\ docs' = [docs EXCEPT
          ![d].assignees = After(@, x.write["assignees"]), ![d].timeline = After(@, x.write["timeline"]),
          ![d].stage = After(@, x.write["stage"]), ![d].archived = After(@, x.write["archived"])]
    /\ edits' = [f \in Editors |->
          IF f = e THEN Resting
          ELSE IF edits[f].doc = d /\ (written \cap {g \in Fields : edits[f].write[g] # Keep}) # {}
               THEN [edits[f] EXCEPT !.old = TRUE] ELSE edits[f]]
    /\ assignedTo' = [assignedTo EXCEPT ![d] = (@ \ x.minus) \cup x.plus]
    /\ noted' = [noted EXCEPT ![d] = (@ \cup ({x.entry} \ {0})) \ {x.dropped}]
    /\ stageDue' = [stageDue EXCEPT ![d] = IF x.confirms THEN @ + 1 ELSE After(@, x.write["stage"])]
    /\ crossed' = IF x.old THEN crossed \cup ({d} \X written) ELSE crossed
    /\ UNCHANGED <<lastEntry, docOps, editCount>>

DocsNext ==
    \/ \E d \in Docs, p \in People : CreateDoc(d, <<p>>)
    \/ \E e \in Editors, d \in Docs :
          \/ \E p \in People : SelfAssignEvent(e, d, p) \/ SelfAssignLead(e, d, p)
                               \/ UnassignEvent(e, d, p) \/ Assign(e, d, <<p>>)
          \/ \E s \in 1 .. LastStage : SetStage(e, d, s)
          \/ AddTimeline(e, d)
          \/ \E n \in 1 .. lastEntry : DeleteEventTimeline(e, d, n)
          \/ ConfirmStage(e, d)
          \/ \E flag \in BOOLEAN : ArchiveEvent(e, d, flag)
          \/ ArchiveLead(e, d) \/ UnarchiveLead(e, d)
    \/ \E e \in Editors : Save(e)

-----------------------------------------------------------------------------
\* Properties

\* Assignees are those assigned and not removed, each once, unless two
\* requests wrote them at the same time.
AssigneesAreExplained ==
    \A d \in Docs : <<d, "assignees">> \notin crossed =>
        /\ ToSet(docs[d].assignees) = assignedTo[d]
        /\ IsInjective(docs[d].assignees)

\* However they overlap, two people who assign themselves to an event are
\* both assigned as long as nobody removes or replaces assignees.
SelfAssignmentsAreKept ==
    docOps \cap {"unassign", "assign"} = {} =>
        \A d \in SharedEvents : assignedTo[d] \subseteq ToSet(docs[d].assignees)

\* A lead keeps every timeline entry, whoever adds others at the same time;
\* an event does unless two requests wrote its timeline at once.
TimelinesAreKept ==
    \A d \in Docs :
        (d \in SharedLeads \/ <<d, "timeline">> \notin crossed) => ToSet(docs[d].timeline) = noted[d]

\* Every confirmation takes a lead one stage further, from where the others
\* left it, unless two requests wrote its stage at the same time.
StagesAreExplained ==
    \A d \in SharedLeads : <<d, "stage">> \notin crossed => docs[d].stage = stageDue[d]

EditsAreExplained ==
    AssigneesAreExplained /\ SelfAssignmentsAreKept /\ TimelinesAreKept /\ StagesAreExplained
=============================================================================
