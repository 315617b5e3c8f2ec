------------------------------ MODULE References -------------------------------
(***************************************************************************)
(* Things that other documents refer to by id - results, reasons, actions  *)
(* and chains, roles and functions of the staff, groups, types, channels,  *)
(* categories, companies - and how they are deleted: the service looks for *)
(* references and refuses, or clears them if it is forced to, and deletes  *)
(* in a later call; who refers to a thing checks that it exists, or takes  *)
(* the id from a list the client has.  The look does not see a document    *)
(* that is soft-deleted; only users come back from that.  A behaviour is   *)
(* about one thing of one kind; the kinds differ in where they look, and   *)
(* in what order.                                                          *)
(***************************************************************************)
EXTENDS Integers, Sequences

CONSTANTS
    Deleters, Authors,
    ReferenceStarts,        \* bound: the kinds a behaviour may be about (AtRest: none)
    LastGeneration,         \* bound: how often the id is given again
    MaxReferenceRequests,
    Missing

Docs == 1..2

VARIABLES
    kind,
    target,         \* the generation of the thing, or Missing
    generation,     \* of the last thing with this id
    refs,           \* document -> the generation it refers to, or Missing
    hidden,         \* the documents that are soft-deleted and may be restored
    deleters,       \* request -> its force and the stages it still has to do, or Missing
    authors,        \* request -> [doc, seen]: what it is about to write, or Missing
    referenceRequests,
    overtaken       \* documents written too late for a deletion, or from one that
                    \* refers to something missing, or passed over by a look
                    \* that lets a deletion go on (history)

referenceVars == <<kind, target, generation, refs, hidden, deleters, authors, referenceRequests, overtaken>>

-----------------------------------------------------------------------------
\* The kinds: who refers to them, what is looked at and cleared in which
\* order, which documents' writers look the thing up, whether clients choose the id.

Look(classes) == [op |-> "look", of |-> classes]
Clear(classes) == [op |-> "clear", of |-> classes]
Kind(referrers, unforced, forces, forced, checked, chosen) ==
    [referrers |-> referrers, unforced |-> unforced, forces |-> forces, forced |-> forced,
     checked |-> checked, chosen |-> chosen]
Refusing(class, checked, chosen) ==
    Kind(<<class, class>>, <<Look({class})>>, FALSE, <<>>, checked, chosen)
Forcible(class, checked, chosen) ==
    Kind(<<class, class>>, <<Look({class})>>, TRUE, <<Clear({class})>>, checked, chosen)

Result == Forcible("branch", {}, FALSE)
Reason == Forcible("action", {}, FALSE)
ChainTemplate == Forcible("event chain", {"event chain"}, FALSE)
Role == Forcible("user", {"user"}, TRUE)
StaffFunction == Refusing("user", {"user"}, FALSE)
EventGroup == Refusing("event", {}, TRUE)
ProgrammeType == Refusing("programme", {"programme"}, FALSE)
TaskTypeGroup == Refusing("task type", {"task type"}, FALSE)
Channel == Kind(<<"child", "rule">>, <<Look({"child"}), Look({"rule"})>>, FALSE, <<>>, {"rule"}, FALSE)
Company == Kind(<<"staff", "revenue">>, <<Look({"staff"})>>, TRUE, <<Clear({"staff"})>>, {"revenue"}, FALSE)
CourseCategory == Kind(<<"child", "course">>, <<Look({"child"})>>, TRUE, <<Clear({"child"})>>, {}, FALSE)
KnowledgeCategory == Kind(<<"child", "article">>, <<Look({"child"})>>, TRUE, <<Clear({"child"})>>, {}, FALSE)
FinanceCategory ==
    Kind(<<"record", "plan">>, <<Look({"record"})>>, TRUE, <<Look({"record"}), Clear({"record"})>>,
         {"record", "plan"}, FALSE)
TaskType == Kind(<<"rule", "job">>, <<>>, FALSE, <<>>, {}, FALSE)
\* (mutated form: the branches that lead to the action are forgotten)
ActionOfSteps ==
    Kind(<<"step", "branch">>, <<Look({"step", "branch"})>>, TRUE, <<Clear({"step"})>>, {}, FALSE)
Action ==
    Kind(<<"step", "branch">>, <<Look({"step", "branch"})>>, TRUE, <<Clear({"step"}), Clear({"branch"})>>, {}, FALSE)

AllKinds == {Result, Reason, ChainTemplate, Role, StaffFunction, EventGroup, ProgrammeType, TaskTypeGroup,
             Channel, Company, CourseCategory, KnowledgeCategory, FinanceCategory, TaskType, Action}
AtRest == Kind(<<"nobody", "nobody">>, <<>>, FALSE, <<>>, {}, FALSE)

Class(d) == kind.referrers[d]
StagesOf(force) == IF force THEN kind.forced ELSE kind.unforced
Seen == UNION {StagesOf(force)[i].of : <<force, i>> \in
                 {p \in BOOLEAN \X (1..2) : p[2] <= Len(StagesOf(p[1]))}}
Referring(classes) == {d \in Docs : refs[d] # Missing /\ Class(d) \in classes}
Restorable == {"user"}

ReferencesInit ==
    /\ kind \in ReferenceStarts /\ target = 0 /\ generation = 0
    /\ refs \in [Docs -> {0, Missing}] /\ hidden = {}
    /\ deleters = [x \in Deleters |-> Missing] /\ authors = [w \in Authors |-> Missing]
    /\ referenceRequests = 0 /\ overtaken = {}

Arrives == kind # AtRest /\ referenceRequests < MaxReferenceRequests /\ referenceRequests' = referenceRequests + 1

-----------------------------------------------------------------------------
\* Deletion

StartDelete(x) ==
    /\ Arrives /\ deleters[x] = Missing /\ target # Missing
    /\ \E force \in BOOLEAN :
          /\ force => kind.forces
          /\ deleters' = [deleters EXCEPT ![x] = [force |-> force, todo |-> StagesOf(force)]]
    /\ UNCHANGED <<kind, target, generation, refs, hidden, authors, overtaken>>

Stage(x) == deleters[x].todo[1]
Doing(x, op) == deleters[x] # Missing /\ deleters[x].todo # <<>> /\ Stage(x).op = op

\* References found: the request is refused, unless it is forced and clears them
\* next.  find and countDocuments leave out what is soft-deleted.
LookFor(x) ==
    /\ Doing(x, "look")
    /\ LET found == Referring(Stage(x).of) \ hidden # {}
           force == deleters[x].force
           rest == IF force = found THEN Tail(deleters[x].todo) ELSE <<>>
       IN  /\ deleters' = [deleters EXCEPT ![x] =
                 IF found /\ ~force THEN Missing ELSE [force |-> force, todo |-> rest]]
           /\ overtaken' = IF found THEN overtaken ELSE overtaken \cup (Referring(Stage(x).of) \cap hidden)
    /\ UNCHANGED <<kind, target, generation, refs, hidden, authors, referenceRequests>>

\* The field is set to null, the entry pulled, or the document deleted;
\* updateMany is not filtered.
ClearAll(x) ==
    /\ Doing(x, "clear")
    /\ refs' = [d \in Docs |-> IF d \in Referring(Stage(x).of) THEN Missing ELSE refs[d]]
    /\ deleters' = [deleters EXCEPT ![x].todo = Tail(@)]
    /\ UNCHANGED <<kind, target, generation, hidden, authors, referenceRequests, overtaken>>

\* By its id, whatever has it now.
Delete(x) ==
    /\ deleters[x] # Missing /\ deleters[x].todo = <<>>
    /\ target' = Missing /\ deleters' = [deleters EXCEPT ![x] = Missing]
    /\ UNCHANGED <<kind, generation, refs, hidden, authors, referenceRequests, overtaken>>

\* An id that the client chooses is free again.
CreateAgain ==
    /\ kind.chosen /\ target = Missing /\ generation < LastGeneration
    /\ generation' = generation + 1 /\ target' = generation + 1
    /\ UNCHANGED <<kind, refs, hidden, deleters, authors, referenceRequests, overtaken>>

-----------------------------------------------------------------------------
\* References

\* The author has seen the thing, in his request or in a list.
StartWrite(w, d) ==
    /\ Arrives /\ authors[w] = Missing /\ refs[d] = Missing /\ target # Missing /\ d \notin hidden
    /\ authors' = [authors EXCEPT ![w] = [doc |-> d, seen |-> target]]
    /\ UNCHANGED <<kind, target, generation, refs, hidden, deleters, overtaken>>
\* Where the thing is checked, who asks for it in vain goes away.
GiveUp(w) ==
    /\ authors[w] # Missing /\ Class(authors[w].doc) \in kind.checked /\ target = Missing
    /\ authors' = [authors EXCEPT ![w] = Missing]
    /\ UNCHANGED <<kind, target, generation, refs, hidden, deleters, referenceRequests, overtaken>>

Overtook(c) ==
    \E x \in Deleters : /\ deleters[x] # Missing
                        /\ \A i \in 1..Len(deleters[x].todo) : c \notin deleters[x].todo[i].of
FinishWrite(w) ==
    /\ authors[w] # Missing
    /\ LET d == authors[w].doc IN
          /\ refs' = [refs EXCEPT ![d] = authors[w].seen]
          /\ overtaken' = IF target # authors[w].seen \/ Overtook(Class(d)) THEN overtaken \cup {d}
                          ELSE overtaken \ {d}
    /\ authors' = [authors EXCEPT ![w] = Missing]
    /\ UNCHANGED <<kind, target, generation, hidden, deleters, referenceRequests>>

\* A user is soft-deleted, and restored by restoreUserAccount, as he was.
SoftDelete(d) ==
    /\ Arrives /\ Class(d) \in Restorable /\ d \notin hidden
    /\ hidden' = hidden \cup {d}
    /\ UNCHANGED <<kind, target, generation, refs, deleters, authors, overtaken>>
Restore(d) ==
    /\ Arrives /\ d \in hidden
    /\ hidden' = hidden \ {d}
    /\ UNCHANGED <<kind, target, generation, refs, deleters, authors, overtaken>>

Unlink(d) ==
    /\ Arrives /\ refs[d] # Missing /\ d \notin hidden /\ refs' = [refs EXCEPT ![d] = Missing]
    /\ UNCHANGED <<kind, target, generation, hidden, deleters, authors, overtaken>>

\* The approval of a plan writes its category into its records, unchecked.
CopyFromPlan(d) ==
    /\ Arrives /\ Class(d) = "record" /\ refs[d] = Missing
    /\ \E plan \in Docs : Class(plan) = "plan" /\ refs[plan] # Missing /\ refs' = [refs EXCEPT ![d] = refs[plan]]
    /\ overtaken' = IF target = Missing \/ Overtook("record") THEN overtaken \cup {d} ELSE overtaken \ {d}
    /\ UNCHANGED <<kind, target, generation, hidden, deleters, authors>>

ReferencesNext ==
    \/ \E x \in Deleters : StartDelete(x) \/ LookFor(x) \/ ClearAll(x) \/ Delete(x)
    \/ CreateAgain
    \/ \E w \in Authors : GiveUp(w) \/ FinishWrite(w)
    \/ \E w \in Authors, d \in Docs : StartWrite(w, d)
    \/ \E d \in Docs : Unlink(d) \/ CopyFromPlan(d) \/ SoftDelete(d) \/ Restore(d)

-----------------------------------------------------------------------------
\* Property

\* Where references are looked for they lead to the thing they were made to,
\* not to nothing and not to a later thing with its id, except those that were
\* written between the look (or the clearing) and the deletion, and users that
\* were soft-deleted at the look.  Overlapping deletions, forced or not, and the
\* order in which places are visited lose nothing else.
ReferencesResolve ==
    \A d \in Docs :
        refs[d] # Missing /\ Class(d) \in Seen /\ d \notin hidden \cup overtaken => refs[d] = target
=============================================================================
