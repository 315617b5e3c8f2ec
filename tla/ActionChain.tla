----------------------------- MODULE ActionChain -----------------------------
(***************************************************************************)
(* Action chains: modules/event/eventActionChain (and its near copy for    *)
(* tasks, modules/job/taskActionChain).  A chain is a copy of a template's *)
(* steps, worked off one by one: saving the current step locks it and      *)
(* activates the next one, which the chosen result's branch decides.       *)
(*                                                                         *)
(* Every handler finds the chain, edits the document in memory and saves   *)
(* it.  markModified("steps") makes save() write the whole steps array;    *)
(* status and currentStepIndex are written when the handler changed them.  *)
(* There is no version key, so a save replaces what others saved since.    *)
(*                                                                         *)
(* Indexes count from 1 here.  Left out: delays and schedules, reasons,    *)
(* notes, results of block automations, activity logs.                     *)
(***************************************************************************)
EXTENDS Integers, FiniteSets, SequencesExt

CONSTANTS
    Chains,         \* pairs of an event and a template, one chain each
    Template,       \* the steps of the chain's template
    Actions,
    Results,        \* results a step may be saved with
    NewBranches,    \* bound: branches that upsertStepBranch is called with
    Handlers,       \* requests in flight at the same time
    None

NextStepTypes == {"close", "next", "other"}
Branches == [result : Results, type : NextStepTypes, next : Actions \cup {None}]

\* addChain sorts the steps by order.  A step's branches: the first of each
\* result, which shadows the others.
ASSUME ChainAssumption ==
    /\ IsFiniteSet(Handlers)
    /\ Template \in [Chains -> Seq([order : Nat \ {0}, action : Actions,
                                    branches : SUBSET Branches])]
    /\ \A c \in Chains : \A i, j \in DOMAIN Template[c] :
          i < j => Template[c][i].order <= Template[c][j].order
    /\ \A c \in Chains : \A i \in DOMAIN Template[c] :
          \A b1, b2 \in Template[c][i].branches : b1.result = b2.result => b1 = b2
    /\ NewBranches \subseteq Branches
    /\ None \notin Chains \cup Actions \cup Results \cup Nat \cup {"active", "closed"}

VARIABLES
    chains,     \* chain -> its document, or None
    work,       \* handler -> what it will save to which chain
    irregular   \* chains that left the ordinary course (history)

vars == <<chains, work, irregular>>

StepStatuses == {"pending", "active", "done", "skipped"}

-----------------------------------------------------------------------------
(* The document and what the handlers do to it.                            *)

Open(doc) == doc.status = "active"
Current(doc) == doc.steps[doc.index]
HasCurrent(doc) == doc.index \in DOMAIN doc.steps
AtOrder(doc, o) == {i \in DOMAIN doc.steps : doc.steps[i].order = o}
Orders(doc) == {doc.steps[i].order : i \in DOMAIN doc.steps}

NewStep(order, action, branches, status) ==
    [order |-> order, action |-> action, branches |-> branches,
     result |-> None, status |-> status, locked |-> FALSE]

\* addChain copies the template; the first step is active.
NewChain(c) ==
    [status |-> "active", index |-> 1,
     steps |-> [i \in DOMAIN Template[c] |->
                  NewStep(Template[c][i].order, Template[c][i].action,
                          Template[c][i].branches, IF i = 1 THEN "active" ELSE "pending")]]

MaySave(doc, result) ==
    /\ Open(doc) /\ HasCurrent(doc) /\ ~Current(doc).locked
    /\ Current(doc).branches # {} => result # None

LockCurrent(doc, result) ==
    [doc EXCEPT !.steps[doc.index] =
        [@ EXCEPT !.status = "done", !.locked = TRUE, !.result = result]]

Activate(doc, i) == [doc EXCEPT !.steps[i].status = "active", !.index = i]

Advance(doc) ==
    IF doc.index < Len(doc.steps) THEN Activate(doc, doc.index + 1) ELSE doc

\* next_in_chain: the first pending step with the action, else the next one.
GoToAction(doc, a) ==
    LET waiting == {i \in DOMAIN doc.steps :
                      doc.steps[i].action = a /\ doc.steps[i].status = "pending"}
    IN  IF waiting = {} THEN Advance(doc) ELSE Activate(doc, Min(waiting))

\* saveCurrentStep without an override: the branch of the result decides.
FollowBranch(doc, result) ==
    LET matched == {b \in Current(doc).branches : b.result = result}
        locked == LockCurrent(doc, result)
    IN  IF matched = {} THEN Advance(locked)
        ELSE LET b == CHOOSE b \in matched : TRUE
             IN  CASE b.type = "close" -> [locked EXCEPT !.status = "closed"]
                   [] b.type = "next" -> GoToAction(locked, b.next)
                   [] OTHER -> Advance(locked)

\* saveCurrentStep with nextStepOverride: the step of that order is next,
\* whatever its status, and a closing branch does not close.
Override(doc, result, o) ==
    Activate(LockCurrent(doc, result), Min(AtOrder(doc, o)))

\* (mutated form: without the duplicate check)
MayInjectAny(doc, a) == Open(doc)
MayInject(doc, a) == Open(doc) /\ \A i \in DOMAIN doc.steps : doc.steps[i].action # a

\* injectStep: behind position i (0 when the given order does not exist);
\* currentStepIndex is not adjusted.
Inject(doc, a, i) ==
    LET order == Max(Orders(doc) \cup {0}) + 1
        position == Min({i, Len(doc.steps)}) + 1
    IN  [doc EXCEPT !.steps = InsertAt(@, position, NewStep(order, a, {}, "pending"))]

\* upsertStepBranch and deleteStepBranch on a step that is not locked.
MayConfigure(doc, i) == Open(doc) /\ i \in DOMAIN doc.steps /\ ~doc.steps[i].locked
WithoutResult(branches, r) == {b \in branches : b.result # r}
SetBranch(doc, i, b) ==
    [doc EXCEPT !.steps[i].branches = WithoutResult(@, b.result) \cup {b}]
DropBranch(doc, i, r) == [doc EXCEPT !.steps[i].branches = WithoutResult(@, r)]

Close(doc) ==
    LET closed == [doc EXCEPT !.status = "closed"]
    IN  IF HasCurrent(doc) /\ ~Current(doc).locked
        THEN [closed EXCEPT !.steps[doc.index].status = "skipped"] ELSE closed

-----------------------------------------------------------------------------

\* What save() will write: the steps, and the other paths that changed.
\* (mutated form: all paths)
WriteAll(old, new) == new
Write(old, new) ==
    [steps |-> new.steps,
     status |-> IF new.status # old.status THEN new.status ELSE None,
     index |-> IF new.index # old.index THEN new.index ELSE None]
Saved(doc, write) ==
    [steps |-> write.steps,
     status |-> IF write.status # None THEN write.status ELSE doc.status,
     index |-> IF write.index # None THEN write.index ELSE doc.index]

\* The ordinary course ends when a save replaces another one, a step is
\* inserted before the current one, or a locked step is activated again.
ShiftsCurrent(old, new) ==
    \E i \in DOMAIN old.steps :
        i <= old.index /\ new.steps[i].order # old.steps[i].order
Reactivates(new) ==
    \E i \in DOMAIN new.steps : new.steps[i].locked /\ new.steps[i].status = "active"

Idle == [kind |-> "idle", chain |-> None, write |-> None, ordinary |-> TRUE]

Init ==
    /\ chains = [c \in Chains |-> None]
    /\ work = [h \in Handlers |-> Idle]
    /\ irregular = {}

\* h has read chain c and is about to save the edited document.
Edit(h, c, new) ==
    /\ work' = [work EXCEPT ![h] =
                  [kind |-> "save", chain |-> c, write |-> Write(chains[c], new),
                   ordinary |-> ~ShiftsCurrent(chains[c], new) /\ ~Reactivates(new)]]
    /\ UNCHANGED <<chains, irregular>>

Read(h, c) == work[h] = Idle /\ chains[c] # None

\* The unique index admits one chain per event and template.
AddChain(c) ==
    /\ chains[c] = None
    /\ chains' = [chains EXCEPT ![c] = NewChain(c)]
    /\ irregular' = irregular \ {c}
    /\ UNCHANGED work

SaveCurrentStep(h, c, result) ==
    /\ Read(h, c) /\ MaySave(chains[c], result)
    /\ \/ Edit(h, c, FollowBranch(chains[c], result))
       \/ \E o \in Orders(chains[c]) : Edit(h, c, Override(chains[c], result, o))

InjectStep(h, c, a) ==
    /\ Read(h, c) /\ MayInject(chains[c], a)
    /\ \E i \in 0 .. Len(chains[c].steps) : Edit(h, c, Inject(chains[c], a, i))

\* updateCurrentStepDelay, and executeBlockAutomationStep when the reply
\* has arrived: only data left out here changes, but all steps are saved.
\* updateStepNote does the same to closed chains as well.
UpdateStepData(h, c) ==
    /\ Read(h, c)
    /\ Edit(h, c, chains[c])

ConfigureStep(h, c, i) ==
    /\ Read(h, c) /\ MayConfigure(chains[c], i)
    /\ \/ \E b \in NewBranches : Edit(h, c, SetBranch(chains[c], i, b))
       \/ \E b \in chains[c].steps[i].branches :
             Edit(h, c, DropBranch(chains[c], i, b.result))

CloseChain(h, c) ==
    /\ Read(h, c) /\ Open(chains[c])
    /\ Edit(h, c, Close(chains[c]))

ReadDeleteChain(h, c) ==
    /\ Read(h, c) /\ Open(chains[c])
    /\ work' = [work EXCEPT ![h] =
                  [kind |-> "delete", chain |-> c, write |-> None, ordinary |-> TRUE]]
    /\ UNCHANGED <<chains, irregular>>

\* The copies that other requests hold of the chain are stale from now on.
SaveChain(h) ==
    LET c == work[h].chain
    IN  /\ work[h].kind = "save"
        /\ chains' = [chains EXCEPT ![c] = Saved(@, work[h].write)]
        /\ irregular' = IF work[h].ordinary THEN irregular ELSE irregular \cup {c}
        /\ work' = [k \in Handlers |->
                      IF k = h THEN Idle
                      ELSE IF work[k].chain = c THEN [work[k] EXCEPT !.ordinary = FALSE]
                      ELSE work[k]]

\* The requests still in flight on the deleted document fail or do nothing:
\* save() finds no document with its _id, even if the chain is added again.
DeleteChain(h) ==
    LET c == work[h].chain
    IN  /\ work[h].kind = "delete"
        /\ chains' = [chains EXCEPT ![c] = None]
        /\ work' = [k \in Handlers |-> IF work[k].chain = c THEN Idle ELSE work[k]]
        /\ UNCHANGED irregular

Next ==
    \/ \E c \in Chains :
          \/ AddChain(c)
          \/ \E h \in Handlers :
                \/ \E result \in Results \cup {None} : SaveCurrentStep(h, c, result)
                \/ \E a \in Actions : InjectStep(h, c, a)
                \/ \E i \in 1 .. Cardinality(Actions) : ConfigureStep(h, c, i)
                \/ UpdateStepData(h, c)
                \/ CloseChain(h, c)
                \/ ReadDeleteChain(h, c)
    \/ \E h \in Handlers : SaveChain(h) \/ DeleteChain(h)

Spec == Init /\ [][Next]_vars

-----------------------------------------------------------------------------

Steps ==
    [order : Nat, action : Actions, branches : SUBSET Branches,
     result : Results \cup {None}, status : StepStatuses, locked : BOOLEAN]
Writes == [status : {"active", "closed", None}, index : (Nat \ {0}) \cup {None},
           steps : Seq(Steps)]
Docs == [status : {"active", "closed"}, index : Nat \ {0}, steps : Seq(Steps)]
ASSUME NoDocument == None \notin Docs

TypeOK ==
    /\ chains \in [Chains -> Docs \cup {None}]
    /\ work \in [Handlers -> [kind : {"idle", "save", "delete"},
                              chain : Chains \cup {None},
                              write : Writes \cup {None}, ordinary : BOOLEAN]]
    /\ irregular \subseteq Chains

\* "closed: cannot be opened again" (eventActionChain.model), although
\* handlers that read the chain while it was open save it afterwards.
ClosedIsFinal ==
    [][\A c \in Chains :
          chains[c] # None /\ chains[c].status = "closed" /\ chains'[c] # None
          => chains'[c].status = "closed"]_vars

\* "Each action may be added only once" (injectStep): unless the template
\* repeats one itself, each action and each order occurs once in a chain,
\* whoever inserts steps at the same time.
Distinct(steps) ==
    \A i, j \in DOMAIN steps :
        steps[i].action = steps[j].action \/ steps[i].order = steps[j].order => i = j
StepsAreDistinct ==
    \A c \in Chains :
        chains[c] # None /\ Distinct(Template[c]) => Distinct(chains[c].steps)

\* A locked step whose results are configured has one of them, or another,
\* selected: nobody configures a step after it was saved without a result.
LockedStepsHaveResults ==
    \A c \in Chains : chains[c] # None =>
        \A i \in DOMAIN chains[c].steps :
            LET step == chains[c].steps[i]
            IN  step.locked /\ step.branches # {} => step.result # None

\* In the ordinary course a chain is worked off step by step: at most one
\* step is active, currentStepIndex points to it, and exactly the steps done
\* are locked.  The three ways out of it are the ones SaveChain names.
OneStepAtATime ==
    \A c \in Chains \ irregular : chains[c] # None =>
        \A i \in DOMAIN chains[c].steps :
            /\ chains[c].steps[i].status = "active" => i = chains[c].index
            /\ chains[c].steps[i].locked <=> chains[c].steps[i].status = "done"

\* All of it: a chain stays a sequence of distinct actions, worked off one by
\* one, whoever saves, inserts and configures its steps at the same time.
ChainIsInOrder ==
    TypeOK /\ StepsAreDistinct /\ LockedStepsHaveResults /\ OneStepAtATime
=============================================================================
