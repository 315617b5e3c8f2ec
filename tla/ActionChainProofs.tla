-------------------------- MODULE ActionChainProofs --------------------------
(* A closed chain stays closed: what a request saves is derived from the    *)
(* copy it read, so it writes status only to close the chain.  And a chain  *)
(* stays in order, whichever requests edit copies of it at the same time.   *)
EXTENDS ActionChain, Sums, SequenceTheorems

\* All the proof needs to know of a document: it has a status.
Shape(doc) == "status" \in DOMAIN doc

\* new is an edited copy of doc: a document, with the same status or closed.
Edited(doc, new) == Shape(new) /\ new.status \in {doc.status, "closed"}

IInv ==
    /\ DOMAIN chains = Chains
    /\ \A c \in Chains : chains[c] # None => Shape(chains[c])
    /\ DOMAIN work = Handlers
    /\ \A h \in Handlers : work[h].kind = "save" =>
          /\ work[h].chain \in Chains
          /\ work[h].write.status \in {None, "closed"}

LEMMA ActivateEdits ==
    ASSUME NEW doc, Shape(doc), NEW i
    PROVE  Edited(doc, Activate(doc, i))
  BY DEF Shape, Edited, Activate

LEMMA EditedTwice ==
    ASSUME NEW doc, NEW mid, NEW new, Edited(doc, mid), Edited(mid, new)
    PROVE  Edited(doc, new)
  BY DEF Edited

LEMMA AdvanceEdits ==
    ASSUME NEW doc, Shape(doc)
    PROVE  Edited(doc, Advance(doc))
  <1>1. CASE doc.index < Len(doc.steps)
    BY <1>1, ActivateEdits DEF Advance
  <1>2. CASE ~(doc.index < Len(doc.steps))
    BY <1>2 DEF Advance, Edited
  <1>. QED BY <1>1, <1>2

LEMMA GoToActionEdits ==
    ASSUME NEW doc, Shape(doc), NEW a
    PROVE  Edited(doc, GoToAction(doc, a))
  <1>. DEFINE waiting == {i \in DOMAIN doc.steps :
                            doc.steps[i].action = a /\ doc.steps[i].status = "pending"}
  <1>1. CASE waiting = {}
    BY <1>1, AdvanceEdits DEF GoToAction
  <1>2. CASE waiting # {}
    <2>1. GoToAction(doc, a) = Activate(doc, Min(waiting))
      BY <1>2 DEF GoToAction
    <2>. HIDE DEF waiting
    <2>. QED BY <2>1, ActivateEdits
  <1>. QED BY <1>1, <1>2

LEMMA LockCurrentEdits ==
    ASSUME NEW doc, Shape(doc), NEW result
    PROVE  Edited(doc, LockCurrent(doc, result))
  BY DEF Shape, Edited, LockCurrent

LEMMA FollowBranchEdits ==
    ASSUME NEW doc, Shape(doc), NEW result
    PROVE  Edited(doc, FollowBranch(doc, result))
  <1>. DEFINE matched == {b \in Current(doc).branches : b.result = result}
              locked == LockCurrent(doc, result)
              b == CHOOSE b \in matched : TRUE
  <1>1. Edited(doc, locked) /\ Shape(locked)
    BY LockCurrentEdits DEF Edited
  <1>2. CASE matched = {}
    <2>1. FollowBranch(doc, result) = Advance(locked)
      BY <1>2 DEF FollowBranch
    <2>. QED BY <2>1, <1>1, AdvanceEdits, EditedTwice
  <1>3. CASE matched # {}
    <2>2. CASE b.type = "close"
      <3>1. FollowBranch(doc, result) = [locked EXCEPT !.status = "closed"]
        BY <1>3, <2>2 DEF FollowBranch
      <3>. QED BY <3>1, <1>1 DEF Shape, Edited
    <2>3. CASE b.type = "next"
      <3>1. FollowBranch(doc, result) = GoToAction(locked, b.next)
        BY <1>3, <2>3 DEF FollowBranch
      <3>. QED BY <3>1, <1>1, GoToActionEdits, EditedTwice
    <2>4. CASE b.type \notin {"close", "next"}
      <3>1. FollowBranch(doc, result) = Advance(locked)
        BY <1>3, <2>4 DEF FollowBranch
      <3>. QED BY <3>1, <1>1, AdvanceEdits, EditedTwice
    <2>. QED BY <2>2, <2>3, <2>4
  <1>. QED BY <1>2, <1>3

LEMMA OverrideEdits ==
    ASSUME NEW doc, Shape(doc), NEW result, NEW o
    PROVE  Edited(doc, Override(doc, result, o))
  <1>1. Edited(doc, LockCurrent(doc, result))
    BY LockCurrentEdits
  <1>2. PICK i : Override(doc, result, o) = Activate(LockCurrent(doc, result), i)
    BY DEF Override
  <1>. QED BY <1>1, <1>2, ActivateEdits, EditedTwice DEF Edited

LEMMA OtherEdits ==
    ASSUME NEW doc, Shape(doc)
    PROVE  /\ Edited(doc, doc)
           /\ \A a, i : Edited(doc, Inject(doc, a, i))
           /\ \A i, b : Edited(doc, SetBranch(doc, i, b))
           /\ \A i, r : Edited(doc, DropBranch(doc, i, r))
           /\ Edited(doc, Close(doc))
  <1>1. Edited(doc, doc)
    BY DEF Edited
  <1>2. ASSUME NEW a, NEW i PROVE Edited(doc, Inject(doc, a, i))
    BY DEF Edited, Shape, Inject
  <1>3. ASSUME NEW i, NEW b PROVE Edited(doc, SetBranch(doc, i, b))
    BY DEF Edited, Shape, SetBranch
  <1>4. ASSUME NEW i, NEW r PROVE Edited(doc, DropBranch(doc, i, r))
    BY DEF Edited, Shape, DropBranch
  <1>5. Edited(doc, Close(doc))
    <2>. DEFINE closed == [doc EXCEPT !.status = "closed"]
    <2>1. Shape(closed) /\ closed.status = "closed"
      BY DEF Shape
    <2>2. CASE HasCurrent(doc) /\ ~Current(doc).locked
      <3>1. Close(doc) = [closed EXCEPT !.steps[doc.index].status = "skipped"]
        BY <2>2 DEF Close
      <3>. HIDE DEF closed
      <3>. QED BY <3>1, <2>1 DEF Edited, Shape
    <2>3. CASE ~(HasCurrent(doc) /\ ~Current(doc).locked)
      BY <2>1, <2>3 DEF Close, Edited
    <2>. QED BY <2>2, <2>3
  <1>. QED BY <1>1, <1>2, <1>3, <1>4, <1>5

\* Whatever a handler makes of the copy it read, it only ever closes.
LEMMA EditIInv ==
    ASSUME IInv, NEW h \in Handlers, NEW c \in Chains, NEW new,
           Edited(chains[c], new), Edit(h, c, new)
    PROVE  IInv'
  <1>1. Write(chains[c], new).status \in {None, "closed"}
    BY DEF Write, Edited
  <1>2. work'[h].chain = c /\ work'[h].write = Write(chains[c], new)
    BY DEF Edit, IInv
  <1>3. \A k \in Handlers \ {h} : work'[k] = work[k]
    BY DEF Edit, IInv
  <1>4. DOMAIN work' = Handlers
    BY DEF Edit, IInv
  <1>. QED BY <1>1, <1>2, <1>3, <1>4 DEF Edit, IInv

LEMMA InitIInv == Init => IInv
  BY DEF Init, IInv, Idle

LEMMA AddChainIInv ==
    ASSUME IInv, NEW c \in Chains, AddChain(c)
    PROVE  IInv'
  <1>1. Shape(NewChain(c))
    BY DEF Shape, NewChain
  <1>2. DOMAIN chains' = Chains
    BY DEF AddChain, IInv
  <1>3. \A d \in Chains : chains'[d] = IF d = c THEN NewChain(c) ELSE chains[d]
    BY DEF AddChain, IInv
  <1>. QED BY <1>1, <1>2, <1>3 DEF AddChain, IInv

LEMMA HandlerIInv ==
    ASSUME IInv, NEW h \in Handlers, NEW c \in Chains,
           \/ \E result \in Results \cup {None} : SaveCurrentStep(h, c, result)
           \/ \E a \in Actions : InjectStep(h, c, a)
           \/ \E i \in 1 .. Cardinality(Actions) : ConfigureStep(h, c, i)
           \/ UpdateStepData(h, c)
           \/ CloseChain(h, c)
    PROVE  IInv'
  <1>1. Shape(chains[c])
    BY DEF IInv, Read, SaveCurrentStep, InjectStep, ConfigureStep, UpdateStepData, CloseChain
  <1>2. PICK new : Edit(h, c, new) /\ Edited(chains[c], new)
    <2>1. CASE \E result \in Results \cup {None} : SaveCurrentStep(h, c, result)
      BY <1>1, <2>1, FollowBranchEdits, OverrideEdits DEF SaveCurrentStep
    <2>2. CASE \E a \in Actions : InjectStep(h, c, a)
      BY <1>1, <2>2, OtherEdits DEF InjectStep
    <2>3. CASE \E i \in 1 .. Cardinality(Actions) : ConfigureStep(h, c, i)
      BY <1>1, <2>3, OtherEdits DEF ConfigureStep
    <2>4. CASE UpdateStepData(h, c)
      BY <1>1, <2>4, OtherEdits DEF UpdateStepData
    <2>5. CASE CloseChain(h, c)
      BY <1>1, <2>5, OtherEdits DEF CloseChain
    <2>. QED BY <2>1, <2>2, <2>3, <2>4, <2>5
  <1>. QED BY <1>2, EditIInv

LEMMA ReadDeleteIInv ==
    ASSUME IInv, NEW h \in Handlers, NEW c \in Chains, ReadDeleteChain(h, c)
    PROVE  IInv'
  <1>1. \A k \in Handlers : work'[k] = work[k] \/ work'[k].kind = "delete"
    BY DEF ReadDeleteChain, IInv
  <1>. QED BY <1>1 DEF ReadDeleteChain, IInv

LEMMA SaveChainIInv ==
    ASSUME IInv, NEW h \in Handlers, SaveChain(h)
    PROVE  IInv'
  <1>. DEFINE c == work[h].chain
  <1>1. /\ DOMAIN chains' = Chains
        /\ \A d \in Chains :
              chains'[d] = IF d = c THEN Saved(chains[d], work[h].write) ELSE chains[d]
    BY DEF SaveChain, IInv
  <1>2. Shape(Saved(chains[c], work[h].write))
    BY DEF Shape, Saved
  <1>3. DOMAIN work' = Handlers
    BY DEF SaveChain
  <1>4. ASSUME NEW k \in Handlers, work'[k].kind = "save"
        PROVE  /\ work[k].kind = "save"
               /\ work'[k].chain = work[k].chain
               /\ work'[k].write = work[k].write
    BY <1>4 DEF SaveChain, Idle
  <1>. QED BY <1>1, <1>2, <1>3, <1>4 DEF IInv

LEMMA DeleteChainIInv ==
    ASSUME IInv, NEW h \in Handlers, DeleteChain(h)
    PROVE  IInv'
  <1>1. \A k \in Handlers : work'[k] = work[k] \/ work'[k].kind = "idle"
    BY DEF DeleteChain, Idle
  <1>2. DOMAIN work' = Handlers
    BY DEF DeleteChain
  <1>3. DOMAIN chains' = Chains /\ \A d \in Chains : chains'[d] \in {chains[d], None}
    BY DEF DeleteChain, IInv
  <1>. QED BY <1>1, <1>2, <1>3 DEF IInv

LEMMA NextIInv == ASSUME IInv, [Next]_vars PROVE IInv'
  <1>1. CASE \E c \in Chains : AddChain(c)
    BY <1>1, AddChainIInv
  <1>2. CASE \E c \in Chains, h \in Handlers :
               \/ \E result \in Results \cup {None} : SaveCurrentStep(h, c, result)
               \/ \E a \in Actions : InjectStep(h, c, a)
               \/ \E i \in 1 .. Cardinality(Actions) : ConfigureStep(h, c, i)
               \/ UpdateStepData(h, c)
               \/ CloseChain(h, c)
    BY <1>2, HandlerIInv
  <1>3. CASE \E c \in Chains, h \in Handlers : ReadDeleteChain(h, c)
    BY <1>3, ReadDeleteIInv
  <1>4. CASE \E h \in Handlers : SaveChain(h)
    BY <1>4, SaveChainIInv
  <1>5. CASE \E h \in Handlers : DeleteChain(h)
    BY <1>5, DeleteChainIInv
  <1>6. CASE UNCHANGED vars
    BY <1>6 DEF vars, IInv
  <1>. QED BY <1>1, <1>2, <1>3, <1>4, <1>5, <1>6 DEF Next

LEMMA ClosedStep ==
    ASSUME IInv, [Next]_vars, NEW c \in Chains,
           chains[c] # None, chains[c].status = "closed", chains'[c] # None
    PROVE  chains'[c].status = "closed"
  <1>1. CASE \E d \in Chains : AddChain(d)
    BY <1>1 DEF AddChain, IInv
  <1>2. CASE \E h \in Handlers : SaveChain(h)
    <2>1. PICK h \in Handlers : SaveChain(h)
      BY <1>2
    <2>2. chains'[c] = IF c = work[h].chain THEN Saved(chains[c], work[h].write) ELSE chains[c]
      BY <2>1 DEF SaveChain, IInv
    <2>3. work[h].write.status \in {None, "closed"}
      BY <2>1 DEF SaveChain, IInv
    <2>. QED BY <2>2, <2>3 DEF Saved
  <1>3. CASE \E h \in Handlers : DeleteChain(h)
    BY <1>3 DEF DeleteChain, IInv
  <1>4. CASE UNCHANGED chains
    BY <1>4
  <1>5. QED
    BY <1>1, <1>2, <1>3, <1>4
    DEF Next, vars, SaveCurrentStep, InjectStep, ConfigureStep, UpdateStepData,
        CloseChain, Edit, ReadDeleteChain

\* "closed: cannot be opened again", for any number of requests in flight.
THEOREM ClosedStaysClosed == Spec => ClosedIsFinal
  <1>1. Init => IInv
    BY InitIInv
  <1>2. IInv /\ [Next]_vars => IInv'
    BY NextIInv
  <1>3. IInv /\ [Next]_vars =>
          [\A c \in Chains :
             chains[c] # None /\ chains[c].status = "closed" /\ chains'[c] # None
             => chains'[c].status = "closed"]_vars
    BY ClosedStep
  <1>. QED BY <1>1, <1>2, <1>3, PTL DEF Spec, ClosedIsFinal

-----------------------------------------------------------------------------
(* A chain is in order.  A request saves what it made of the copy it read,  *)
(* so the invariant also says of everything still to be saved that it is in *)
(* order: always in what the steps are, and in the ordinary course also in  *)
(* how far they have come.                                                  *)

HasResults(steps) ==
    \A i \in DOMAIN steps : steps[i].locked /\ steps[i].branches # {} => steps[i].result # None

InOrder(doc) ==
    \A i \in DOMAIN doc.steps :
        /\ doc.steps[i].status = "active" => i = doc.index
        /\ doc.steps[i].locked <=> doc.steps[i].status = "done"

\* What h will save to the chain c that it read.
WillFit(h) ==
    LET c == work[h].chain
        w == work[h].write
    IN  /\ c \in Chains /\ w \in Writes /\ chains[c] # None
        /\ Distinct(Template[c]) => Distinct(w.steps)
        /\ HasResults(w.steps)
        /\ work[h].ordinary /\ c \notin irregular => InOrder(Saved(chains[c], w))

WInv == \A h \in Handlers : work[h].kind = "save" => WillFit(h)

\* Everything about the document of chain c.
DocFits(c) ==
    /\ Distinct(Template[c]) => Distinct(chains[c].steps)
    /\ HasResults(chains[c].steps)
    /\ c \notin irregular => InOrder(chains[c])

OrderInv == TypeOK /\ (\A c \in Chains : chains[c] # None => DocFits(c)) /\ WInv

\* new is a document with the steps that doc has, or one that may be added,
\* and in the ordinary course it has come as far as it says.
Fits(doc, new) ==
    /\ new \in Docs
    /\ Distinct(doc.steps) => Distinct(new.steps)
    /\ HasResults(doc.steps) => HasResults(new.steps)
    /\ InOrder(doc) /\ ~ShiftsCurrent(doc, new) /\ ~Reactivates(new) => InOrder(new)

LEMMA HasLeast ==
    ASSUME NEW S, IsFiniteSet(S), S # {}, \A x \in S : x \in Int
    PROVE  Min(S) \in S /\ \A y \in S : Min(S) <= y
  BY LeastElement DEF Min

LEMMA HasGreatest ==
    ASSUME NEW S, IsFiniteSet(S), S # {}, \A x \in S : x \in Int
    PROVE  Max(S) \in S /\ \A y \in S : Max(S) >= y
  BY GreatestElement DEF Max

LEMMA StepsOf ==
    ASSUME NEW doc \in Docs
    PROVE  /\ doc.steps \in Seq(Steps)
           /\ Len(doc.steps) \in Nat /\ DOMAIN doc.steps = 1 .. Len(doc.steps)
           /\ \A i \in DOMAIN doc.steps : doc.steps[i] \in Steps
  <1>1. doc.steps \in Seq(Steps)
    BY DEF Docs
  <1>. QED BY <1>1

\* The positions of the steps with a given property: a least one, if any.
LEMMA FirstPosition ==
    ASSUME NEW doc \in Docs, NEW S, S \subseteq DOMAIN doc.steps, S # {}
    PROVE  Min(S) \in S
  <1>1. DOMAIN doc.steps = 1 .. Len(doc.steps) /\ Len(doc.steps) \in Nat
    BY DEF Docs
  <1>2. IsFiniteSet(DOMAIN doc.steps)
    BY <1>1, FS_Interval
  <1>3. IsFiniteSet(S) /\ \A x \in S : x \in Int
    BY <1>1, <1>2, FS_Subset
  <1>. QED BY <1>3, HasLeast

\* The order of an inserted step is above all others.
LEMMA NewOrder ==
    ASSUME NEW doc \in Docs
    PROVE  /\ Max(Orders(doc) \cup {0}) \in Nat
           /\ \A i \in DOMAIN doc.steps : doc.steps[i].order <= Max(Orders(doc) \cup {0})
  <1>. DEFINE r == [i \in DOMAIN doc.steps |-> doc.steps[i].order]
              O == Orders(doc) \cup {0}
  <1>1. DOMAIN doc.steps = 1 .. Len(doc.steps) /\ Len(doc.steps) \in Nat
        /\ \A i \in DOMAIN doc.steps : doc.steps[i].order \in Nat
    BY StepsOf DEF Steps
  <1>2. IsFiniteSet(DOMAIN doc.steps)
    BY <1>1, FS_Interval
  <1>3. Orders(doc) = Image(r, DOMAIN doc.steps)
    BY DEF Orders, Image
  <1>4. IsFiniteSet(O)
    BY <1>2, <1>3, ImageIsFinite, FS_AddElement
  <1>5. (\A x \in O : x \in Nat) /\ O # {} /\ \A i \in DOMAIN doc.steps : doc.steps[i].order \in O
    BY <1>1 DEF Orders
  <1>. HIDE DEF O
  <1>8. \A x \in O : x \in Int
    BY <1>5
  <1>6. Max(O) \in O /\ \A y \in O : Max(O) >= y
    BY <1>4, <1>5, <1>8, HasGreatest
  <1>7. Max(O) \in Nat /\ \A i \in DOMAIN doc.steps : doc.steps[i].order <= Max(O)
    BY <1>1, <1>5, <1>6
  <1>. QED BY <1>7 DEF O

\* mid is doc with its current step locked; new may also have activated a
\* step, at its index.
Locked(doc, mid, result) ==
    /\ mid \in Docs /\ DOMAIN mid.steps = DOMAIN doc.steps
    /\ \A i \in DOMAIN doc.steps :
          mid.steps[i] = IF i = doc.index
                         THEN [doc.steps[i] EXCEPT !.status = "done", !.locked = TRUE,
                                                   !.result = result]
                         ELSE doc.steps[i]

Follows(doc, new, result) ==
    /\ new \in Docs /\ DOMAIN new.steps = DOMAIN doc.steps
    /\ \A i \in DOMAIN doc.steps :
          LET old == doc.steps[i]
              step == new.steps[i]
          IN  /\ step.order = old.order /\ step.action = old.action
              /\ step.branches = old.branches
              /\ step.result = IF i = doc.index THEN result ELSE old.result
              /\ step.locked = (old.locked \/ i = doc.index)
              /\ \/ i = new.index /\ step.status = "active"
                 \/ step.status = IF i = doc.index THEN "done" ELSE old.status

LEMMA StepsWith ==
    ASSUME NEW doc \in Docs, NEW steps \in Seq(Steps)
    PROVE  \A new : /\ new = [doc EXCEPT !.steps = steps]
                    => new \in Docs /\ new.steps = steps /\ new.index = doc.index
                       /\ new.status = doc.status
  BY DEF Docs

LEMMA StepWith ==
    ASSUME NEW doc \in Docs, NEW i \in DOMAIN doc.steps, NEW step \in Steps,
           NEW new, new = [doc EXCEPT !.steps = [@ EXCEPT ![i] = step]]
    PROVE  /\ new \in Docs /\ DOMAIN new.steps = DOMAIN doc.steps
           /\ new.index = doc.index /\ new.status = doc.status
           /\ \A j \in DOMAIN doc.steps :
                 new.steps[j] = IF j = i THEN step ELSE doc.steps[j]
  <1>1. [doc.steps EXCEPT ![i] = step] \in Seq(Steps)
    BY StepsOf
  <1>3. new = [doc EXCEPT !.steps = [doc.steps EXCEPT ![i] = step]]
    OBVIOUS
  <1>2. /\ new \in Docs /\ new.steps = [doc.steps EXCEPT ![i] = step]
        /\ new.index = doc.index /\ new.status = doc.status
    <2>. DEFINE steps == [doc.steps EXCEPT ![i] = step]
    <2>1. steps \in Seq(Steps) /\ new = [doc EXCEPT !.steps = steps]
      BY <1>1, <1>3
    <2>. HIDE DEF steps
    <2>2. new \in Docs /\ new.steps = steps /\ new.index = doc.index /\ new.status = doc.status
      BY <2>1 DEF Docs
    <2>. QED BY <2>2 DEF steps
  <1>. QED BY <1>2, StepsOf

LEMMA LockCurrentLocks ==
    ASSUME NEW doc \in Docs, NEW result \in Results \cup {None}, HasCurrent(doc)
    PROVE  Locked(doc, LockCurrent(doc, result), result)
  <1>. DEFINE step == [doc.steps[doc.index] EXCEPT !.status = "done", !.locked = TRUE,
                                                   !.result = result]
              new == LockCurrent(doc, result)
  <1>1. doc.index \in DOMAIN doc.steps
    BY DEF HasCurrent
  <1>2. step \in Steps
    <2>1. doc.steps[doc.index] \in Steps
      BY <1>1, StepsOf
    <2>. QED BY <2>1 DEF Steps, StepStatuses
  <1>3. new = [doc EXCEPT !.steps = [@ EXCEPT ![doc.index] = step]]
    BY DEF LockCurrent
  <1>. HIDE DEF new
  <1>4. /\ new \in Docs /\ DOMAIN new.steps = DOMAIN doc.steps
        /\ \A j \in DOMAIN doc.steps :
              new.steps[j] = IF j = doc.index THEN step ELSE doc.steps[j]
    <2>. HIDE DEF step
    <2>. QED BY <1>1, <1>2, <1>3, StepWith
  <1>5. Locked(doc, new, result)
    BY <1>4 DEF Locked
  <1>. QED BY <1>5 DEF new

LEMMA LockedFollows ==
    ASSUME NEW doc \in Docs, NEW result \in Results \cup {None},
           NEW mid, Locked(doc, mid, result)
    PROVE  /\ Follows(doc, mid, result)
           /\ Follows(doc, [mid EXCEPT !.status = "closed"], result)
  <1>1. /\ mid \in Docs /\ DOMAIN mid.steps = DOMAIN doc.steps
        /\ \A i \in DOMAIN doc.steps :
              LET old == doc.steps[i]
                  step == mid.steps[i]
              IN  /\ step.order = old.order /\ step.action = old.action
                  /\ step.branches = old.branches
                  /\ step.result = IF i = doc.index THEN result ELSE old.result
                  /\ step.locked = (old.locked \/ i = doc.index)
                  /\ step.status = IF i = doc.index THEN "done" ELSE old.status
    <2>1. mid \in Docs /\ DOMAIN mid.steps = DOMAIN doc.steps
      BY DEF Locked
    <2>2. ASSUME NEW i \in DOMAIN doc.steps
          PROVE  LET old == doc.steps[i]
                     step == mid.steps[i]
                 IN  /\ step.order = old.order /\ step.action = old.action
                     /\ step.branches = old.branches
                     /\ step.result = IF i = doc.index THEN result ELSE old.result
                     /\ step.locked = (old.locked \/ i = doc.index)
                     /\ step.status = IF i = doc.index THEN "done" ELSE old.status
      <3>1. doc.steps[i] \in Steps
        BY StepsOf
      <3>2. mid.steps[i] = IF i = doc.index
                           THEN [doc.steps[i] EXCEPT !.status = "done", !.locked = TRUE,
                                                     !.result = result]
                           ELSE doc.steps[i]
        BY DEF Locked
      <3>3. CASE i = doc.index
        BY <3>1, <3>2, <3>3 DEF Steps
      <3>4. CASE i # doc.index
        BY <3>1, <3>2, <3>4 DEF Steps
      <3>. QED BY <3>3, <3>4
    <2>. QED BY <2>1, <2>2
  <1>. DEFINE closed == [mid EXCEPT !.status = "closed"]
  <1>2. closed \in Docs /\ closed.steps = mid.steps /\ closed.index = mid.index
    BY <1>1 DEF Docs
  <1>3. Follows(doc, mid, result)
    BY <1>1 DEF Follows
  <1>4. Follows(doc, closed, result)
    <2>. HIDE DEF closed
    <2>. QED BY <1>1, <1>2 DEF Follows
  <1>. QED BY <1>3, <1>4

LEMMA ActivateFollows ==
    ASSUME NEW doc \in Docs, NEW result \in Results \cup {None},
           NEW mid, Locked(doc, mid, result), NEW i \in DOMAIN doc.steps
    PROVE  Follows(doc, Activate(mid, i), result)
  <1>. DEFINE step == [mid.steps[i] EXCEPT !.status = "active"]
              once == [mid EXCEPT !.steps = [@ EXCEPT ![i] = step]]
              new == Activate(mid, i)
  <1>1. /\ mid \in Docs /\ i \in DOMAIN mid.steps /\ DOMAIN mid.steps = DOMAIN doc.steps
        /\ i \in Nat \ {0} /\ mid.steps[i] \in Steps
    <2>1. mid \in Docs /\ DOMAIN mid.steps = DOMAIN doc.steps
      BY DEF Locked
    <2>2. i \in 1 .. Len(doc.steps) /\ Len(doc.steps) \in Nat
      BY StepsOf
    <2>3. mid.steps[i] \in Steps
      BY <2>1, StepsOf
    <2>. QED BY <2>1, <2>2, <2>3
  <1>2. /\ step \in Steps /\ step.order = mid.steps[i].order
        /\ step.action = mid.steps[i].action /\ step.branches = mid.steps[i].branches
        /\ step.result = mid.steps[i].result /\ step.locked = mid.steps[i].locked
        /\ step.status = "active"
    BY <1>1 DEF Steps, StepStatuses
  <1>3. /\ once \in Docs /\ DOMAIN once.steps = DOMAIN mid.steps
        /\ \A j \in DOMAIN mid.steps :
              once.steps[j] = IF j = i THEN step ELSE mid.steps[j]
    <2>. HIDE DEF step
    <2>. QED BY <1>1, <1>2, StepWith
  <1>4. new = [once EXCEPT !.index = i]
    BY <1>1 DEF Activate, Docs
  <1>5. new \in Docs /\ new.steps = once.steps /\ new.index = i
    <2>. HIDE DEF once, new
    <2>. QED BY <1>1, <1>3, <1>4 DEF Docs
  <1>6. Follows(doc, mid, result)
    BY LockedFollows
  <1>7. \A j \in DOMAIN doc.steps :
           mid.steps[j].status = IF j = doc.index THEN "done" ELSE doc.steps[j].status
    <2>1. ASSUME NEW j \in DOMAIN doc.steps
          PROVE  mid.steps[j].status = IF j = doc.index THEN "done" ELSE doc.steps[j].status
      <3>1. doc.steps[j] \in Steps
        BY StepsOf
      <3>2. CASE j = doc.index
        BY <3>1, <3>2 DEF Locked, Steps
      <3>3. CASE j # doc.index
        BY <3>3 DEF Locked
      <3>. QED BY <3>2, <3>3
    <2>. QED BY <2>1
  <1>. HIDE DEF step, once, new
  <1>8. Follows(doc, new, result)
    BY <1>1, <1>2, <1>3, <1>5, <1>6, <1>7 DEF Follows
  <1>. QED BY <1>8 DEF new

LEMMA AdvanceFollows ==
    ASSUME NEW doc \in Docs, NEW result \in Results \cup {None},
           NEW mid, Locked(doc, mid, result)
    PROVE  Follows(doc, Advance(mid), result)
  <1>1. CASE mid.index < Len(mid.steps)
    <2>1. mid.index + 1 \in DOMAIN mid.steps /\ DOMAIN mid.steps = DOMAIN doc.steps
      <3>1. mid \in Docs /\ DOMAIN mid.steps = DOMAIN doc.steps
        BY DEF Locked
      <3>2. /\ mid.index \in Nat \ {0} /\ Len(mid.steps) \in Nat
            /\ DOMAIN mid.steps = 1 .. Len(mid.steps)
        BY <3>1, StepsOf DEF Docs
      <3>. QED BY <1>1, <3>1, <3>2
    <2>. QED BY <1>1, <2>1, ActivateFollows DEF Advance
  <1>2. CASE ~(mid.index < Len(mid.steps))
    BY <1>2, LockedFollows DEF Advance
  <1>. QED BY <1>1, <1>2

LEMMA GoToActionFollows ==
    ASSUME NEW doc \in Docs, NEW result \in Results \cup {None},
           NEW mid, Locked(doc, mid, result), NEW a
    PROVE  Follows(doc, GoToAction(mid, a), result)
  <1>. DEFINE waiting == {i \in DOMAIN mid.steps :
                            mid.steps[i].action = a /\ mid.steps[i].status = "pending"}
  <1>0. mid \in Docs /\ DOMAIN mid.steps = DOMAIN doc.steps
    BY DEF Locked
  <1>1. CASE waiting = {}
    BY <1>1, AdvanceFollows DEF GoToAction
  <1>2. CASE waiting # {}
    <2>1. GoToAction(mid, a) = Activate(mid, Min(waiting))
      BY <1>2 DEF GoToAction
    <2>2. waiting \subseteq DOMAIN mid.steps
      OBVIOUS
    <2>. HIDE DEF waiting
    <2>3. Min(waiting) \in DOMAIN doc.steps
      BY <1>0, <1>2, <2>2, FirstPosition
    <2>. QED BY <2>1, <2>3, ActivateFollows
  <1>. QED BY <1>1, <1>2

LEMMA FollowBranchFollows ==
    ASSUME NEW doc \in Docs, NEW result \in Results \cup {None}, MaySave(doc, result)
    PROVE  Follows(doc, FollowBranch(doc, result), result)
  <1>. DEFINE matched == {b \in Current(doc).branches : b.result = result}
              locked == LockCurrent(doc, result)
              b == CHOOSE b \in matched : TRUE
  <1>1. Locked(doc, locked, result)
    BY LockCurrentLocks DEF MaySave
  <1>2. CASE matched = {}
    <2>1. FollowBranch(doc, result) = Advance(locked)
      BY <1>2 DEF FollowBranch
    <2>. QED BY <2>1, <1>1, AdvanceFollows
  <1>3. CASE matched # {}
    <2>2. CASE b.type = "close"
      <3>1. FollowBranch(doc, result) = [locked EXCEPT !.status = "closed"]
        BY <1>3, <2>2 DEF FollowBranch
      <3>. QED BY <3>1, <1>1, LockedFollows
    <2>3. CASE b.type = "next"
      <3>1. FollowBranch(doc, result) = GoToAction(locked, b.next)
        BY <1>3, <2>3 DEF FollowBranch
      <3>. QED BY <3>1, <1>1, GoToActionFollows
    <2>4. CASE b.type \notin {"close", "next"}
      <3>1. FollowBranch(doc, result) = Advance(locked)
        BY <1>3, <2>4 DEF FollowBranch
      <3>. QED BY <3>1, <1>1, AdvanceFollows
    <2>. QED BY <2>2, <2>3, <2>4
  <1>. QED BY <1>2, <1>3

LEMMA OverrideFollows ==
    ASSUME NEW doc \in Docs, NEW result \in Results \cup {None}, MaySave(doc, result),
           NEW o \in Orders(doc)
    PROVE  Follows(doc, Override(doc, result, o), result)
  <1>1. Locked(doc, LockCurrent(doc, result), result)
    BY LockCurrentLocks DEF MaySave
  <1>2. AtOrder(doc, o) # {} /\ AtOrder(doc, o) \subseteq DOMAIN doc.steps
    BY DEF Orders, AtOrder
  <1>3. Min(AtOrder(doc, o)) \in DOMAIN doc.steps
    BY <1>2, FirstPosition
  <1>. QED BY <1>1, <1>3, ActivateFollows DEF Override

\* Saving the current step.
LEMMA SaveFits ==
    ASSUME NEW doc \in Docs, NEW result \in Results \cup {None}, MaySave(doc, result),
           NEW new, Follows(doc, new, result)
    PROVE  Fits(doc, new)
  <1>1. Distinct(doc.steps) => Distinct(new.steps)
    BY DEF Follows, Distinct
  <1>2. ASSUME HasResults(doc.steps) PROVE HasResults(new.steps)
    <2>. SUFFICES ASSUME NEW i \in DOMAIN doc.steps, new.steps[i].locked,
                         new.steps[i].branches # {}
                  PROVE  new.steps[i].result # None
      BY DEF Follows, HasResults
    <2>1. /\ new.steps[i].branches = doc.steps[i].branches
          /\ new.steps[i].result = IF i = doc.index THEN result ELSE doc.steps[i].result
          /\ new.steps[i].locked = (doc.steps[i].locked \/ i = doc.index)
      BY DEF Follows
    <2>2. CASE i = doc.index
      BY <2>1, <2>2 DEF MaySave, Current
    <2>3. CASE i # doc.index
      BY <1>2, <2>1, <2>3 DEF HasResults
    <2>. QED BY <2>2, <2>3
  <1>3. ASSUME InOrder(doc), ~Reactivates(new) PROVE InOrder(new)
    <2>. SUFFICES ASSUME NEW i \in DOMAIN doc.steps
                  PROVE  /\ new.steps[i].status = "active" => i = new.index
                         /\ new.steps[i].locked <=> new.steps[i].status = "done"
      BY DEF Follows, InOrder
    <2>1. /\ doc.steps[i].status = "active" => i = doc.index
          /\ doc.steps[i].locked <=> doc.steps[i].status = "done"
      BY <1>3 DEF InOrder
    <2>2. ~(new.steps[i].locked /\ new.steps[i].status = "active")
      BY <1>3 DEF Reactivates, Follows
    <2>3. /\ new.steps[i].locked = (doc.steps[i].locked \/ i = doc.index)
          /\ \/ i = new.index /\ new.steps[i].status = "active"
             \/ new.steps[i].status = IF i = doc.index THEN "done" ELSE doc.steps[i].status
      BY DEF Follows
    <2>7. new.steps[i].locked \in BOOLEAN /\ doc.steps[i].locked \in BOOLEAN
      BY StepsOf DEF Follows, Steps
    <2>4. CASE i = new.index /\ new.steps[i].status = "active"
      BY <2>2, <2>4
    <2>5. CASE i = doc.index /\ new.steps[i].status = "done"
      BY <2>3, <2>5
    <2>6. CASE i # doc.index /\ new.steps[i].status = doc.steps[i].status
      BY <2>1, <2>3, <2>6, <2>7
    <2>. QED BY <2>3, <2>4, <2>5, <2>6
  <1>. QED BY <1>1, <1>2, <1>3 DEF Follows, Fits

\* A step inserted into a sequence shifts those behind it.
LEMMA Inserted ==
    ASSUME NEW S, NEW s \in Seq(S), NEW e \in S, NEW p \in 1 .. Len(s) + 1
    PROVE  /\ InsertAt(s, p, e) \in Seq(S)
           /\ DOMAIN InsertAt(s, p, e) = 1 .. Len(s) + 1
           /\ \A j \in 1 .. Len(s) + 1 :
                 InsertAt(s, p, e)[j] = IF j < p THEN s[j] ELSE IF j = p THEN e ELSE s[j - 1]
  <1>. DEFINE front == SubSeq(s, 1, p - 1)
              back == SubSeq(s, p, Len(s))
              t == InsertAt(s, p, e)
  <1>0. Len(s) \in Nat /\ p \in Nat
    OBVIOUS
  <1>1. /\ front \in Seq(S) /\ Len(front) = p - 1
        /\ \A j \in 1 .. p - 1 : front[j] = s[j]
    BY <1>0, SubSeqProperties
  <1>2. /\ back \in Seq(S) /\ Len(back) = Len(s) - p + 1
        /\ \A j \in 1 .. Len(s) - p + 1 : back[j] = s[j + p - 1]
    BY <1>0, SubSeqProperties
  <1>3. t = front \o <<e>> \o back
    BY DEF InsertAt
  <1>. HIDE DEF front, back, t
  <1>4. t \in Seq(S) /\ Len(t) = Len(s) + 1
    <2>1. <<e>> \in Seq(S) /\ Len(<<e>>) = 1
      OBVIOUS
    <2>2. front \o <<e>> \in Seq(S) /\ Len(front \o <<e>>) = p
      BY <1>0, <1>1, <2>1, ConcatProperties
    <2>3. t \in Seq(S) /\ Len(t) = p + Len(back)
      BY <1>2, <1>3, <2>2, ConcatProperties
    <2>. QED BY <1>0, <1>2, <2>3
  <1>5. ASSUME NEW j \in 1 .. Len(s) + 1
        PROVE  t[j] = IF j < p THEN s[j] ELSE IF j = p THEN e ELSE s[j - 1]
    <2>1. CASE j < p
      BY <1>0, <1>1, <1>2, <1>3, <2>1
    <2>2. CASE j = p
      BY <1>0, <1>1, <1>2, <1>3, <2>2
    <2>3. CASE j > p
      <3>1. t[j] = back[j - p]
        BY <1>0, <1>1, <1>2, <1>3, <2>3
      <3>2. back[j - p] = s[j - 1]
        BY <1>0, <1>2, <2>3
      <3>. QED BY <1>0, <2>3, <3>1, <3>2
    <2>. QED BY <1>0, <2>1, <2>2, <2>3
  <1>6. DOMAIN t = 1 .. Len(s) + 1
    BY <1>0, <1>4
  <1>. QED BY <1>4, <1>5, <1>6 DEF t

LEMMA InjectFits ==
    ASSUME NEW doc \in Docs, NEW a \in Actions, MayInject(doc, a),
           NEW i \in 0 .. Len(doc.steps)
    PROVE  Fits(doc, Inject(doc, a, i))
  <1>. DEFINE order == Max(Orders(doc) \cup {0}) + 1
              p == Min({i, Len(doc.steps)}) + 1
              e == NewStep(order, a, {}, "pending")
              n == Len(doc.steps)
              new == Inject(doc, a, i)
  <1>1. n \in Nat /\ doc.steps \in Seq(Steps) /\ DOMAIN doc.steps = 1 .. n
    BY StepsOf
  <1>2. p = i + 1
    <2>1. \E x \in {i, n} : \A y \in {i, n} : x <= y
      BY <1>1
    <2>2. Min({i, n}) \in {i, n} /\ Min({i, n}) <= i /\ Min({i, n}) <= n
      BY <2>1 DEF Min
    <2>4. i \in Nat /\ i <= n
      BY <1>1
    <2>. HIDE DEF n
    <2>. DEFINE m == Min({i, n})
    <2>3. (m = i \/ m = n) /\ m <= i /\ m <= n
      BY <2>2
    <2>. HIDE DEF m
    <2>5. m = i
      BY <1>1, <2>3, <2>4
    <2>. QED BY <2>5 DEF m, n
  <1>3. order \in Nat /\ \A j \in DOMAIN doc.steps : doc.steps[j].order < order
    <2>. DEFINE m == Max(Orders(doc) \cup {0})
    <2>1. m \in Nat /\ \A j \in DOMAIN doc.steps : doc.steps[j].order <= m
      BY NewOrder
    <2>2. \A j \in DOMAIN doc.steps : doc.steps[j].order \in Nat
      BY StepsOf DEF Steps
    <2>. HIDE DEF m
    <2>3. m + 1 \in Nat /\ \A j \in DOMAIN doc.steps : doc.steps[j].order < m + 1
      BY <2>1, <2>2
    <2>. QED BY <2>3 DEF m
  <1>. HIDE DEF order, p, n
  <1>4. /\ e \in Steps /\ e.order = order /\ e.action = a /\ e.branches = {}
        /\ e.status = "pending" /\ e.locked = FALSE
    BY <1>3 DEF Steps, StepStatuses, NewStep
  <1>5. new = [doc EXCEPT !.steps = InsertAt(doc.steps, p, e)]
    BY DEF Inject, p, order, n
  <1>6. p \in 1 .. n + 1
    BY <1>1, <1>2 DEF n
  <1>. HIDE DEF e, new
  <1>7. /\ InsertAt(doc.steps, p, e) \in Seq(Steps)
        /\ DOMAIN InsertAt(doc.steps, p, e) = 1 .. n + 1
        /\ \A j \in 1 .. n + 1 : InsertAt(doc.steps, p, e)[j] =
              IF j < p THEN doc.steps[j] ELSE IF j = p THEN e ELSE doc.steps[j - 1]
    <2>. DEFINE s == doc.steps
    <2>1. s \in Seq(Steps) /\ e \in Steps /\ p \in 1 .. Len(s) + 1
      BY <1>1, <1>4, <1>6 DEF n
    <2>. HIDE DEF s
    <2>2. InsertAt(s, p, e) \in Seq(Steps) /\ DOMAIN InsertAt(s, p, e) = 1 .. Len(s) + 1
      BY <2>1, Inserted
    <2>3. \A j \in 1 .. Len(s) + 1 :
             InsertAt(s, p, e)[j] = IF j < p THEN s[j] ELSE IF j = p THEN e ELSE s[j - 1]
      BY <2>1, Inserted
    <2>. QED BY <2>2, <2>3 DEF n, s
  <1>8. /\ new \in Docs /\ new.index = doc.index
        /\ new.steps = InsertAt(doc.steps, p, e)
    BY <1>5, <1>7, StepsWith
  <1>9. /\ DOMAIN new.steps = 1 .. n + 1
        /\ \A j \in 1 .. n + 1 : new.steps[j] =
              IF j < p THEN doc.steps[j] ELSE IF j = p THEN e ELSE doc.steps[j - 1]
    BY <1>7, <1>8
  <1>10. \A j \in DOMAIN doc.steps : doc.steps[j].action # a /\ doc.steps[j].order # order
    <2>1. \A j \in DOMAIN doc.steps : doc.steps[j].order \in Nat
      BY StepsOf DEF Steps
    <2>. QED BY <1>3, <2>1 DEF MayInject
  \* Where each step of the new sequence comes from.
  <1>11. \A j \in 1 .. n + 1 :
            \/ j = p /\ new.steps[j] = e
            \/ j < p /\ j \in 1 .. n /\ new.steps[j] = doc.steps[j]
            \/ j > p /\ j - 1 \in 1 .. n /\ new.steps[j] = doc.steps[j - 1]
    BY <1>1, <1>6, <1>9
  <1>16. \A j \in 1 .. n + 1 :
            IF j = p THEN new.steps[j].action = a /\ new.steps[j].order = order
            ELSE new.steps[j].action # a /\ new.steps[j].order # order
    <2>. SUFFICES ASSUME NEW j \in 1 .. n + 1
                  PROVE  IF j = p THEN new.steps[j].action = a /\ new.steps[j].order = order
                         ELSE new.steps[j].action # a /\ new.steps[j].order # order
      OBVIOUS
    <2>1. CASE j = p
      BY <1>4, <1>11, <2>1
    <2>2. CASE j # p
      <3>1. PICK x \in 1 .. n : new.steps[j] = doc.steps[x]
        BY <1>11, <2>2
      <3>. QED BY <1>1, <1>10, <2>2, <3>1
    <2>. QED BY <2>1, <2>2
  <1>12. ASSUME Distinct(doc.steps) PROVE Distinct(new.steps)
    <2>. SUFFICES ASSUME NEW j \in 1 .. n + 1, NEW k \in 1 .. n + 1,
                         \/ new.steps[j].action = new.steps[k].action
                         \/ new.steps[j].order = new.steps[k].order
                  PROVE  j = k
      BY <1>9 DEF Distinct
    <2>1. \A x, y \in 1 .. n : doc.steps[x].action = doc.steps[y].action
                               \/ doc.steps[x].order = doc.steps[y].order => x = y
      BY <1>1, <1>12 DEF Distinct
    <2>2. CASE j = p
      BY <1>16, <2>2
    <2>3. CASE k = p
      BY <1>16, <2>3
    <2>4. CASE j < p /\ k < p
      BY <1>11, <1>6, <2>1, <2>4
    <2>5. CASE j < p /\ k > p
      <3>1. /\ j \in 1 .. n /\ new.steps[j] = doc.steps[j]
            /\ k - 1 \in 1 .. n /\ new.steps[k] = doc.steps[k - 1]
        BY <1>1, <1>6, <1>11, <2>5
      <3>2. j = k - 1
        BY <2>1, <3>1
      <3>. QED BY <1>1, <1>6, <2>5, <3>2
    <2>6. CASE j > p /\ k < p
      <3>1. /\ j - 1 \in 1 .. n /\ new.steps[j] = doc.steps[j - 1]
            /\ k \in 1 .. n /\ new.steps[k] = doc.steps[k]
        BY <1>1, <1>6, <1>11, <2>6
      <3>2. j - 1 = k
        BY <2>1, <3>1
      <3>. QED BY <1>1, <1>6, <2>6, <3>2
    <2>7. CASE j > p /\ k > p
      <3>1. /\ j - 1 \in 1 .. n /\ new.steps[j] = doc.steps[j - 1]
            /\ k - 1 \in 1 .. n /\ new.steps[k] = doc.steps[k - 1]
        BY <1>1, <1>6, <1>11, <2>7
      <3>2. j - 1 = k - 1
        BY <2>1, <3>1
      <3>. QED BY <1>1, <1>6, <2>7, <3>2
    <2>. QED BY <1>1, <1>6, <2>2, <2>3, <2>4, <2>5, <2>6, <2>7
  <1>13. ASSUME HasResults(doc.steps) PROVE HasResults(new.steps)
    BY <1>1, <1>4, <1>9, <1>11, <1>13 DEF HasResults
  <1>14. ASSUME InOrder(doc), ~ShiftsCurrent(doc, new) PROVE InOrder(new)
    <2>1. p > doc.index \/ p = n + 1
      <3>. SUFFICES ASSUME p <= doc.index, p \in 1 .. n PROVE FALSE
        BY <1>1, <1>6 DEF Docs
      <3>1. new.steps[p].order # doc.steps[p].order
        <4>1. p \in 1 .. n + 1
          BY <1>6
        <4>2. new.steps[p].order = order
          BY <1>16, <4>1
        <4>. QED BY <1>1, <1>10, <4>2
      <3>. QED BY <1>1, <1>14, <3>1 DEF ShiftsCurrent
    <2>. SUFFICES ASSUME NEW j \in 1 .. n + 1
                  PROVE  /\ new.steps[j].status = "active" => j = doc.index
                         /\ new.steps[j].locked <=> new.steps[j].status = "done"
      BY <1>8, <1>9 DEF InOrder
    <2>2. \A x \in 1 .. n : /\ doc.steps[x].status = "active" => x = doc.index
                            /\ doc.steps[x].locked <=> doc.steps[x].status = "done"
      BY <1>1, <1>14 DEF InOrder
    <2>3. CASE j = p
      BY <1>4, <1>11, <2>3
    <2>4. CASE j < p
      BY <1>11, <1>6, <2>2, <2>4
    <2>5. CASE j > p
      <3>1. j - 1 \in 1 .. n /\ new.steps[j] = doc.steps[j - 1] /\ p <= n
        BY <1>1, <1>6, <1>11, <2>5
      <3>2. j - 1 > doc.index - 1 /\ doc.index < p
        BY <1>1, <1>6, <2>1, <2>5, <3>1 DEF Docs
      <3>3. j - 1 # doc.index
        BY <1>1, <1>6, <2>5, <3>2 DEF Docs
      <3>. QED BY <2>2, <3>1, <3>3
    <2>. QED BY <1>1, <1>6, <2>3, <2>4, <2>5
  <1>15. Fits(doc, new)
    BY <1>8, <1>12, <1>13, <1>14 DEF Fits
  <1>. QED BY <1>15 DEF new

\* The other edits change one step that is not locked, if any, and leave
\* what it is and how far it has come, except that it may be skipped.
LEMMA StepFits ==
    ASSUME NEW doc \in Docs, NEW i \in DOMAIN doc.steps, ~doc.steps[i].locked,
           NEW step \in Steps, step.order = doc.steps[i].order,
           step.action = doc.steps[i].action, ~step.locked,
           step.status \in {doc.steps[i].status, "skipped"},
           NEW mid, mid = [doc EXCEPT !.steps = [@ EXCEPT ![i] = step]]
    PROVE  Fits(doc, mid) /\ Fits(doc, [mid EXCEPT !.status = "closed"])
  <1>1. /\ mid \in Docs /\ DOMAIN mid.steps = DOMAIN doc.steps /\ mid.index = doc.index
        /\ \A j \in DOMAIN doc.steps :
              mid.steps[j] = IF j = i THEN step ELSE doc.steps[j]
    BY StepWith
  <1>. DEFINE closed == [mid EXCEPT !.status = "closed"]
  <1>2. closed \in Docs /\ closed.steps = mid.steps /\ closed.index = mid.index
    BY <1>1 DEF Docs
  <1>3. Distinct(doc.steps) => Distinct(mid.steps)
    BY <1>1 DEF Distinct
  <1>4. HasResults(doc.steps) => HasResults(mid.steps)
    BY <1>1 DEF HasResults
  <1>5. InOrder(doc) => InOrder(mid)
    BY <1>1 DEF InOrder
  <1>6. InOrder(mid) => InOrder(closed)
    <2>. HIDE DEF closed
    <2>. QED BY <1>2 DEF InOrder
  <1>7. Fits(doc, mid)
    BY <1>1, <1>3, <1>4, <1>5 DEF Fits
  <1>8. Fits(doc, closed)
    <2>. HIDE DEF closed
    <2>. QED BY <1>2, <1>3, <1>4, <1>5, <1>6 DEF Fits
  <1>. QED BY <1>7, <1>8

LEMMA SameFits ==
    ASSUME NEW doc \in Docs
    PROVE  Fits(doc, doc) /\ Fits(doc, [doc EXCEPT !.status = "closed"])
  <1>. DEFINE closed == [doc EXCEPT !.status = "closed"]
  <1>1. closed \in Docs /\ closed.steps = doc.steps /\ closed.index = doc.index
    BY DEF Docs
  <1>2. Fits(doc, doc)
    BY DEF Fits
  <1>3. Fits(doc, closed)
    <2>. HIDE DEF closed
    <2>. QED BY <1>1 DEF Fits, InOrder
  <1>. QED BY <1>2, <1>3

LEMMA CloseFits ==
    ASSUME NEW doc \in Docs
    PROVE  Fits(doc, Close(doc))
  <1>. DEFINE step == [doc.steps[doc.index] EXCEPT !.status = "skipped"]
              mid == [doc EXCEPT !.steps = [@ EXCEPT ![doc.index] = step]]
  <1>1. CASE HasCurrent(doc) /\ ~Current(doc).locked
    <2>1. doc.index \in DOMAIN doc.steps /\ ~doc.steps[doc.index].locked
          /\ doc.steps[doc.index] \in Steps
      BY <1>1, StepsOf DEF HasCurrent, Current
    <2>2. /\ step \in Steps /\ step.order = doc.steps[doc.index].order
          /\ step.action = doc.steps[doc.index].action /\ ~step.locked
          /\ step.status = "skipped"
      BY <2>1 DEF Steps, StepStatuses
    <2>3. Close(doc) = [mid EXCEPT !.status = "closed"]
      BY <1>1 DEF Close, Docs
    <2>4. Fits(doc, [mid EXCEPT !.status = "closed"])
      <3>. HIDE DEF step
      <3>. QED BY <2>1, <2>2, StepFits
    <2>. QED BY <2>3, <2>4
  <1>2. CASE ~(HasCurrent(doc) /\ ~Current(doc).locked)
    BY <1>2, SameFits DEF Close
  <1>. QED BY <1>1, <1>2

LEMMA BranchFits ==
    ASSUME NEW doc \in Docs, NEW i \in DOMAIN doc.steps, ~doc.steps[i].locked
    PROVE  /\ \A b \in Branches : Fits(doc, SetBranch(doc, i, b))
           /\ \A r : Fits(doc, DropBranch(doc, i, r))
  <1>1. ASSUME NEW branches \in SUBSET Branches
        PROVE  Fits(doc, [doc EXCEPT !.steps = [@ EXCEPT ![i] =
                                [doc.steps[i] EXCEPT !.branches = branches]]])
    <2>. DEFINE step == [doc.steps[i] EXCEPT !.branches = branches]
    <2>1. doc.steps[i] \in Steps
      BY StepsOf
    <2>2. /\ step \in Steps /\ step.order = doc.steps[i].order
          /\ step.action = doc.steps[i].action /\ ~step.locked
          /\ step.status = doc.steps[i].status
      BY <2>1 DEF Steps
    <2>. HIDE DEF step
    <2>3. Fits(doc, [doc EXCEPT !.steps = [@ EXCEPT ![i] = step]])
      BY <2>2, StepFits
    <2>. QED BY <2>3 DEF step
  <1>2. doc.steps[i].branches \subseteq Branches
    BY StepsOf DEF Steps
  <1>3. ASSUME NEW b \in Branches PROVE Fits(doc, SetBranch(doc, i, b))
    <2>1. WithoutResult(doc.steps[i].branches, b.result) \cup {b} \in SUBSET Branches
      BY <1>2 DEF WithoutResult
    <2>2. SetBranch(doc, i, b) = [doc EXCEPT !.steps = [@ EXCEPT ![i] =
             [doc.steps[i] EXCEPT !.branches =
                WithoutResult(doc.steps[i].branches, b.result) \cup {b}]]]
      BY DEF SetBranch
    <2>. QED BY <1>1, <2>1, <2>2
  <1>4. ASSUME NEW r PROVE Fits(doc, DropBranch(doc, i, r))
    <2>1. WithoutResult(doc.steps[i].branches, r) \in SUBSET Branches
      BY <1>2 DEF WithoutResult
    <2>2. DropBranch(doc, i, r) = [doc EXCEPT !.steps = [@ EXCEPT ![i] =
             [doc.steps[i] EXCEPT !.branches =
                WithoutResult(doc.steps[i].branches, r)]]]
      BY DEF DropBranch
    <2>. QED BY <1>1, <2>1, <2>2
  <1>. QED BY <1>3, <1>4

\* What is saved over the copy that was read is the edited copy.
LEMMA SavedIsNew ==
    ASSUME NEW doc \in Docs, NEW new \in Docs
    PROVE  /\ Write(doc, new) \in Writes /\ Write(doc, new).steps = new.steps
           /\ Saved(doc, Write(doc, new)) = new
  <1>1. /\ new = [steps |-> new.steps, status |-> new.status, index |-> new.index]
        /\ new.steps \in Seq(Steps) /\ new.status \in {"active", "closed"}
        /\ new.index \in Nat \ {0}
    BY DEF Docs
  <1>2. new.status # None /\ new.index # None
    BY <1>1, ChainAssumption
  <1>3. Write(doc, new) \in Writes /\ Write(doc, new).steps = new.steps
    BY <1>1 DEF Write, Writes
  <1>4. /\ Saved(doc, Write(doc, new)).status = new.status
        /\ Saved(doc, Write(doc, new)).index = new.index
        /\ Saved(doc, Write(doc, new)).steps = new.steps
    BY <1>2 DEF Saved, Write
  <1>5. Saved(doc, Write(doc, new)) =
          [steps |-> Saved(doc, Write(doc, new)).steps,
           status |-> Saved(doc, Write(doc, new)).status,
           index |-> Saved(doc, Write(doc, new)).index]
    BY DEF Saved
  <1>. QED BY <1>1, <1>3, <1>4, <1>5

LEMMA SavedIsDoc ==
    ASSUME NEW doc \in Docs, NEW w \in Writes
    PROVE  Saved(doc, w) \in Docs /\ Saved(doc, w).steps = w.steps
  BY DEF Saved, Docs, Writes

LEMMA NewChainFits ==
    ASSUME NEW c \in Chains
    PROVE  /\ NewChain(c) \in Docs
           /\ Distinct(Template[c]) => Distinct(NewChain(c).steps)
           /\ HasResults(NewChain(c).steps) /\ InOrder(NewChain(c))
  <1>. DEFINE t == Template[c]
              new == NewChain(c)
  <1>1. /\ Len(t) \in Nat /\ DOMAIN t = 1 .. Len(t)
        /\ \A i \in DOMAIN t : t[i] \in [order : Nat \ {0}, action : Actions,
                                        branches : SUBSET Branches]
    <2>. DEFINE T == [order : Nat \ {0}, action : Actions, branches : SUBSET Branches]
    <2>1. t \in Seq(T)
      BY ChainAssumption
    <2>. HIDE DEF t, T
    <2>2. Len(t) \in Nat /\ DOMAIN t = 1 .. Len(t) /\ \A i \in DOMAIN t : t[i] \in T
      BY <2>1
    <2>. QED BY <2>2 DEF T
  <1>2. /\ new.steps = [i \in DOMAIN t |->
                         NewStep(t[i].order, t[i].action, t[i].branches,
                                 IF i = 1 THEN "active" ELSE "pending")]
        /\ new.index = 1 /\ new.status = "active"
        /\ new = [status |-> new.status, index |-> new.index, steps |-> new.steps]
    BY DEF NewChain
  <1>. HIDE DEF t, new
  <1>3. \A i \in DOMAIN t :
           /\ new.steps[i] \in Steps
           /\ new.steps[i].order = t[i].order /\ new.steps[i].action = t[i].action
           /\ new.steps[i].locked = FALSE
           /\ new.steps[i].status = IF i = 1 THEN "active" ELSE "pending"
    BY <1>1, <1>2 DEF NewStep, Steps, StepStatuses
  <1>4. new.steps \in Seq(Steps) /\ DOMAIN new.steps = DOMAIN t
    BY <1>1, <1>2, <1>3
  <1>5. new \in Docs
    BY <1>2, <1>4 DEF Docs
  <1>6. Distinct(t) => Distinct(new.steps)
    BY <1>3, <1>4 DEF Distinct
  <1>7. HasResults(new.steps) /\ InOrder(new)
    BY <1>2, <1>3, <1>4 DEF HasResults, InOrder
  <1>. QED BY <1>5, <1>6, <1>7 DEF t, new

LEMMA InitOrderInv == Init => OrderInv
  BY DEF Init, OrderInv, TypeOK, WInv, Idle

LEMMA AddChainOrder ==
    ASSUME OrderInv, NEW c \in Chains, AddChain(c)
    PROVE  OrderInv'
  <1>1. /\ chains' \in [Chains -> Docs \cup {None}]
        /\ \A d \in Chains : chains'[d] = IF d = c THEN NewChain(c) ELSE chains[d]
    BY NewChainFits DEF AddChain, OrderInv, TypeOK
  <1>2. TypeOK'
    BY <1>1 DEF AddChain, OrderInv, TypeOK
  <1>3. \A d \in Chains : chains'[d] # None => DocFits(d)'
    <2>1. DocFits(c)'
      BY <1>1, NewChainFits DEF DocFits
    <2>2. ASSUME NEW d \in Chains \ {c}, chains'[d] # None PROVE DocFits(d)'
      BY <1>1, <2>2 DEF DocFits, OrderInv, AddChain
    <2>. QED BY <2>1, <2>2
  <1>4. ASSUME NEW k \in Handlers, work[k].kind = "save" PROVE WillFit(k)'
    <2>1. WillFit(k) /\ work[k].chain # c
      BY <1>4 DEF OrderInv, WInv, WillFit, AddChain
    <2>. QED BY <1>1, <2>1 DEF WillFit, AddChain
  <1>. QED BY <1>2, <1>3, <1>4 DEF OrderInv, WInv, AddChain

LEMMA EditOrder ==
    ASSUME OrderInv, NEW h \in Handlers, NEW c \in Chains, chains[c] # None, NEW new,
           Fits(chains[c], new), Edit(h, c, new)
    PROVE  OrderInv'
  <1>. DEFINE w == Write(chains[c], new)
              ord == ~ShiftsCurrent(chains[c], new) /\ ~Reactivates(new)
  <1>1. chains[c] \in Docs /\ new \in Docs
    BY DEF OrderInv, TypeOK, Fits
  <1>2. w \in Writes /\ w.steps = new.steps /\ Saved(chains[c], w) = new
    BY <1>1, SavedIsNew
  <1>3. DocFits(c)
    BY DEF OrderInv
  <1>4. /\ work' = [work EXCEPT ![h] =
                      [kind |-> "save", chain |-> c, write |-> w, ordinary |-> ord]]
        /\ UNCHANGED <<chains, irregular>>
    BY DEF Edit
  <1>. HIDE DEF w
  <1>5. ord \in BOOLEAN
    OBVIOUS
  <1>6. /\ Distinct(Template[c]) => Distinct(w.steps)
        /\ HasResults(w.steps)
        /\ ord /\ c \notin irregular => InOrder(Saved(chains[c], w))
    BY <1>2, <1>3 DEF DocFits, Fits
  <1>. HIDE DEF ord
  <1>7. /\ work' \in [Handlers -> [kind : {"idle", "save", "delete"},
                                   chain : Chains \cup {None},
                                   write : Writes \cup {None}, ordinary : BOOLEAN]]
        /\ work'[h] = [kind |-> "save", chain |-> c, write |-> w, ordinary |-> ord]
        /\ \A k \in Handlers \ {h} : work'[k] = work[k]
    BY <1>2, <1>4, <1>5 DEF OrderInv, TypeOK
  <1>8. TypeOK' /\ \A d \in Chains : chains'[d] # None => DocFits(d)'
    BY <1>4, <1>7 DEF OrderInv, TypeOK, DocFits
  <1>9. WillFit(h)'
    BY <1>2, <1>4, <1>6, <1>7 DEF WillFit
  <1>10. ASSUME NEW k \in Handlers \ {h}, work'[k].kind = "save" PROVE WillFit(k)'
    BY <1>4, <1>7, <1>10 DEF WillFit, OrderInv, WInv
  <1>. QED BY <1>8, <1>9, <1>10 DEF OrderInv, WInv

LEMMA HandlerOrder ==
    ASSUME OrderInv, NEW h \in Handlers, NEW c \in Chains,
           \/ \E result \in Results \cup {None} : SaveCurrentStep(h, c, result)
           \/ \E a \in Actions : InjectStep(h, c, a)
           \/ \E i \in 1 .. Cardinality(Actions) : ConfigureStep(h, c, i)
           \/ UpdateStepData(h, c)
           \/ CloseChain(h, c)
    PROVE  OrderInv'
  <1>1. chains[c] # None
    BY DEF Read, SaveCurrentStep, InjectStep, ConfigureStep, UpdateStepData, CloseChain
  <1>2. chains[c] \in Docs
    BY <1>1 DEF OrderInv, TypeOK
  <1>3. PICK new : Edit(h, c, new) /\ Fits(chains[c], new)
    <2>1. ASSUME NEW result \in Results \cup {None}, SaveCurrentStep(h, c, result)
          PROVE  \E new : Edit(h, c, new) /\ Fits(chains[c], new)
      <3>1. MaySave(chains[c], result)
        BY <2>1 DEF SaveCurrentStep
      <3>2. Fits(chains[c], FollowBranch(chains[c], result))
        BY <1>2, <3>1, FollowBranchFollows, SaveFits
      <3>3. \A o \in Orders(chains[c]) : Fits(chains[c], Override(chains[c], result, o))
        BY <1>2, <3>1, OverrideFollows, SaveFits
      <3>. QED BY <2>1, <3>2, <3>3 DEF SaveCurrentStep
    <2>2. CASE \E a \in Actions : InjectStep(h, c, a)
      BY <1>2, <2>2, InjectFits DEF InjectStep
    <2>3. CASE \E i \in 1 .. Cardinality(Actions) : ConfigureStep(h, c, i)
      <3>1. PICK i \in 1 .. Cardinality(Actions) : ConfigureStep(h, c, i)
        BY <2>3
      <3>2. i \in DOMAIN chains[c].steps /\ ~chains[c].steps[i].locked
        BY <3>1 DEF ConfigureStep, MayConfigure
      <3>3. /\ \A b \in NewBranches : Fits(chains[c], SetBranch(chains[c], i, b))
            /\ \A r : Fits(chains[c], DropBranch(chains[c], i, r))
        BY <1>2, <3>2, BranchFits, ChainAssumption
      <3>. QED BY <3>1, <3>3 DEF ConfigureStep
    <2>4. CASE UpdateStepData(h, c)
      BY <1>2, <2>4, SameFits DEF UpdateStepData
    <2>5. CASE CloseChain(h, c)
      BY <1>2, <2>5, CloseFits DEF CloseChain
    <2>. QED BY <2>1, <2>2, <2>3, <2>4, <2>5
  <1>. QED BY <1>1, <1>3, EditOrder

LEMMA ReadDeleteOrder ==
    ASSUME OrderInv, NEW h \in Handlers, NEW c \in Chains, ReadDeleteChain(h, c)
    PROVE  OrderInv'
  <1>1. /\ work' \in [Handlers -> [kind : {"idle", "save", "delete"},
                                   chain : Chains \cup {None},
                                   write : Writes \cup {None}, ordinary : BOOLEAN]]
        /\ work'[h].kind = "delete" /\ \A k \in Handlers \ {h} : work'[k] = work[k]
    BY DEF ReadDeleteChain, OrderInv, TypeOK
  <1>2. UNCHANGED <<chains, irregular>>
    BY DEF ReadDeleteChain
  <1>3. TypeOK' /\ \A d \in Chains : chains'[d] # None => DocFits(d)'
    BY <1>1, <1>2 DEF OrderInv, TypeOK, DocFits
  <1>4. ASSUME NEW k \in Handlers, work'[k].kind = "save" PROVE WillFit(k)'
    BY <1>1, <1>2, <1>4 DEF WillFit, OrderInv, WInv
  <1>. QED BY <1>3, <1>4 DEF OrderInv, WInv

LEMMA SaveChainOrder ==
    ASSUME OrderInv, NEW h \in Handlers, SaveChain(h)
    PROVE  OrderInv'
  <1>. DEFINE c == work[h].chain
              w == work[h].write
  <1>1. WillFit(h)
    BY DEF SaveChain, OrderInv, WInv
  <1>2. c \in Chains /\ w \in Writes /\ chains[c] \in Docs
    BY <1>1 DEF WillFit, OrderInv, TypeOK
  <1>3. Saved(chains[c], w) \in Docs /\ Saved(chains[c], w).steps = w.steps
    BY <1>2, SavedIsDoc
  <1>4. /\ chains' \in [Chains -> Docs \cup {None}]
        /\ chains'[c] = Saved(chains[c], w) /\ chains'[c] # None
        /\ \A d \in Chains \ {c} : chains'[d] = chains[d]
    BY <1>2, <1>3, NoDocument DEF SaveChain, OrderInv, TypeOK
  <1>5. irregular' = IF work[h].ordinary THEN irregular ELSE irregular \cup {c}
    BY DEF SaveChain
  <1>6. /\ DOMAIN work' = Handlers
        /\ work'[h] = Idle
        /\ \A k \in Handlers \ {h} :
              work'[k] = IF work[k].chain = c THEN [work[k] EXCEPT !.ordinary = FALSE]
                         ELSE work[k]
    BY DEF SaveChain
  <1>7. work' \in [Handlers -> [kind : {"idle", "save", "delete"},
                                chain : Chains \cup {None},
                                write : Writes \cup {None}, ordinary : BOOLEAN]]
    <2>1. ASSUME NEW k \in Handlers
          PROVE  work'[k] \in [kind : {"idle", "save", "delete"}, chain : Chains \cup {None},
                               write : Writes \cup {None}, ordinary : BOOLEAN]
      <3>1. work[k] \in [kind : {"idle", "save", "delete"}, chain : Chains \cup {None},
                         write : Writes \cup {None}, ordinary : BOOLEAN]
        BY DEF OrderInv, TypeOK
      <3>2. work'[k] \in {Idle, work[k], [work[k] EXCEPT !.ordinary = FALSE]}
        BY <1>6
      <3>3. Idle \in [kind : {"idle", "save", "delete"}, chain : Chains \cup {None},
                      write : Writes \cup {None}, ordinary : BOOLEAN]
        BY DEF Idle
      <3>4. [work[k] EXCEPT !.ordinary = FALSE] \in
               [kind : {"idle", "save", "delete"}, chain : Chains \cup {None},
                write : Writes \cup {None}, ordinary : BOOLEAN]
        BY <3>1
      <3>. QED BY <3>1, <3>2, <3>3, <3>4
    <2>2. work' = [k \in Handlers |-> work'[k]]
      BY DEF SaveChain
    <2>. QED BY <2>1, <2>2
  <1>8. TypeOK'
    BY <1>2, <1>4, <1>5, <1>7 DEF OrderInv, TypeOK
  <1>9. ASSUME NEW d \in Chains, d = c PROVE DocFits(d)'
    BY <1>1, <1>3, <1>4, <1>5, <1>9 DEF WillFit, DocFits
  <1>10. ASSUME NEW d \in Chains \ {c}, chains'[d] # None PROVE DocFits(d)'
    BY <1>4, <1>5, <1>10 DEF OrderInv, DocFits
  <1>11. ASSUME NEW k \in Handlers, work'[k].kind = "save" PROVE WillFit(k)'
    <2>1. k # h /\ work[k].kind = "save" /\ work'[k].chain = work[k].chain
          /\ work'[k].write = work[k].write
      BY <1>6, <1>11 DEF Idle, OrderInv, TypeOK
    <2>2. WillFit(k)
      BY <2>1 DEF OrderInv, WInv
    <2>3. CASE work[k].chain = c
      <3>1. ~work'[k].ordinary
        BY <1>6, <2>1, <2>3 DEF OrderInv, TypeOK
      <3>. QED BY <1>4, <2>1, <2>2, <2>3, <3>1 DEF WillFit
    <2>4. CASE work[k].chain # c
      <3>1. work'[k] = work[k]
        BY <1>6, <2>1, <2>4
      <3>2. chains'[work[k].chain] = chains[work[k].chain]
            /\ (work[k].chain \notin irregular' => work[k].chain \notin irregular)
        BY <1>4, <1>5, <2>2, <2>4 DEF WillFit
      <3>. QED BY <2>2, <3>1, <3>2 DEF WillFit
    <2>. QED BY <2>3, <2>4
  <1>. QED BY <1>8, <1>9, <1>10, <1>11 DEF OrderInv, WInv

LEMMA DeleteChainOrder ==
    ASSUME OrderInv, NEW h \in Handlers, DeleteChain(h)
    PROVE  OrderInv'
  <1>. DEFINE c == work[h].chain
  <1>1. /\ chains' \in [Chains -> Docs \cup {None}]
        /\ \A d \in Chains : d # c => chains'[d] = chains[d]
        /\ \A d \in Chains : d = c => chains'[d] = None
        /\ irregular' = irregular
    BY DEF DeleteChain, OrderInv, TypeOK
  <1>2. work' \in [Handlers -> [kind : {"idle", "save", "delete"},
                                chain : Chains \cup {None},
                                write : Writes \cup {None}, ordinary : BOOLEAN]]
    BY DEF DeleteChain, Idle, OrderInv, TypeOK
  <1>3. TypeOK' /\ \A d \in Chains : chains'[d] # None => DocFits(d)'
    BY <1>1, <1>2 DEF OrderInv, TypeOK, DocFits
  <1>4. ASSUME NEW k \in Handlers, work'[k].kind = "save" PROVE WillFit(k)'
    <2>1. work'[k] = work[k] /\ work[k].chain # c
      BY <1>4 DEF DeleteChain, Idle
    <2>. QED BY <1>1, <1>4, <2>1 DEF WillFit, OrderInv, WInv
  <1>. QED BY <1>3, <1>4 DEF OrderInv, WInv

LEMMA NextOrderInv == ASSUME OrderInv, [Next]_vars PROVE OrderInv'
  <1>1. CASE \E c \in Chains : AddChain(c)
    BY <1>1, AddChainOrder
  <1>2. CASE \E c \in Chains, h \in Handlers :
               \/ \E result \in Results \cup {None} : SaveCurrentStep(h, c, result)
               \/ \E a \in Actions : InjectStep(h, c, a)
               \/ \E i \in 1 .. Cardinality(Actions) : ConfigureStep(h, c, i)
               \/ UpdateStepData(h, c)
               \/ CloseChain(h, c)
    BY <1>2, HandlerOrder
  <1>3. CASE \E c \in Chains, h \in Handlers : ReadDeleteChain(h, c)
    BY <1>3, ReadDeleteOrder
  <1>4. CASE \E h \in Handlers : SaveChain(h)
    BY <1>4, SaveChainOrder
  <1>5. CASE \E h \in Handlers : DeleteChain(h)
    BY <1>5, DeleteChainOrder
  <1>6. CASE UNCHANGED vars
    BY <1>6 DEF vars, OrderInv, TypeOK, DocFits, WInv, WillFit
  <1>. QED BY <1>1, <1>2, <1>3, <1>4, <1>5, <1>6 DEF Next

LEMMA OrderInvImplies == OrderInv => ChainIsInOrder
  <1>. SUFFICES ASSUME OrderInv PROVE ChainIsInOrder
    OBVIOUS
  <1>1. TypeOK /\ StepsAreDistinct
    BY DEF OrderInv, DocFits, StepsAreDistinct
  <1>2. LockedStepsHaveResults
    BY DEF OrderInv, DocFits, LockedStepsHaveResults, HasResults
  <1>3. OneStepAtATime
    BY DEF OrderInv, DocFits, OneStepAtATime, InOrder
  <1>. QED BY <1>1, <1>2, <1>3 DEF ChainIsInOrder

\* Whoever saves, inserts and configures the steps of a chain at the same
\* time: its actions and orders stay distinct, its locked steps keep a result,
\* and in the ordinary course it is worked off one step at a time.
THEOREM ChainsStayInOrder == Spec => []ChainIsInOrder
  <1>1. Init => OrderInv
    BY InitOrderInv
  <1>2. OrderInv /\ [Next]_vars => OrderInv'
    BY NextOrderInv
  <1>. QED BY <1>1, <1>2, OrderInvImplies, PTL DEF Spec
=============================================================================
