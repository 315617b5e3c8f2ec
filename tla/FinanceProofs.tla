---------------------------- MODULE FinanceProofs -----------------------------
(***************************************************************************)
(* What TLAPS proves of the money that is not a customer's: of invoices, for*)
(* any number of invoices, guids and handlers, and of the books and salaries*)
(* (parts of Learning), for any plans, employees and people at work, from any*)
(* starts of the form that the assumptions state.  They share no state.  A  *)
(* step of Learning is a step of one part, or leaves it alone, so that each *)
(* part is proved by itself.                                                *)
(***************************************************************************)
EXTENDS Invoice, Learning, Sums, FiniteSetTheorems, TLAPS

-----------------------------------------------------------------------------
(* The invoices.                                                            *)

Issuing == {"sending", "calling", "saving"}
Closed(i) == \A g \in RecordsOf(i) : record[g].state \in {"signed", "removed"}

\* What the documents say of the records.
DocInv ==
    \A i \in Invoices :
        /\ guid[i] # None => record[guid[i]].inv = i
        /\ original[i] # None => relation[i] \in Superseded /\ Signed(original[i])
        /\ status[i] = "none" => original[i] = None /\ guid[i] = None /\ RecordsOf(i) = {}

RecordInv == \A g \in Guids : record[g].inv # None <=> record[g].state # "none"

\* What a handler knows of its invoice and is about to write.
JobInv(w) ==
    w.pc # "idle" =>
        /\ w.inv \in Invoices
        /\ status[w.inv] # "none"
        /\ w.guid # None => record[w.guid].inv = w.inv
        /\ w.guid # None /\ w.pc \notin {"saving", "marking"} => guid[w.inv] # None
        /\ w.pc \in {"signing", "deleting"} => w.guid # None
        /\ w.pc = "relating" => w.next \in Superseded /\ Signed(w.inv)
        /\ w.pc \in {"saving", "marking", "writing"} =>
              /\ w.next \in Status \ {"pending"}
              /\ w.next = "issued" => Signed(w.inv)
        /\ w.pc = "saving" => w.next \in {"issued", "pending_sign", "draft", "error"}
        /\ w.pc = "writing" =>
              /\ w.next \in Superseded => \E j \in Successors(w.inv) : Signed(j)
              /\ w.next \in {"issued", "pending_sign", "cancelled"} \cup Superseded
        /\ w.op = "succeed" /\ w.pc # "relating" => original[w.inv] # None
        /\ w.pc = "marking" => w.op = "succeed"
        /\ w.pc \in Issuing \cup {"marking"} => w.read \notin Final
HandlerInv == \A h \in Handlers : JobInv(work[h])

\* Of an invoice with no doubt about its creation: it has one record, one
\* handler at most issues it, and the record is not forgotten.
OneRecord(i) == \A g, k \in RecordsOf(i) : g = k
OneIssuer(i) ==
    \A h, k \in Handlers :
        work[h].inv = i /\ work[h].pc \in Issuing /\ work[k].inv = i /\ work[k].pc \in Issuing
        => h = k
Remembered(i) ==
    RecordsOf(i) # {} =>
        \/ guid[i] # None
        \/ \E h \in Handlers : work[h].inv = i /\ work[h].pc = "saving" /\ work[h].guid # None
        \/ /\ status[i] \notin {"draft", "error"}
           /\ \A h \in Handlers : work[h].inv = i => work[h].pc \notin Issuing
Unsent(i) ==
    \A h \in Handlers :
        work[h].inv = i /\ work[h].pc \in {"sending", "calling"} /\ work[h].guid = None
        => RecordsOf(i) = {}
Pending(i) ==
    \A h \in Handlers :
        work[h].inv = i /\ work[h].pc \in {"calling", "saving"}
        => status[i] \notin {"draft", "error"}
\* A final status, or a copy that had one, means a record that is final too.
FinalHasRecord(i) == status[i] \in Final => RecordsOf(i) # {} /\ Closed(i)
CopyHasRecord(i) ==
    \A h \in Handlers :
        work[h].inv = i /\ work[h].read \in Final =>
            /\ RecordsOf(i) # {} /\ Closed(i)
            /\ work[h].pc = "writing" => work[h].next \in Final
WriterHasRecord(i) ==
    \A h \in Handlers :
        work[h].inv = i /\ work[h].pc \in {"writing", "saving"} /\ work[h].next \in Final
            => RecordsOf(i) # {} /\ Closed(i)

Certain(i) ==
    /\ OneRecord(i) /\ OneIssuer(i) /\ Remembered(i) /\ Unsent(i) /\ Pending(i)
    /\ FinalHasRecord(i) /\ CopyHasRecord(i) /\ WriterHasRecord(i)
CertainInv == \A i \in Invoices \ doubtful : Certain(i)

BaseInv == TypeOK /\ DocInv /\ RecordInv /\ HandlerInv
IInv == BaseInv /\ StatusIsBacked /\ PendingIsAttended /\ CertainInv

Jobs ==
    [pc : PCs, op : {"issue", "succeed", "sign", "delete", "sync", None},
     inv : Invoices \cup {None}, read : Status \cup {None},
     guid : Guids \cup {None}, next : Status \cup {None}]

USE InvoiceAssumption DEF Status, Superseded, Final, Issuing, PCs, Exists, Idle, Job, Copy,
    RecordsOf, Signed, Successors

LEMMA InitIInv == Init => IInv
BY DEF Init, IInv, BaseInv, TypeOK, DocInv, RecordInv, HandlerInv, JobInv, StatusIsBacked,
       PendingIsAttended, CertainInv, Certain, OneRecord, OneIssuer, Remembered, Unsent,
       Pending, FinalHasRecord, CopyHasRecord, WriterHasRecord, Closed

-----------------------------------------------------------------------------
(* Types.                                                                  *)

LEMMA GotoType ==
  ASSUME TypeOK, NEW h \in Handlers, NEW p \in PCs, NEW s \in Status \cup {None}, Goto(h, p, s)
  PROVE  work' \in [Handlers -> Jobs]
BY DEF TypeOK, Goto, Jobs, Proceed

LEMMA HeardType ==
  ASSUME TypeOK, NEW h \in Handlers, NEW s \in Status \cup {None}, NEW g \in Guids \cup {None}, Heard(h, s, g)
  PROVE  work' \in [Handlers -> Jobs]
BY DEF TypeOK, Heard, Jobs, Proceed

LEMMA ReturnType ==
  ASSUME TypeOK, NEW h \in Handlers, Return(h)
  PROVE  work' \in [Handlers -> Jobs]
BY DEF TypeOK, Return, Jobs

LEMMA CallType ==
  ASSUME BaseInv, NEW h \in Handlers, NEW i \in Invoices, Call(h, i)
  PROVE  TypeOK'
<1> USE DEF BaseInv, TypeOK, docs, history, Start
<1>1. CASE CreateAndIssue(h, i)
  BY <1>1 DEF CreateAndIssue
<1>2. CASE ReadToIssue(h, i)
  BY <1>2 DEF ReadToIssue, MaySend
<1>3. ASSUME NEW rel \in Superseded, ReadOriginal(h, i, rel) PROVE TypeOK'
  BY <1>3 DEF ReadOriginal
<1>4. CASE ReadToSign(h, i)
  BY <1>4 DEF ReadToSign
<1>5. CASE ReadToDelete(h, i)
  BY <1>5 DEF ReadToDelete
<1>6. CASE ReadToSync(h, i)
  BY <1>6 DEF ReadToSync
<1> QED BY <1>1, <1>2, <1>3, <1>4, <1>5, <1>6 DEF Call

LEMMA IssueType ==
  ASSUME BaseInv, NEW h \in Handlers, Issue(h)
  PROVE  TypeOK'
<1> USE DEF BaseInv, docs, history, SaveStatus
<1>0. work[h].pc # "idle" => work[h].inv \in Invoices
  BY DEF HandlerInv, JobInv
<1>1. CASE SavePending(h)
  <2>1. work' \in [Handlers -> Jobs]
    BY <1>1, GotoType, ReturnType DEF SavePending
  <2> QED BY <1>0, <1>1, <2>1 DEF SavePending, At, TypeOK, Jobs
<1>2. ASSUME NEW g \in Guids, NEW ok \in BOOLEAN, NEW named \in BOOLEAN, NEW numbered \in BOOLEAN, Send(h, g, ok, named, numbered)
      PROVE  TypeOK'
  <2>1. work' \in [Handlers -> Jobs]
    BY <1>2, HeardType DEF Send, Created
  <2> QED BY <1>0, <1>2, <2>1 DEF Send, At, TypeOK, Jobs
<1>3. ASSUME NEW ok \in BOOLEAN, SignToIssue(h, ok) PROVE TypeOK'
  <2>1. work' \in [Handlers -> Jobs]
    BY <1>3, HeardType DEF SignToIssue
  <2> QED BY <1>0, <1>3, <2>1 DEF SignToIssue, At, SendsNew, TypeOK, Jobs
<1>4. CASE CallFails(h)
  <2>1. work' \in [Handlers -> Jobs]
    BY <1>4, HeardType DEF CallFails
  <2> QED BY <1>0, <1>4, <2>1 DEF CallFails, TypeOK, Jobs
<1>5. CASE SaveOutcome(h)
  <2>0. work[h].next \in Status
    BY <1>5 DEF SaveOutcome, At, HandlerInv, JobInv
  <2>1. work' \in [Handlers -> Jobs]
    BY <1>5, <2>0, GotoType, ReturnType DEF SaveOutcome
  <2> QED BY <1>0, <1>5, <2>0, <2>1 DEF SaveOutcome, At, TypeOK, Jobs
<1>6. ASSUME NEW j \in Invoices, CreateSuccessor(h, j) PROVE TypeOK'
  BY <1>0, <1>6 DEF CreateSuccessor, At, HandlerInv, JobInv, TypeOK
<1>7. CASE MarkOriginal(h)
  <2>0. original[work[h].inv] \in Invoices /\ relation[work[h].inv] \in Superseded
    BY <1>7 DEF MarkOriginal, At, HandlerInv, JobInv, DocInv, TypeOK
  <2>1. work' \in [Handlers -> Jobs]
    BY <1>7, ReturnType DEF MarkOriginal
  <2> QED BY <1>7, <2>0, <2>1 DEF MarkOriginal, TypeOK, Jobs
<1>8. CASE DropSuccessor(h)
  <2>1. work' \in [Handlers -> Jobs]
    BY <1>8, ReturnType DEF DropSuccessor
  <2> QED BY <1>0, <1>8, <2>1 DEF DropSuccessor, At, TypeOK, Jobs
<1> QED BY <1>1, <1>2, <1>3, <1>4, <1>5, <1>6, <1>7, <1>8 DEF Issue

LEMMA OtherType ==
  ASSUME BaseInv, NEW h \in Handlers, Other(h) \/ Crash
  PROVE  TypeOK'
<1> USE DEF BaseInv, docs, history, SaveStatus
<1>0. work[h].pc # "idle" => work[h].inv \in Invoices
  BY DEF HandlerInv, JobInv
<1>1. ASSUME NEW ok \in BOOLEAN, Sign(h, ok) PROVE TypeOK'
  <2>1. work[h].guid \in Guids
    BY <1>1 DEF Sign, At, HandlerInv, JobInv, TypeOK
  <2>2. work' \in [Handlers -> Jobs]
    BY <1>1, GotoType, ReturnType DEF Sign
  <2> QED BY <1>1, <2>1, <2>2 DEF Sign, TypeOK, Jobs
<1>2. ASSUME NEW ok \in BOOLEAN, DeleteDraft(h, ok) PROVE TypeOK'
  <2>1. work[h].guid \in Guids
    BY <1>2 DEF DeleteDraft, At, HandlerInv, JobInv, TypeOK
  <2>2. work' \in [Handlers -> Jobs]
    BY <1>2, GotoType, ReturnType DEF DeleteDraft
  <2> QED BY <1>2, <2>1, <2>2 DEF DeleteDraft, TypeOK, Jobs
<1>3. CASE SaveDeleted(h)
  <2>1. work' \in [Handlers -> Jobs]
    BY <1>3, ReturnType DEF SaveDeleted
  <2> QED BY <1>0, <1>3, <2>1 DEF SaveDeleted, At, TypeOK, Jobs
<1>4. ASSUME NEW g \in Guids, GetInfo(h, g) PROVE TypeOK'
  <2>0. record[g].inv \in Invoices
    BY <1>4 DEF GetInfo, HandlerInv, JobInv, At, TypeOK
  <2>1. BkavStatus(g) \subseteq Status
    BY <2>0 DEF BkavStatus, DocInv, TypeOK
  <2>2. work' \in [Handlers -> Jobs]
    BY <1>4, <2>1, GotoType DEF GetInfo
  <2> QED BY <1>4, <2>2 DEF GetInfo, TypeOK, Jobs
<1>5. CASE WriteStatus(h)
  <2>1. work' \in [Handlers -> Jobs]
    BY <1>5, ReturnType DEF WriteStatus
  <2> QED BY <1>0, <1>5, <2>1 DEF WriteStatus, At, HandlerInv, JobInv, TypeOK, Jobs
<1>6. CASE GiveUp(h)
  BY <1>6 DEF GiveUp, Return, TypeOK
<1>7. CASE Crash
  BY <1>7 DEF Crash, TypeOK
<1> QED BY <1>1, <1>2, <1>3, <1>4, <1>5, <1>6, <1>7 DEF Other

-----------------------------------------------------------------------------
(* Nothing recorded is taken back.                                         *)

Lasting ==
    /\ \A g \in Guids :
          /\ record[g].inv # None => record'[g].inv = record[g].inv
          /\ record[g].state = "signed" => record'[g].state = "signed"
          /\ record[g].state \in {"signed", "removed"} => record'[g].state \in {"signed", "removed"}
    /\ \A i \in Invoices :
          /\ original[i] # None => original'[i] = original[i] /\ relation'[i] = relation[i]
          /\ guid[i] # None => guid'[i] # None
          /\ status[i] # "none" => status'[i] # "none"
    /\ doubtful \subseteq doubtful'

LEMMA CallLasts ==
  ASSUME BaseInv, NEW h \in Handlers, NEW i \in Invoices, Call(h, i)
  PROVE  Lasting
BY DEF BaseInv, TypeOK, Lasting, Call, CreateAndIssue, ReadToIssue, ReadOriginal, ReadToSign, ReadToDelete,
       ReadToSync, docs, history

LEMMA IssueLasts ==
  ASSUME BaseInv, NEW h \in Handlers, Issue(h)
  PROVE  Lasting
<1> USE DEF BaseInv, TypeOK, docs, history, SaveStatus, Lasting
<1>0. work[h].pc # "idle" => work[h].inv \in Invoices
  BY DEF HandlerInv, JobInv
<1>1. CASE SavePending(h)
  BY <1>0, <1>1 DEF SavePending, At
<1>2. ASSUME NEW g \in Guids, NEW ok \in BOOLEAN, NEW named \in BOOLEAN, NEW numbered \in BOOLEAN, Send(h, g, ok, named, numbered)
      PROVE  Lasting
  BY <1>0, <1>2 DEF Send, At, RecordInv
<1>3. ASSUME NEW ok \in BOOLEAN, SignToIssue(h, ok) PROVE Lasting
  BY <1>0, <1>3 DEF SignToIssue, At, SendsNew
<1>4. CASE CallFails(h)
  BY <1>0, <1>4 DEF CallFails, At
<1>5. CASE SaveOutcome(h)
  BY <1>0, <1>5 DEF SaveOutcome, At, HandlerInv, JobInv
<1>6. ASSUME NEW j \in Invoices, CreateSuccessor(h, j) PROVE Lasting
  BY <1>0, <1>6 DEF CreateSuccessor, At, HandlerInv, JobInv, DocInv
<1>7. CASE MarkOriginal(h)
  BY <1>0, <1>7 DEF MarkOriginal, At, HandlerInv, JobInv, DocInv
<1>8. CASE DropSuccessor(h)
  BY <1>0, <1>8 DEF DropSuccessor, At
<1> QED BY <1>1, <1>2, <1>3, <1>4, <1>5, <1>6, <1>7, <1>8 DEF Issue

LEMMA OtherLasts ==
  ASSUME BaseInv, NEW h \in Handlers, Other(h)
  PROVE  Lasting
<1> USE DEF BaseInv, TypeOK, docs, history, SaveStatus, Lasting
<1>0. work[h].pc # "idle" => work[h].inv \in Invoices
  BY DEF HandlerInv, JobInv
<1>1. ASSUME NEW ok \in BOOLEAN, Sign(h, ok) PROVE Lasting
  BY <1>1 DEF Sign, At, HandlerInv, JobInv
<1>2. ASSUME NEW ok \in BOOLEAN, DeleteDraft(h, ok) PROVE Lasting
  BY <1>2 DEF DeleteDraft, At, HandlerInv, JobInv
<1>3. CASE SaveDeleted(h)
  BY <1>3 DEF SaveDeleted
<1>4. ASSUME NEW g \in Guids, GetInfo(h, g) PROVE Lasting
  BY <1>4 DEF GetInfo
<1>5. CASE WriteStatus(h)
  BY <1>0, <1>5 DEF WriteStatus, At, HandlerInv, JobInv
<1>6. CASE GiveUp(h)
  BY <1>6 DEF GiveUp
<1> QED BY <1>1, <1>2, <1>3, <1>4, <1>5, <1>6 DEF Other

LEMMA BackingLasts ==
  ASSUME BaseInv, TypeOK', Lasting
  PROVE  /\ \A i \in Invoices : Signed(i) => Signed(i)'
         /\ \A i, j \in Invoices : j \in Successors(i) => j \in Successors(i)'
         /\ \A i \in Invoices : \A g \in RecordsOf(i) : g \in RecordsOf(i)'
BY DEF BaseInv, TypeOK, Lasting

LEMMA JobStays ==
  ASSUME BaseInv, TypeOK', Lasting, NEW w \in Jobs, JobInv(w)
  PROVE  JobInv(w)'
<1> USE DEF BaseInv, TypeOK, Lasting, Jobs
<1> SUFFICES ASSUME w.pc # "idle" PROVE JobInv(w)'
  BY DEF JobInv
<1>1. w.inv \in Invoices /\ status'[w.inv] # "none"
  BY DEF JobInv
<1>3. w.guid # None => w.guid \in Guids /\ record[w.guid].inv = w.inv
  BY DEF JobInv
<1>4. w.guid # None => record'[w.guid].inv = w.inv
  BY <1>1, <1>3
<1>5. w.guid # None /\ w.pc \notin {"saving", "marking"} => guid'[w.inv] # None
  BY <1>1 DEF JobInv
<1>6. w.op = "succeed" /\ w.pc # "relating" => original'[w.inv] # None
  BY <1>1 DEF JobInv
<1>2. /\ Signed(w.inv) => Signed(w.inv)'
      /\ (\E j \in Successors(w.inv) : Signed(j)) => \E j \in Successors(w.inv)' : Signed(j)'
  BY <1>1, BackingLasts
<1> QED BY <1>1, <1>2, <1>4, <1>5, <1>6 DEF JobInv

-----------------------------------------------------------------------------
(* What the documents say of the records.                                  *)

LEMMA CallDocs ==
  ASSUME BaseInv, NEW h \in Handlers, NEW i \in Invoices, Call(h, i)
  PROVE  RecordInv' /\ DocInv'
BY DEF BaseInv, TypeOK, RecordInv, DocInv, Call, CreateAndIssue, ReadToIssue, ReadOriginal,
       ReadToSign, ReadToDelete, ReadToSync, docs, history

LEMMA IssueDocs ==
  ASSUME BaseInv, NEW h \in Handlers, Issue(h)
  PROVE  RecordInv' /\ DocInv'
<1> USE DEF BaseInv, TypeOK, docs, history, SaveStatus, RecordInv, DocInv
<1>0. work[h].pc # "idle" => work[h].inv \in Invoices /\ status[work[h].inv] # "none"
  BY DEF HandlerInv, JobInv
<1>1. CASE SavePending(h)
  BY <1>0, <1>1 DEF SavePending, At
<1>2. ASSUME NEW g \in Guids, NEW ok \in BOOLEAN, NEW named \in BOOLEAN, NEW numbered \in BOOLEAN, Send(h, g, ok, named, numbered)
      PROVE  RecordInv' /\ DocInv'
  BY <1>0, <1>2 DEF Send, At
<1>3. ASSUME NEW ok \in BOOLEAN, SignToIssue(h, ok) PROVE RecordInv' /\ DocInv'
  BY <1>0, <1>3 DEF SignToIssue, At, SendsNew
<1>4. CASE CallFails(h)
  BY <1>0, <1>4 DEF CallFails, At
<1>5. CASE SaveOutcome(h)
  BY <1>0, <1>5 DEF SaveOutcome, At, HandlerInv, JobInv
<1>6. ASSUME NEW j \in Invoices, CreateSuccessor(h, j) PROVE RecordInv' /\ DocInv'
  BY <1>0, <1>6 DEF CreateSuccessor, At, HandlerInv, JobInv
<1>7. CASE MarkOriginal(h)
  BY <1>0, <1>7 DEF MarkOriginal, At, HandlerInv, JobInv
<1>8. CASE DropSuccessor(h)
  BY <1>0, <1>8 DEF DropSuccessor, At
<1> QED BY <1>1, <1>2, <1>3, <1>4, <1>5, <1>6, <1>7, <1>8 DEF Issue

LEMMA OtherDocs ==
  ASSUME BaseInv, NEW h \in Handlers, Other(h)
  PROVE  RecordInv' /\ DocInv'
<1> USE DEF BaseInv, TypeOK, docs, history, SaveStatus, RecordInv, DocInv
<1>0. work[h].pc # "idle" => work[h].inv \in Invoices /\ status[work[h].inv] # "none"
  BY DEF HandlerInv, JobInv
<1>1. ASSUME NEW ok \in BOOLEAN, Sign(h, ok) PROVE RecordInv' /\ DocInv'
  BY <1>1 DEF Sign, At, HandlerInv, JobInv
<1>2. ASSUME NEW ok \in BOOLEAN, DeleteDraft(h, ok) PROVE RecordInv' /\ DocInv'
  BY <1>2 DEF DeleteDraft, At, HandlerInv, JobInv
<1>3. CASE SaveDeleted(h)
  BY <1>3 DEF SaveDeleted
<1>4. ASSUME NEW g \in Guids, GetInfo(h, g) PROVE RecordInv' /\ DocInv'
  BY <1>4 DEF GetInfo
<1>5. CASE WriteStatus(h)
  BY <1>0, <1>5 DEF WriteStatus, At, HandlerInv, JobInv
<1>6. CASE GiveUp(h)
  BY <1>6 DEF GiveUp
<1> QED BY <1>1, <1>2, <1>3, <1>4, <1>5, <1>6 DEF Other

-----------------------------------------------------------------------------
(* What a handler knows.                                                   *)

\* It is enough to look at the job that changed.
LEMMA OthersKnow ==
  ASSUME BaseInv, TypeOK', Lasting, NEW h \in Handlers, NEW w \in Jobs,
         work' = [work EXCEPT ![h] = w], JobInv(w)'
  PROVE  HandlerInv'
<1> SUFFICES ASSUME NEW k \in Handlers PROVE JobInv(work[k])'
  BY DEF HandlerInv
<1>1. CASE k = h
  <2>1. work'[k] = w
    BY <1>1 DEF BaseInv, TypeOK
  <2> QED BY <2>1 DEF JobInv
<1>2. CASE k # h
  <2>1. PICK v \in Jobs : v = work[k]
    BY DEF BaseInv, TypeOK, Jobs
  <2>2. work'[k] = v
    BY <1>2, <2>1 DEF BaseInv, TypeOK
  <2>3. JobInv(v)
    BY <2>1 DEF BaseInv, HandlerInv
  <2>4. JobInv(v)'
    BY <2>3, JobStays
  <2> QED BY <2>2, <2>4 DEF JobInv
<1> QED BY <1>1, <1>2

LEMMA CallKnows ==
  ASSUME BaseInv, StatusIsBacked, TypeOK', Lasting, NEW h \in Handlers, NEW i \in Invoices, Call(h, i)
  PROVE  HandlerInv'
<1> USE DEF BaseInv, TypeOK, docs, history, Start
<1>1. CASE CreateAndIssue(h, i)
  <2>1. PICK w \in Jobs : w = [pc |-> "calling", op |-> "issue", inv |-> i, read |-> "pending",
                         guid |-> guid[i], next |-> None]
    BY <1>1 DEF CreateAndIssue, Jobs, MaySend
  <2>2. work' = [work EXCEPT ![h] = w]
    BY <1>1, <2>1 DEF CreateAndIssue
  <2>3. JobInv(w)'
    BY <1>1, <2>1 DEF CreateAndIssue, JobInv, DocInv, StatusIsBacked, MaySend
  <2> QED BY <2>2, <2>3, OthersKnow
<1>2. CASE ReadToIssue(h, i)
  <2>1. PICK w \in Jobs : w = [pc |-> "sending", op |-> "issue", inv |-> i, read |-> status[i],
                         guid |-> guid[i], next |-> None]
    BY <1>2 DEF ReadToIssue, Jobs, MaySend
  <2>2. work' = [work EXCEPT ![h] = w]
    BY <1>2, <2>1 DEF ReadToIssue
  <2>3. JobInv(w)'
    BY <1>2, <2>1 DEF ReadToIssue, JobInv, DocInv, StatusIsBacked, MaySend
  <2> QED BY <2>2, <2>3, OthersKnow
<1>3. ASSUME NEW rel \in Superseded, ReadOriginal(h, i, rel) PROVE HandlerInv'
  <2>1. PICK w \in Jobs : w = [pc |-> "relating", op |-> "succeed", inv |-> i, read |-> status[i],
                         guid |-> guid[i], next |-> rel]
    BY <1>3 DEF ReadOriginal, Jobs, MaySend
  <2>2. work' = [work EXCEPT ![h] = w]
    BY <1>3, <2>1 DEF ReadOriginal
  <2>3. JobInv(w)'
    BY <1>3, <2>1 DEF ReadOriginal, JobInv, DocInv, StatusIsBacked, MaySend
  <2> QED BY <2>2, <2>3, OthersKnow
<1>4. CASE ReadToSign(h, i)
  <2>1. PICK w \in Jobs : w = [pc |-> "signing", op |-> "sign", inv |-> i, read |-> status[i],
                         guid |-> guid[i], next |-> None]
    BY <1>4 DEF ReadToSign, Jobs, MaySend
  <2>2. work' = [work EXCEPT ![h] = w]
    BY <1>4, <2>1 DEF ReadToSign
  <2>3. JobInv(w)'
    BY <1>4, <2>1 DEF ReadToSign, JobInv, DocInv, StatusIsBacked, MaySend
  <2> QED BY <2>2, <2>3, OthersKnow
<1>5. CASE ReadToDelete(h, i)
  <2>1. PICK w \in Jobs : w = [pc |-> IF guid[i] = None THEN "deleted" ELSE "deleting", op |-> "delete", inv |-> i, read |-> status[i],
                         guid |-> guid[i], next |-> None]
    BY <1>5 DEF ReadToDelete, Jobs, MaySend
  <2>2. work' = [work EXCEPT ![h] = w]
    BY <1>5, <2>1 DEF ReadToDelete
  <2>3. JobInv(w)'
    BY <1>5, <2>1 DEF ReadToDelete, JobInv, DocInv, StatusIsBacked, MaySend
  <2> QED BY <2>2, <2>3, OthersKnow
<1>6. CASE ReadToSync(h, i)
  <2>1. PICK w \in Jobs : w = [pc |-> "asking", op |-> "sync", inv |-> i, read |-> status[i],
                         guid |-> guid[i], next |-> None]
    BY <1>6 DEF ReadToSync, Jobs, MaySend
  <2>2. work' = [work EXCEPT ![h] = w]
    BY <1>6, <2>1 DEF ReadToSync
  <2>3. JobInv(w)'
    BY <1>6, <2>1 DEF ReadToSync, JobInv, DocInv, StatusIsBacked, MaySend
  <2> QED BY <2>2, <2>3, OthersKnow
<1> QED BY <1>1, <1>2, <1>3, <1>4, <1>5, <1>6 DEF Call

LEMMA ReturnKnows ==
  ASSUME BaseInv, TypeOK', Lasting, NEW h \in Handlers, Return(h)
  PROVE  HandlerInv'
<1>1. PICK w \in Jobs : w = Idle
  BY DEF Jobs
<1>2. work' = [work EXCEPT ![h] = w]
  BY <1>1 DEF Return
<1>3. JobInv(w)'
  BY <1>1 DEF JobInv
<1> QED BY <1>2, <1>3, OthersKnow

LEMMA IssueKnows ==
  ASSUME BaseInv, TypeOK', Lasting, DocInv', NEW h \in Handlers, Issue(h)
  PROVE  HandlerInv'
<1> USE DEF BaseInv, TypeOK, docs, history
<1>1. CASE SavePending(h) /\ Exists(work[h].inv)
  <2>1. PICK w \in Jobs : w = Proceed(work[h], "calling", None, work[h].guid)
    BY <1>1 DEF SavePending, At, HandlerInv, JobInv, Proceed, Jobs
  <2>2. work' = [work EXCEPT ![h] = w]
    BY <1>1, <2>1 DEF SavePending, Goto, Heard
  <2>3. JobInv(w)'
    BY <1>1, <2>1 DEF SavePending, At, HandlerInv, JobInv, Proceed, SaveStatus
  <2> QED BY <2>2, <2>3, OthersKnow
<1>2. CASE SavePending(h) /\ ~Exists(work[h].inv)
  BY <1>2, ReturnKnows DEF SavePending
<1>3. ASSUME NEW g \in Guids, NEW ok \in BOOLEAN, NEW named \in BOOLEAN, NEW numbered \in BOOLEAN, Send(h, g, ok, named, numbered)
      PROVE  HandlerInv'
  <2>1. PICK w \in Jobs : w = Proceed(work[h], "saving", IF ok THEN Created(work[h].inv, numbered) ELSE "error",
                                    IF ok /\ named THEN g ELSE None)
    BY <1>3 DEF Send, Created, At, HandlerInv, JobInv, Proceed, Jobs
  <2>2. work' = [work EXCEPT ![h] = w]
    BY <1>3, <2>1 DEF Send, Goto, Heard
  <2>3. JobInv(w)'
    BY <1>3, <2>1 DEF Send, At, HandlerInv, JobInv, Proceed, Created
  <2> QED BY <2>2, <2>3, OthersKnow
<1>4. ASSUME NEW ok \in BOOLEAN, SignToIssue(h, ok)
      PROVE  HandlerInv'
  <2>1. PICK w \in Jobs : w = Proceed(work[h], "saving", IF ok THEN "issued" ELSE "error", None)
    BY <1>4 DEF SignToIssue, At, HandlerInv, JobInv, Proceed, Jobs
  <2>2. work' = [work EXCEPT ![h] = w]
    BY <1>4, <2>1 DEF SignToIssue, Goto, Heard
  <2>3. JobInv(w)'
    BY <1>4, <2>1 DEF SignToIssue, At, HandlerInv, JobInv, Proceed, SendsNew
  <2> QED BY <2>2, <2>3, OthersKnow
<1>5. CASE CallFails(h)
  <2>1. PICK w \in Jobs : w = Proceed(work[h], "saving", "error", None)
    BY <1>5 DEF CallFails, At, HandlerInv, JobInv, Proceed, Jobs
  <2>2. work' = [work EXCEPT ![h] = w]
    BY <1>5, <2>1 DEF CallFails, Goto, Heard
  <2>3. JobInv(w)'
    BY <1>5, <2>1 DEF CallFails, At, HandlerInv, JobInv, Proceed, Jobs
  <2> QED BY <2>2, <2>3, OthersKnow
<1>6. CASE SaveOutcome(h) /\ Exists(work[h].inv) /\ work[h].op = "succeed"
  <2>1. PICK w \in Jobs : w = Proceed(work[h], "marking", work[h].next, work[h].guid)
    BY <1>6 DEF SaveOutcome, At, HandlerInv, JobInv, Proceed, Jobs
  <2>2. work' = [work EXCEPT ![h] = w]
    BY <1>6, <2>1 DEF SaveOutcome, Goto, Heard
  <2>3. JobInv(w)'
    BY <1>6, <2>1 DEF SaveOutcome, At, HandlerInv, JobInv, Proceed, SaveStatus
  <2> QED BY <2>2, <2>3, OthersKnow
<1>7. CASE SaveOutcome(h) /\ ~(Exists(work[h].inv) /\ work[h].op = "succeed")
  BY <1>7, ReturnKnows DEF SaveOutcome
<1>8. ASSUME NEW j \in Invoices, CreateSuccessor(h, j) PROVE HandlerInv'
  <2>1. PICK w \in Jobs : w = Job("sending", "succeed", j, "draft", None, None)
    BY DEF Jobs
  <2>2. work' = [work EXCEPT ![h] = w]
    BY <1>8, <2>1 DEF CreateSuccessor
  <2>3. JobInv(w)'
    BY <1>8, <2>1 DEF CreateSuccessor, At, HandlerInv, JobInv, Jobs
  <2> QED BY <2>2, <2>3, OthersKnow
<1>9. CASE MarkOriginal(h) \/ DropSuccessor(h)
  BY <1>9, ReturnKnows DEF MarkOriginal, DropSuccessor
<1> QED BY <1>1, <1>2, <1>3, <1>4, <1>5, <1>6, <1>7, <1>8, <1>9 DEF Issue

LEMMA OtherKnows ==
  ASSUME BaseInv, TypeOK', Lasting, NEW h \in Handlers, Other(h)
  PROVE  HandlerInv'
<1> USE DEF BaseInv, TypeOK, docs, history
<1>1. ASSUME NEW ok \in BOOLEAN, Sign(h, ok) /\ ok
      PROVE  HandlerInv'
  <2>1. PICK w \in Jobs : w = Proceed(work[h], "writing", "issued", work[h].guid)
    BY <1>1 DEF Sign, At, HandlerInv, JobInv, Proceed, Jobs
  <2>2. work' = [work EXCEPT ![h] = w]
    BY <1>1, <2>1 DEF Sign, Goto, Heard
  <2>3. JobInv(w)'
    BY <1>1, <2>1 DEF Sign, At, HandlerInv, JobInv, Proceed, Jobs
  <2> QED BY <2>2, <2>3, OthersKnow
<1>2. ASSUME NEW ok \in BOOLEAN, DeleteDraft(h, ok) /\ ok
      PROVE  HandlerInv'
  <2>1. PICK w \in Jobs : w = Proceed(work[h], "deleted", None, work[h].guid)
    BY <1>2 DEF DeleteDraft, At, HandlerInv, JobInv, Proceed, Jobs
  <2>2. work' = [work EXCEPT ![h] = w]
    BY <1>2, <2>1 DEF DeleteDraft, Goto, Heard
  <2>3. JobInv(w)'
    BY <1>2, <2>1 DEF DeleteDraft, At, HandlerInv, JobInv, Proceed, Jobs
  <2> QED BY <2>2, <2>3, OthersKnow
<1>3. ASSUME NEW ok \in BOOLEAN, Sign(h, ok) \/ DeleteDraft(h, ok), ~ok PROVE HandlerInv'
  BY <1>3, ReturnKnows DEF Sign, DeleteDraft
<1>4. ASSUME NEW g \in Guids, GetInfo(h, g) PROVE HandlerInv'
  <2>0. record[g].inv = work[h].inv /\ work[h].inv \in Invoices /\ record[g].state # "none"
    BY <1>4 DEF GetInfo, HandlerInv, JobInv, At, RecordInv
  <2>1. PICK s \in BkavStatus(g) : Goto(h, "writing", s)
    BY <1>4 DEF GetInfo
  <2>2. /\ s \in {"issued", "pending_sign", "cancelled"} \cup Superseded
        /\ s = "issued" => Signed(work[h].inv)
        /\ s \in Superseded => \E j \in Successors(work[h].inv) : Signed(j)
    <3>1. CASE record[g].state \in {"unsigned", "removed"}
      BY <2>1, <3>1 DEF BkavStatus
    <3>2. CASE record[g].state = "signed"
      <4>1. s = "issued" \/ \E j \in Successors(work[h].inv) : Signed(j) /\ s = relation[j]
        BY <2>0, <2>1, <3>2 DEF BkavStatus
      <4> QED BY <2>0, <3>2, <4>1 DEF DocInv
    <3> QED BY <2>0, <3>1, <3>2
  <2>3. PICK w \in Jobs : w = Proceed(work[h], "writing", s, work[h].guid)
    BY <2>2 DEF Jobs, Proceed
  <2>4. work' = [work EXCEPT ![h] = w]
    BY <2>1, <2>3 DEF Goto
  <2>5. JobInv(w)
    BY <1>4, <2>0, <2>2, <2>3 DEF GetInfo, At, HandlerInv, JobInv, Proceed, Jobs
  <2> QED BY <2>4, <2>5, JobStays, OthersKnow
<1>5. CASE SaveDeleted(h) \/ WriteStatus(h) \/ GiveUp(h)
  BY <1>5, ReturnKnows DEF SaveDeleted, WriteStatus, GiveUp
<1> QED BY <1>1, <1>2, <1>3, <1>4, <1>5 DEF Other

-----------------------------------------------------------------------------
(* The base invariant, whatever the step.                                  *)

\* The steps that are no handler's.
Outside == (\E i \in Invoices : CreateDraft(i) \/ BatchSign(i)) \/ Crash

LEMMA OutsideDocs ==
  ASSUME BaseInv, Outside \/ UNCHANGED vars
  PROVE  TypeOK' /\ Lasting /\ RecordInv' /\ DocInv'
<1> USE DEF BaseInv, TypeOK, Lasting, RecordInv, DocInv, docs, history
<1>1. ASSUME NEW i \in Invoices, CreateDraft(i) PROVE TypeOK' /\ Lasting /\ RecordInv' /\ DocInv'
  BY <1>1 DEF CreateDraft
<1>2. ASSUME NEW i \in Invoices, BatchSign(i) PROVE TypeOK' /\ Lasting /\ RecordInv' /\ DocInv'
  BY <1>2 DEF BatchSign
<1>3. CASE Crash
  BY <1>3 DEF Crash
<1>4. CASE UNCHANGED vars
  BY <1>4 DEF vars
<1> QED BY <1>1, <1>2, <1>3, <1>4 DEF Outside

LEMMA OutsideBase ==
  ASSUME BaseInv, Outside \/ UNCHANGED vars
  PROVE  BaseInv' /\ Lasting
<1>1. CASE Crash
  <2>1. HandlerInv'
    BY <1>1 DEF Crash, HandlerInv, JobInv
  <2> QED BY <2>1, OutsideDocs DEF BaseInv
<1>2. CASE UNCHANGED work
  <2>1. ASSUME NEW k \in Handlers PROVE JobInv(work[k])'
    <3>1. PICK v \in Jobs : v = work[k]
      BY DEF BaseInv, TypeOK, Jobs
    <3>2. JobInv(v)
      BY <3>1 DEF BaseInv, HandlerInv
    <3>3. JobInv(v)'
      BY <3>2, OutsideDocs, JobStays
    <3> QED BY <1>2, <3>1, <3>3 DEF JobInv
  <2> QED BY <2>1, OutsideDocs DEF BaseInv, HandlerInv
<1> QED BY <1>1, <1>2 DEF Outside, CreateDraft, BatchSign, vars

LEMMA BaseStep ==
  ASSUME BaseInv, StatusIsBacked, [Next]_vars
  PROVE  BaseInv' /\ Lasting
<1>1. CASE \E h \in Handlers, i \in Invoices : Call(h, i)
  BY <1>1, CallType, CallLasts, CallDocs, CallKnows DEF BaseInv
<1>2. CASE \E h \in Handlers : Issue(h)
  BY <1>2, IssueType, IssueLasts, IssueDocs, IssueKnows DEF BaseInv
<1>3. CASE \E h \in Handlers : Other(h)
  BY <1>3, OtherType, OtherLasts, OtherDocs, OtherKnows DEF BaseInv
<1>4. CASE Outside \/ UNCHANGED vars
  BY <1>4, OutsideBase
<1> QED BY <1>1, <1>2, <1>3, <1>4 DEF Next, Outside

-----------------------------------------------------------------------------
(* Statuses are backed.                                                    *)

\* A new status is backed already, or needs no backing.
Founded(i) ==
    \/ status'[i] = status[i]
    \/ status'[i] \notin {"issued"} \cup Superseded
    \/ status'[i] = "issued" /\ Signed(i)
    \/ status'[i] \in Superseded /\ \E j \in Successors(i) : Signed(j)

LEMMA FoundedIsBacked ==
  ASSUME BaseInv, StatusIsBacked, TypeOK', Lasting, \A i \in Invoices : Founded(i)
  PROVE  StatusIsBacked'
<1> SUFFICES ASSUME NEW i \in Invoices
             PROVE  /\ status'[i] = "issued" => Signed(i)'
                    /\ status'[i] \in Superseded => \E j \in Successors(i)' : Signed(j)'
  BY DEF StatusIsBacked
<1> HIDE DEF Signed
<1>1. Signed(i) => Signed(i)'
  BY BackingLasts
<1>2. (\E j \in Successors(i) : Signed(j)) => \E j \in Successors(i)' : Signed(j)'
  BY BackingLasts
<1> QED BY <1>1, <1>2 DEF Founded, StatusIsBacked

LEMMA IssueFounded ==
  ASSUME BaseInv, NEW h \in Handlers, Issue(h), NEW i \in Invoices
  PROVE  Founded(i)
<1> USE DEF BaseInv, TypeOK, docs, history, SaveStatus, Founded
<1>1. CASE SavePending(h)
  BY <1>1 DEF SavePending, HandlerInv, JobInv, At
<1>2. CASE UNCHANGED status
  BY <1>2
<1>3. CASE SaveOutcome(h)
  BY <1>3 DEF SaveOutcome, At, HandlerInv, JobInv
<1>4. ASSUME NEW j \in Invoices, CreateSuccessor(h, j) PROVE Founded(i)
  BY <1>4 DEF CreateSuccessor
<1>5. CASE MarkOriginal(h)
  BY <1>5 DEF MarkOriginal, At, HandlerInv, JobInv, DocInv
<1>6. CASE DropSuccessor(h)
  BY <1>6 DEF DropSuccessor, At, HandlerInv, JobInv
<1> QED BY <1>1, <1>2, <1>3, <1>4, <1>5, <1>6 DEF Issue, Send, SignToIssue, CallFails

LEMMA OtherFounded ==
  ASSUME BaseInv, NEW h \in Handlers, Other(h), NEW i \in Invoices
  PROVE  Founded(i)
<1> USE DEF BaseInv, TypeOK, docs, history, SaveStatus, Founded
<1>1. CASE WriteStatus(h)
  BY <1>1 DEF WriteStatus, At, HandlerInv, JobInv
<1>2. CASE UNCHANGED status
  BY <1>2
<1> QED BY <1>1, <1>2 DEF Other, Sign, DeleteDraft, SaveDeleted, GetInfo, GiveUp

LEMMA BackedStep ==
  ASSUME BaseInv, StatusIsBacked, [Next]_vars
  PROVE  StatusIsBacked'
<1>1. ASSUME NEW i \in Invoices PROVE Founded(i)
  <2>1. CASE \E h \in Handlers : Issue(h)
    BY <2>1, IssueFounded
  <2>2. CASE \E h \in Handlers : Other(h)
    BY <2>2, OtherFounded
  <2>3. CASE \E k \in Invoices : CreateDraft(k)
    BY <2>3 DEF CreateDraft, Founded, BaseInv, TypeOK
  <2>4. CASE \E g \in Handlers, k \in Invoices : CreateAndIssue(g, k)
    BY <2>4 DEF CreateAndIssue, Founded, BaseInv, TypeOK
  <2>5. CASE UNCHANGED status
    BY <2>5 DEF Founded
  <2> QED
    BY <2>1, <2>2, <2>3, <2>4, <2>5 DEF Next, Call, ReadToIssue, ReadOriginal, ReadToSign, ReadToDelete,
       ReadToSync, BatchSign, Crash, vars, docs
<1> QED BY <1>1, BaseStep, FoundedIsBacked DEF BaseInv

-----------------------------------------------------------------------------
(* Pending invoices are attended.                                          *)

LEMMA IssueAttends ==
  ASSUME BaseInv, PendingIsAttended, NEW h \in Handlers, Issue(h)
  PROVE  PendingIsAttended'
<1> USE DEF BaseInv, TypeOK, docs, history, SaveStatus, PendingIsAttended, Proceed, HandlerInv, JobInv, At
<1>1. CASE SavePending(h)
  BY <1>1 DEF SavePending, Goto, Return
<1>2. CASE \E s \in Status \cup {None}, g \in Guids \cup {None} :
             At(h, "calling") /\ Heard(h, s, g) /\ UNCHANGED <<status, stuck>>
  BY <1>2 DEF Heard
<1>3. CASE SaveOutcome(h)
  BY <1>3 DEF SaveOutcome, Goto, Return
<1>4. ASSUME NEW j \in Invoices, CreateSuccessor(h, j) PROVE PendingIsAttended'
  BY <1>4 DEF CreateSuccessor
<1>5. CASE MarkOriginal(h)
  BY <1>5, SMTT(30) DEF MarkOriginal, DocInv, Return
<1>6. CASE DropSuccessor(h)
  BY <1>6 DEF DropSuccessor, Return
<1>7. ASSUME NEW g \in Guids, NEW ok \in BOOLEAN, NEW named \in BOOLEAN, NEW numbered \in BOOLEAN, Send(h, g, ok, named, numbered)
      PROVE  PendingIsAttended'
  BY <1>2, <1>7 DEF Send, Created
<1>8. ASSUME NEW ok \in BOOLEAN, SignToIssue(h, ok) PROVE PendingIsAttended'
  BY <1>2, <1>8 DEF SignToIssue
<1>9. CASE CallFails(h)
  BY <1>2, <1>9 DEF CallFails
<1> QED BY <1>1, <1>3, <1>4, <1>5, <1>6, <1>7, <1>8, <1>9 DEF Issue

LEMMA OtherAttends ==
  ASSUME BaseInv, PendingIsAttended, NEW h \in Handlers, Other(h)
  PROVE  PendingIsAttended'
<1> USE DEF BaseInv, TypeOK, docs, history, SaveStatus, PendingIsAttended, Proceed, At, Goto, Return
<1>1. CASE WriteStatus(h)
  BY <1>1 DEF WriteStatus, HandlerInv, JobInv
<1>2. CASE /\ work[h].pc \notin {"calling", "saving"}
           /\ \A k \in Handlers \ {h} : work'[k] = work[k]
           /\ UNCHANGED <<status, stuck>>
  BY <1>2
<1>3. ASSUME NEW ok \in BOOLEAN, Sign(h, ok) PROVE PendingIsAttended'
  BY <1>2, <1>3 DEF Sign
<1>4. ASSUME NEW ok \in BOOLEAN, DeleteDraft(h, ok) PROVE PendingIsAttended'
  BY <1>2, <1>4 DEF DeleteDraft
<1>5. ASSUME NEW g \in Guids, GetInfo(h, g) PROVE PendingIsAttended'
  BY <1>2, <1>5 DEF GetInfo
<1>6. CASE SaveDeleted(h) \/ GiveUp(h)
  BY <1>2, <1>6 DEF SaveDeleted, GiveUp
<1> QED BY <1>1, <1>3, <1>4, <1>5, <1>6 DEF Other

LEMMA CallAttends ==
  ASSUME BaseInv, PendingIsAttended, NEW h \in Handlers, NEW i \in Invoices, Call(h, i)
  PROVE  PendingIsAttended'
<1> USE DEF BaseInv, TypeOK, docs, history, PendingIsAttended, Start
<1>1. CASE CreateAndIssue(h, i)
  BY <1>1 DEF CreateAndIssue
<1>2. CASE /\ work[h] = Idle
           /\ \A k \in Handlers \ {h} : work'[k] = work[k]
           /\ UNCHANGED <<status, stuck>>
  BY <1>2
<1> QED BY <1>1, <1>2 DEF Call, ReadToIssue, ReadOriginal, ReadToSign, ReadToDelete, ReadToSync

LEMMA OutsideAttends ==
  ASSUME BaseInv, PendingIsAttended, Outside \/ UNCHANGED vars
  PROVE  PendingIsAttended'
<1> USE DEF BaseInv, TypeOK, docs, history, PendingIsAttended
<1>1. ASSUME NEW i \in Invoices, CreateDraft(i) PROVE PendingIsAttended'
  BY <1>1 DEF CreateDraft
<1>2. ASSUME NEW i \in Invoices, BatchSign(i) PROVE PendingIsAttended'
  BY <1>2 DEF BatchSign
<1>3. CASE Crash
  BY <1>3 DEF Crash
<1>4. CASE UNCHANGED vars
  BY <1>4 DEF vars
<1> QED BY <1>1, <1>2, <1>3, <1>4 DEF Outside

LEMMA PendingStep ==
  ASSUME BaseInv, PendingIsAttended, [Next]_vars
  PROVE  PendingIsAttended'
BY IssueAttends, OtherAttends, CallAttends, OutsideAttends DEF Next, Outside

-----------------------------------------------------------------------------
(* One record for each invoice without an accident.                        *)

LEMMA IssueCertain ==
  ASSUME BaseInv, NEW h \in Handlers, Issue(h), NEW i \in Invoices \ doubtful', Certain(i)
  PROVE  Certain(i)'
<1> USE DEF BaseInv, TypeOK, docs, history, SaveStatus, HandlerInv, JobInv, At, Goto, Heard, Return, Proceed, Start,
        Certain, OneRecord, OneIssuer, Remembered, Unsent, Pending,
        FinalHasRecord, CopyHasRecord, WriterHasRecord, Closed
<1>1. CASE SavePending(h)
  <2>1. OneRecord(i)'
    BY <1>1 DEF SavePending
  <2>2. OneIssuer(i)'
    BY <1>1 DEF SavePending
  <2>3. Remembered(i)'
    <3>1. RecordsOf(i)' = RecordsOf(i)
      BY <1>1 DEF SavePending
    <3>2. /\ \A k \in Handlers \ {h} : work'[k] = work[k]
          /\ work[h].pc = "sending" /\ work'[h].pc \in {"calling", "idle"}
          /\ work[h].inv # i => status'[i] = status[i]
          /\ UNCHANGED guid
      BY <1>1 DEF SavePending
    <3>3. work'[h].inv = i => work[h].inv = i
      BY <1>1 DEF SavePending
    <3> HIDE DEF RecordsOf
    <3> QED BY <3>1, <3>2, <3>3
  <2>4. Unsent(i)'
    BY <1>1 DEF SavePending
  <2>5. Pending(i)'
    BY <1>1 DEF SavePending
  <2>6. FinalHasRecord(i)'
    BY <1>1 DEF SavePending
  <2>7. CopyHasRecord(i)'
    BY <1>1 DEF SavePending
  <2>8. WriterHasRecord(i)'
    BY <1>1 DEF SavePending
  <2> QED BY <2>1, <2>2, <2>3, <2>4, <2>5, <2>6, <2>7, <2>8
<1>2. ASSUME NEW g \in Guids, NEW ok \in BOOLEAN, NEW named \in BOOLEAN, NEW numbered \in BOOLEAN, Send(h, g, ok, named, numbered)
      PROVE  Certain(i)'
  <2>1. OneRecord(i)'
    BY <1>2 DEF Send, Created, SendsNew, RecordInv
  <2>2. OneIssuer(i)'
    BY <1>2 DEF Send, Created, SendsNew, RecordInv
  <2>3. Remembered(i)'
    <3>1. /\ \A k \in Handlers \ {h} : work'[k] = work[k]
          /\ work[h].pc = "calling" /\ work'[h].inv = work[h].inv
          /\ UNCHANGED docs
      BY <1>2 DEF Send
    <3>2. CASE work[h].inv # i
      <4>1. RecordsOf(i)' = RecordsOf(i)
        BY <1>2, <3>2 DEF Send, RecordInv
      <4>2. guid' = guid /\ status' = status /\ work'[h].inv # i
        BY <3>1, <3>2
      <4> HIDE DEF RecordsOf, TypeOK, HandlerInv, JobInv, BaseInv, OneRecord, OneIssuer, Unsent,
            Pending, FinalHasRecord, CopyHasRecord, WriterHasRecord
      <4>3. CASE RecordsOf(i) = {}
        BY <4>1, <4>3
      <4>4. CASE guid[i] # None
        BY <4>2, <4>4
      <4>5. ASSUME NEW k \in Handlers, work[k].inv = i, work[k].pc = "saving", work[k].guid # None
            PROVE  Remembered(i)'
        <5>1. work'[k] = work[k]
          BY <3>1, <3>2, <4>5
        <5> QED BY <4>5, <5>1
      <4>6. ASSUME status[i] \notin {"draft", "error"},
                   \A k \in Handlers : work[k].inv = i => work[k].pc \notin Issuing
            PROVE  Remembered(i)'
        <5>1. \A k \in Handlers : work'[k].inv = i => work'[k].pc \notin Issuing
          BY <3>1, <4>2, <4>6
        <5> QED BY <4>2, <4>6, <5>1
      <4>7. Remembered(i)
        OBVIOUS
      <4> QED BY <4>3, <4>4, <4>5, <4>6, <4>7
    <3>3. CASE work[h].inv = i
      <4>1. work'[h].pc = "saving" /\ work'[h].guid = g
        BY <1>2, <3>3 DEF Send
      <4> QED BY <3>1, <3>3, <4>1
    <3> QED BY <3>2, <3>3
  <2>4. Unsent(i)'
    BY <1>2 DEF Send, Created, SendsNew, RecordInv
  <2>5. Pending(i)'
    BY <1>2 DEF Send, Created, SendsNew, RecordInv
  <2>6. FinalHasRecord(i)'
    BY <1>2 DEF Send, Created, SendsNew, RecordInv
  <2>7. CopyHasRecord(i)'
    BY <1>2 DEF Send, Created, SendsNew, RecordInv
  <2>8. WriterHasRecord(i)'
    <3>1. /\ g \notin RecordsOf(i) /\ \A k \in Guids \ {g} : record'[k] = record[k]
          /\ record'[g].inv = work[h].inv
          /\ \A k \in Handlers \ {h} : work'[k] = work[k]
          /\ work[h].pc = "calling" /\ work'[h].inv = work[h].inv
      BY <1>2 DEF Send, RecordInv
    <3>2. CASE work[h].inv # i
      BY SMTT(20), <3>1, <3>2
    <3>3. CASE work[h].inv = i
      <4>1. RecordsOf(i) = {} /\ RecordsOf(i)' = {g}
        BY <1>2, <3>1, <3>3 DEF Send, SendsNew
      <4>2. work'[h].next \in Final => record'[g].state = "signed"
        BY <1>2, <3>3 DEF Send, Created
      <4> QED BY <3>1, <4>1, <4>2
    <3> QED BY <3>2, <3>3
  <2> QED BY <2>1, <2>2, <2>3, <2>4, <2>5, <2>6, <2>7, <2>8
<1>3. ASSUME NEW ok \in BOOLEAN, SignToIssue(h, ok) PROVE Certain(i)'
  <2>1. OneRecord(i)'
    BY <1>3 DEF SignToIssue, SendsNew
  <2>2. OneIssuer(i)'
    BY <1>3 DEF SignToIssue, SendsNew
  <2>3. Remembered(i)'
    BY <1>3 DEF SignToIssue, SendsNew
  <2>4. Unsent(i)'
    BY <1>3 DEF SignToIssue, SendsNew
  <2>5. Pending(i)'
    BY <1>3 DEF SignToIssue, SendsNew
  <2>6. FinalHasRecord(i)'
    BY <1>3 DEF SignToIssue, SendsNew
  <2>7. CopyHasRecord(i)'
    BY <1>3 DEF SignToIssue, SendsNew
  <2>8. WriterHasRecord(i)'
    BY <1>3 DEF SignToIssue, SendsNew
  <2> QED BY <2>1, <2>2, <2>3, <2>4, <2>5, <2>6, <2>7, <2>8
<1>4. CASE CallFails(h)
  BY <1>4 DEF CallFails
<1>5. CASE SaveOutcome(h)
  <2>1. OneRecord(i)'
    BY <1>5 DEF SaveOutcome
  <2>2. OneIssuer(i)'
    BY <1>5 DEF SaveOutcome
  <2>3. Remembered(i)'
    <3>1. RecordsOf(i)' = RecordsOf(i)
      BY <1>5 DEF SaveOutcome
    <3>2. /\ \A k \in Handlers \ {h} : work'[k] = work[k]
          /\ work[h].pc = "saving" /\ work'[h].pc \in {"marking", "idle"}
      BY <1>5 DEF SaveOutcome
    <3>3. CASE work[h].inv # i
      <4>1. status'[i] = status[i] /\ guid'[i] = guid[i]
        BY <1>5, <3>3 DEF SaveOutcome
      <4> HIDE DEF RecordsOf
      <4> QED BY <3>1, <3>2, <3>3, <4>1
    <3>4. CASE work[h].inv = i
      <4>1. /\ Exists(i) /\ work[h].guid # None => guid'[i] # None
            /\ guid[i] # None => guid'[i] # None
            /\ ~Exists(i) => status'[i] = status[i]
        BY <1>5, <3>4 DEF SaveOutcome
      <4> HIDE DEF RecordsOf
      <4> QED BY <3>1, <3>2, <3>4, <4>1
    <3> QED BY <3>3, <3>4
  <2>4. Unsent(i)'
    BY <1>5 DEF SaveOutcome
  <2>5. Pending(i)'
    BY <1>5 DEF SaveOutcome
  <2>6. FinalHasRecord(i)'
    BY <1>5 DEF SaveOutcome
  <2>7. CopyHasRecord(i)'
    BY <1>5 DEF SaveOutcome
  <2>8. WriterHasRecord(i)'
    BY <1>5 DEF SaveOutcome
  <2> QED BY <2>1, <2>2, <2>3, <2>4, <2>5, <2>6, <2>7, <2>8
<1>6. ASSUME NEW j \in Invoices, CreateSuccessor(h, j) PROVE Certain(i)'
  <2>1. OneRecord(i)'
    BY <1>6 DEF CreateSuccessor, DocInv
  <2>2. OneIssuer(i)'
    BY <1>6 DEF CreateSuccessor, DocInv
  <2>3. Remembered(i)'
    BY <1>6 DEF CreateSuccessor, DocInv
  <2>4. Unsent(i)'
    BY <1>6 DEF CreateSuccessor, DocInv
  <2>5. Pending(i)'
    BY <1>6 DEF CreateSuccessor, DocInv
  <2>6. FinalHasRecord(i)'
    BY <1>6 DEF CreateSuccessor, DocInv
  <2>7. CopyHasRecord(i)'
    BY <1>6 DEF CreateSuccessor, DocInv
  <2>8. WriterHasRecord(i)'
    BY <1>6 DEF CreateSuccessor, DocInv
  <2> QED BY <2>1, <2>2, <2>3, <2>4, <2>5, <2>6, <2>7, <2>8
<1>7. CASE MarkOriginal(h)
  <2>1. OneRecord(i)'
    BY <1>7 DEF MarkOriginal, DocInv
  <2>2. OneIssuer(i)'
    BY <1>7 DEF MarkOriginal, DocInv
  <2>3. Remembered(i)'
    BY <1>7 DEF MarkOriginal, DocInv
  <2>4. Unsent(i)'
    BY <1>7 DEF MarkOriginal, DocInv
  <2>5. Pending(i)'
    BY SMTT(20), <1>7 DEF MarkOriginal, DocInv
  <2>6. FinalHasRecord(i)'
    BY <1>7 DEF MarkOriginal, DocInv
  <2>7. CopyHasRecord(i)'
    BY <1>7 DEF MarkOriginal, DocInv
  <2>8. WriterHasRecord(i)'
    BY <1>7 DEF MarkOriginal, DocInv
  <2> QED BY <2>1, <2>2, <2>3, <2>4, <2>5, <2>6, <2>7, <2>8
<1>8. CASE DropSuccessor(h)
  <2>1. OneRecord(i)'
    BY <1>8 DEF DropSuccessor
  <2>2. OneIssuer(i)'
    BY <1>8 DEF DropSuccessor
  <2>3. Remembered(i)'
    BY <1>8 DEF DropSuccessor
  <2>4. Unsent(i)'
    BY <1>8 DEF DropSuccessor
  <2>5. Pending(i)'
    BY <1>8 DEF DropSuccessor
  <2>6. FinalHasRecord(i)'
    BY <1>8 DEF DropSuccessor
  <2>7. CopyHasRecord(i)'
    BY <1>8 DEF DropSuccessor
  <2>8. WriterHasRecord(i)'
    BY <1>8 DEF DropSuccessor
  <2> QED BY <2>1, <2>2, <2>3, <2>4, <2>5, <2>6, <2>7, <2>8
<1> HIDE DEF Certain
<1> QED BY <1>1, <1>2, <1>3, <1>4, <1>5, <1>6, <1>7, <1>8 DEF Issue

LEMMA OtherCertain ==
  ASSUME BaseInv, NEW h \in Handlers, Other(h), NEW i \in Invoices \ doubtful', Certain(i)
  PROVE  Certain(i)'
<1> USE DEF BaseInv, TypeOK, docs, history, SaveStatus, HandlerInv, JobInv, At, Goto, Heard, Return, Proceed, Start,
        Certain, OneRecord, OneIssuer, Remembered, Unsent, Pending,
        FinalHasRecord, CopyHasRecord, WriterHasRecord, Closed
<1>1. ASSUME NEW ok \in BOOLEAN, Sign(h, ok) PROVE Certain(i)'
  <2>1. OneRecord(i)'
    BY <1>1 DEF Sign
  <2>2. OneIssuer(i)'
    BY <1>1 DEF Sign
  <2>3. Remembered(i)'
    <3>1. RecordsOf(i)' = RecordsOf(i)
      BY <1>1 DEF Sign
    <3>2. /\ \A k \in Handlers \ {h} : work'[k] = work[k]
          /\ work[h].pc = "signing" /\ work'[h].pc \in {"writing", "idle"}
          /\ UNCHANGED docs
      BY <1>1 DEF Sign
    <3>3. Remembered(i)
      OBVIOUS
    <3> HIDE DEF RecordsOf, BaseInv, TypeOK, HandlerInv, JobInv, Certain, OneRecord, OneIssuer, Unsent, Pending,
                 FinalHasRecord, CopyHasRecord, WriterHasRecord
    <3> QED BY <3>1, <3>2, <3>3, SMTT(30)
  <2>4. Unsent(i)'
    BY <1>1 DEF Sign
  <2>5. Pending(i)'
    BY SMTT(20), <1>1 DEF Sign
  <2>6. FinalHasRecord(i)'
    BY <1>1 DEF Sign
  <2>7. CopyHasRecord(i)'
    BY <1>1 DEF Sign
  <2>8. WriterHasRecord(i)'
    BY <1>1 DEF Sign
  <2> QED BY <2>1, <2>2, <2>3, <2>4, <2>5, <2>6, <2>7, <2>8
<1>2. ASSUME NEW ok \in BOOLEAN, DeleteDraft(h, ok) PROVE Certain(i)'
  <2>1. OneRecord(i)'
    BY <1>2 DEF DeleteDraft
  <2>2. OneIssuer(i)'
    BY <1>2 DEF DeleteDraft
  <2>3. Remembered(i)'
    BY SMTT(20), <1>2 DEF DeleteDraft
  <2>4. Unsent(i)'
    BY <1>2 DEF DeleteDraft
  <2>5. Pending(i)'
    BY <1>2 DEF DeleteDraft
  <2>6. FinalHasRecord(i)'
    BY <1>2 DEF DeleteDraft
  <2>7. CopyHasRecord(i)'
    BY <1>2 DEF DeleteDraft
  <2>8. WriterHasRecord(i)'
    BY <1>2 DEF DeleteDraft
  <2> QED BY <2>1, <2>2, <2>3, <2>4, <2>5, <2>6, <2>7, <2>8
<1>3. CASE SaveDeleted(h)
  BY <1>3 DEF SaveDeleted
<1>4. ASSUME NEW g \in Guids, GetInfo(h, g) PROVE Certain(i)'
  <2>1. OneRecord(i)'
    BY <1>4 DEF GetInfo, BkavStatus, RecordInv, DocInv
  <2>2. OneIssuer(i)'
    BY <1>4 DEF GetInfo, BkavStatus, RecordInv, DocInv
  <2>3. Remembered(i)'
    BY <1>4 DEF GetInfo, BkavStatus, RecordInv, DocInv
  <2>4. Unsent(i)'
    BY <1>4 DEF GetInfo, BkavStatus, RecordInv, DocInv
  <2>5. Pending(i)'
    BY <1>4 DEF GetInfo, BkavStatus, RecordInv, DocInv
  <2>6. FinalHasRecord(i)'
    BY <1>4 DEF GetInfo, BkavStatus, RecordInv, DocInv
  <2>7. CopyHasRecord(i)'
    <3>1. work[h].inv = i => g \in RecordsOf(i)
      BY <1>4 DEF GetInfo
    <3>2. work[h].inv = i /\ record[g].state \in {"signed", "removed"} => BkavStatus(g) \subseteq Final
      <4>1. \A j \in Invoices : original[j] = i => relation[j] \in Final
        BY DEF DocInv
      <4> DEFINE by == {relation[j] : j \in {j \in Successors(record[g].inv) : Signed(j)}}
      <4>2. work[h].inv = i => by \subseteq Final
        BY <3>1, <4>1
      <4>3. record[g].state = "removed" => BkavStatus(g) = {"cancelled"}
        BY DEF BkavStatus
      <4>4. record[g].state = "signed" => BkavStatus(g) = IF by = {} THEN {"issued"} ELSE by
        BY DEF BkavStatus
      <4> HIDE DEF by
      <4> QED BY <4>2, <4>3, <4>4
    <3>3. PICK s \in BkavStatus(g) : Goto(h, "writing", s)
      BY <1>4 DEF GetInfo
    <3> QED BY <1>4, <3>1, <3>2, <3>3 DEF GetInfo
  <2>8. WriterHasRecord(i)'
    BY <1>4 DEF GetInfo, BkavStatus, RecordInv, DocInv
  <2> QED BY <2>1, <2>2, <2>3, <2>4, <2>5, <2>6, <2>7, <2>8
<1>5. CASE WriteStatus(h)
  BY <1>5 DEF WriteStatus
<1>6. CASE GiveUp(h)
  BY <1>6 DEF GiveUp
<1> HIDE DEF Certain
<1> QED BY <1>1, <1>2, <1>3, <1>4, <1>5, <1>6 DEF Other

LEMMA CallCertain ==
  ASSUME BaseInv, NEW h \in Handlers, NEW k \in Invoices, Call(h, k), NEW i \in Invoices \ doubtful', Certain(i)
  PROVE  Certain(i)'
<1> USE DEF BaseInv, TypeOK, docs, history, SaveStatus, HandlerInv, JobInv, At, Goto, Heard, Return, Proceed, Start,
        Certain, OneRecord, OneIssuer, Remembered, Unsent, Pending,
        FinalHasRecord, CopyHasRecord, WriterHasRecord, Closed
<1>1. CASE CreateAndIssue(h, k)
  BY <1>1 DEF CreateAndIssue, DocInv
<1>2. CASE ReadToIssue(h, k)
  BY <1>2 DEF ReadToIssue, MaySend, Contended
<1>3. ASSUME NEW rel \in Superseded, ReadOriginal(h, k, rel) PROVE Certain(i)'
  BY <1>3 DEF ReadOriginal
<1>4. CASE ReadToSign(h, k)
  BY <1>4 DEF ReadToSign
<1>5. CASE ReadToDelete(h, k)
  BY <1>5 DEF ReadToDelete
<1>6. CASE ReadToSync(h, k)
  BY <1>6 DEF ReadToSync
<1> QED BY <1>1, <1>2, <1>3, <1>4, <1>5, <1>6 DEF Call

LEMMA OutsideCertain ==
  ASSUME BaseInv, Outside \/ UNCHANGED vars, NEW i \in Invoices \ doubtful', Certain(i)
  PROVE  Certain(i)'
<1> USE DEF BaseInv, TypeOK, docs, history,
        Certain, OneRecord, OneIssuer, Remembered, Unsent, Pending,
        FinalHasRecord, CopyHasRecord, WriterHasRecord, Closed
<1>1. ASSUME NEW k \in Invoices, CreateDraft(k) PROVE Certain(i)'
  <2>1. OneRecord(i)'
    BY <1>1 DEF CreateDraft, DocInv, HandlerInv, JobInv
  <2>2. OneIssuer(i)'
    BY <1>1 DEF CreateDraft, DocInv, HandlerInv, JobInv
  <2>3. Remembered(i)'
    BY <1>1 DEF CreateDraft, DocInv, HandlerInv, JobInv
  <2>4. Unsent(i)'
    BY <1>1 DEF CreateDraft, DocInv, HandlerInv, JobInv
  <2>5. Pending(i)'
    BY <1>1 DEF CreateDraft, DocInv, HandlerInv, JobInv
  <2>6. FinalHasRecord(i)'
    BY <1>1 DEF CreateDraft, DocInv, HandlerInv, JobInv
  <2>7. CopyHasRecord(i)'
    BY <1>1 DEF CreateDraft, DocInv, HandlerInv, JobInv
  <2>8. WriterHasRecord(i)'
    BY <1>1 DEF CreateDraft, DocInv, HandlerInv, JobInv
  <2> QED BY <2>1, <2>2, <2>3, <2>4, <2>5, <2>6, <2>7, <2>8
<1>2. ASSUME NEW k \in Invoices, BatchSign(k) PROVE Certain(i)'
  BY <1>2 DEF BatchSign
<1>3. CASE Crash
  BY <1>3 DEF Crash
<1>4. CASE UNCHANGED vars
  BY <1>4 DEF vars
<1> QED BY <1>1, <1>2, <1>3, <1>4 DEF Outside

LEMMA CertainStep ==
  ASSUME BaseInv, CertainInv, [Next]_vars
  PROVE  CertainInv'
<1> SUFFICES ASSUME NEW i \in Invoices \ doubtful' PROVE Certain(i)'
  BY DEF CertainInv
<1>1. doubtful \subseteq doubtful'
  <2> USE DEF docs, history
  <2>1. CASE Outside \/ UNCHANGED vars
    BY <2>1 DEF Outside, vars, CreateDraft, BatchSign, Crash
  <2>2. ASSUME NEW h \in Handlers, NEW j \in Invoices, Call(h, j) PROVE doubtful \subseteq doubtful'
    BY <2>2 DEF Call, CreateAndIssue, ReadToIssue, ReadOriginal, ReadToSign, ReadToDelete, ReadToSync
  <2>3. ASSUME NEW h \in Handlers, Issue(h) PROVE doubtful \subseteq doubtful'
    BY <2>3 DEF Issue, SavePending, Send, SignToIssue, CallFails, SaveOutcome, CreateSuccessor,
       MarkOriginal, DropSuccessor
  <2>4. ASSUME NEW h \in Handlers, Other(h) PROVE doubtful \subseteq doubtful'
    BY <2>4 DEF Other, Sign, DeleteDraft, SaveDeleted, GetInfo, WriteStatus, GiveUp
  <2> QED BY <2>1, <2>2, <2>3, <2>4 DEF Next, Outside
<1>2. Certain(i)
  BY <1>1 DEF CertainInv
<1> QED BY <1>2, IssueCertain, OtherCertain, CallCertain, OutsideCertain DEF Next, Outside

-----------------------------------------------------------------------------
(* The theorems.                                                           *)

LEMMA NextIInv == IInv /\ [Next]_vars => IInv'
BY BaseStep, BackedStep, PendingStep, CertainStep DEF IInv

LEMMA Invariance == Spec => []IInv
BY InitIInv, NextIInv, PTL DEF Spec

LEMMA OneRecordIsEnough ==
  ASSUME NEW i, OneRecord(i) PROVE Cardinality(RecordsOf(i)) <= 1
<1>1. CASE RecordsOf(i) = {}
  BY <1>1, FS_EmptySet
<1>2. ASSUME NEW g \in RecordsOf(i) PROVE Cardinality(RecordsOf(i)) <= 1
  <2>1. RecordsOf(i) = {g}
    BY <1>2 DEF OneRecord
  <2> QED BY SMTT(20), <2>1, FS_Singleton
<1> QED BY <1>1, <1>2

\* Whatever the handlers, the provider and the crashes do, the statuses are
\* backed by signed records, an invoice without an accident has one record, and
\* a pending invoice has a handler.
THEOREM InvoicesStayBacked == Spec => []InvoicesAreBacked
<1>1. IInv => InvoicesAreBacked
  BY OneRecordIsEnough DEF IInv, BaseInv, InvoicesAreBacked, IssuedOnce, CertainInv, Certain
<1> QED BY <1>1, Invariance, PTL

-----------------------------------------------------------------------------
(* An issued invoice stays closed.                                         *)

\* What a step may not disturb: the handlers of a settled invoice only read,
\* sign, synchronise or delete, and are about to write a final status.
Harmless(i) ==
    /\ status[i] \in Final /\ i \notin doubtful
    /\ \A h \in Handlers : work[h].inv = i =>
          /\ work[h].read \in Final
          /\ work[h].pc \notin Issuing \cup {"marking"}
          /\ work[h].pc = "writing" => work[h].next \in Final

LEMMA SettledIsHarmless ==
  ASSUME IInv, NEW i \in Invoices, Settled(i) PROVE Harmless(i)
BY DEF IInv, BaseInv, TypeOK, HandlerInv, JobInv, CertainInv, Certain, CopyHasRecord, Settled, Harmless

LEMMA IssueSettles ==
  ASSUME IInv, NEW h \in Handlers, Issue(h), NEW i \in Invoices, Harmless(i)
  PROVE  Settled(i)'
<1> USE DEF IInv, BaseInv, TypeOK, docs, history, SaveStatus, HandlerInv, JobInv, At, Goto, Heard,
        Return, Proceed, Settled, Harmless
<1>1. CASE SavePending(h)
  BY <1>1 DEF SavePending
<1>2. ASSUME NEW g \in Guids, NEW ok \in BOOLEAN, NEW named \in BOOLEAN, NEW numbered \in BOOLEAN, Send(h, g, ok, named, numbered)
      PROVE  Settled(i)'
  <2>1. work[h].pc = "calling" /\ work[h].inv # i
    BY <1>2 DEF Send
  <2>2. i \notin doubtful' /\ status'[i] \in Final
    BY <1>2, <2>1 DEF Send
  <2>3. work'[h].inv # i /\ \A k \in Handlers \ {h} : work'[k] = work[k]
    BY <1>2, <2>1 DEF Send
  <2> QED BY <2>2, <2>3
<1>3. ASSUME NEW ok \in BOOLEAN, SignToIssue(h, ok) PROVE Settled(i)'
  BY <1>3 DEF SignToIssue
<1>4. CASE CallFails(h)
  BY <1>4 DEF CallFails
<1>5. CASE SaveOutcome(h)
  <2>1. work[h].inv # i
    BY <1>5 DEF SaveOutcome
  <2>2. i \notin doubtful' /\ status'[i] \in Final
    BY <1>5, <2>1 DEF SaveOutcome
  <2>3. work'[h].inv # i /\ \A k \in Handlers \ {h} : work'[k] = work[k]
    BY <1>5, <2>1 DEF SaveOutcome
  <2>4. \A k \in Handlers : work[k].inv = i =>
            work[k].read \in Final /\ work[k].pc \notin {"saving", "marking"}
    OBVIOUS
  <2> HIDE DEF IInv, BaseInv, TypeOK, HandlerInv, JobInv, Harmless
  <2> QED BY <2>2, <2>3, <2>4
<1>6. ASSUME NEW j \in Invoices, CreateSuccessor(h, j) PROVE Settled(i)'
  BY <1>6 DEF CreateSuccessor
<1>7. CASE MarkOriginal(h)
  BY <1>7 DEF MarkOriginal, DocInv
<1>8. CASE DropSuccessor(h)
  BY <1>8 DEF DropSuccessor
<1> QED BY <1>1, <1>2, <1>3, <1>4, <1>5, <1>6, <1>7, <1>8 DEF Issue

LEMMA OtherSettles ==
  ASSUME IInv, NEW h \in Handlers, Other(h), NEW i \in Invoices, Harmless(i)
  PROVE  Settled(i)'
<1> USE DEF IInv, BaseInv, TypeOK, docs, history, SaveStatus, HandlerInv, JobInv, At, Goto,
        Return, Proceed, Settled, Harmless
<1>1. ASSUME NEW ok \in BOOLEAN, Sign(h, ok) PROVE Settled(i)'
  BY <1>1 DEF Sign
<1>2. ASSUME NEW ok \in BOOLEAN, DeleteDraft(h, ok) PROVE Settled(i)'
  BY <1>2 DEF DeleteDraft
<1>3. CASE Return(h) /\ UNCHANGED <<status, doubtful>>
  BY <1>3
<1>4. ASSUME NEW g \in Guids, GetInfo(h, g) PROVE Settled(i)'
  BY <1>4 DEF GetInfo
<1>5. CASE WriteStatus(h)
  BY <1>5 DEF WriteStatus
<1> QED BY <1>1, <1>2, <1>3, <1>4, <1>5 DEF Other, SaveDeleted, GiveUp

LEMMA CallSettles ==
  ASSUME IInv, NEW h \in Handlers, NEW k \in Invoices, Call(h, k), NEW i \in Invoices, Harmless(i)
  PROVE  Settled(i)'
<1> USE DEF IInv, BaseInv, TypeOK, docs, history, Start, Settled, Harmless
<1>1. CASE CreateAndIssue(h, k)
  BY <1>1 DEF CreateAndIssue
<1>2. CASE ReadToIssue(h, k)
  BY <1>2 DEF ReadToIssue, MaySend
<1>3. ASSUME NEW rel \in Superseded, ReadOriginal(h, k, rel) PROVE Settled(i)'
  BY <1>3 DEF ReadOriginal
<1>4. CASE ReadToSign(h, k)
  BY <1>4 DEF ReadToSign
<1>5. CASE ReadToDelete(h, k)
  BY <1>5 DEF ReadToDelete
<1>6. CASE ReadToSync(h, k)
  BY <1>6 DEF ReadToSync
<1> QED BY <1>1, <1>2, <1>3, <1>4, <1>5, <1>6 DEF Call

LEMMA OutsideSettles ==
  ASSUME IInv, Outside \/ UNCHANGED vars, NEW i \in Invoices, Harmless(i)
  PROVE  Settled(i)'
<1> USE DEF IInv, BaseInv, TypeOK, docs, history, Settled, Harmless
<1>1. ASSUME NEW k \in Invoices, CreateDraft(k) PROVE Settled(i)'
  BY <1>1 DEF CreateDraft
<1>2. ASSUME NEW k \in Invoices, BatchSign(k) PROVE Settled(i)'
  BY <1>2 DEF BatchSign
<1>3. CASE Crash
  BY <1>3 DEF Crash
<1>4. CASE UNCHANGED vars
  BY <1>4 DEF vars
<1> QED BY <1>1, <1>2, <1>3, <1>4 DEF Outside

\* An invoice that is final, and whose handlers have read it as final, never
\* opens again: no save of theirs, whenever it comes, writes another status.
THEOREM SettledStaysFinal == Spec => SettledIsFinal
<1>1. ASSUME IInv, [Next]_vars, NEW i \in Invoices, Settled(i) PROVE Settled(i)'
  <2>1. Harmless(i)
    BY <1>1, SettledIsHarmless
  <2> QED BY <1>1, <2>1, IssueSettles, OtherSettles, CallSettles, OutsideSettles DEF Next, Outside
<1>2. IInv /\ [Next]_vars => [\A i \in Invoices : Settled(i) => Settled(i)']_vars
  BY <1>1
<1> QED BY <1>2, Invariance, PTL DEF Spec, SettledIsFinal

\* The rest is about Learning.
HIDE InvoiceAssumption DEF Status, Superseded, Final, Issuing, PCs, Exists, Idle, Job, Copy,
     RecordsOf, Signed, Successors

-----------------------------------------------------------------------------
(* The books.  While nothing disturbs it, one request at a time works on    *)
(* the plan, and its step says what records there are.                      *)

Ledger == [step : {"none", "check", "remove", "save", "generate"}, plan : Plans \cup {NoPlan},
           months : SUBSET Nat, force : BOOLEAN]
Record == [no : Nat, month : Nat, amount : Int, status : {"pending", "approved", "cancelled"}]

BookTypes ==
    /\ plan \in Plans \cup {NoPlan} /\ lastNo \in Nat
    /\ records \subseteq Record /\ IsFiniteSet(records)
    /\ \A x \in records : x.no <= lastNo
    /\ \A x, y \in records : x.no = y.no => x = y
    /\ ledgers \in [Accountants -> Ledger]
    /\ \A r \in Accountants : ledgers[r].step = "generate" =>
          /\ ledgers[r].plan \in Plans
          /\ ledgers[r].months # {} /\ ledgers[r].months \subseteq ledgers[r].plan.months

\* What was approved is there and still so; a removal that was not forced has
\* found nothing approved.
ApprovedStands == \A n \in approvedNos \ excused : \E x \in records : x.no = n /\ x.status = "approved"
RemovalIsFree(r) == ledgers[r].step = "remove" /\ ~ledgers[r].force => approvedNos \subseteq excused

\* The records are those of plan p for the months.
SpreadOver(p, months) ==
    /\ {x.month : x \in records} = months
    /\ \A x, y \in records : x.month = y.month => x = y
    /\ \A x \in records : x.amount = B!Share(p, x.month)
Spread == IF plan = NoPlan THEN records = {} ELSE SpreadOver(plan, plan.months)

\* Where a request that works alone is.
LedgerFits(r) ==
    LET x == ledgers[r] IN
    /\ x.step \in {"check", "remove"} => plan # NoPlan /\ Spread
    /\ x.step = "save" => plan # NoPlan /\ records = {}
    /\ x.step = "generate" => plan = x.plan /\ SpreadOver(plan, plan.months \ x.months)
Undisturbed ==
    disturbed = {} =>
        /\ \A r, s \in Accountants : B!Busy(r) /\ B!Busy(s) => r = s
        /\ (\A r \in Accountants : ~B!Busy(r)) => Spread
        /\ \A r \in Accountants : LedgerFits(r)

BooksInv == BookTypes /\ ApprovedStands /\ (\A r \in Accountants : RemovalIsFree(r)) /\ Undisturbed

LEMMA BooksFirst == LearningInit => (part = "books" => BooksInv)
<1>. SUFFICES ASSUME LearningInit PROVE BooksInv
  OBVIOUS
<1>1. /\ plan = NoPlan /\ records = {} /\ lastNo = 0
      /\ ledgers = [r \in Accountants |-> B!Idle] /\ approvedNos = {}
  BY DEF LearningInit, B!BooksInit
<1>2. B!Idle \in Ledger /\ B!Idle.step = "none"
  BY DEF B!Idle, Ledger
<1>3. BookTypes
  BY <1>1, <1>2, FS_EmptySet DEF BookTypes
<1>. QED
  BY <1>1, <1>2, <1>3
     DEF BooksInv, ApprovedStands, RemovalIsFree, Undisturbed, LedgerFits, Spread, B!Busy

LEMMA BooksRest == BooksInv /\ UNCHANGED bookVars => BooksInv'
BY DEF BooksInv, BookTypes, ApprovedStands, RemovalIsFree, Undisturbed, LedgerFits, Spread, SpreadOver,
       B!Busy, bookVars

\* A request begins: it works alone, or the books are disturbed.
LEMMA BeginsBooks ==
    ASSUME BooksInv, NEW r \in Accountants, NEW op, NEW x \in Ledger, B!Begin(r, op, x),
           x.step \in {"none", "check", "generate"}
    PROVE  /\ ledgers' \in [Accountants -> Ledger] /\ ledgers'[r] = x
           /\ \A s \in Accountants \ {r} : ledgers'[s] = ledgers[s]
           /\ disturbed' = {} => disturbed = {} /\ \A s \in Accountants : ~B!Busy(s)
BY DEF BooksInv, BookTypes, B!Begin, B!Busy

\* What is left to make of a plan.
LEMMA MakingFits ==
    ASSUME NEW p \in Plans
    PROVE  /\ B!Making(p) \in Ledger
           /\ p.months = {} => B!Making(p).step = "none"
           /\ p.months # {} => B!Making(p).step = "generate" /\ B!Making(p).plan = p /\ B!Making(p).months = p.months
BY BookAssumption DEF B!Making, B!Idle, Ledger

LEMMA CreateKeeps ==
    ASSUME BooksInv, NEW r \in Accountants, NEW p \in Plans, B!Create(r, p)
    PROVE  BooksInv'
<1>. DEFINE x == B!Making(p)
<1>1. /\ x \in Ledger /\ x.step \in {"none", "generate"} /\ (x.step = "none" => p.months = {})
      /\ x.step = "generate" => p.months # {} /\ x.plan = p /\ x.months = p.months
  BY MakingFits
<1>2. B!Begin(r, "create", x) /\ plan' = p /\ UNCHANGED <<records, lastNo, approvedNos>> /\ excused' = excused
  BY DEF B!Create
<1>. HIDE DEF x
<1>3. /\ ledgers' \in [Accountants -> Ledger] /\ ledgers'[r] = x
      /\ \A s \in Accountants \ {r} : ledgers'[s] = ledgers[s]
      /\ disturbed' = {} => disturbed = {} /\ \A s \in Accountants : ~B!Busy(s)
  BY <1>1, <1>2, BeginsBooks
<1>4. records = {}
  BY DEF B!Create
<1>5. BookTypes'
  BY <1>1, <1>2, <1>3, BookAssumption DEF BooksInv, BookTypes
<1>6. ApprovedStands' /\ \A s \in Accountants : RemovalIsFree(s)'
  BY <1>1, <1>2, <1>3 DEF BooksInv, ApprovedStands, RemovalIsFree
<1>7. /\ x.step = "generate" => SpreadOver(plan, plan.months \ x.months)'
      /\ x.step = "none" => Spread'
  <2>1. p # NoPlan
    BY BookAssumption
  <2>. QED
    BY <1>1, <1>2, <1>4, <2>1 DEF SpreadOver, Spread
<1>8. Undisturbed'
  BY <1>1, <1>2, <1>3, <1>7 DEF Undisturbed, LedgerFits, B!Busy
<1>. QED
  BY <1>5, <1>6, <1>8 DEF BooksInv

\* A change or a deletion begins.
LEMMA ChangeKeeps ==
    ASSUME BooksInv, NEW r \in Accountants, NEW op, NEW x \in Ledger, x.step = "check",
           B!Begin(r, op, x), plan # NoPlan, UNCHANGED <<plan, records, lastNo, approvedNos, excused>>
    PROVE  BooksInv'
<1>1. /\ ledgers' \in [Accountants -> Ledger] /\ ledgers'[r] = x
      /\ \A s \in Accountants \ {r} : ledgers'[s] = ledgers[s]
      /\ disturbed' = {} => disturbed = {} /\ \A s \in Accountants : ~B!Busy(s)
  BY BeginsBooks
<1>2. BookTypes'
  BY <1>1 DEF BooksInv, BookTypes
<1>3. ApprovedStands' /\ \A s \in Accountants : RemovalIsFree(s)'
  BY <1>1 DEF BooksInv, ApprovedStands, RemovalIsFree
<1>4. Spread' = Spread
  BY DEF Spread, SpreadOver
<1>5. Undisturbed'
  BY <1>1, <1>4 DEF BooksInv, Undisturbed, LedgerFits, B!Busy
<1>. QED
  BY <1>2, <1>3, <1>5 DEF BooksInv

LEMMA UpdateKeeps ==
    ASSUME BooksInv, NEW r \in Accountants, NEW p \in Plans, NEW force \in BOOLEAN, B!Update(r, p, force)
    PROVE  BooksInv'
<1>. DEFINE x == [B!Idle EXCEPT !.step = "check", !.plan = p, !.force = force]
<1>1. x \in Ledger /\ x.step = "check"
  BY DEF B!Idle, Ledger
<1>2. B!Begin(r, "update", x) /\ plan # NoPlan /\ UNCHANGED <<plan, records, lastNo, approvedNos, excused>>
  BY DEF B!Update
<1>. QED
  BY <1>1, <1>2, ChangeKeeps

LEMMA DeleteKeeps ==
    ASSUME BooksInv, NEW r \in Accountants, NEW force \in BOOLEAN, B!Delete(r, force)
    PROVE  BooksInv'
<1>. DEFINE x == [B!Idle EXCEPT !.step = "check", !.force = force]
<1>1. x \in Ledger /\ x.step = "check"
  BY DEF B!Idle, Ledger
<1>2. B!Begin(r, "delete", x) /\ plan # NoPlan /\ UNCHANGED <<plan, records, lastNo, approvedNos, excused>>
  BY DEF B!Delete
<1>. QED
  BY <1>1, <1>2, ChangeKeeps

LEMMA CheckKeeps ==
    ASSUME BooksInv, NEW r \in Accountants, B!Check(r)
    PROVE  BooksInv'
<1>. DEFINE x == IF ledgers[r].force \/ B!NoneApproved THEN [ledgers[r] EXCEPT !.step = "remove"] ELSE B!Idle
<1>1. ledgers[r] \in Ledger /\ B!Idle \in Ledger /\ ledgers[r].step = "check"
  BY DEF BooksInv, BookTypes, B!Check, B!Idle, Ledger
<1>2. x \in Ledger /\ x.step \in {"remove", "none"} /\ (x.step = "remove" => x.force \/ B!NoneApproved)
  BY <1>1 DEF Ledger, B!Idle
<1>3. ledgers' = [ledgers EXCEPT ![r] = x] /\ UNCHANGED <<plan, records, lastNo, disturbed, approvedNos, excused>>
  BY DEF B!Check, B!bookHistory
<1>. HIDE DEF x
<1>4. BookTypes'
  BY <1>2, <1>3 DEF BooksInv, BookTypes
<1>5. ASSUME x.step = "remove", ~x.force PROVE approvedNos \subseteq excused
  BY <1>2, <1>5 DEF BooksInv, ApprovedStands, B!NoneApproved
<1>6. ApprovedStands' /\ \A s \in Accountants : RemovalIsFree(s)'
  BY <1>2, <1>3, <1>5 DEF BooksInv, BookTypes, ApprovedStands, RemovalIsFree
<1>7. Spread' = Spread
  BY <1>3 DEF Spread, SpreadOver
<1>8. Undisturbed'
  BY <1>1, <1>2, <1>3, <1>7 DEF BooksInv, BookTypes, Undisturbed, LedgerFits, B!Busy
<1>. QED
  BY <1>4, <1>6, <1>8 DEF BooksInv

LEMMA RemoveKeeps ==
    ASSUME BooksInv, NEW r \in Accountants, B!Remove(r)
    PROVE  BooksInv'
<1>. DEFINE x == [ledgers[r] EXCEPT !.step = "save"]
<1>1. ledgers[r] \in Ledger /\ ledgers[r].step = "remove"
  BY DEF BooksInv, BookTypes, B!Remove
<1>2. x \in Ledger /\ x.step = "save"
  BY <1>1 DEF Ledger
<1>3. ledgers' = [ledgers EXCEPT ![r] = x] /\ records' = {} /\ UNCHANGED <<plan, lastNo, disturbed, approvedNos>>
  BY DEF B!Remove
<1>4. excused' = IF ledgers[r].force THEN excused \cup approvedNos ELSE excused
  BY DEF B!Remove
<1>. HIDE DEF x
<1>5. BookTypes'
  BY <1>2, <1>3, FS_EmptySet DEF BooksInv, BookTypes
<1>6. approvedNos \subseteq excused' /\ excused \subseteq excused'
  BY <1>1, <1>4 DEF BooksInv, RemovalIsFree
<1>7. ApprovedStands' /\ \A s \in Accountants : RemovalIsFree(s)'
  BY <1>2, <1>3, <1>6 DEF BooksInv, BookTypes, ApprovedStands, RemovalIsFree
<1>8. Undisturbed'
  BY <1>1, <1>2, <1>3 DEF BooksInv, BookTypes, Undisturbed, LedgerFits, B!Busy
<1>. QED
  BY <1>5, <1>7, <1>8 DEF BooksInv

LEMMA SaveKeeps ==
    ASSUME BooksInv, NEW r \in Accountants, B!Save(r)
    PROVE  BooksInv'
<1>. DEFINE x == IF plan = NoPlan \/ ledgers[r].plan = NoPlan THEN B!Idle
                 ELSE B!Making(ledgers[r].plan)
            p == IF plan = NoPlan THEN NoPlan ELSE ledgers[r].plan
<1>1. ledgers[r] \in Ledger /\ B!Idle \in Ledger /\ ledgers[r].step = "save" /\ B!Idle.step = "none"
  BY DEF BooksInv, BookTypes, B!Save, B!Idle, Ledger
<1>2. /\ x \in Ledger /\ x.step \in {"none", "generate"} /\ p \in Plans \cup {NoPlan}
      /\ x.step = "none" => p = NoPlan \/ (p \in Plans /\ p.months = {})
      /\ x.step = "generate" => p \in Plans /\ x.plan = p /\ x.months = p.months /\ p.months # {}
  <2>1. CASE plan = NoPlan \/ ledgers[r].plan = NoPlan
    BY <1>1, <2>1
  <2>2. CASE plan # NoPlan /\ ledgers[r].plan # NoPlan
    <3>1. ledgers[r].plan \in Plans /\ x = B!Making(ledgers[r].plan) /\ p = ledgers[r].plan
      BY <1>1, <2>2 DEF Ledger
    <3>. QED
      BY <3>1, MakingFits
  <2>. QED
    BY <2>1, <2>2
<1>3. NoPlan \notin Plans
  BY BookAssumption
<1>4. ledgers' = [ledgers EXCEPT ![r] = x] /\ plan' = p /\ UNCHANGED <<records, lastNo, disturbed, approvedNos, excused>>
  BY DEF B!Save, B!bookHistory
<1>. HIDE DEF x, p
<1>5. BookTypes'
  BY <1>2, <1>3, <1>4, BookAssumption DEF BooksInv, BookTypes
<1>6. ApprovedStands' /\ \A s \in Accountants : RemovalIsFree(s)'
  BY <1>2, <1>4 DEF BooksInv, BookTypes, ApprovedStands, RemovalIsFree
<1>7. Undisturbed'
  <2>. SUFFICES ASSUME disturbed = {} PROVE Undisturbed'
    BY <1>4 DEF Undisturbed
  <2>1. records = {} /\ \A s \in Accountants \ {r} : ledgers[s].step = "none"
    BY <1>1 DEF BooksInv, Undisturbed, LedgerFits, B!Busy
  <2>2. \A s \in Accountants \ {r} : ledgers'[s].step = "none"
    BY <1>4, <2>1 DEF BooksInv, BookTypes
  <2>3. ledgers'[r] = x
    BY <1>4 DEF BooksInv, BookTypes
  <2>4. x.step = "generate" => SpreadOver(plan, plan.months \ ledgers[r].months)'
    BY <1>2, <1>4, <2>1, <2>3 DEF SpreadOver
  <2>5. LedgerFits(r)'
    BY <1>2, <1>3, <1>4, <2>3, <2>4 DEF LedgerFits
  <2>6. \A s \in Accountants \ {r} : LedgerFits(s)'
    BY <2>2 DEF LedgerFits
  <2>7. x.step = "none" => Spread'
    BY <1>2, <1>3, <1>4, <2>1 DEF Spread, SpreadOver
  <2>. QED
    BY <1>2, <2>2, <2>3, <2>5, <2>6, <2>7 DEF Undisturbed, B!Busy
<1>. QED
  BY <1>5, <1>6, <1>7 DEF BooksInv

\* The last month and the next one are among the months.
LEMMA MonthsHaveEnds ==
    ASSUME NEW months \in SUBSET Nat, IsFiniteSet(months), months # {}
    PROVE  /\ B!Min(months) \in months /\ \A m \in months : B!Min(months) <= m
           /\ B!Max(months) \in months /\ \A m \in months : B!Max(months) >= m
<1>1. months \subseteq Int
  OBVIOUS
<1>2. \E m \in months : \A n \in months : m <= n
  BY <1>1, LeastElement
<1>3. \E m \in months : \A n \in months : m >= n
  BY <1>1, GreatestElement
<1>. QED
  BY <1>2, <1>3 DEF B!Min, B!Max

\* The instance's own operators of the community modules.
LEMMA SameInBooks ==
    ASSUME NEW f, NEW s
    PROVE  B!Cardinality(s) = Cardinality(s) /\ B!SumFunctionOnSet(f, s) = SumFunctionOnSet(f, s)
<1>1. B!Cardinality(s) = Cardinality(s)
  BY DEF B!Cardinality, Cardinality, B!IsFiniteSet, IsFiniteSet
<1>2. B!SumFunctionOnSet(f, s) = SumFunctionOnSet(f, s)
  BY DEF B!SumFunctionOnSet, B!FoldFunctionOnSet, B!MapThenFoldSet,
         SumFunctionOnSet, FoldFunctionOnSet, MapThenFoldSet
<1>. QED
  BY <1>1, <1>2

\* What a plan gives a month is a number.
LEMMA ShareIsInt ==
    ASSUME NEW p \in Plans, p.months # {}, NEW m
    PROVE  B!Share(p, m) \in Int
<1>1. p.amount \in Nat /\ IsFiniteSet(p.months)
  BY BookAssumption
<1>2. B!Cardinality(p.months) \in Nat /\ B!Cardinality(p.months) # 0
  BY <1>1, SameInBooks, FS_CardinalityType, FS_EmptySet
<1>. DEFINE n == B!Cardinality(p.months)
<1>3. p.amount \div n \in Int
  BY <1>1, <1>2
<1>4. p.amount - (p.amount \div n) * (n - 1) \in Int
  BY <1>1, <1>2, <1>3
<1>. QED
  BY <1>1, <1>3, <1>4 DEF B!Share

LEMMA GenerateKeeps ==
    ASSUME BooksInv, NEW r \in Accountants, B!Generate(r)
    PROVE  BooksInv'
<1>. DEFINE m == B!Min(ledgers[r].months)
            y == [no |-> lastNo + 1, month |-> m, amount |-> B!Share(ledgers[r].plan, m), status |-> "pending"]
            x == IF ledgers[r].months = {m} THEN B!Idle ELSE [ledgers[r] EXCEPT !.months = @ \ {m}]
<1>1. /\ ledgers[r] \in Ledger /\ ledgers[r].step = "generate" /\ ledgers[r].plan \in Plans
      /\ ledgers[r].months # {} /\ ledgers[r].months \subseteq ledgers[r].plan.months
      /\ ledgers[r].months \in SUBSET Nat
  BY DEF BooksInv, BookTypes, B!Generate, Ledger
<1>2. IsFiniteSet(ledgers[r].months)
  BY <1>1, FS_Subset, BookAssumption
<1>3. m \in ledgers[r].months /\ m \in Nat
  BY <1>1, <1>2, MonthsHaveEnds
<1>4. y \in Record
  BY <1>1, <1>3, ShareIsInt DEF Record, BooksInv, BookTypes
<1>5. /\ records' = records \cup {y} /\ lastNo' = lastNo + 1 /\ ledgers' = [ledgers EXCEPT ![r] = x]
      /\ UNCHANGED <<plan, disturbed, approvedNos, excused>>
  <2>1. records' = records \cup {y} /\ lastNo' = lastNo + 1 /\ UNCHANGED <<plan, disturbed, approvedNos, excused>>
    BY DEF B!Generate, B!bookHistory
  <2>2. ledgers' = [ledgers EXCEPT ![r] = x]
    BY DEF B!Generate
  <2>. QED
    BY <2>1, <2>2
<1>6. /\ x \in Ledger /\ x.step \in {"none", "generate"}
      /\ x.step = "none" => ledgers[r].months = {m}
      /\ x.step = "generate" => /\ x.plan = ledgers[r].plan /\ x.months = ledgers[r].months \ {m} /\ x.months # {}
  BY <1>1, <1>3 DEF Ledger, B!Idle
<1>7. y.no = lastNo + 1 /\ y.month = m /\ y.amount = B!Share(ledgers[r].plan, y.month)
  OBVIOUS
<1>. HIDE DEF x, y, m
<1>8. BookTypes'
  <2>1. records' \subseteq Record /\ IsFiniteSet(records')
    BY <1>4, <1>5, FS_AddElement DEF BooksInv, BookTypes
  <2>2. lastNo \in Nat /\ \A z \in records : z.no \in Nat /\ z.no <= lastNo
    BY DEF BooksInv, BookTypes, Record
  <2>3. \A z \in records' : z.no <= lastNo'
    BY <1>5, <1>7, <2>2
  <2>4. \A z, w \in records' : z.no = w.no => z = w
    BY <1>5, <1>7, <2>2 DEF BooksInv, BookTypes
  <2>5. ledgers' \in [Accountants -> Ledger]
    BY <1>5, <1>6 DEF BooksInv, BookTypes
  <2>6. \A s \in Accountants : ledgers'[s].step = "generate" =>
          /\ ledgers'[s].plan \in Plans
          /\ ledgers'[s].months # {} /\ ledgers'[s].months \subseteq ledgers'[s].plan.months
    BY <1>1, <1>5, <1>6 DEF BooksInv, BookTypes
  <2>. QED
    BY <1>5, <2>1, <2>2, <2>3, <2>4, <2>5, <2>6 DEF BooksInv, BookTypes
<1>9. ApprovedStands' /\ \A s \in Accountants : RemovalIsFree(s)'
  BY <1>5, <1>6 DEF BooksInv, BookTypes, ApprovedStands, RemovalIsFree
<1>10. Undisturbed'
  <2>. SUFFICES ASSUME disturbed = {} PROVE Undisturbed'
    BY <1>5 DEF Undisturbed
  <2>1. plan = ledgers[r].plan /\ SpreadOver(plan, plan.months \ ledgers[r].months)
    BY <1>1 DEF BooksInv, Undisturbed, LedgerFits
  <2>2. \A s \in Accountants \ {r} : ledgers[s].step = "none"
    BY <1>1 DEF BooksInv, Undisturbed, B!Busy
  <2>3. ledgers'[r] = x /\ \A s \in Accountants \ {r} : ledgers'[s].step = "none"
    BY <1>5, <2>2 DEF BooksInv, BookTypes
  <2>. DEFINE left == ledgers[r].months \ {m}
  <2>4. {z.month : z \in records'} = plan.months \ left
    <3>1. {z.month : z \in records'} = {z.month : z \in records} \cup {m}
      BY <1>5, <1>7
    <3>. QED
      BY <1>1, <1>3, <2>1, <3>1 DEF SpreadOver
  <2>5. \A z \in records : z.month # m
    BY <1>3, <2>1 DEF SpreadOver
  <2>6. \A z, w \in records' : z.month = w.month => z = w
    BY <1>5, <1>7, <2>1, <2>5 DEF SpreadOver
  <2>7. \A z \in records' : z.amount = B!Share(plan, z.month)
    BY <1>5, <1>7, <2>1 DEF SpreadOver
  <2>8. x.step = "generate" => LedgerFits(r)'
    BY <1>5, <1>6, <2>1, <2>3, <2>4, <2>6, <2>7 DEF LedgerFits, SpreadOver
  <2>9. x.step = "none" => Spread'
    <3>1. ASSUME x.step = "none" PROVE plan.months \ left = plan.months
      BY <1>6, <3>1
    <3>2. plan # NoPlan
      BY <1>1, <2>1, BookAssumption
    <3>. QED
      BY <1>5, <2>4, <2>6, <2>7, <3>1, <3>2 DEF Spread, SpreadOver
  <2>10. \A s \in Accountants : LedgerFits(s)'
    BY <1>6, <2>3, <2>8 DEF LedgerFits
  <2>. QED
    BY <1>6, <2>3, <2>9, <2>10 DEF Undisturbed, B!Busy
<1>. QED
  BY <1>8, <1>9, <1>10 DEF BooksInv

\* A record's status is set.
LEMMA StatusKeeps ==
    ASSUME BooksInv, NEW x \in records, NEW op, NEW chosen \in {"approved", "cancelled"}, B!SetStatus(x, op, chosen)
    PROVE  BooksInv'
<1>. DEFINE y == [x EXCEPT !.status = chosen]
<1>1. x \in Record
  BY DEF BooksInv, BookTypes
<1>2. y \in Record /\ y.no = x.no /\ y.month = x.month /\ y.amount = x.amount /\ y.status = chosen
  BY <1>1 DEF Record
<1>3. /\ records' = (records \ {x}) \cup {y} /\ UNCHANGED <<plan, lastNo, ledgers, disturbed>>
      /\ approvedNos' = IF chosen = "approved" THEN approvedNos \cup {x.no} ELSE approvedNos \ {x.no}
      /\ excused' = IF \E r \in Accountants : ledgers[r].step = "remove" THEN excused \cup {x.no} ELSE excused
  BY DEF B!SetStatus
<1>. HIDE DEF y
<1>4. BookTypes'
  <2>1. records' \subseteq Record /\ IsFiniteSet(records')
    BY <1>2, <1>3, FS_AddElement, FS_RemoveElement DEF BooksInv, BookTypes
  <2>2. \A z \in records' : z.no <= lastNo'
    BY <1>2, <1>3 DEF BooksInv, BookTypes
  <2>3. \A z, w \in records' : z.no = w.no => z = w
    BY <1>2, <1>3 DEF BooksInv, BookTypes
  <2>. QED
    BY <1>3, <2>1, <2>2, <2>3 DEF BooksInv, BookTypes
<1>5. ApprovedStands'
  <2>. SUFFICES ASSUME NEW n \in approvedNos' \ excused'
                PROVE  \E z \in records' : z.no = n /\ z.status = "approved"
    BY DEF ApprovedStands
  <2>1. CASE n = x.no
    BY <1>2, <1>3, <2>1
  <2>2. CASE n # x.no
    <3>1. n \in approvedNos \ excused
      BY <1>3, <2>2
    <3>. QED
      BY <1>3, <2>2, <3>1 DEF BooksInv, ApprovedStands
  <2>. QED
    BY <2>1, <2>2
<1>6. \A s \in Accountants : RemovalIsFree(s)'
  BY <1>3 DEF BooksInv, RemovalIsFree
<1>7. ASSUME NEW p, NEW months, SpreadOver(p, months) PROVE SpreadOver(p, months)'
  <2>1. {z.month : z \in records'} = {z.month : z \in records}
    BY <1>2, <1>3
  <2>2. \A z, w \in records' : z.month = w.month => z = w
    BY <1>2, <1>3, <1>7 DEF SpreadOver
  <2>3. \A z \in records' : z.amount = B!Share(p, z.month)
    BY <1>2, <1>3, <1>7 DEF SpreadOver
  <2>. QED
    BY <1>7, <2>1, <2>2, <2>3 DEF SpreadOver
<1>8. Spread => Spread'
  <2>. SUFFICES ASSUME Spread PROVE Spread'
    OBVIOUS
  <2>1. plan # NoPlan
    BY DEF Spread
  <2>2. SpreadOver(plan, plan.months)
    BY <2>1 DEF Spread
  <2>3. SpreadOver(plan, plan.months)'
    BY <1>3, <1>7, <2>2 DEF SpreadOver
  <2>. QED
    BY <1>3, <2>1, <2>3 DEF Spread
<1>9. \A s \in Accountants : LedgerFits(s) => LedgerFits(s)'
  BY <1>3, <1>7, <1>8 DEF LedgerFits, SpreadOver
<1>10. Undisturbed'
  BY <1>3, <1>8, <1>9 DEF BooksInv, Undisturbed, B!Busy
<1>. QED
  BY <1>4, <1>5, <1>6, <1>10 DEF BooksInv

LEMMA RecordDeletionKeeps ==
    ASSUME BooksInv, NEW x \in records, B!DeleteRecord(x)
    PROVE  BooksInv'
<1>1. /\ records' = records \ {x} /\ excused' = excused \cup {x.no} /\ "byHand" \in disturbed'
      /\ UNCHANGED <<plan, lastNo, ledgers, approvedNos>>
  BY DEF B!DeleteRecord
<1>2. BookTypes'
  BY <1>1, FS_RemoveElement DEF BooksInv, BookTypes
<1>3. ApprovedStands'
  BY <1>1 DEF BooksInv, ApprovedStands
<1>4. \A s \in Accountants : RemovalIsFree(s)'
  BY <1>1 DEF BooksInv, RemovalIsFree
<1>5. Undisturbed'
  BY <1>1 DEF Undisturbed
<1>. QED
  BY <1>2, <1>3, <1>4, <1>5 DEF BooksInv

LEMMA StopKeeps ==
    ASSUME BooksInv, B!StopBooks
    PROVE  BooksInv'
<1>1. /\ ledgers' = [s \in Accountants |-> B!Idle] /\ "stop" \in disturbed'
      /\ UNCHANGED <<plan, records, lastNo, approvedNos, excused>>
  BY DEF B!StopBooks
<1>2. B!Idle \in Ledger /\ B!Idle.step = "none"
  BY DEF B!Idle, Ledger
<1>3. BookTypes'
  BY <1>1, <1>2 DEF BooksInv, BookTypes
<1>4. ApprovedStands' /\ \A s \in Accountants : RemovalIsFree(s)'
  BY <1>1, <1>2 DEF BooksInv, ApprovedStands, RemovalIsFree
<1>5. Undisturbed'
  BY <1>1 DEF Undisturbed
<1>. QED
  BY <1>3, <1>4, <1>5 DEF BooksInv

LEMMA SaveFailsKeeps ==
    ASSUME BooksInv, NEW r \in Accountants, B!SaveFails(r)
    PROVE  BooksInv'
<1>1. /\ ledgers' = [ledgers EXCEPT ![r] = B!Idle] /\ "fail" \in disturbed'
      /\ UNCHANGED <<plan, records, lastNo, approvedNos, excused>>
  BY DEF B!SaveFails
<1>2. B!Idle \in Ledger /\ B!Idle.step = "none"
  BY DEF B!Idle, Ledger
<1>3. BookTypes'
  BY <1>1, <1>2 DEF BooksInv, BookTypes
<1>4. ApprovedStands' /\ \A s \in Accountants : RemovalIsFree(s)'
  BY <1>1, <1>2 DEF BooksInv, BookTypes, ApprovedStands, RemovalIsFree
<1>5. Undisturbed'
  BY <1>1 DEF Undisturbed
<1>. QED
  BY <1>3, <1>4, <1>5 DEF BooksInv

LEMMA BooksNextKeeps == BooksInv /\ B!BooksNext => BooksInv'
<1>. SUFFICES ASSUME BooksInv, B!BooksNext PROVE BooksInv'
  OBVIOUS
<1>1. ASSUME NEW r \in Accountants, \E p \in Plans : B!Create(r, p) \/ \E force \in BOOLEAN : B!Update(r, p, force)
      PROVE  BooksInv'
  BY <1>1, CreateKeeps, UpdateKeeps
<1>2. ASSUME NEW r \in Accountants, \E force \in BOOLEAN : B!Delete(r, force)
      PROVE  BooksInv'
  BY <1>2, DeleteKeeps
<1>3. ASSUME NEW r \in Accountants, B!Check(r) \/ B!Remove(r) \/ B!Save(r) \/ B!Generate(r) \/ B!SaveFails(r)
      PROVE  BooksInv'
  BY <1>3, CheckKeeps, RemoveKeeps, SaveKeeps, GenerateKeeps, SaveFailsKeeps
<1>4. ASSUME NEW x \in records, B!SetStatus(x, "approve", "approved") \/ B!SetStatus(x, "cancel", "cancelled")
      PROVE  BooksInv'
  BY <1>4, StatusKeeps
<1>5. ASSUME NEW x \in records, B!DeleteRecord(x)
      PROVE  BooksInv'
  BY <1>5, RecordDeletionKeeps
<1>. QED
  BY <1>1, <1>2, <1>3, <1>4, <1>5, StopKeeps DEF B!BooksNext

\* The sum of equal numbers.
LEMMA SumOfEquals ==
    ASSUME NEW s, IsFiniteSet(s), NEW f, NEW c \in Int, \A x \in s : f[x] = c
    PROVE  SumFunctionOnSet(f, s) = Cardinality(s) * c
<1>. DEFINE Bad == {t \in SUBSET s : SumFunctionOnSet(f, t) # Cardinality(t) * c}
<1>. SUFFICES ASSUME Bad # {} PROVE FALSE
  OBVIOUS
<1>1. PICK t \in Bad : \A u \in Bad : u \subseteq t => u = t
  <2>1. Bad \subseteq SUBSET s
    OBVIOUS
  <2>. HIDE DEF Bad
  <2>. QED
    BY <2>1, SmallestSet
<1>2. t # {}
  <2>1. Cardinality({}) = 0 /\ 0 * c = 0 /\ SumFunctionOnSet(f, {}) = 0
    BY SumEmpty, FS_EmptySet
  <2>. QED
    BY <1>1, <2>1
<1>. DEFINE x == First(t)
            u == t \ {x}
<1>3. x \in t /\ t \subseteq s
  BY <1>2, FirstIsMember
<1>4. SumFunctionOnSet(f, u) = Cardinality(u) * c
  BY <1>1, <1>3
<1>5. IsFiniteSet(t) /\ IsFiniteSet(u) /\ Cardinality(u) = Cardinality(t) - 1 /\ Cardinality(t) \in Nat
  BY <1>3, FS_Subset, FS_RemoveElement, FS_CardinalityType
<1>6. SumFunctionOnSet(f, t) = f[x] + SumFunctionOnSet(f, u)
  BY <1>2, <1>5, SumUnfolds DEF Unfolded
<1>7. SumFunctionOnSet(f, t) # Cardinality(t) * c
  BY <1>1
<1>8. f[x] = c
  BY <1>3
<1>. HIDE DEF x, u, Bad
<1>. QED
  BY <1>4, <1>5, <1>6, <1>7, <1>8

\* The shares of a yearly plan make up its amount.
LEMMA SharesAddUp ==
    ASSUME NEW p \in Plans, p.kind = "yearly", p.months # {}
    PROVE  SumFunctionOnSet([m \in p.months |-> B!Share(p, m)], p.months) = p.amount
<1>. DEFINE n == Cardinality(p.months)
            each == p.amount \div n
            last == B!LastMonth(p)
            f == [m \in p.months |-> B!Share(p, m)]
            rest == p.months \ {last}
<1>1. p.amount \in Nat /\ IsFiniteSet(p.months) /\ p.months \in SUBSET Nat
  BY BookAssumption
<1>2. n \in Nat /\ n # 0 /\ B!Cardinality(p.months) = n
  BY <1>1, SameInBooks, FS_CardinalityType, FS_EmptySet
<1>3. last \in p.months
  BY <1>1, MonthsHaveEnds DEF B!LastMonth
<1>4. each \in Int
  BY <1>1, <1>2
<1>5. \A m \in rest : f[m] = each
  BY <1>2 DEF B!Share
<1>6. f[last] = p.amount - each * (n - 1)
  BY <1>2, <1>3 DEF B!Share
<1>7. IsFiniteSet(rest) /\ Cardinality(rest) = n - 1
  BY <1>1, <1>3, FS_RemoveElement
<1>. HIDE DEF each, last
<1>8. SumFunctionOnSet(f, rest) = (n - 1) * each
  <2>. HIDE DEF f, rest, n
  <2>. QED
    BY <1>4, <1>5, <1>7, SumOfEquals
<1>9. \A m \in p.months : f[m] \in Int
  BY ShareIsInt
<1>10. SumFunctionOnSet(f, p.months) = f[last] + SumFunctionOnSet(f, rest)
  <2>. HIDE DEF f
  <2>. QED
    BY <1>1, <1>3, <1>9, SumTakesAny
<1>. HIDE DEF f, rest, n
<1>11. SumFunctionOnSet(f, p.months) = p.amount
  BY <1>1, <1>2, <1>4, <1>6, <1>8, <1>10
<1>. QED
  BY <1>11 DEF f

\* Records that are spread over a plan add up as it says.
LEMMA SpreadAddsUp ==
    ASSUME IsFiniteSet(records), NEW p \in Plans, SpreadOver(p, p.months)
    PROVE  /\ {x.month : x \in records} = p.months
           /\ Cardinality(records) = Cardinality(p.months)
           /\ IF p.kind = "yearly" THEN p.months # {} => B!Total(records) = p.amount
              ELSE \A x \in records : x.amount = p.amount
<1>1. /\ {x.month : x \in records} = p.months /\ \A x, y \in records : x.month = y.month => x = y
      /\ \A x \in records : x.amount = B!Share(p, x.month)
  BY DEF SpreadOver
<1>. DEFINE r == [x \in records |-> x.month]
            f == [x \in records |-> x.amount]
            g == [m \in p.months |-> B!Share(p, m)]
<1>2. Cardinality(records) = Cardinality(p.months)
  <2>1. r \in Injection(records, p.months) /\ r \in Surjection(records, p.months)
    BY <1>1 DEF Injection, Surjection, IsInjective
  <2>2. ExistsBijection(records, p.months)
    BY <2>1 DEF ExistsBijection, Bijection
  <2>. QED
    BY <2>2, FS_Bijection
<1>3. ASSUME p.kind = "yearly", p.months # {} PROVE B!Total(records) = p.amount
  <2>1. Image(r, records) = p.months
    BY <1>1 DEF Image
  <2>2. \A x, y \in records : r[x] = r[y] => x = y
    BY <1>1
  <2>3. \A x \in records : g[r[x]] = f[x] /\ f[x] \in Int
    BY <1>1, <1>3, ShareIsInt
  <2>4. SumFunctionOnSet(f, records) = SumFunctionOnSet(g, p.months)
    <3>. HIDE DEF f, g, r
    <3>. QED
      BY <2>1, <2>2, <2>3, SumRenames
  <2>. QED
    BY <1>3, <2>4, SharesAddUp, SameInBooks DEF B!Total
<1>4. ASSUME p.kind # "yearly" PROVE \A x \in records : x.amount = p.amount
  BY <1>1, <1>4 DEF B!Share
<1>. QED
  BY <1>1, <1>2, <1>3, <1>4

LEMMA BooksMean == BooksInv => B!BooksAreKept
<1>. SUFFICES ASSUME BooksInv PROVE B!BooksAreKept
  OBVIOUS
<1>1. B!ApprovedIsKept
  BY DEF BooksInv, ApprovedStands, B!ApprovedIsKept
<1>2. B!PlanIsSpread
  <2>. SUFFICES ASSUME disturbed = {}, \A r \in Accountants : ~B!Busy(r), plan # NoPlan
                PROVE  /\ {x.month : x \in records} = plan.months
                       /\ B!Cardinality(records) = B!Cardinality(plan.months)
                       /\ IF plan.kind = "yearly" THEN plan.months # {} => B!Total(records) = plan.amount
                          ELSE \A x \in records : x.amount = plan.amount
    BY DEF BooksInv, Undisturbed, Spread, B!PlanIsSpread
  <2>1. plan \in Plans /\ IsFiniteSet(records) /\ SpreadOver(plan, plan.months)
    BY DEF BooksInv, BookTypes, Undisturbed, Spread
  <2>. QED
    BY <2>1, SpreadAddsUp, SameInBooks
<1>. QED
  BY <1>1, <1>2 DEF B!BooksAreKept

\* Between requests a plan's records are those of its months and make up its
\* amount, and an approved record is only removed by force, by hand or when it
\* was approved during a change; unless requests overlapped, were cut off or
\* failed after they had removed the records, or a record was deleted by hand:
\* for any plans and any requests.
THEOREM BooksStayKept == LearningSpec => []BooksAreKept
<1>. DEFINE Kept == part = "books" => BooksInv
            all == <<part, classVars, catalogueVars, bookVars, payVars, programmeVars, orderVars>>
<1>1. LearningInit => Kept
  BY BooksFirst
<1>2. Kept /\ [LearningNext]_all => Kept'
  <2>. SUFFICES ASSUME Kept, [LearningNext]_all
                PROVE  Kept'
    OBVIOUS
  <2>1. CASE part = "books" /\ B!BooksNext /\ part' = part
    BY <2>1, BooksNextKeeps
  <2>2. CASE part' = part /\ UNCHANGED bookVars
    BY <2>2, BooksRest
  <2>3. CASE part # "books" /\ part' = part
    BY <2>3
  <2>. QED
    BY <2>1, <2>2, <2>3 DEF LearningNext
<1>3. Kept => BooksAreKept
  BY BooksMean DEF BooksAreKept
<1>. QED
  BY <1>1, <1>2, <1>3, PTL DEF LearningSpec

-----------------------------------------------------------------------------
(* The salaries.  What a request will write is what the record it read      *)
(* comes to, so that it fits the record that is there as long as nobody has *)
(* written it since.                                                        *)

Fields == {"basic", "tax"}
SalaryRecord ==
    [state : {"none", "made"}, basic : Int, tax : Int, worked : Int \cup {Null}, plus : Int, minus : Int,
     total : Int, received : Int, status : {"pending", "paid"}, overrides : SUBSET Fields]
OfficeKinds == {"none", "generate", "force", "edit", "pay"}

OfficeTypes(x) ==
    /\ x = [kind |-> x.kind, docs |-> x.docs, left |-> x.left, stale |-> x.stale, edited |-> x.edited, field |-> x.field]
    /\ x.kind \in OfficeKinds /\ x.left \subseteq Employees
    /\ \A e \in x.left : x.docs[e] \in SalaryRecord
    /\ x.kind = "edit" => x.field \in {"basic", "tax", "plus", "minus", "worked"}
    /\ x.kind = "pay" => x.left # {}
PayTypes ==
    /\ settings \in [Employees -> [basic : Int, tax : Int, here : BOOLEAN]]
    /\ salaries \in [Employees -> SalaryRecord]
    /\ offices = [c \in Clerks |-> offices[c]] /\ \A c \in Clerks : OfficeTypes(offices[c])
    /\ byHand \in [Employees -> [basic : Int \cup {Null}, tax : Int \cup {Null}]]
    /\ paidAs = [e \in Employees |-> paidAs[e]]

\* The record of an employee.
SalaryFits(e) ==
    LET x == salaries[e] IN
    /\ ~P!Made(e) => x = P!NoSalary
    /\ P!Made(e) /\ e \notin mixed => x = P!Summed(x)
    /\ e \notin crossed =>
          /\ \A f \in Fields : byHand[e][f] # Null => f \in x.overrides /\ x[f] = byHand[e][f]
          /\ paidAs[e] = IF x.status = "paid" THEN {x.received} ELSE {}

\* What a request x will write for e.
GeneratedFits(x, e) ==
    LET new == x.docs[e]  old == salaries[e] IN
    /\ e \in x.field => P!Made(e)
    /\ e \in x.field /\ e \notin x.edited =>
          new.worked = old.worked /\ new.plus = old.plus /\ new.minus = old.minus
    /\ e \in x.field /\ e \notin x.stale =>
          /\ old.status = "pending"
          /\ x.kind = "generate" => \A f \in old.overrides : new[f] = old[f]
    /\ e \notin x.field => new.status = "pending"
EditFits(x, e) ==
    LET new == x.docs[e]  old == salaries[e] IN
    /\ P!Made(e)
    /\ e \notin x.stale =>
          /\ old.overrides \subseteq new.overrides
          /\ \A f \in Fields : new[f] # old[f] => f = x.field /\ f \in new.overrides
PaymentFits(x, e) ==
    /\ P!Made(e) /\ x.left = {e}
    /\ e \notin x.stale => salaries[e].status = "pending" /\ x.docs[e].received = salaries[e].received
OfficeFits(x, e) ==
    /\ x.kind # "pay" => x.docs[e] = P!Summed(x.docs[e]) /\ x.docs[e].state = "made"
    /\ x.kind \in {"generate", "force"} => GeneratedFits(x, e)
    /\ x.kind = "edit" => EditFits(x, e)
    /\ x.kind = "pay" => PaymentFits(x, e)

PayInv ==
    /\ PayTypes
    /\ \A e \in Employees : SalaryFits(e)
    /\ \A c \in Clerks : \A e \in offices[c].left : OfficeFits(offices[c], e)

LEMMA PayFirst == LearningInit => (part = "pay" => PayInv)
<1>. SUFFICES ASSUME LearningInit PROVE PayInv
  OBVIOUS
<1>1. PICK start \in PayStarts :
        /\ salaries = start.salaries
        /\ settings = [e \in Employees |-> [basic |-> 1, tax |-> 0, here |-> TRUE]]
        /\ offices = [c \in Clerks |-> P!AtRest]
        /\ mixed = {} /\ crossed = {}
        /\ byHand = [e \in Employees |-> P!ByNobody] /\ paidAs = [e \in Employees |-> {}]
  BY DEF LearningInit, P!PayInit
<1>2. /\ P!AtRest.left = {} /\ P!AtRest.kind = "none" /\ OfficeTypes(P!AtRest)
      /\ P!ByNobody \in [basic : Int \cup {Null}, tax : Int \cup {Null}]
      /\ P!ByNobody.basic = Null /\ P!ByNobody.tax = Null
  BY DEF P!AtRest, OfficeTypes, OfficeKinds, P!ByNobody
<1>3. ASSUME NEW e \in Employees
      PROVE  /\ salaries[e] \in SalaryRecord /\ salaries[e].status = "pending"
             /\ IF salaries[e].state = "none" THEN salaries[e] = P!NoSalary ELSE salaries[e] = P!Summed(salaries[e])
  BY <1>1, <1>3, PayAssumption DEF SalaryRecord, Fields
<1>4. salaries = [e \in Employees |-> salaries[e]]
  BY <1>1, PayAssumption
<1>5. PayTypes
  BY <1>1, <1>2, <1>3, <1>4 DEF PayTypes
<1>6. \A e \in Employees : SalaryFits(e)
  BY <1>1, <1>2, <1>3 DEF SalaryFits, P!Made, SalaryRecord, Fields
<1>. QED
  BY <1>1, <1>2, <1>5, <1>6 DEF PayInv

LEMMA PayRests == PayInv /\ UNCHANGED payVars => PayInv'
<1>. SUFFICES ASSUME PayInv, UNCHANGED payVars PROVE PayInv'
  OBVIOUS
<1>1. PayTypes' /\ \A e \in Employees : SalaryFits(e)'
  BY DEF PayInv, PayTypes, OfficeTypes, SalaryFits, P!Made, payVars
<1>2. \A c \in Clerks : \A e \in offices[c].left : OfficeFits(offices[c], e)'
  BY DEF PayInv, OfficeFits, GeneratedFits, EditFits, PaymentFits, P!Made, payVars
<1>. QED
  BY <1>1, <1>2 DEF PayInv, payVars

\* The records a request may write.
LEMMA SummedIsRecord ==
    ASSUME NEW x \in SalaryRecord
    PROVE  /\ P!Summed(x) \in SalaryRecord /\ P!Summed(P!Summed(x)) = P!Summed(x)
           /\ P!Summed(x) = [x EXCEPT !.total = P!Summed(x).total, !.received = P!Summed(x).received]
<1>. DEFINE y == P!Summed(x)
<1>1. P!Base(x) \in Int
  BY DEF P!Base, SalaryRecord
<1>2. y = [x EXCEPT !.total = P!Base(x) + x.plus, !.received = P!Base(x) + x.plus - x.minus - x.tax]
  BY DEF P!Summed
<1>3. y \in SalaryRecord
  <2>1. P!Base(x) + x.plus \in Int /\ P!Base(x) + x.plus - x.minus - x.tax \in Int
    BY <1>1 DEF SalaryRecord
  <2>. QED
    BY <1>2, <2>1 DEF SalaryRecord
<1>4. P!Base(y) = P!Base(x) /\ y.plus = x.plus /\ y.minus = x.minus /\ y.tax = x.tax
  BY <1>2 DEF P!Base, SalaryRecord
<1>5. P!Summed(y) = y
  BY <1>2, <1>3, <1>4 DEF P!Summed, SalaryRecord
<1>6. y = [x EXCEPT !.total = y.total, !.received = y.received]
  BY <1>2 DEF SalaryRecord
<1>. QED
  BY <1>3, <1>5, <1>6

LEMMA ConfigureKeeps ==
    ASSUME PayInv, NEW e \in Employees, NEW amount \in Amounts, NEW here \in BOOLEAN, P!Configure(e, amount, here)
    PROVE  PayInv'
<1>1. /\ settings' = [settings EXCEPT ![e] = [basic |-> amount, tax |-> amount, here |-> here]]
      /\ UNCHANGED <<salaries, offices, mixed, crossed, byHand, paidAs>>
  BY DEF P!Configure, P!payHistory
<1>2. [basic |-> amount, tax |-> amount, here |-> here] \in [basic : Int, tax : Int, here : BOOLEAN]
  BY PayAssumption
<1>3. settings' \in [Employees -> [basic : Int, tax : Int, here : BOOLEAN]]
  BY <1>1, <1>2 DEF PayInv, PayTypes
<1>4. PayTypes' /\ \A d \in Employees : SalaryFits(d)'
  BY <1>1, <1>3 DEF PayInv, PayTypes, OfficeTypes, SalaryFits, P!Made
<1>5. \A c \in Clerks : \A d \in offices[c].left : OfficeFits(offices[c], d)'
  BY <1>1 DEF PayInv, OfficeFits, GeneratedFits, EditFits, PaymentFits, P!Made
<1>. QED
  BY <1>1, <1>4, <1>5 DEF PayInv

\* A request begins with documents that fit what it read.
LEMMA BeginPayKeeps ==
    ASSUME PayInv, NEW c \in Clerks, NEW op, NEW kind \in OfficeKinds, NEW sheets, NEW field,
           P!Begin(c, op, kind, sheets, field), DOMAIN sheets \subseteq Employees,
           \A e \in DOMAIN sheets : sheets[e] \in SalaryRecord,
           kind = "edit" => field \in {"basic", "tax", "plus", "minus", "worked"},
           kind = "pay" => DOMAIN sheets # {},
           \A e \in DOMAIN sheets :
              OfficeFits([kind |-> kind, docs |-> sheets, left |-> DOMAIN sheets, stale |-> {}, edited |-> {}, field |-> field], e)
    PROVE  PayInv'
<1>. DEFINE x == [kind |-> kind, docs |-> sheets, left |-> DOMAIN sheets, stale |-> {}, edited |-> {}, field |-> field]
<1>1. /\ offices' = [offices EXCEPT ![c] = x]
      /\ UNCHANGED <<settings, salaries, mixed, crossed, byHand, paidAs>>
  <2>1. [P!AtRest EXCEPT !.kind = kind, !.docs = sheets, !.left = DOMAIN sheets, !.field = field] = x
    <3>. DEFINE a == P!AtRest
                left == DOMAIN sheets
    <3>1. /\ a = [kind |-> a.kind, docs |-> a.docs, left |-> a.left, stale |-> a.stale, edited |-> a.edited, field |-> a.field]
          /\ a.stale = {} /\ a.edited = {}
      BY DEF P!AtRest
    <3>. HIDE DEF a, left
    <3>. DEFINE b == [a EXCEPT !.kind = kind]
                d == [b EXCEPT !.docs = sheets]
                e == [d EXCEPT !.left = left]
    <3>2. b = [kind |-> kind, docs |-> a.docs, left |-> a.left, stale |-> {}, edited |-> {}, field |-> a.field]
      BY <3>1
    <3>. HIDE DEF b
    <3>3. d = [kind |-> kind, docs |-> sheets, left |-> a.left, stale |-> {}, edited |-> {}, field |-> a.field]
      BY <3>2
    <3>. HIDE DEF d
    <3>4. e = [kind |-> kind, docs |-> sheets, left |-> left, stale |-> {}, edited |-> {}, field |-> a.field]
      BY <3>3, SMTT(30)
    <3>. HIDE DEF e
    <3>5. [e EXCEPT !.field = field] =
          [kind |-> kind, docs |-> sheets, left |-> left, stale |-> {}, edited |-> {}, field |-> field]
      BY <3>4
    <3>. QED
      BY <3>5 DEF a, b, d, e, left
  <2>. HIDE DEF x
  <2>. QED
    BY <2>1 DEF P!Begin, P!payHistory
<1>2. OfficeTypes(x) /\ x.left = DOMAIN sheets
  BY DEF OfficeTypes
<1>3. \A e \in x.left : OfficeFits(x, e)
  BY <1>2
<1>. HIDE DEF x
<1>4. /\ offices' = [d \in Clerks |-> offices'[d]] /\ offices'[c] = x
      /\ \A d \in Clerks \ {c} : offices'[d] = offices[d]
  BY <1>1 DEF PayInv, PayTypes
<1>5. \A d \in Clerks : OfficeTypes(offices'[d])
  BY <1>2, <1>4 DEF PayInv, PayTypes
<1>6. PayTypes' /\ \A d \in Employees : SalaryFits(d)'
  <2>1. PayTypes'
    BY <1>1, <1>4, <1>5 DEF PayInv, PayTypes
  <2>2. \A d \in Employees : SalaryFits(d)'
    BY <1>1 DEF PayInv, SalaryFits, P!Made
  <2>. QED
    BY <2>1, <2>2
<1>7. ASSUME NEW d \in Clerks, NEW e \in offices'[d].left
      PROVE  OfficeFits(offices[d], e)'
  <2>1. OfficeFits(offices'[d], e)
    BY <1>3, <1>4 DEF PayInv
  <2>. QED
    BY <1>1, <2>1 DEF OfficeFits, GeneratedFits, EditFits, PaymentFits, P!Made
<1>. QED
  BY <1>6, <1>7 DEF PayInv

LEMMA RenewedIsRecord ==
    ASSUME PayInv, NEW e \in Employees, NEW force \in BOOLEAN
    PROVE  LET x == P!Renewed(e, force) IN
           /\ x \in SalaryRecord /\ x = P!Summed(x) /\ x.state = salaries[e].state
           /\ x.worked = salaries[e].worked /\ x.plus = salaries[e].plus /\ x.minus = salaries[e].minus
           /\ ~force => \A f \in salaries[e].overrides : x[f] = salaries[e][f]
<1>. DEFINE x == IF force THEN [salaries[e] EXCEPT !.overrides = {}] ELSE salaries[e]
            y == [x EXCEPT !.basic = IF "basic" \in x.overrides THEN x.basic ELSE settings[e].basic,
                           !.tax = IF "tax" \in x.overrides THEN x.tax ELSE settings[e].tax]
<1>1. salaries[e] \in SalaryRecord /\ settings[e].basic \in Int /\ settings[e].tax \in Int
  BY DEF PayInv, PayTypes
<1>2. x \in SalaryRecord
  BY <1>1 DEF SalaryRecord
<1>3. y \in SalaryRecord
  BY <1>1, <1>2 DEF SalaryRecord
<1>4. P!Renewed(e, force) = P!Summed(y)
  BY DEF P!Renewed
<1>5. /\ y.state = salaries[e].state
      /\ y.worked = salaries[e].worked /\ y.plus = salaries[e].plus /\ y.minus = salaries[e].minus
      /\ ~force => ("basic" \in salaries[e].overrides => y.basic = salaries[e].basic)
      /\ ~force => ("tax" \in salaries[e].overrides => y.tax = salaries[e].tax)
  BY <1>1 DEF SalaryRecord
<1>6. salaries[e].overrides \subseteq {"basic", "tax"}
  BY <1>1 DEF SalaryRecord, Fields
<1>. HIDE DEF y, x
<1>7. /\ P!Summed(y) \in SalaryRecord /\ P!Summed(P!Summed(y)) = P!Summed(y)
      /\ P!Summed(y) = [y EXCEPT !.total = P!Summed(y).total, !.received = P!Summed(y).received]
  BY <1>3, SummedIsRecord
<1>. DEFINE z == P!Summed(y)
<1>8. /\ z.state = y.state /\ z.worked = y.worked /\ z.plus = y.plus /\ z.minus = y.minus
      /\ z.basic = y.basic /\ z.tax = y.tax
  BY <1>3, <1>7 DEF SalaryRecord
<1>9. ~force => \A f \in salaries[e].overrides : z[f] = salaries[e][f]
  BY <1>5, <1>6, <1>8
<1>. QED
  BY <1>4, <1>5, <1>7, <1>8, <1>9

LEMMA FreshIsRecord ==
    ASSUME PayInv, NEW e \in Employees
    PROVE  /\ P!Fresh(e) \in SalaryRecord /\ P!Fresh(e) = P!Summed(P!Fresh(e))
           /\ P!Fresh(e).state = "made" /\ P!Fresh(e).status = "pending"
<1>. DEFINE y == [P!Salary EXCEPT !.basic = settings[e].basic, !.tax = settings[e].tax]
<1>1. settings[e].basic \in Int /\ settings[e].tax \in Int
  BY DEF PayInv, PayTypes
<1>2. P!Salary \in SalaryRecord
  BY DEF P!Salary, SalaryRecord, Fields
<1>3. y \in SalaryRecord /\ y.state = "made" /\ y.status = "pending"
  BY <1>1, <1>2 DEF SalaryRecord, P!Salary
<1>4. P!Fresh(e) = P!Summed(y)
  BY DEF P!Fresh
<1>. HIDE DEF y
<1>. DEFINE z == P!Summed(y)
<1>5. z \in SalaryRecord /\ P!Summed(z) = z /\ z = [y EXCEPT !.total = z.total, !.received = z.received]
  BY <1>3, SummedIsRecord
<1>. HIDE DEF z
<1>6. z.state = y.state /\ z.status = y.status
  BY <1>3, <1>5 DEF SalaryRecord
<1>. QED
  BY <1>3, <1>4, <1>5, <1>6 DEF z

LEMMA GeneratePayKeeps ==
    ASSUME PayInv, NEW c \in Clerks, NEW force \in BOOLEAN, P!Generate(c, force)
    PROVE  PayInv'
<1>. DEFINE due == {e \in Employees : settings[e].here /\ (P!Made(e) => P!NeedsUpdate(e, force))}
            kind == IF force THEN "force" ELSE "generate"
            sheets == [e \in due |-> IF P!Made(e) THEN P!Renewed(e, force) ELSE P!Fresh(e)]
            field == {e \in due : P!Made(e)}
            x == [kind |-> kind, docs |-> sheets, left |-> due, stale |-> {}, edited |-> {}, field |-> field]
<1>1. P!Begin(c, kind, kind, sheets, field)
  BY DEF P!Generate
<1>2. DOMAIN sheets = due /\ due \subseteq Employees /\ kind \in OfficeKinds /\ kind # "edit" /\ kind # "pay"
  BY DEF OfficeKinds
<1>3. \A e \in due : sheets[e] \in SalaryRecord /\ sheets[e] = P!Summed(sheets[e]) /\ sheets[e].state = "made"
  <2>. TAKE e \in due
  <2>1. CASE P!Made(e)
    BY <2>1, RenewedIsRecord DEF P!Made
  <2>2. CASE ~P!Made(e)
    BY <2>2, FreshIsRecord
  <2>. QED
    BY <2>1, <2>2
<1>4. \A e \in due : GeneratedFits(x, e)
  <2>. TAKE e \in due
  <2>1. CASE P!Made(e)
    <3>1. sheets[e] = P!Renewed(e, force) /\ e \in field /\ salaries[e].status = "pending"
      BY <2>1 DEF P!NeedsUpdate
    <3>. QED
      BY <2>1, <3>1, RenewedIsRecord DEF GeneratedFits
  <2>2. CASE ~P!Made(e)
    BY <2>2, FreshIsRecord DEF GeneratedFits
  <2>. QED
    BY <2>1, <2>2
<1>5. \A e \in due : OfficeFits(x, e)
  BY <1>2, <1>3, <1>4 DEF OfficeFits
<1>. HIDE DEF due, sheets, field, kind
<1>. QED
  BY <1>1, <1>2, <1>3, <1>5, BeginPayKeeps

LEMMA EditedIsRecord ==
    ASSUME PayInv, NEW e \in Employees, NEW amount, NEW field \in {"basic", "tax", "plus", "minus", "worked"},
           amount \in Int \/ (field = "worked" /\ amount = Null)
    PROVE  LET x == P!Edited(e, field, amount) IN
           /\ x \in SalaryRecord /\ x = P!Summed(x) /\ x.state = salaries[e].state
           /\ salaries[e].overrides \subseteq x.overrides
           /\ \A f \in Fields : x[f] # salaries[e][f] => f = field /\ f \in x.overrides
<1>. DEFINE y == [salaries[e] EXCEPT ![field] = amount,
                     !.overrides = IF field \in {"basic", "tax"} /\ salaries[e][field] # amount THEN @ \cup {field} ELSE @]
<1>1. salaries[e] \in SalaryRecord
  BY DEF PayInv, PayTypes
<1>2. /\ y \in SalaryRecord /\ y.state = salaries[e].state /\ salaries[e].overrides \subseteq y.overrides
      /\ y.basic # salaries[e].basic => field = "basic" /\ "basic" \in y.overrides
      /\ y.tax # salaries[e].tax => field = "tax" /\ "tax" \in y.overrides
  <2>1. CASE field = "basic"
    BY <1>1, <2>1 DEF SalaryRecord, Fields
  <2>2. CASE field = "tax"
    BY <1>1, <2>2 DEF SalaryRecord, Fields
  <2>3. CASE field = "plus"
    BY <1>1, <2>3 DEF SalaryRecord, Fields
  <2>4. CASE field = "minus"
    BY <1>1, <2>4 DEF SalaryRecord, Fields
  <2>5. CASE field = "worked"
    BY <1>1, <2>5 DEF SalaryRecord, Fields
  <2>. QED
    BY <2>1, <2>2, <2>3, <2>4, <2>5
<1>3. P!Edited(e, field, amount) = P!Summed(y)
  BY DEF P!Edited
<1>. HIDE DEF y
<1>. DEFINE z == P!Summed(y)
<1>4. z \in SalaryRecord /\ P!Summed(z) = z /\ z = [y EXCEPT !.total = z.total, !.received = z.received]
  BY <1>2, SummedIsRecord
<1>. HIDE DEF z
<1>5. z.state = y.state /\ z.overrides = y.overrides /\ z.basic = y.basic /\ z.tax = y.tax
  BY <1>2, <1>4 DEF SalaryRecord
<1>6. \A f \in Fields : z[f] # salaries[e][f] => f = field /\ f \in z.overrides
  BY <1>2, <1>5 DEF Fields
<1>. QED
  BY <1>2, <1>3, <1>4, <1>5, <1>6 DEF z

LEMMA EditKeeps ==
    ASSUME PayInv, NEW c \in Clerks, NEW es \in SUBSET Employees, NEW amount,
           NEW field \in {"basic", "tax", "plus", "minus", "worked"},
           amount \in Int \/ (field = "worked" /\ amount = Null), P!Edit(c, es, field, amount)
    PROVE  PayInv'
<1>. DEFINE sheets == [e \in es |-> P!Edited(e, field, amount)]
            x == [kind |-> "edit", docs |-> sheets, left |-> es, stale |-> {}, edited |-> {}, field |-> field]
<1>1. P!Begin(c, "edit", "edit", sheets, field) /\ \A e \in es : P!Made(e)
  BY DEF P!Edit
<1>2. DOMAIN sheets = es /\ es \subseteq Employees /\ "edit" \in OfficeKinds
  BY DEF OfficeKinds
<1>3. \A e \in es : sheets[e] \in SalaryRecord /\ sheets[e] = P!Summed(sheets[e]) /\ sheets[e].state = "made"
  BY <1>1, EditedIsRecord DEF P!Made
<1>4. \A e \in es : EditFits(x, e)
  <2>. TAKE e \in es
  <2>1. sheets[e] = P!Edited(e, field, amount)
    OBVIOUS
  <2>. HIDE DEF sheets
  <2>. QED
    BY <1>1, <2>1, EditedIsRecord DEF EditFits
<1>5. \A e \in es : OfficeFits(x, e)
  BY <1>3, <1>4 DEF OfficeFits
<1>. HIDE DEF sheets
<1>. QED
  BY <1>1, <1>2, <1>3, <1>5, BeginPayKeeps

LEMMA PayKeeps ==
    ASSUME PayInv, NEW c \in Clerks, NEW e \in Employees, P!Pay(c, e)
    PROVE  PayInv'
<1>. DEFINE sheets == [f \in {e} |-> salaries[e]]
            x == [kind |-> "pay", docs |-> sheets, left |-> {e}, stale |-> {}, edited |-> {}, field |-> Null]
<1>1. P!Begin(c, "pay", "pay", sheets, Null) /\ P!Made(e) /\ salaries[e].status # "paid"
  BY DEF P!Pay
<1>2. DOMAIN sheets = {e} /\ sheets[e] = salaries[e] /\ "pay" \in OfficeKinds
  BY DEF OfficeKinds
<1>3. salaries[e] \in SalaryRecord
  BY DEF PayInv, PayTypes
<1>4. OfficeFits(x, e)
  BY <1>1, <1>2, <1>3 DEF OfficeFits, PaymentFits, SalaryRecord
<1>. HIDE DEF sheets
<1>. QED
  BY <1>1, <1>2, <1>3, <1>4, BeginPayKeeps

LEMMA EndListKeeps ==
    ASSUME PayInv, NEW c \in Clerks, P!EndList(c)
    PROVE  PayInv'
<1>1. /\ offices' = [offices EXCEPT ![c] = P!AtRest]
      /\ UNCHANGED <<settings, salaries, mixed, crossed, byHand, paidAs>>
  BY DEF P!EndList, P!payHistory
<1>2. P!AtRest.left = {} /\ OfficeTypes(P!AtRest)
  BY DEF P!AtRest, OfficeTypes, OfficeKinds
<1>3. /\ offices' = [d \in Clerks |-> offices'[d]] /\ offices'[c] = P!AtRest
      /\ \A d \in Clerks \ {c} : offices'[d] = offices[d]
  BY <1>1 DEF PayInv, PayTypes
<1>4. \A d \in Clerks : OfficeTypes(offices'[d])
  BY <1>2, <1>3 DEF PayInv, PayTypes
<1>5. PayTypes' /\ \A d \in Employees : SalaryFits(d)'
  <2>1. PayTypes'
    BY <1>1, <1>3, <1>4 DEF PayInv, PayTypes
  <2>2. \A d \in Employees : SalaryFits(d)'
    BY <1>1 DEF PayInv, SalaryFits, P!Made
  <2>. QED
    BY <2>1, <2>2
<1>6. ASSUME NEW d \in Clerks, NEW e \in offices'[d].left
      PROVE  OfficeFits(offices[d], e)'
  <2>1. OfficeFits(offices'[d], e)
    BY <1>2, <1>3 DEF PayInv
  <2>. QED
    BY <1>1, <2>1 DEF OfficeFits, GeneratedFits, EditFits, PaymentFits, P!Made
<1>. QED
  BY <1>5, <1>6 DEF PayInv

\* What is left to others when c has written e.
LEMMA TouchLeaves ==
    ASSUME PayInv, NEW c \in Clerks, NEW e \in offices[c].left, offices' = P!Touch(c, e)
    PROVE  /\ offices' = [d \in Clerks |-> offices'[d]]
           /\ \A d \in Clerks : OfficeTypes(offices'[d])
           /\ \A d \in Clerks : \A g \in offices'[d].left :
                LET x == offices[d]  y == offices'[d] IN
                /\ g \in x.left /\ y.kind = x.kind /\ y.docs = x.docs /\ y.field = x.field
                /\ x.kind = "pay" => y.left = x.left
                /\ g \notin y.stale => g \notin x.stale /\ g # e
                /\ g \notin y.edited => g \notin x.edited /\ (g = e => offices[c].kind # "edit")
<1>1. /\ offices' = [d \in Clerks |-> offices'[d]]
      /\ offices'[c] = IF offices[c].left = {e} THEN P!AtRest ELSE [offices[c] EXCEPT !.left = @ \ {e}]
      /\ \A d \in Clerks \ {c} : offices'[d] =
            IF e \in offices[d].left
            THEN [offices[d] EXCEPT !.stale = @ \cup {e},
                                    !.edited = IF offices[c].kind = "edit" THEN @ \cup {e} ELSE @]
            ELSE offices[d]
  BY DEF P!Touch
<1>2. \A d \in Clerks : OfficeTypes(offices[d])
  BY DEF PayInv, PayTypes
<1>3. offices[c].kind = "pay" => offices[c].left = {e}
  BY DEF PayInv, OfficeFits, PaymentFits
<1>4. P!AtRest.left = {} /\ OfficeTypes(P!AtRest)
  BY DEF P!AtRest, OfficeTypes, OfficeKinds
<1>5. ASSUME NEW d \in Clerks
      PROVE  /\ OfficeTypes(offices'[d])
             /\ \A g \in offices'[d].left :
                  LET x == offices[d]  y == offices'[d] IN
                  /\ g \in x.left /\ y.kind = x.kind /\ y.docs = x.docs /\ y.field = x.field
                  /\ x.kind = "pay" => y.left = x.left
                  /\ g \notin y.stale => g \notin x.stale /\ g # e
                  /\ g \notin y.edited => g \notin x.edited /\ (g = e => offices[c].kind # "edit")
  <2>1. CASE d = c /\ offices[c].left = {e}
    BY <1>1, <1>4, <2>1
  <2>2. CASE d = c /\ offices[c].left # {e}
    <3>. DEFINE x == offices[c]
                y == [x EXCEPT !.left = @ \ {e}]
    <3>1. offices'[d] = y /\ x.kind # "pay"
      BY <1>1, <1>3, <2>2
    <3>0. x = [kind |-> x.kind, docs |-> x.docs, left |-> x.left, stale |-> x.stale, edited |-> x.edited, field |-> x.field]
      BY <1>2 DEF OfficeTypes
    <3>. HIDE DEF x
    <3>2. /\ y.left = x.left \ {e} /\ y.kind = x.kind /\ y.docs = x.docs /\ y.field = x.field
          /\ y.stale = x.stale /\ y.edited = x.edited
          /\ y = [kind |-> y.kind, docs |-> y.docs, left |-> y.left, stale |-> y.stale, edited |-> y.edited, field |-> y.field]
      BY <3>0
    <3>. HIDE DEF y
    <3>3. OfficeTypes(x)
      BY <1>2 DEF x
    <3>4. OfficeTypes(y)
      BY <3>1, <3>2, <3>3 DEF OfficeTypes
    <3>. QED
      BY <2>2, <3>1, <3>2, <3>4 DEF x
  <2>3. CASE d # c /\ e \in offices[d].left
    <3>. DEFINE x == offices[d]
                z == [x EXCEPT !.stale = @ \cup {e}]
                y == [z EXCEPT !.edited = IF offices[c].kind = "edit" THEN @ \cup {e} ELSE @]
    <3>1. offices'[d] = y
      BY <1>1, <2>3
    <3>0. x = [kind |-> x.kind, docs |-> x.docs, left |-> x.left, stale |-> x.stale, edited |-> x.edited, field |-> x.field]
      BY <1>2 DEF OfficeTypes
    <3>. HIDE DEF x
    <3>5. z = [kind |-> x.kind, docs |-> x.docs, left |-> x.left, stale |-> x.stale \cup {e}, edited |-> x.edited, field |-> x.field]
      BY <3>0
    <3>. HIDE DEF z
    <3>2. /\ y.left = x.left /\ y.kind = x.kind /\ y.docs = x.docs /\ y.field = x.field
          /\ y.stale = x.stale \cup {e}
          /\ y.edited = IF offices[c].kind = "edit" THEN x.edited \cup {e} ELSE x.edited
          /\ y = [kind |-> y.kind, docs |-> y.docs, left |-> y.left, stale |-> y.stale, edited |-> y.edited, field |-> y.field]
      BY <3>5
    <3>. HIDE DEF y
    <3>3. OfficeTypes(x)
      BY <1>2 DEF x
    <3>4. OfficeTypes(y)
      BY <3>2, <3>3 DEF OfficeTypes
    <3>. QED
      BY <3>1, <3>2, <3>4 DEF x
  <2>4. CASE d # c /\ e \notin offices[d].left
    BY <1>1, <1>2, <2>4
  <2>. QED
    BY <2>1, <2>2, <2>3, <2>4
<1>. QED
  BY <1>1, <1>5

\* What the others will write fits the new record of e, as far as it did before.
LEMMA OthersStillFit ==
    ASSUME PayInv, NEW c \in Clerks, NEW e \in offices[c].left, offices' = P!Touch(c, e),
           NEW y \in SalaryRecord, y.state = "made", salaries' = [salaries EXCEPT ![e] = y],
           \/ offices[c].kind = "edit" \/ ~P!Made(e)
           \/ y.worked = salaries[e].worked /\ y.plus = salaries[e].plus /\ y.minus = salaries[e].minus
    PROVE  \A d \in Clerks : \A g \in offices'[d].left : OfficeFits(offices[d], g)'
<1>. SUFFICES ASSUME NEW d \in Clerks, NEW g \in offices'[d].left PROVE OfficeFits(offices[d], g)'
  OBVIOUS
<1>. DEFINE x == offices[d]
            z == offices'[d]
<1>1. /\ g \in x.left /\ z.kind = x.kind /\ z.docs = x.docs /\ z.field = x.field
      /\ x.kind = "pay" => z.left = x.left
      /\ g \notin z.stale => g \notin x.stale /\ g # e
      /\ g \notin z.edited => g \notin x.edited /\ (g = e => offices[c].kind # "edit")
  BY TouchLeaves
<1>2. OfficeFits(x, g)
  BY <1>1 DEF PayInv
<1>3. g \in Employees /\ e \in Employees
  BY <1>1 DEF PayInv, PayTypes, OfficeTypes
<1>4. /\ salaries'[e] = y /\ (g # e => salaries'[g] = salaries[g])
  BY <1>3 DEF PayInv, PayTypes
<1>5. P!Made(g) => P!Made(g)'
  BY <1>4 DEF P!Made
<1>. HIDE DEF x, z
<1>6. x.kind \in {"generate", "force"} => GeneratedFits(offices[d], g)'
  <2>. SUFFICES ASSUME GeneratedFits(x, g) PROVE GeneratedFits(offices[d], g)'
    BY <1>2 DEF OfficeFits
  <2>1. CASE g = e
    BY <1>1, <1>4, <1>5, <2>1 DEF GeneratedFits, z
  <2>2. CASE g # e
    BY <1>1, <1>4, <1>5, <2>2 DEF GeneratedFits, z
  <2>. QED
    BY <2>1, <2>2
<1>7. x.kind = "edit" => EditFits(offices[d], g)'
  BY <1>1, <1>2, <1>4, <1>5 DEF OfficeFits, EditFits, z
<1>8. x.kind = "pay" => PaymentFits(offices[d], g)'
  BY <1>1, <1>2, <1>4, <1>5 DEF OfficeFits, PaymentFits, z
<1>9. x.kind # "pay" => z.docs[g] = P!Summed(z.docs[g]) /\ z.docs[g].state = "made"
  BY <1>1, <1>2 DEF OfficeFits
<1>. QED
  BY <1>1, <1>6, <1>7, <1>8, <1>9 DEF OfficeFits, z

\* The record a request writes next.
LEMMA FirstIsLeft ==
    ASSUME PayInv, NEW c \in Clerks, offices[c].left # {}
    PROVE  P!Min(offices[c].left) \in offices[c].left
<1>1. offices[c].left \subseteq Employees
  BY DEF PayInv, PayTypes, OfficeTypes
<1>2. IsFiniteSet(Employees) /\ Employees \subseteq Nat
  BY PayAssumption
<1>. DEFINE S == offices[c].left
<1>3. \A e \in S : e \in Int
  <2>1. S \subseteq Nat
    BY <1>1, <1>2
  <2>. QED
    BY <2>1
<1>4. \E e \in S : \A g \in S : e <= g
  <2>. HIDE DEF S
  <2>1. IsFiniteSet(S)
    BY <1>1, <1>2, FS_Subset DEF S
  <2>. QED
    BY <1>3, <2>1, LeastElement DEF S
<1>. QED
  BY <1>4 DEF P!Min

\* The record of e after c has written y, with the histories of e.
LEMMA WriteFits ==
    ASSUME PayInv, NEW c \in Clerks, NEW e \in offices[c].left,
           NEW y \in SalaryRecord, y.state = "made", salaries' = [salaries EXCEPT ![e] = y],
           \A g \in Employees \ {e} : /\ byHand'[g] = byHand[g] /\ paidAs'[g] = paidAs[g]
                                      /\ (g \in mixed <=> g \in mixed') /\ (g \in crossed <=> g \in crossed'),
           e \notin mixed' => y = P!Summed(y),
           e \notin crossed' =>
              /\ \A f \in Fields : byHand'[e][f] # Null => f \in y.overrides /\ y[f] = byHand'[e][f]
              /\ paidAs'[e] = IF y.status = "paid" THEN {y.received} ELSE {}
    PROVE  salaries' \in [Employees -> SalaryRecord] /\ \A g \in Employees : SalaryFits(g)'
<1>1. e \in Employees
  BY DEF PayInv, PayTypes, OfficeTypes
<1>2. salaries' \in [Employees -> SalaryRecord] /\ salaries'[e] = y
      /\ \A g \in Employees \ {e} : salaries'[g] = salaries[g]
  BY <1>1 DEF PayInv, PayTypes
<1>3. SalaryFits(e)'
  BY <1>2 DEF SalaryFits, P!Made
<1>4. ASSUME NEW g \in Employees \ {e} PROVE SalaryFits(g)'
  <2>1. SalaryFits(g) /\ salaries'[g] = salaries[g]
    BY <1>2 DEF PayInv
  <2>. QED
    BY <2>1 DEF SalaryFits, P!Made
<1>. QED
  BY <1>2, <1>3, <1>4

\* A generation writes a new record, or what it computed over the old one.
LEMMA GeneratedIsRecord ==
    ASSUME PayInv, NEW c \in Clerks, NEW e \in offices[c].left, offices[c].kind \in {"generate", "force"},
           ~P!Refused(c, e)
    PROVE  LET x == offices[c]  new == x.docs[e]  old == salaries[e]  y == P!Written(c, e) IN
           /\ y \in SalaryRecord /\ y.state = "made"
           /\ ~P!Made(e) => e \notin x.field /\ y = new
           /\ P!Made(e) =>
                /\ e \in x.field /\ y.status = old.status
                /\ y.worked = old.worked /\ y.plus = old.plus /\ y.minus = old.minus
                /\ y.basic = new.basic /\ y.tax = new.tax
                /\ y.overrides = IF x.kind = "force" THEN {} ELSE old.overrides
                /\ e \notin x.edited => y = P!Summed(y)
<1>. DEFINE x == offices[c]
            new == x.docs[e]
            old == salaries[e]
            y == P!Written(c, e)
<1>1. OfficeFits(x, e) /\ e \in Employees
  BY DEF PayInv, PayTypes, OfficeTypes
<1>2. new \in SalaryRecord /\ old \in SalaryRecord
  BY <1>1 DEF PayInv, PayTypes, OfficeTypes
<1>3. GeneratedFits(x, e) /\ new = P!Summed(new) /\ new.state = "made"
  BY <1>1 DEF OfficeFits
<1>4. CASE ~P!Made(e)
  BY <1>2, <1>3, <1>4 DEF P!Written, GeneratedFits
<1>5. CASE P!Made(e)
  <2>1. e \in x.field
    BY <1>5 DEF P!Refused
  <2>2. y = [old EXCEPT !.basic = new.basic, !.tax = new.tax, !.total = new.total, !.received = new.received,
                        !.overrides = IF x.kind = "force" THEN {} ELSE @]
    BY <1>5 DEF P!Written
  <2>3. old.state = "made"
    BY <1>5 DEF P!Made
  <2>. HIDE DEF y
  <2>4. /\ y \in SalaryRecord /\ y.state = "made" /\ y.status = old.status
        /\ y.worked = old.worked /\ y.plus = old.plus /\ y.minus = old.minus
        /\ y.basic = new.basic /\ y.tax = new.tax /\ y.total = new.total /\ y.received = new.received
        /\ y.overrides = IF x.kind = "force" THEN {} ELSE old.overrides
    <3>. HIDE DEF new, old, x
    <3>. QED
      BY <1>2, <2>2, <2>3 DEF SalaryRecord, Fields
  <2>5. ASSUME e \notin x.edited PROVE y = P!Summed(y)
    <3>1. new.worked = old.worked /\ new.plus = old.plus /\ new.minus = old.minus
      BY <1>3, <2>1, <2>5 DEF GeneratedFits
    <3>. HIDE DEF new, old
    <3>2. /\ new.total = P!Base(new) + new.plus
          /\ new.received = P!Base(new) + new.plus - new.minus - new.tax
      BY <1>2, <1>3 DEF P!Summed, SalaryRecord
    <3>3. P!Base(y) = P!Base(new)
      BY <2>4, <3>1 DEF P!Base
    <3>4. y.total = P!Base(y) + y.plus /\ y.received = P!Base(y) + y.plus - y.minus - y.tax
      BY <2>4, <3>1, <3>2, <3>3
    <3>. QED
      BY <2>4, <3>4 DEF P!Summed, SalaryRecord
  <2>. QED
    BY <1>5, <2>1, <2>4, <2>5 DEF y
<1>. QED
  BY <1>4, <1>5

\* An edit writes what it computed, and leaves whether the record is paid.
LEMMA EditWritesRecord ==
    ASSUME PayInv, NEW c \in Clerks, NEW e \in offices[c].left, offices[c].kind = "edit"
    PROVE  LET new == offices[c].docs[e]  y == P!Written(c, e) IN
           /\ y \in SalaryRecord /\ y.state = "made" /\ y = P!Summed(y) /\ y.status = salaries[e].status
           /\ y.basic = new.basic /\ y.tax = new.tax /\ y.received = new.received /\ y.overrides = new.overrides
<1>. DEFINE new == offices[c].docs[e]
            old == salaries[e]
            y == P!Written(c, e)
<1>1. OfficeFits(offices[c], e) /\ e \in Employees
  BY DEF PayInv, PayTypes, OfficeTypes
<1>2. new \in SalaryRecord /\ old \in SalaryRecord
  BY <1>1 DEF PayInv, PayTypes, OfficeTypes
<1>3. new = P!Summed(new) /\ new.state = "made"
  BY <1>1 DEF OfficeFits
<1>4. y = [new EXCEPT !.status = old.status]
  BY DEF P!Written
<1>. HIDE DEF y, new, old
<1>5. /\ y \in SalaryRecord /\ y.state = "made" /\ y.status = old.status
      /\ y.worked = new.worked /\ y.plus = new.plus /\ y.minus = new.minus
      /\ y.basic = new.basic /\ y.tax = new.tax /\ y.total = new.total /\ y.received = new.received
      /\ y.overrides = new.overrides
  BY <1>2, <1>3, <1>4 DEF SalaryRecord
<1>6. /\ new.total = P!Base(new) + new.plus
      /\ new.received = P!Base(new) + new.plus - new.minus - new.tax
  BY <1>2, <1>3 DEF P!Summed, SalaryRecord
<1>7. P!Base(y) = P!Base(new)
  BY <1>5 DEF P!Base
<1>8. y.total = P!Base(y) + y.plus /\ y.received = P!Base(y) + y.plus - y.minus - y.tax
  BY <1>5, <1>6, <1>7
<1>9. y = P!Summed(y)
  BY <1>5, <1>8 DEF P!Summed, SalaryRecord
<1>. QED
  BY <1>5, <1>9 DEF new, old, y

LEMMA WriteKeeps ==
    ASSUME PayInv, NEW c \in Clerks, P!Write(c)
    PROVE  PayInv'
<1>. DEFINE x == offices[c]
            e == P!Min(x.left)
            new == x.docs[e]
            old == salaries[e]
            y == P!Written(c, e)
<1>1. /\ x.kind \in {"generate", "force", "edit"} /\ x.left # {} /\ ~P!Refused(c, e)
      /\ salaries' = [salaries EXCEPT ![e] = y]
      /\ offices' = P!Touch(c, e)
      /\ mixed' = IF x.kind # "edit" /\ e \in x.edited THEN mixed \cup {e} ELSE mixed \ {e}
      /\ crossed' = IF e \in x.stale THEN crossed \cup {e} ELSE crossed
      /\ byHand' = [byHand EXCEPT ![e] =
            IF x.kind = "force" THEN P!ByNobody
            ELSE IF x.kind = "edit" /\ x.field \in {"basic", "tax"} /\ new[x.field] # old[x.field]
                 THEN [@ EXCEPT ![x.field] = new[x.field]] ELSE @]
      /\ paidAs' = [paidAs EXCEPT ![e] = IF x.kind = "edit" /\ @ # {} THEN {new.received} ELSE @]
      /\ UNCHANGED settings
  BY DEF P!Write
<1>2. e \in x.left
  BY <1>1, FirstIsLeft
<1>3. e \in Employees /\ OfficeTypes(x) /\ OfficeFits(x, e) /\ SalaryFits(e)
  BY <1>2 DEF PayInv, PayTypes, OfficeTypes
<1>4. /\ new \in SalaryRecord /\ old \in SalaryRecord
      /\ byHand[e] \in [basic : Int \cup {Null}, tax : Int \cup {Null}]
  BY <1>2, <1>3 DEF PayInv, PayTypes, OfficeTypes
<1>. DEFINE hand == IF x.kind = "force" THEN P!ByNobody
                    ELSE IF x.kind = "edit" /\ x.field \in {"basic", "tax"} /\ new[x.field] # old[x.field]
                         THEN [byHand[e] EXCEPT ![x.field] = new[x.field]] ELSE byHand[e]
            paid == IF x.kind = "edit" /\ paidAs[e] # {} THEN {new.received} ELSE paidAs[e]
<1>5. byHand' = [byHand EXCEPT ![e] = hand] /\ paidAs' = [paidAs EXCEPT ![e] = paid]
  BY <1>1
<1>6. hand \in [basic : Int \cup {Null}, tax : Int \cup {Null}]
  <2>1. CASE x.kind = "force"
    BY <2>1 DEF P!ByNobody
  <2>2. CASE x.kind = "edit" /\ x.field = "basic"
    BY <1>4, <2>2 DEF SalaryRecord
  <2>3. CASE x.kind = "edit" /\ x.field = "tax"
    BY <1>4, <2>3 DEF SalaryRecord
  <2>4. CASE x.kind # "force" /\ ~(x.kind = "edit" /\ x.field \in {"basic", "tax"})
    BY <1>4, <2>4
  <2>. QED
    BY <2>1, <2>2, <2>3, <2>4
<1>7. y \in SalaryRecord /\ y.state = "made"
      /\ (x.kind = "edit" \/ ~P!Made(e) \/ (y.worked = old.worked /\ y.plus = old.plus /\ y.minus = old.minus))
  <2>. HIDE DEF y, e
  <2>. QED
    BY <1>1, <1>2, GeneratedIsRecord, EditWritesRecord DEF y
<1>8. e \notin mixed' => y = P!Summed(y)
  <2>1. CASE x.kind = "edit"
    BY <1>2, <2>1, EditWritesRecord
  <2>2. CASE x.kind # "edit"
    <3>1. e \notin mixed' => e \notin x.edited
      BY <1>1, <2>2
    <3>2. ~P!Made(e) => new = P!Summed(new)
      BY <1>1, <1>3, <2>2 DEF OfficeFits
    <3>. HIDE DEF e
    <3>. QED
      BY <1>1, <1>2, <2>2, <3>1, <3>2, GeneratedIsRecord
  <2>. QED
    BY <2>1, <2>2
<1>9. ASSUME e \notin crossed'
      PROVE  /\ \A f \in Fields : hand[f] # Null => f \in y.overrides /\ y[f] = hand[f]
             /\ paid = IF y.status = "paid" THEN {y.received} ELSE {}
  <2>1. e \notin x.stale /\ e \notin crossed
    BY <1>1, <1>9
  <2>2. /\ \A f \in Fields : byHand[e][f] # Null => f \in old.overrides /\ old[f] = byHand[e][f]
        /\ paidAs[e] = IF old.status = "paid" THEN {old.received} ELSE {}
        /\ ~P!Made(e) => old = P!NoSalary
    BY <1>3, <2>1 DEF SalaryFits
  <2>3. CASE x.kind = "edit"
    <3>1. /\ y.status = old.status /\ y.basic = new.basic /\ y.tax = new.tax
          /\ y.received = new.received /\ y.overrides = new.overrides
      BY <1>2, <2>3, EditWritesRecord
    <3>2. /\ old.overrides \subseteq new.overrides
          /\ \A f \in Fields : new[f] # old[f] => f = x.field /\ f \in new.overrides
      BY <1>3, <2>1, <2>3 DEF OfficeFits, EditFits
    <3>3. paid = IF y.status = "paid" THEN {y.received} ELSE {}
      BY <2>2, <2>3, <3>1
    <3>4. ASSUME NEW f \in Fields, hand[f] # Null PROVE f \in y.overrides /\ y[f] = hand[f]
      <4>1. y[f] = new[f]
        BY <3>1 DEF Fields
      <4>2. CASE new[f] # old[f]
        <5>1. f = x.field /\ f \in new.overrides
          BY <3>2, <4>2
        <5>2. hand[f] = new[f]
          BY <1>4, <2>3, <4>2, <5>1 DEF Fields
        <5>. QED
          BY <3>1, <4>1, <5>1, <5>2
      <4>3. CASE new[f] = old[f]
        <5>1. hand[f] = byHand[e][f]
          BY <1>4, <2>3, <4>3 DEF Fields
        <5>. QED
          BY <2>2, <3>1, <3>2, <3>4, <4>1, <4>3, <5>1
      <4>. QED
        BY <4>2, <4>3
    <3>. QED
      BY <3>3, <3>4
  <2>4. CASE x.kind \in {"generate", "force"} /\ ~P!Made(e)
    <3>1. e \notin x.field /\ y = new
      BY <1>1, <1>2, <2>4, GeneratedIsRecord
    <3>2. new.status = "pending"
      BY <1>3, <2>4, <3>1 DEF OfficeFits, GeneratedFits
    <3>3. old.status = "pending" /\ old.overrides = {}
      BY <2>2, <2>4 DEF P!NoSalary, P!Salary
    <3>4. \A f \in Fields : hand[f] = Null
      BY <2>2, <2>4, <3>3 DEF P!ByNobody, Fields
    <3>. QED
      BY <2>2, <2>4, <3>1, <3>2, <3>3, <3>4
  <2>5. CASE x.kind \in {"generate", "force"} /\ P!Made(e)
    <3>1. /\ e \in x.field /\ y.status = old.status
          /\ y.basic = new.basic /\ y.tax = new.tax
          /\ y.overrides = IF x.kind = "force" THEN {} ELSE old.overrides
      BY <1>1, <1>2, <2>5, GeneratedIsRecord
    <3>2. /\ old.status = "pending"
          /\ x.kind = "generate" => \A f \in old.overrides : new[f] = old[f]
      BY <1>3, <2>1, <2>5, <3>1 DEF OfficeFits, GeneratedFits
    <3>3. ASSUME NEW f \in Fields, hand[f] # Null PROVE f \in y.overrides /\ y[f] = hand[f]
      <4>1. x.kind = "generate" /\ hand[f] = byHand[e][f]
        BY <2>5, <3>3 DEF P!ByNobody, Fields
      <4>2. y[f] = new[f]
        BY <3>1 DEF Fields
      <4>. QED
        BY <2>2, <3>1, <3>2, <3>3, <4>1, <4>2
    <3>. QED
      BY <2>2, <2>5, <3>1, <3>2, <3>3
  <2>. QED
    BY <1>1, <2>3, <2>4, <2>5
<1>. HIDE DEF hand, paid, y, new, old, e
<1>10. \A g \in Employees \ {e} : (g \in mixed <=> g \in mixed') /\ (g \in crossed <=> g \in crossed')
  BY <1>1
<1>11. /\ byHand' \in [Employees -> [basic : Int \cup {Null}, tax : Int \cup {Null}]]
       /\ byHand'[e] = hand
       /\ \A g \in Employees \ {e} : byHand'[g] = byHand[g]
  BY <1>3, <1>5, <1>6 DEF PayInv, PayTypes
<1>12. /\ paidAs' = [g \in Employees |-> paidAs'[g]] /\ paidAs'[e] = paid
       /\ \A g \in Employees \ {e} : paidAs'[g] = paidAs[g]
  BY <1>3, <1>5 DEF PayInv, PayTypes
<1>13. /\ byHand' \in [Employees -> [basic : Int \cup {Null}, tax : Int \cup {Null}]]
       /\ byHand'[e] = hand /\ paidAs' = [g \in Employees |-> paidAs'[g]] /\ paidAs'[e] = paid
       /\ \A g \in Employees \ {e} : /\ byHand'[g] = byHand[g] /\ paidAs'[g] = paidAs[g]
                                     /\ (g \in mixed <=> g \in mixed') /\ (g \in crossed <=> g \in crossed')
  BY <1>10, <1>11, <1>12
<1>14. e \notin crossed' =>
          /\ \A f \in Fields : byHand'[e][f] # Null => f \in y.overrides /\ y[f] = byHand'[e][f]
          /\ paidAs'[e] = IF y.status = "paid" THEN {y.received} ELSE {}
  BY <1>9, <1>13
<1>15. salaries' \in [Employees -> SalaryRecord] /\ \A g \in Employees : SalaryFits(g)'
  BY <1>1, <1>2, <1>7, <1>8, <1>13, <1>14, WriteFits
<1>16. offices' = [d \in Clerks |-> offices'[d]] /\ \A d \in Clerks : OfficeTypes(offices'[d])
  BY <1>1, <1>2, TouchLeaves
<1>17. \A d \in Clerks : \A g \in offices'[d].left : OfficeFits(offices[d], g)'
  BY <1>1, <1>2, <1>7, OthersStillFit DEF old
<1>18. PayTypes'
  BY <1>1, <1>13, <1>15, <1>16 DEF PayInv, PayTypes
<1>. QED
  BY <1>15, <1>17, <1>18 DEF PayInv

LEMMA SavePaymentKeeps ==
    ASSUME PayInv, NEW c \in Clerks, P!SavePayment(c)
    PROVE  PayInv'
<1>. DEFINE x == offices[c]
            e == P!Min(x.left)
            old == salaries[e]
            y == [old EXCEPT !.status = "paid"]
            paid == paidAs[e] \cup {x.docs[e].received}
<1>1. /\ x.kind = "pay"
      /\ salaries' = [salaries EXCEPT ![e] = y]
      /\ offices' = P!Touch(c, e)
      /\ crossed' = IF e \in x.stale THEN crossed \cup {e} ELSE crossed
      /\ paidAs' = [paidAs EXCEPT ![e] = paid]
      /\ UNCHANGED <<settings, mixed, byHand>>
  BY DEF P!SavePayment
<1>2. e \in x.left
  BY <1>1, FirstIsLeft DEF PayInv, PayTypes, OfficeTypes
<1>3. e \in Employees /\ OfficeFits(x, e) /\ SalaryFits(e) /\ old \in SalaryRecord
  BY <1>2 DEF PayInv, PayTypes, OfficeTypes
<1>4. PaymentFits(x, e) /\ P!Made(e)
  BY <1>1, <1>3 DEF OfficeFits, PaymentFits
<1>. HIDE DEF e, old
<1>5. /\ y \in SalaryRecord /\ y.status = "paid" /\ y.state = old.state /\ y.worked = old.worked
      /\ y.plus = old.plus /\ y.minus = old.minus /\ y.basic = old.basic /\ y.tax = old.tax
      /\ y.total = old.total /\ y.received = old.received /\ y.overrides = old.overrides
  BY <1>3 DEF SalaryRecord
<1>6. y.state = "made"
  BY <1>4, <1>5 DEF P!Made, old
<1>. HIDE DEF y
<1>7. e \notin mixed' => y = P!Summed(y)
  <2>. SUFFICES ASSUME e \notin mixed' PROVE y = P!Summed(y)
    OBVIOUS
  <2>1. old = P!Summed(old)
    BY <1>1, <1>3, <1>4 DEF SalaryFits, old
  <2>2. old.total = P!Base(old) + old.plus /\ old.received = P!Base(old) + old.plus - old.minus - old.tax
    BY <1>3, <2>1 DEF P!Summed, SalaryRecord
  <2>3. P!Base(y) = P!Base(old)
    BY <1>5 DEF P!Base
  <2>4. y.total = P!Base(y) + y.plus /\ y.received = P!Base(y) + y.plus - y.minus - y.tax
    BY <1>5, <2>2, <2>3
  <2>. QED
    BY <1>5, <2>4 DEF P!Summed, SalaryRecord
<1>8. ASSUME e \notin crossed'
      PROVE  /\ \A f \in Fields : byHand[e][f] # Null => f \in y.overrides /\ y[f] = byHand[e][f]
             /\ paid = IF y.status = "paid" THEN {y.received} ELSE {}
  <2>1. e \notin x.stale /\ e \notin crossed
    BY <1>1, <1>8
  <2>2. /\ \A f \in Fields : byHand[e][f] # Null => f \in old.overrides /\ old[f] = byHand[e][f]
        /\ paidAs[e] = IF old.status = "paid" THEN {old.received} ELSE {}
    BY <1>3, <2>1 DEF SalaryFits, old
  <2>3. old.status = "pending" /\ x.docs[e].received = old.received
    BY <1>4, <2>1 DEF PaymentFits, old
  <2>4. \A f \in Fields : y[f] = old[f]
    BY <1>5 DEF Fields
  <2>. QED
    BY <1>5, <2>2, <2>3, <2>4
<1>. HIDE DEF paid
<1>9. \A g \in Employees \ {e} : (g \in mixed <=> g \in mixed') /\ (g \in crossed <=> g \in crossed')
  BY <1>1
<1>10. /\ paidAs' = [g \in Employees |-> paidAs'[g]] /\ paidAs'[e] = paid
       /\ \A g \in Employees \ {e} : paidAs'[g] = paidAs[g]
  BY <1>1, <1>3 DEF PayInv, PayTypes
<1>11. /\ paidAs' = [g \in Employees |-> paidAs'[g]] /\ paidAs'[e] = paid /\ byHand' = byHand
      /\ \A g \in Employees \ {e} : /\ byHand'[g] = byHand[g] /\ paidAs'[g] = paidAs[g]
                                    /\ (g \in mixed <=> g \in mixed') /\ (g \in crossed <=> g \in crossed')
  BY <1>1, <1>9, <1>10
<1>12. e \notin crossed' =>
          /\ \A f \in Fields : byHand'[e][f] # Null => f \in y.overrides /\ y[f] = byHand'[e][f]
          /\ paidAs'[e] = IF y.status = "paid" THEN {y.received} ELSE {}
  BY <1>8, <1>11
<1>13. salaries' \in [Employees -> SalaryRecord] /\ \A g \in Employees : SalaryFits(g)'
  <2>. HIDE DEF x
  <2>. QED
    BY <1>1, <1>2, <1>5, <1>6, <1>7, <1>11, <1>12, WriteFits DEF x
<1>14. offices' = [d \in Clerks |-> offices'[d]] /\ \A d \in Clerks : OfficeTypes(offices'[d])
  BY <1>1, <1>2, TouchLeaves
<1>15. \A d \in Clerks : \A g \in offices'[d].left : OfficeFits(offices[d], g)'
  BY <1>1, <1>2, <1>5, <1>6, OthersStillFit DEF old
<1>16. PayTypes'
  BY <1>1, <1>11, <1>13, <1>14 DEF PayInv, PayTypes
<1>. QED
  BY <1>13, <1>15, <1>16 DEF PayInv

LEMMA PayNextKeeps == PayInv /\ P!PayNext => PayInv'
<1>. SUFFICES ASSUME PayInv, P!PayNext PROVE PayInv'
  OBVIOUS
<1>1. CASE \E e \in Employees, a \in Amounts, here \in BOOLEAN : P!Configure(e, a, here)
  BY <1>1, ConfigureKeeps
<1>2. ASSUME NEW c \in Clerks, \E force \in BOOLEAN : P!Generate(c, force) PROVE PayInv'
  BY <1>2, GeneratePayKeeps
<1>3. ASSUME NEW c \in Clerks, NEW es \in SUBSET Employees \ {{}}, NEW a \in Amounts,
             NEW field \in {"basic", "tax", "plus", "minus", "worked"}, P!Edit(c, es, field, a)
      PROVE  PayInv'
  <2>1. a \in Int
    BY PayAssumption
  <2>. QED
    BY <1>3, <2>1, EditKeeps
<1>4. ASSUME NEW c \in Clerks, NEW es \in SUBSET Employees \ {{}}, P!Edit(c, es, "worked", Null)
      PROVE  PayInv'
  BY <1>4, EditKeeps
<1>5. ASSUME NEW c \in Clerks, P!Write(c) \/ P!EndList(c) \/ P!SavePayment(c) PROVE PayInv'
  BY <1>5, WriteKeeps, EndListKeeps, SavePaymentKeeps
<1>6. ASSUME NEW c \in Clerks, \E e \in Employees : P!Pay(c, e) PROVE PayInv'
  BY <1>6, PayKeeps
<1>. QED
  BY <1>1, <1>2, <1>3, <1>4, <1>5, <1>6 DEF P!PayNext

LEMMA PayMean == PayInv => P!PayIsExplained
<1>. SUFFICES ASSUME PayInv PROVE P!PayIsExplained
  OBVIOUS
<1>1. P!SumsAddUp /\ P!HandIsKept /\ P!PaidIsKept
  BY DEF PayInv, SalaryFits, P!SumsAddUp, P!HandIsKept, P!PaidIsKept, Fields
<1>. QED
  BY <1>1 DEF P!PayIsExplained

\* A record's sums are those of its parts, what was set by hand stays until it
\* is generated by force, and a record is paid once and then comes to what was
\* paid, but where a record was written from an old copy: for any staff,
\* amounts and requests, and any records that add up to begin with.
THEOREM PayStaysExplained == LearningSpec => []PayIsExplained
<1>. DEFINE Kept == part = "pay" => PayInv
            all == <<part, classVars, catalogueVars, bookVars, payVars, programmeVars, orderVars>>
<1>1. LearningInit => Kept
  BY PayFirst
<1>2. Kept /\ [LearningNext]_all => Kept'
  <2>. SUFFICES ASSUME Kept, [LearningNext]_all
                PROVE  Kept'
    OBVIOUS
  <2>1. CASE part = "pay" /\ P!PayNext /\ part' = part
    BY <2>1, PayNextKeeps
  <2>2. CASE part' = part /\ UNCHANGED payVars
    BY <2>2, PayRests
  <2>3. CASE part # "pay" /\ part' = part
    BY <2>3
  <2>. QED
    BY <2>1, <2>2, <2>3 DEF LearningNext
<1>3. Kept => PayIsExplained
  BY PayMean DEF PayIsExplained
<1>. QED
  BY <1>1, <1>2, <1>3, PTL DEF LearningSpec
===============================================================================
