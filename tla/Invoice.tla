------------------------------- MODULE Invoice -------------------------------
(***************************************************************************)
(* Electronic invoices: modules/invoice, and their records at the provider *)
(* (Bkav).  An invoice is a document here and, once it was sent, a record  *)
(* there, named by a GUID; a signed record is a legal invoice.             *)
(*                                                                         *)
(* Every handler reads the document, calls Bkav for up to 30 seconds, and  *)
(* saves; save() writes the paths it changed, by _id and without looking   *)
(* again.  A call may be carried out over there and fail for us.           *)
(*                                                                         *)
(* Bkav signs only what is unsigned and deletes only what is unsigned; it  *)
(* may refuse anything, and may answer a repeated signature with success.  *)
(* There is one provider account, and its flag autoSign says what Bkav     *)
(* does.  Left out: what an invoice says (so updateInvoice, tax status,    *)
(* e-mails), the account's administration, relations named by clients.     *)
(***************************************************************************)
EXTENDS Integers, FiniteSets, TLC

CONSTANTS
    Invoices,   \* ids that generateMonotonicId may hand out
    Guids,      \* bound: records created at Bkav
    Handlers,   \* requests in flight at the same time
    None

ASSUME InvoiceAssumption == None \notin Invoices \cup Guids

VARIABLES
    status,     \* invoice -> status, "none" before, "dropped" after deleteOne
    guid,       \* invoice -> providerInvoiceGUID
    original,   \* invoice -> relatedInvoiceId
    relation,   \* invoice -> what it makes of its original
    deleted,    \* invoices with isDeleted
    record,     \* guid -> the record at Bkav
    autoSign,   \* Bkav signs what it is sent
    work,       \* handler -> what it does with its copy of an invoice
    doubtful,   \* invoices whose creation failed only for us, was answered
                \* without a GUID, or was requested by two handlers at once (history)
    stuck       \* invoices whose handler died while they were pending (history)

docs == <<status, guid, original, relation, deleted>>
history == <<doubtful, stuck>>
vars == <<docs, record, autoSign, work, history>>

-----------------------------------------------------------------------------

Status == {"draft", "pending", "pending_sign", "issued", "error", "cancelled",
           "replaced", "adjusted"}
Superseded == {"replaced", "adjusted"}
Final == {"issued", "cancelled"} \cup Superseded

Exists(i) == status[i] \in Status

\* What a handler is doing, and what its copy of invoice i says.
Job(pc, op, i, read, g, next) ==
    [pc |-> pc, op |-> op, inv |-> i, read |-> read, guid |-> g, next |-> next]
Idle == Job("idle", None, None, None, None, None)
\* It has just read the invoice.
Copy(pc, op, i) == Job(pc, op, i, status[i], guid[i], None)

Start(h, job) == work[h] = Idle /\ work' = [work EXCEPT ![h] = job]
At(h, pc) == work[h].pc = pc
Return(h) == work' = [work EXCEPT ![h] = Idle]
\* It goes on, with what it is about to save, and the GUID.
Proceed(w, pc, next, g) == Job(pc, w.op, w.inv, w.read, g, next)
Goto(h, pc, next) == work' = [work EXCEPT ![h] = Proceed(@, pc, next, @.guid)]

\* save() of the status s, if the document is still there.
SaveStatus(i, s) == status' = IF Exists(i) THEN [status EXCEPT ![i] = s] ELSE status

RecordsOf(i) == {g \in Guids : record[g].inv = i}
Signed(i) == \E g \in RecordsOf(i) : record[g].state = "signed"
Successors(i) == {j \in Invoices : original[j] = i}

\* mapBkavStatusToCrmStatus of what Bkav says of a record.
BkavStatus(g) ==
    LET by == {relation[j] : j \in {j \in Successors(record[g].inv) : Signed(j)}}
    IN  CASE record[g].state = "unsigned" -> {"pending_sign"}
          [] record[g].state = "removed" -> {"cancelled"}
          [] OTHER -> IF by = {} THEN {"issued"} ELSE by

Init ==
    /\ status = [i \in Invoices |-> "none"]
    /\ guid = [i \in Invoices |-> None]
    /\ original = [i \in Invoices |-> None]
    /\ relation = [i \in Invoices |-> None]
    /\ deleted = {}
    /\ record = [g \in Guids |-> [state |-> "none", inv |-> None]]
    /\ autoSign \in BOOLEAN
    /\ work = [h \in Handlers |-> Idle]
    /\ doubtful = {}
    /\ stuck = {}

-----------------------------------------------------------------------------
(* Issuing: createInvoice, issueInvoice, retryInvoice, _issueViaProvider.  *)

CreateDraft(i) ==
    /\ status[i] = "none"
    /\ status' = [status EXCEPT ![i] = "draft"]
    /\ UNCHANGED <<guid, original, relation, deleted, record, autoSign, work, history>>

\* createInvoice with isDraft = false: created as pending, issued at once.
CreateAndIssue(h, i) ==
    /\ status[i] = "none"
    /\ Start(h, Job("calling", "issue", i, "pending", guid[i], None))
    /\ status' = [status EXCEPT ![i] = "pending"]
    /\ UNCHANGED <<guid, original, relation, deleted, record, autoSign, history>>

\* (mutated form: an issued invoice may be sent again)
MaySendAgain(s) == s \in {"draft", "error", "issued"}
MaySend(s) == s \in {"draft", "error"}

\* Another handler is about to issue the invoice, or is issuing it.
Contended(i) ==
    \E k \in Handlers : work[k].inv = i /\ work[k].pc \in {"sending", "calling", "saving"}

\* issueInvoice, batchIssueInvoices and retryInvoice; isDeleted is not read.
ReadToIssue(h, i) ==
    /\ MaySend(status[i])
    /\ Start(h, Copy("sending", "issue", i))
    /\ doubtful' = IF Contended(i) THEN doubtful \cup {i} ELSE doubtful
    /\ UNCHANGED <<docs, record, autoSign, stuck>>

SavePending(h) ==
    LET i == work[h].inv
    IN  /\ At(h, "sending")
        /\ SaveStatus(i, "pending")
        /\ IF Exists(i) THEN Goto(h, "calling", None) ELSE Return(h)
        /\ stuck' = stuck \ {i}
        /\ UNCHANGED <<guid, original, relation, deleted, record, autoSign, doubtful>>

\* What a successful creation makes of the invoice: numbered by Bkav or not.
Created(i, numbered) ==
    IF autoSign THEN "issued"
    ELSE IF numbered \/ original[i] # None THEN "pending_sign" ELSE "draft"

\* The call is over: the status to save and the GUID, if it made one.
Heard(h, s, g) ==
    work' = [work EXCEPT ![h] = Proceed(@, "saving", s, g)]

\* (mutated form: whether the invoice has been sent before is not looked at)
SendsNewAlways(h) == TRUE
SendsNew(h) == work[h].guid = None

\* adapter.issue: Bkav creates a record, and we hear of it or not, or of no
\* GUID, which is a success too.
Send(h, g, ok, named, numbered) ==
    LET i == work[h].inv
    IN  /\ At(h, "calling") /\ SendsNew(h)
        /\ record[g].state = "none"
        /\ record' = [record EXCEPT ![g] =
                        [state |-> IF autoSign THEN "signed" ELSE "unsigned", inv |-> i]]
        /\ doubtful' = IF ok /\ named THEN doubtful ELSE doubtful \cup {i}
        /\ IF ok THEN Heard(h, Created(i, numbered), IF named THEN g ELSE None) ELSE Heard(h, "error", None)
        /\ UNCHANGED <<docs, autoSign, stuck>>

\* adapter.signWithHSM for an invoice that has been sent before.
SignToIssue(h, ok) ==
    LET g == work[h].guid
    IN  /\ At(h, "calling") /\ ~SendsNew(h)
        /\ record[g].state \in {"unsigned", "signed"}
        /\ record' = [record EXCEPT ![g].state = "signed"]
        /\ Heard(h, IF ok THEN "issued" ELSE "error", None)
        /\ UNCHANGED <<docs, autoSign, history>>

\* Bkav refuses, cannot be reached, or the adapter cannot be built.
CallFails(h) ==
    /\ At(h, "calling")
    /\ Heard(h, "error", None)
    /\ UNCHANGED <<docs, record, autoSign, history>>

\* The outcome: the status, and the GUID when there is a new one.
SaveOutcome(h) ==
    LET i == work[h].inv
    IN  /\ At(h, "saving")
        /\ SaveStatus(i, work[h].next)
        /\ guid' = IF Exists(i) /\ work[h].guid # None
                   THEN [guid EXCEPT ![i] = work[h].guid] ELSE guid
        /\ IF Exists(i) /\ work[h].op = "succeed"
           THEN Goto(h, "marking", work[h].next) ELSE Return(h)
        /\ UNCHANGED <<original, relation, deleted, record, autoSign, history>>

-----------------------------------------------------------------------------
(* replaceInvoice, adjustInvoice                                           *)

ReadOriginal(h, i, rel) ==
    /\ status[i] = "issued"
    /\ Start(h, Job("relating", "succeed", i, status[i], guid[i], rel))
    /\ UNCHANGED <<docs, record, autoSign, history>>

\* The successor is saved as a draft and goes the way of all invoices.
CreateSuccessor(h, j) ==
    /\ At(h, "relating") /\ status[j] = "none"
    /\ status' = [status EXCEPT ![j] = "draft"]
    /\ original' = [original EXCEPT ![j] = work[h].inv]
    /\ relation' = [relation EXCEPT ![j] = work[h].next]
    /\ work' = [work EXCEPT ![h] = Job("sending", "succeed", j, "draft", None, None)]
    /\ UNCHANGED <<guid, deleted, record, autoSign, history>>

\* The successor was issued: its original is replaced or adjusted.
MarkOriginal(h) ==
    LET j == work[h].inv
    IN  /\ At(h, "marking") /\ work[h].next = "issued"
        /\ SaveStatus(original[j], relation[j])
        /\ Return(h)
        /\ UNCHANGED <<guid, original, relation, deleted, record, autoSign, history>>

\* It was not: it is removed here, also when it waits to be signed at Bkav.
DropSuccessor(h) ==
    /\ At(h, "marking") /\ work[h].next # "issued"
    /\ SaveStatus(work[h].inv, "dropped")
    /\ Return(h)
    /\ UNCHANGED <<guid, original, relation, deleted, record, autoSign, history>>

-----------------------------------------------------------------------------
(* Signing, deleting, synchronising.                                       *)

\* signInvoiceWithHSM takes any invoice with a GUID, whatever its status.
ReadToSign(h, i) ==
    /\ Exists(i) /\ guid[i] # None
    /\ Start(h, Copy("signing", "sign", i))
    /\ UNCHANGED <<docs, record, autoSign, history>>

Sign(h, ok) ==
    LET g == work[h].guid
    IN  /\ At(h, "signing")
        /\ record[g].state \in {"unsigned", "signed"}
        /\ record' = [record EXCEPT ![g].state = "signed"]
        /\ IF ok THEN Goto(h, "writing", "issued") ELSE Return(h)
        /\ UNCHANGED <<docs, autoSign, history>>

\* batchSignWithHSM signs at Bkav and writes nothing here.
BatchSign(i) ==
    /\ Exists(i) /\ guid[i] # None
    /\ record[guid[i]].state = "unsigned"
    /\ record' = [record EXCEPT ![guid[i]].state = "signed"]
    /\ UNCHANGED <<docs, autoSign, work, history>>

ReadToDelete(h, i) ==
    /\ status[i] \in {"draft", "pending_sign"}
    /\ Start(h, Copy(IF guid[i] = None THEN "deleted" ELSE "deleting", "delete", i))
    /\ UNCHANGED <<docs, record, autoSign, history>>

\* adapter.deleteDraft must succeed before the invoice is deleted here.
DeleteDraft(h, ok) ==
    LET g == work[h].guid
    IN  /\ At(h, "deleting")
        /\ record[g].state \in {"unsigned", "removed"}
        /\ record' = [record EXCEPT ![g].state = "removed"]
        /\ IF ok THEN Goto(h, "deleted", None) ELSE Return(h)
        /\ UNCHANGED <<docs, autoSign, history>>

SaveDeleted(h) ==
    LET i == work[h].inv
    IN  /\ At(h, "deleted")
        /\ deleted' = IF Exists(i) THEN deleted \cup {i} ELSE deleted
        /\ Return(h)
        /\ UNCHANGED <<status, guid, original, relation, record, autoSign, history>>

ReadToSync(h, i) ==
    /\ Exists(i)
    /\ Start(h, Copy("asking", "sync", i))
    /\ UNCHANGED <<docs, record, autoSign, history>>

\* syncFromProvider asks by GUID, or by id as long as there is none.
GetInfo(h, g) ==
    /\ At(h, "asking")
    /\ IF work[h].guid # None THEN g = work[h].guid ELSE g \in RecordsOf(work[h].inv)
    /\ \E s \in BkavStatus(g) : Goto(h, "writing", s)
    /\ UNCHANGED <<docs, record, autoSign, history>>

\* save() writes the status only when it is not the one that was read.
WriteStatus(h) ==
    /\ At(h, "writing")
    /\ IF work[h].next # work[h].read
       THEN SaveStatus(work[h].inv, work[h].next) ELSE UNCHANGED status
    /\ Return(h)
    /\ UNCHANGED <<guid, original, relation, deleted, record, autoSign, history>>

\* These calls too may be refused or fail: an error is answered.
GiveUp(h) ==
    /\ work[h].pc \in {"relating", "signing", "deleting", "asking"}
    /\ Return(h)
    /\ UNCHANGED <<docs, record, autoSign, history>>

Crash ==
    /\ \E h \in Handlers : work[h] # Idle
    /\ work' = [h \in Handlers |-> Idle]
    /\ stuck' = {i \in Invoices : status[i] = "pending"}
    /\ UNCHANGED <<docs, record, autoSign, doubtful>>

-----------------------------------------------------------------------------

Issue(h) ==
    \/ SavePending(h)
    \/ \E g \in Guids, ok, named, numbered \in BOOLEAN : Send(h, g, ok, named, numbered)
    \/ \E ok \in BOOLEAN : SignToIssue(h, ok)
    \/ CallFails(h)
    \/ SaveOutcome(h)
    \/ \E j \in Invoices : CreateSuccessor(h, j)
    \/ MarkOriginal(h)
    \/ DropSuccessor(h)

Other(h) ==
    \/ \E ok \in BOOLEAN : Sign(h, ok) \/ DeleteDraft(h, ok)
    \/ SaveDeleted(h)
    \/ \E g \in Guids : GetInfo(h, g)
    \/ WriteStatus(h)
    \/ GiveUp(h)

Call(h, i) ==
    \/ CreateAndIssue(h, i)
    \/ ReadToIssue(h, i)
    \/ \E rel \in Superseded : ReadOriginal(h, i, rel)
    \/ ReadToSign(h, i)
    \/ ReadToDelete(h, i)
    \/ ReadToSync(h, i)

Next ==
    \/ \E i \in Invoices : CreateDraft(i) \/ BatchSign(i)
    \/ \E h \in Handlers, i \in Invoices : Call(h, i)
    \/ \E h \in Handlers : Issue(h) \/ Other(h)
    \/ Crash

Spec == Init /\ [][Next]_vars

-----------------------------------------------------------------------------

PCs == {"idle", "sending", "calling", "saving", "relating", "marking", "signing",
        "writing", "deleting", "deleted", "asking"}

TypeOK ==
    /\ status \in [Invoices -> Status \cup {"none", "dropped"}]
    /\ guid \in [Invoices -> Guids \cup {None}]
    /\ original \in [Invoices -> Invoices \cup {None}]
    /\ relation \in [Invoices -> Superseded \cup {None}]
    /\ deleted \subseteq Invoices
    /\ record \in [Guids -> [state : {"none", "unsigned", "signed", "removed"},
                             inv : Invoices \cup {None}]]
    /\ autoSign \in BOOLEAN
    /\ work \in [Handlers ->
                   [pc : PCs, op : {"issue", "succeed", "sign", "delete", "sync", None},
                    inv : Invoices \cup {None}, read : Status \cup {None},
                    guid : Guids \cup {None}, next : Status \cup {None}]]
    /\ doubtful \subseteq Invoices /\ stuck \subseteq Invoices

\* What the CRM calls issued is a signed, legal invoice at Bkav, and what it
\* calls replaced or adjusted has a signed successor, whichever handlers
\* issued, signed, synchronised and replaced it at the same time.
StatusIsBacked ==
    \A i \in Invoices :
        /\ status[i] = "issued" => Signed(i)
        /\ status[i] \in Superseded => \E j \in Successors(i) : Signed(j)

\* Nobody is invoiced twice: an invoice has one record at Bkav, through
\* errors, retries, crashes and synchronisation, unless a creation failed
\* only for us or was answered without a GUID, or two handlers issued the
\* invoice at once.
IssuedOnce ==
    \A i \in Invoices \ doubtful : Cardinality(RecordsOf(i)) <= 1

\* Once issued, an invoice never becomes open to editing, deletion or a
\* second issue again, by a handler that read it since.
Settled(i) ==
    /\ status[i] \in Final /\ i \notin doubtful
    /\ \A h \in Handlers :
          work[h].inv = i => work[h].read \in Final /\ work[h].pc \notin {"saving", "marking"}
SettledIsFinal == [][\A i \in Invoices : Settled(i) => Settled(i)']_vars

\* A pending invoice, which can be neither issued, retried nor deleted, is
\* being issued by a handler, unless that handler died.
PendingIsAttended ==
    \A i \in Invoices : status[i] = "pending" =>
        \/ i \in stuck
        \/ \E h \in Handlers : work[h].inv = i /\ work[h].pc \in {"calling", "saving"}

\* All of it: statuses are backed by the provider's records, one of each, and
\* no invoice waits for nobody.
InvoicesAreBacked == TypeOK /\ StatusIsBacked /\ IssuedOnce /\ PendingIsAttended

-----------------------------------------------------------------------------
\* Bounds of the run: two invoices, one of which may succeed the other, under
\* two handlers.

Symmetry == Permutations(Invoices) \cup Permutations(Guids) \cup Permutations(Handlers)

\* At most one invoice meets a lost answer, a second handler that issues it, or
\* a crash of its handler; the other one has none of these.
OneAccident == Cardinality(doubtful \cup stuck) <= 1
=============================================================================
