---------------------------- MODULE TopupRequest ----------------------------
(***************************************************************************)
(* Bank-transfer topup requests: modules/customer/credit/topupRequest.     *)
(*                                                                         *)
(* Every HTTP call (or the bank-log auto match) runs as a handler.  A      *)
(* handler first reads the request document and checks its status; the     *)
(* write comes after at least one more await, so other handlers run in     *)
(* between.  The schema has versionKey: false, hence save() is an update   *)
(* by _id that never looks at the stored status again.                     *)
(*                                                                         *)
(* adminApprove and autoApprove write inside a MongoDB transaction: the    *)
(* request, then the customer's balance, then the CreditTransaction.  Its  *)
(* writes stay invisible until the commit, hold their documents meanwhile, *)
(* and conflict (aborting the transaction) when the document is held or    *)
(* was changed since the transaction's snapshot.  A write outside a        *)
(* transaction waits for a held document.                                  *)
(*                                                                         *)
(* Left out: adminNote and the other display fields, listings, statistics. *)
(***************************************************************************)
EXTENDS Integers, Sequences, FiniteSets, Functions

CONSTANTS
    Customers,      \* customers who exist (never removed here)
    Requests,       \* ids that generateMonotonicId may hand out
    Handlers,       \* handlers in flight at the same time
    BankTxs,        \* incoming bank transactions
    BankAmount,     \* [BankTxs -> Nat], the money each one carries
    Amounts,        \* amounts a customer may ask for
    Ratios,         \* <<n, d>>: creditRatio n/d, as configured at creation
    Admin,          \* the approver recorded by adminApprove
    None            \* no customer, no request, no approver

ASSUME ConstantsAssumption ==
    /\ IsFiniteSet(Handlers)
    /\ Amounts \subseteq Nat \ {0}
    /\ BankAmount \in [BankTxs -> Nat]
    /\ Ratios \subseteq (Nat \ {0}) \X (Nat \ {0})
    /\ Admin \notin BankTxs
    /\ None \notin Customers \cup Requests \cup BankTxs \cup {Admin}

VARIABLES
    status,     \* request -> TOPUP_REQUEST_STATUS, or "none" before create
    owner,      \* request -> customerId, fixed at creation
    amount,     \* request -> amount, fixed at creation
    credit,     \* request -> creditAmount, fixed at creation
    balance,    \* customer -> mainCredit
    ledger,     \* request -> approvers of its CreditTransactions, in order
    events,     \* request -> CRM events emitted for it
    pc,         \* handler -> where it stands
    kind,       \* handler -> the service method it runs
    req,        \* handler -> the request it works on
    by,         \* handler -> who approves: Admin or a bank transaction
    stale       \* handler -> the customer changed since its snapshot

docVars == <<status, owner, amount, credit>>
moneyVars == <<balance, ledger>>
handlerVars == <<pc, kind, req, by, stale>>
vars == <<docVars, moneyVars, events, handlerVars>>

-----------------------------------------------------------------------------

Status == {"none", "pending", "user_confirmed", "approved", "rejected",
           "canceled"}
Terminal == {"approved", "rejected"}
SaveKinds == {"confirmTransfer", "cancelRequest", "adminReject"}
ApproveKinds == {"adminApprove", "autoApprove"}
Kinds == {"none"} \cup SaveKinds \cup ApproveKinds
Approvers == BankTxs \cup {Admin}

InTransaction == {"saved", "credited"}
PCs == {"idle", "saving", "approving", "emitting"} \cup InTransaction

\* Math.floor(amount * creditRatio).
CreditFor(a, ratio) == (a * ratio[1]) \div ratio[2]

\* An uncommitted transaction has written request r / customer c.
RequestHeld(r) == \E h \in Handlers : pc[h] \in InTransaction /\ req[h] = r
CustomerHeld(c) ==
    \E h \in Handlers : pc[h] = "credited" /\ owner[req[h]] = c

\* The customer document c changes: open snapshots of it are outdated.
Touched(c) ==
    [h \in Handlers |->
        stale[h] \/ (pc[h] \in InTransaction /\ owner[req[h]] = c)]

-----------------------------------------------------------------------------

Init ==
    /\ status = [r \in Requests |-> "none"]
    /\ owner = [r \in Requests |-> None]
    /\ amount = [r \in Requests |-> 0]
    /\ credit = [r \in Requests |-> 0]
    /\ balance = [c \in Customers |-> 0]
    /\ ledger = [r \in Requests |-> <<>>]
    /\ events = [r \in Requests |-> 0]
    /\ pc = [h \in Handlers |-> "idle"]
    /\ kind = [h \in Handlers |-> "none"]
    /\ req = [h \in Handlers |-> None]
    /\ by = [h \in Handlers |-> None]
    /\ stale = [h \in Handlers |-> FALSE]

-----------------------------------------------------------------------------

(***************************************************************************)
(* createTopupRequest.  The creditAmount shown to the customer must still  *)
(* be the one of the configured ratio; joi wants it positive.  A request   *)
(* that asks for an invoice also writes the customer's billingInfo, which  *)
(* waits for a transaction holding the customer.                           *)
(***************************************************************************)
CreateTopupRequest(c, r, a, ratio, requestInvoice) ==
    /\ status[r] = "none"
    /\ CreditFor(a, ratio) > 0
    /\ requestInvoice => ~CustomerHeld(c)
    /\ status' = [status EXCEPT ![r] = "pending"]
    /\ owner' = [owner EXCEPT ![r] = c]
    /\ amount' = [amount EXCEPT ![r] = a]
    /\ credit' = [credit EXCEPT ![r] = CreditFor(a, ratio)]
    /\ stale' = IF requestInvoice THEN Touched(c) ELSE stale
    /\ UNCHANGED <<moneyVars, events, pc, kind, req, by>>

\* saveBillingInfo: one atomic update of the customer document.
SaveBillingInfo(c) ==
    /\ ~CustomerHeld(c)
    /\ stale' = Touched(c)
    /\ UNCHANGED <<docVars, moneyVars, events, pc, kind, req, by>>

-----------------------------------------------------------------------------

\* A handler has read request r, found its status acceptable, and goes on.
Begin(h, k, r, approver, next) ==
    /\ pc[h] = "idle"
    /\ pc' = [pc EXCEPT ![h] = next]
    /\ kind' = [kind EXCEPT ![h] = k]
    /\ req' = [req EXCEPT ![h] = r]
    /\ by' = [by EXCEPT ![h] = approver]
    /\ UNCHANGED <<docVars, moneyVars, events, stale>>

\* A handler returns, or throws: its documents in memory are gone.
Return(h) ==
    /\ pc' = [pc EXCEPT ![h] = "idle"]
    /\ kind' = [kind EXCEPT ![h] = "none"]
    /\ req' = [req EXCEPT ![h] = None]
    /\ by' = [by EXCEPT ![h] = None]

\* Only a pending request can be confirmed or cancelled by its customer.
ReadConfirmTransfer(h, r) ==
    /\ status[r] = "pending"
    /\ Begin(h, "confirmTransfer", r, None, "saving")

ReadCancelRequest(h, r) ==
    /\ status[r] = "pending"
    /\ Begin(h, "cancelRequest", r, None, "saving")

\* adminReject and adminApprove refuse a decided request, and nothing else:
\* a cancelled one can still be approved.
ReadAdminReject(h, r) ==
    /\ status[r] \notin Terminal \cup {"none"}
    /\ Begin(h, "adminReject", r, None, "saving")

\* (mutated form: the check for an approved request is missing)
ReadAdminApproveTwice(h, r) ==
    /\ status[r] \notin {"none", "rejected"}
    /\ Begin(h, "adminApprove", r, Admin, "approving")

ReadAdminApprove(h, r) ==
    /\ status[r] \notin Terminal \cup {"none"}
    /\ Begin(h, "adminApprove", r, Admin, "approving")

\* (mutated form: the amounts are not compared)
AutoApprovableAnyAmount(r, t) == status[r] \in {"pending", "user_confirmed"}

\* autoApprove: still open, and the bank received at least the amount asked
\* for (a smaller transfer only leaves a note on the request).
AutoApprovable(r, t) ==
    /\ status[r] \in {"pending", "user_confirmed"}
    /\ BankAmount[t] >= amount[r]

ReadAutoApprove(h, r, t) ==
    /\ AutoApprovable(r, t)
    /\ Begin(h, "autoApprove", r, t, "approving")

-----------------------------------------------------------------------------

SavedStatus(k) ==
    CASE k = "confirmTransfer" -> "user_confirmed"
      [] k = "cancelRequest" -> "canceled"
      [] k = "adminReject" -> "rejected"

\* request.save() outside a transaction.
SaveRequest(h) ==
    /\ pc[h] = "saving"
    /\ ~RequestHeld(req[h])
    /\ status' = [status EXCEPT ![req[h]] = SavedStatus(kind[h])]
    /\ Return(h)
    /\ UNCHANGED <<owner, amount, credit, moneyVars, events, stale>>

\* (mutated form: save() without { session })
SaveOutsideTransaction(h) ==
    /\ pc[h] = "approving"
    /\ ~RequestHeld(req[h])
    /\ pc' = [pc EXCEPT ![h] = "saved"]
    /\ status' = [status EXCEPT ![req[h]] = "approved"]
    /\ UNCHANGED <<owner, amount, credit, moneyVars, events, kind, req, by, stale>>

\* request.save({ session }): the transaction's first operation, so its
\* snapshot is taken here.  The new status is not visible before the commit.
SaveInTransaction(h) ==
    /\ pc[h] = "approving"
    /\ ~RequestHeld(req[h])
    /\ pc' = [pc EXCEPT ![h] = "saved"]
    /\ UNCHANGED <<docVars, moneyVars, events, kind, req, by, stale>>

\* Customer.findOneAndUpdate($inc mainCredit) in the same session.
AddCreditInTransaction(h) ==
    /\ pc[h] = "saved"
    /\ ~stale[h]
    /\ ~CustomerHeld(owner[req[h]])
    /\ pc' = [pc EXCEPT ![h] = "credited"]
    /\ UNCHANGED <<docVars, moneyVars, events, kind, req, by, stale>>

\* (mutated form: the balance grows by amount, the ledger by creditAmount)
CommitWrongAmount(h) ==
    LET r == req[h]
        c == owner[r]
    IN  /\ pc[h] = "credited"
        /\ status' = [status EXCEPT ![r] = "approved"]
        /\ balance' = [balance EXCEPT ![c] = @ + amount[r]]
        /\ ledger' = [ledger EXCEPT ![r] = Append(@, by[h])]
        /\ stale' = [Touched(c) EXCEPT ![h] = FALSE]
        /\ pc' = [pc EXCEPT ![h] = "emitting"]
        /\ UNCHANGED <<owner, amount, credit, events, kind, req, by>>

\* CreditTransaction.create in the session (an insert of a new document
\* conflicts with nothing) and commitTransaction: all three writes appear.
CommitApproval(h) ==
    LET r == req[h]
        c == owner[r]
    IN  /\ pc[h] = "credited"
        /\ status' = [status EXCEPT ![r] = "approved"]
        /\ balance' = [balance EXCEPT ![c] = @ + credit[r]]
        /\ ledger' = [ledger EXCEPT ![r] = Append(@, by[h])]
        /\ stale' = [Touched(c) EXCEPT ![h] = FALSE]
        /\ pc' = [pc EXCEPT ![h] = "emitting"]
        /\ UNCHANGED <<owner, amount, credit, events, kind, req, by>>

\* (mutated form: the handler only catches errors of the first write)
AbortFirstWriteOnly(h) ==
    /\ pc[h] = "approving"
    /\ stale' = [stale EXCEPT ![h] = FALSE]
    /\ Return(h)
    /\ UNCHANGED <<docVars, moneyVars, events>>

\* A write conflict or any database error: abortTransaction, nothing kept.
AbortApproval(h) ==
    /\ pc[h] \in InTransaction \cup {"approving"}
    /\ stale' = [stale EXCEPT ![h] = FALSE]
    /\ Return(h)
    /\ UNCHANGED <<docVars, moneyVars, events>>

\* CrmEventEmitter.emit after the commit (never throws), then the answer.
EmitApproved(h) ==
    /\ pc[h] = "emitting"
    /\ events' = [events EXCEPT ![req[h]] = @ + 1]
    /\ Return(h)
    /\ UNCHANGED <<docVars, moneyVars, stale>>

\* The process dies: handlers vanish, open transactions are rolled back.
Crash ==
    /\ pc' = [h \in Handlers |-> "idle"]
    /\ kind' = [h \in Handlers |-> "none"]
    /\ req' = [h \in Handlers |-> None]
    /\ by' = [h \in Handlers |-> None]
    /\ stale' = [h \in Handlers |-> FALSE]
    /\ UNCHANGED <<docVars, moneyVars, events>>

-----------------------------------------------------------------------------

Advance(h) ==
    \/ SaveRequest(h)
    \/ SaveInTransaction(h)
    \/ AddCreditInTransaction(h)
    \/ CommitApproval(h)
    \/ AbortApproval(h)
    \/ EmitApproved(h)

CustomerCall(h, r) == ReadConfirmTransfer(h, r) \/ ReadCancelRequest(h, r)
AdminCall(h, r) == ReadAdminReject(h, r) \/ ReadAdminApprove(h, r)

TopupNext ==
    \/ \E c \in Customers, r \in Requests, a \in Amounts, ratio \in Ratios,
          requestInvoice \in BOOLEAN :
            CreateTopupRequest(c, r, a, ratio, requestInvoice)
    \/ \E c \in Customers : SaveBillingInfo(c)
    \/ \E h \in Handlers, r \in Requests : CustomerCall(h, r) \/ AdminCall(h, r)
    \/ \E h \in Handlers, r \in Requests, t \in BankTxs : ReadAutoApprove(h, r, t)
    \/ \E h \in Handlers : Advance(h)
    \/ Crash

\* A handler that has started is driven to its end by the event loop.  A
\* save() that meets a held document is retried inside the database until it
\* gets through, also when several transactions hold the document in turn.
TopupFairness ==
    \A h \in Handlers : WF_vars(Advance(h)) /\ SF_vars(SaveRequest(h))

TopupSpec == Init /\ [][TopupNext]_vars
FairTopupSpec == TopupSpec /\ TopupFairness
-----------------------------------------------------------------------------

TypeOK ==
    /\ status \in [Requests -> Status]
    /\ owner \in [Requests -> Customers \cup {None}]
    /\ amount \in [Requests -> Nat]
    /\ credit \in [Requests -> Nat]
    /\ balance \in [Customers -> Nat]
    /\ ledger \in [Requests -> Seq(Approvers)]
    /\ events \in [Requests -> Nat]
    /\ pc \in [Handlers -> PCs]
    /\ kind \in [Handlers -> Kinds]
    /\ req \in [Handlers -> Requests \cup {None}]
    /\ by \in [Handlers -> Approvers \cup {None}]
    /\ stale \in [Handlers -> BOOLEAN]

\* adminApprove/autoApprove move status, balance and ledger together: no
\* interleaving, abort or crash leaves a balance the ledger cannot explain.
LedgerMatchesBalance ==
    \A c \in Customers :
        balance[c] = SumFunctionOnSet([r \in Requests |-> Len(ledger[r]) * credit[r]],
                                      {r \in Requests : owner[r] = c})

\* A request shown as approved has been paid out, whatever other handlers
\* wrote over its status in between.
ApprovedIsCredited ==
    \A r \in Requests : status[r] = "approved" => ledger[r] # <<>>

\* What autoApprove grants is covered by the transfer it names, also when
\* the request changed hands between its check and its commit.
AutoCreditIsBacked ==
    \A r \in Requests : \A i \in 1 .. Len(ledger[r]) :
        ledger[r][i] \in BankTxs => BankAmount[ledger[r][i]] >= amount[r]

\* The CRM only hears of topups that were committed, once per commit.
EventsFollowCommits ==
    \A r \in Requests : events[r] <= Len(ledger[r])

\* Decided, and no handler that read the request earlier is still running.
Settled(r) ==
    /\ status[r] \in Terminal
    /\ \A h \in Handlers : pc[h] \in {"idle", "emitting"} \/ req[h] # r

\* A settled request is final: however many confirmations, cancellations,
\* rejections, approvals and repeated bank transfers follow, it is never
\* credited again and keeps its decision.
SettledIsFinal ==
    [][\A r \in Requests :
        Settled(r) => Settled(r)' /\ UNCHANGED <<status[r], ledger[r]>>]_vars

\* What a customer sees of a request: none, one that may still be paid, or one
\* that is over.
Phase(r) ==
    IF status[r] = "none" THEN "absent" ELSE IF Settled(r) THEN "settled" ELSE "open"

Settlements ==
    INSTANCE Settlement WITH
        phase <- [r \in Requests |-> Phase(r)], payments <- ledger,
        Offers <- {<<a, CreditFor(a, ratio)>> : a \in Amounts, ratio \in Ratios}

\* However handlers interleave, conflict, abort and die: a request is opened,
\* paid in one step for the credit it promised by somebody entitled to, and
\* settled for ever (the refinement of the abstract settlement).
ImplementsSettlement == Settlements!Spec

\* A balance grows only with a payment on record, one that is backed; nothing
\* reads approved that was not paid, nothing is announced that was not.
CreditIsExplained ==
    /\ TypeOK
    /\ ApprovedIsCredited
    /\ AutoCreditIsBacked
    /\ EventsFollowCommits

\* Two handlers can hold each other's documents only through transactions,
\* which abort instead of waiting: no handler hangs.
HandlersFinish == \A h \in Handlers : pc[h] # "idle" ~> pc[h] = "idle"

\* The guards' messages: an approved request cannot be approved again.
CreditedAtMostOnce == \A r \in Requests : Len(ledger[r]) <= 1
=============================================================================
