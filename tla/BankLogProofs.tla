---------------------------- MODULE BankLogProofs ----------------------------
(***************************************************************************)
(* What TLAPS proves of topup requests, and of the bank log composed with  *)
(* them, for any number of customers, requests, handlers, transactions and *)
(* background jobs.  First the topup requests, whoever calls autoApprove;  *)
(* then the bank log, which is one more caller and so inherits what is     *)
(* proved of them, and what its rows say of themselves is true.            *)
(***************************************************************************)
EXTENDS BankLog, Sums

\* What a handler in flight knows of the request it read.
HandlerInv ==
    \A h \in Handlers : pc[h] # "idle" =>
        /\ req[h] \in Requests
        /\ status[req[h]] # "none"
        /\ pc[h] = "saving" => kind[h] \in SaveKinds
        /\ pc[h] \in {"approving"} \cup InTransaction =>
              /\ by[h] \in Approvers
              /\ by[h] \in BankTxs => BankAmount[by[h]] >= amount[req[h]]

\* A request that does not exist has no entries; one that does has an owner.
RequestInv ==
    \A r \in Requests :
        IF status[r] = "none" THEN ledger[r] = <<>> ELSE owner[r] \in Customers

IInv == TypeOK /\ HandlerInv /\ RequestInv /\ ApprovedIsCredited /\ AutoCreditIsBacked

USE ConstantsAssumption DEF Status, Terminal, SaveKinds, ApproveKinds, Kinds,
    Approvers, InTransaction, PCs

LEMMA CreditForIsNat ==
  ASSUME NEW a \in Amounts, NEW ratio \in Ratios
  PROVE  a \in Nat /\ CreditFor(a, ratio) \in Int
BY DEF CreditFor

LEMMA InitIInv == Init => IInv
BY DEF Init, IInv, TypeOK, HandlerInv, RequestInv, ApprovedIsCredited,
       AutoCreditIsBacked

LEMMA CreateIInv ==
  ASSUME IInv, NEW c \in Customers, NEW r \in Requests, NEW a \in Amounts,
         NEW ratio \in Ratios, NEW i \in BOOLEAN,
         CreateTopupRequest(c, r, a, ratio, i)
  PROVE  IInv'
<1> USE DEF IInv, CreateTopupRequest, moneyVars
<1>0. a \in Nat /\ CreditFor(a, ratio) \in Nat
  BY CreditForIsNat
<1>1. TypeOK'
  BY <1>0 DEF TypeOK, Touched
<1>2. HandlerInv'
  BY DEF HandlerInv, TypeOK
<1>3. RequestInv'
  BY DEF RequestInv, TypeOK
<1>4. ApprovedIsCredited'
  BY DEF ApprovedIsCredited, TypeOK
<1>5. AutoCreditIsBacked'
  BY SMTT(20) DEF AutoCreditIsBacked, RequestInv, TypeOK
<1> QED BY <1>1, <1>2, <1>3, <1>4, <1>5

LEMMA BeginIInv ==
  ASSUME IInv, NEW h \in Handlers, NEW r \in Requests, status[r] # "none",
         NEW k \in Kinds, NEW b \in Approvers \cup {None},
         NEW next \in {"saving", "approving"},
         next = "saving" => k \in SaveKinds,
         next = "approving" =>
            b \in Approvers /\ (b \in BankTxs => BankAmount[b] >= amount[r]),
         Begin(h, k, r, b, next)
  PROVE  IInv'
<1> USE DEF IInv, Begin, docVars, moneyVars
<1>1. TypeOK'
  BY DEF TypeOK
<1>2. HandlerInv'
  BY DEF HandlerInv, TypeOK
<1>3. RequestInv' /\ ApprovedIsCredited' /\ AutoCreditIsBacked'
  BY DEF RequestInv, ApprovedIsCredited, AutoCreditIsBacked
<1> QED BY <1>1, <1>2, <1>3

LEMMA CallIInv ==
  ASSUME IInv, NEW h \in Handlers, NEW r \in Requests,
         \/ CustomerCall(h, r)
         \/ AdminCall(h, r)
         \/ \E t \in BankTxs : ReadAutoApprove(h, r, t)
  PROVE  IInv'
<1>1. CASE ReadConfirmTransfer(h, r)
  BY <1>1, BeginIInv DEF ReadConfirmTransfer
<1>2. CASE ReadCancelRequest(h, r)
  BY <1>2, BeginIInv DEF ReadCancelRequest
<1>3. CASE ReadAdminReject(h, r)
  BY <1>3, BeginIInv DEF ReadAdminReject
<1>4. CASE ReadAdminApprove(h, r)
  BY <1>4, BeginIInv DEF ReadAdminApprove
<1>5. ASSUME NEW t \in BankTxs, ReadAutoApprove(h, r, t) PROVE IInv'
  BY <1>5, BeginIInv DEF ReadAutoApprove, AutoApprovable
<1> QED BY <1>1, <1>2, <1>3, <1>4, <1>5 DEF CustomerCall, AdminCall

LEMMA SaveRequestIInv ==
  ASSUME IInv, NEW h \in Handlers, SaveRequest(h)
  PROVE  IInv'
<1> USE DEF IInv, SaveRequest, Return, moneyVars
<1>0. /\ req[h] \in Requests
      /\ status[req[h]] # "none"
      /\ SavedStatus(kind[h]) \in {"user_confirmed", "canceled", "rejected"}
  BY DEF HandlerInv, SavedStatus
<1>1. TypeOK'
  BY <1>0 DEF TypeOK
<1>2. HandlerInv'
  BY <1>0 DEF HandlerInv, TypeOK
<1>3. RequestInv'
  BY <1>0 DEF RequestInv, TypeOK
<1>4. ApprovedIsCredited'
  BY <1>0 DEF ApprovedIsCredited, TypeOK
<1>5. AutoCreditIsBacked'
  BY DEF AutoCreditIsBacked
<1> QED BY <1>1, <1>2, <1>3, <1>4, <1>5

LEMMA CommitIInv ==
  ASSUME IInv, NEW h \in Handlers, CommitApproval(h)
  PROVE  IInv'
<1> DEFINE r == req[h]
           c == owner[r]
<1> USE DEF IInv
<1>0. /\ r \in Requests /\ c \in Customers /\ by[h] \in Approvers
      /\ status[r] # "none"
      /\ by[h] \in BankTxs => BankAmount[by[h]] >= amount[r]
  BY DEF HandlerInv, RequestInv, CommitApproval
<1>1. /\ status' = [status EXCEPT ![r] = "approved"]
      /\ balance' = [balance EXCEPT ![c] = @ + credit[r]]
      /\ ledger' = [ledger EXCEPT ![r] = Append(@, by[h])]
      /\ pc' = [pc EXCEPT ![h] = "emitting"]
      /\ stale' = [Touched(c) EXCEPT ![h] = FALSE]
      /\ UNCHANGED <<owner, amount, credit, events, kind, req, by>>
  BY DEF CommitApproval
<1> HIDE DEF r, c
<1>2. TypeOK'
  <2>1. balance' \in [Customers -> Nat]
    BY <1>0, <1>1 DEF TypeOK
  <2>2. ledger' \in [Requests -> Seq(Approvers)]
    BY <1>0, <1>1 DEF TypeOK
  <2>3. Touched(c) \in [Handlers -> BOOLEAN]
    BY DEF TypeOK, Touched
  <2>4. stale' \in [Handlers -> BOOLEAN]
    BY <1>1, <2>3
  <2>5. status' \in [Requests -> Status] /\ pc' \in [Handlers -> PCs]
    BY <1>0, <1>1 DEF TypeOK
  <2> QED BY <1>1, <2>1, <2>2, <2>4, <2>5 DEF TypeOK
<1>3. ASSUME NEW g \in Handlers, pc'[g] # "idle"
      PROVE  /\ req[g] \in Requests
             /\ status'[req[g]] # "none"
             /\ pc'[g] = "saving" => kind[g] \in SaveKinds
             /\ pc'[g] \in {"approving"} \cup InTransaction =>
                   /\ by[g] \in Approvers
                   /\ by[g] \in BankTxs => BankAmount[by[g]] >= amount[req[g]]
  <2>1. CASE g = h
    BY <1>0, <1>1, <2>1 DEF TypeOK, r
  <2>2. CASE g # h
    <3>1. pc'[g] = pc[g]
      BY <1>1, <2>2 DEF TypeOK
    <3>2. req[g] \in Requests /\ status[req[g]] # "none"
      BY <1>3, <3>1 DEF HandlerInv
    <3>3. status'[req[g]] # "none"
      BY <1>1, <3>2 DEF TypeOK
    <3> QED BY <1>3, <3>1, <3>2, <3>3 DEF HandlerInv
  <2> QED BY <2>1, <2>2
<1>8. HandlerInv'
  BY <1>1, <1>3 DEF HandlerInv
<1>4. RequestInv'
  BY <1>0, <1>1 DEF RequestInv, TypeOK
<1>5. ApprovedIsCredited'
  BY <1>0, <1>1 DEF ApprovedIsCredited, TypeOK
<1>6. ASSUME NEW q \in Requests, NEW i \in 1 .. Len(ledger'[q]),
             ledger'[q][i] \in BankTxs
      PROVE  BankAmount[ledger'[q][i]] >= amount[q]
  <2>1. CASE q # r
    BY <1>1, <1>6, <2>1 DEF AutoCreditIsBacked, TypeOK
  <2>2. CASE q = r /\ i = Len(ledger[r]) + 1
    <3>1. ledger'[q][i] = by[h]
      BY <1>0, <1>1, <2>2 DEF TypeOK
    <3> QED BY <3>1, <1>0, <1>6, <2>2
  <2>3. CASE q = r /\ i # Len(ledger[r]) + 1
    <3>1. i \in 1 .. Len(ledger[r]) /\ ledger'[q][i] = ledger[q][i]
      BY <1>0, <1>1, <2>3 DEF TypeOK
    <3> QED BY <3>1, <1>0, <1>6, <2>3 DEF AutoCreditIsBacked
  <2> QED BY <2>1, <2>2, <2>3
<1>7. AutoCreditIsBacked'
  BY <1>1, <1>6 DEF AutoCreditIsBacked
<1> QED BY <1>2, <1>8, <1>4, <1>5, <1>7

\* The steps that only move a handler, or end it, or end them all.
LEMMA QuietIInv ==
  ASSUME IInv, NEW h \in Handlers,
         \/ SaveInTransaction(h)
         \/ AddCreditInTransaction(h)
         \/ AbortApproval(h)
         \/ EmitApproved(h)
         \/ Crash
         \/ \E c \in Customers : SaveBillingInfo(c)
  PROVE  IInv'
<1> USE DEF IInv, docVars, moneyVars
<1>0. /\ UNCHANGED <<status, owner, amount, credit, balance, ledger>>
      /\ pc'[h] # "idle" => pc[h] # "idle"
  BY DEF SaveInTransaction, AddCreditInTransaction, AbortApproval, EmitApproved,
         Crash, SaveBillingInfo, Return, TypeOK
<1>1. RequestInv' /\ ApprovedIsCredited' /\ AutoCreditIsBacked'
  BY <1>0 DEF RequestInv, ApprovedIsCredited, AutoCreditIsBacked
<1>2. CASE SaveInTransaction(h)
  BY <1>1, <1>2 DEF SaveInTransaction, TypeOK, HandlerInv
<1>3. CASE AddCreditInTransaction(h)
  BY <1>1, <1>3 DEF AddCreditInTransaction, TypeOK, HandlerInv
<1>4. CASE AbortApproval(h)
  BY <1>1, <1>4 DEF AbortApproval, Return, TypeOK, HandlerInv
<1>5. CASE EmitApproved(h)
  <2>1. req[h] \in Requests
    BY <1>5 DEF EmitApproved, HandlerInv
  <2>2. TypeOK'
    BY <1>5, <2>1 DEF EmitApproved, Return, TypeOK
  <2>3. HandlerInv'
    BY <1>5 DEF EmitApproved, Return, TypeOK, HandlerInv
  <2> QED BY <1>1, <2>2, <2>3
<1>6. CASE Crash
  BY <1>1, <1>6 DEF Crash, TypeOK, HandlerInv
<1>7. ASSUME NEW c \in Customers, SaveBillingInfo(c) PROVE IInv'
  <2>1. stale' \in [Handlers -> BOOLEAN]
    BY <1>7 DEF SaveBillingInfo, Touched, TypeOK
  <2>2. TypeOK' /\ HandlerInv'
    BY <1>7, <2>1 DEF SaveBillingInfo, TypeOK, HandlerInv
  <2> QED BY <1>1, <2>2
<1> QED BY <1>2, <1>3, <1>4, <1>5, <1>6, <1>7

LEMMA StutterIInv == ASSUME IInv, UNCHANGED vars PROVE IInv'
BY DEF IInv, vars, docVars, moneyVars, handlerVars, TypeOK, HandlerInv,
       RequestInv, ApprovedIsCredited, AutoCreditIsBacked

LEMMA NextIInv == ASSUME IInv, [TopupNext]_vars PROVE IInv'
<1>1. CASE \E c \in Customers, r \in Requests, a \in Amounts,
             ratio \in Ratios, i \in BOOLEAN :
               CreateTopupRequest(c, r, a, ratio, i)
  BY <1>1, CreateIInv
<1>2. CASE \E h \in Handlers, r \in Requests :
             \/ CustomerCall(h, r) \/ AdminCall(h, r)
             \/ \E t \in BankTxs : ReadAutoApprove(h, r, t)
  BY <1>2, CallIInv
<1>3. ASSUME NEW h \in Handlers, Advance(h) PROVE IInv'
  BY <1>3, SaveRequestIInv, CommitIInv, QuietIInv DEF Advance
<1>4. CASE Crash
  <2>1. CASE Handlers = {}
    BY <1>4, <2>1 DEF Crash, IInv, docVars, moneyVars, TypeOK, HandlerInv,
                      RequestInv, ApprovedIsCredited, AutoCreditIsBacked
  <2>2. CASE Handlers # {}
    BY <1>4, <2>2, QuietIInv
  <2> QED BY <2>1, <2>2
<1>5. CASE \E c \in Customers : SaveBillingInfo(c)
  <2>1. CASE Handlers = {}
    BY <1>5, <2>1 DEF SaveBillingInfo, Touched, IInv, docVars, moneyVars,
         TypeOK, HandlerInv, RequestInv, ApprovedIsCredited, AutoCreditIsBacked
  <2>2. CASE Handlers # {}
    BY <1>5, <2>2, QuietIInv
  <2> QED BY <2>1, <2>2
<1> QED BY <1>1, <1>2, <1>3, <1>4, <1>5, StutterIInv DEF TopupNext

-----------------------------------------------------------------------------

LEMMA Invariance == TopupSpec => []IInv
BY InitIInv, NextIInv, PTL DEF TopupSpec

\* Every variable keeps its type, in every interleaving and after any crash.
THEOREM TypeCorrect == TopupSpec => []TypeOK
BY Invariance, PTL DEF IInv

\* A request that reads as approved has been credited: no handler can make
\* the status say so without the transaction that also pays.
THEOREM ApprovedWasCredited == TopupSpec => []ApprovedIsCredited
BY Invariance, PTL DEF IInv

\* Every automatic credit was covered by the transfer that caused it.
THEOREM AutoCreditWasBacked == TopupSpec => []AutoCreditIsBacked
BY Invariance, PTL DEF IInv

-----------------------------------------------------------------------------

LEMMA SettledStep ==
  ASSUME IInv, NEW r \in Requests, Settled(r), [TopupNext]_vars
  PROVE  Settled(r)' /\ UNCHANGED <<status[r], ledger[r]>>
<1> USE DEF Settled
<1>1. CASE \E c \in Customers, q \in Requests, a \in Amounts,
             ratio \in Ratios, i \in BOOLEAN :
               CreateTopupRequest(c, q, a, ratio, i)
  BY <1>1 DEF CreateTopupRequest, moneyVars, IInv, TypeOK
<1>2. ASSUME NEW h \in Handlers, NEW q \in Requests, NEW k, NEW b, NEW n,
             Begin(h, k, q, b, n), status[q] \notin Terminal
      PROVE  Settled(r)' /\ UNCHANGED <<status[r], ledger[r]>>
  BY <1>2 DEF Begin, docVars, moneyVars, IInv, TypeOK
<1>3. ASSUME NEW h \in Handlers, NEW q \in Requests,
             CustomerCall(h, q) \/ AdminCall(h, q)
      PROVE  Settled(r)' /\ UNCHANGED <<status[r], ledger[r]>>
  BY <1>2, <1>3 DEF CustomerCall, AdminCall, ReadConfirmTransfer,
       ReadCancelRequest, ReadAdminReject, ReadAdminApprove
<1>4. ASSUME NEW h \in Handlers, NEW q \in Requests, NEW t \in BankTxs,
             ReadAutoApprove(h, q, t)
      PROVE  Settled(r)' /\ UNCHANGED <<status[r], ledger[r]>>
  BY <1>2, <1>4 DEF ReadAutoApprove, AutoApprovable
<1>5. ASSUME NEW h \in Handlers, Advance(h)
      PROVE  Settled(r)' /\ UNCHANGED <<status[r], ledger[r]>>
  <2>1. CASE SaveRequest(h)
    BY <2>1 DEF SaveRequest, Return, moneyVars, IInv, TypeOK
  <2>2. CASE SaveInTransaction(h)
    BY <2>2 DEF SaveInTransaction, docVars, moneyVars, IInv, TypeOK
  <2>3. CASE AddCreditInTransaction(h)
    BY <2>3 DEF AddCreditInTransaction, docVars, moneyVars, IInv, TypeOK
  <2>4. CASE CommitApproval(h)
    BY <2>4 DEF CommitApproval, IInv, TypeOK
  <2>5. CASE AbortApproval(h)
    BY <2>5 DEF AbortApproval, Return, docVars, moneyVars, IInv, TypeOK
  <2>6. CASE EmitApproved(h)
    BY <2>6 DEF EmitApproved, Return, docVars, moneyVars, IInv, TypeOK
  <2> QED BY <1>5, <2>1, <2>2, <2>3, <2>4, <2>5, <2>6 DEF Advance
<1>6. CASE Crash
  BY <1>6 DEF Crash, docVars, moneyVars
<1>7. CASE \E c \in Customers : SaveBillingInfo(c)
  BY <1>7 DEF SaveBillingInfo, docVars, moneyVars
<1>8. CASE UNCHANGED vars
  BY <1>8 DEF vars, docVars, moneyVars, handlerVars
<1> QED BY <1>1, <1>3, <1>4, <1>5, <1>6, <1>7, <1>8 DEF TopupNext

\* Once decided and left alone by the handlers already in flight, a request
\* keeps its decision and is never credited again, for any later traffic.
THEOREM SettledStaysFinal == TopupSpec => SettledIsFinal
<1>1. ASSUME IInv, [TopupNext]_vars
      PROVE  [\A r \in Requests : Settled(r) =>
                Settled(r)' /\ UNCHANGED <<status[r], ledger[r]>>]_vars
  BY <1>1, SettledStep
<1> QED BY <1>1, Invariance, PTL DEF TopupSpec, SettledIsFinal

-----------------------------------------------------------------------------

\* Handlers that committed an approval of r and have not told the CRM yet.
Emitting(r) == {h \in Handlers : pc[h] = "emitting" /\ req[h] = r}

\* Events and announcements still due never exceed the commits.
EventInv ==
    \A r \in Requests : events[r] + Cardinality(Emitting(r)) <= Len(ledger[r])

LEMMA EmittingFinite ==
  ASSUME NEW r \in Requests
  PROVE  IsFiniteSet(Emitting(r)) /\ Cardinality(Emitting(r)) \in Nat
BY FS_Subset, FS_CardinalityType DEF Emitting

\* Unless it commits or announces, a step adds to nobody's debt.
LEMMA EventQuiet ==
  ASSUME EventInv, TypeOK, TypeOK', UNCHANGED events,
         \A r \in Requests : /\ Len(ledger'[r]) = Len(ledger[r])
                             /\ Emitting(r)' \subseteq Emitting(r)
  PROVE  EventInv'
<1>1. SUFFICES ASSUME NEW r \in Requests
               PROVE  events[r] + Cardinality(Emitting(r)') <= Len(ledger[r])
  BY DEF EventInv
<1>2. Cardinality(Emitting(r)') \in Nat
        /\ Cardinality(Emitting(r)') <= Cardinality(Emitting(r))
  BY EmittingFinite, FS_Subset, FS_CardinalityType
<1> QED BY <1>2, EmittingFinite DEF EventInv, TypeOK

LEMMA EventCommit ==
  ASSUME IInv, EventInv, NEW h \in Handlers, CommitApproval(h)
  PROVE  EventInv'
<1> DEFINE r == req[h]
<1>1. r \in Requests
  BY DEF IInv, HandlerInv, CommitApproval
<1>2. SUFFICES ASSUME NEW q \in Requests
               PROVE  events'[q] + Cardinality(Emitting(q)') <= Len(ledger'[q])
  BY DEF EventInv
<1>3. events'[q] = events[q] /\ events[q] \in Nat /\ Len(ledger[q]) \in Nat
  BY DEF CommitApproval, IInv, TypeOK
<1>4. CASE q = r
  <2>1. Emitting(q)' = Emitting(q) \cup {h} /\ h \notin Emitting(q)
    BY <1>4 DEF Emitting, CommitApproval, IInv, TypeOK
  <2>2. Cardinality(Emitting(q)') = Cardinality(Emitting(q)) + 1
    BY <2>1, EmittingFinite, FS_AddElement
  <2>3. Len(ledger'[q]) = Len(ledger[q]) + 1
    <3>1. by[h] \in Approvers
      BY DEF CommitApproval, IInv, HandlerInv
    <3>2. ledger'[q] = Append(ledger[q], by[h]) /\ ledger[q] \in Seq(Approvers)
      BY <1>4 DEF CommitApproval, IInv, TypeOK
    <3> QED BY <3>1, <3>2
  <2> QED BY <1>3, <2>2, <2>3, EmittingFinite DEF EventInv
<1>5. CASE q # r
  <2>1. Emitting(q)' = Emitting(q) /\ ledger'[q] = ledger[q]
    BY <1>5 DEF Emitting, CommitApproval, IInv, TypeOK
  <2> QED BY <1>3, <2>1 DEF EventInv
<1> QED BY <1>4, <1>5

LEMMA EventEmit ==
  ASSUME IInv, EventInv, NEW h \in Handlers, EmitApproved(h)
  PROVE  EventInv'
<1> DEFINE r == req[h]
<1>1. r \in Requests
  BY DEF IInv, HandlerInv, EmitApproved
<1>2. SUFFICES ASSUME NEW q \in Requests
               PROVE  events'[q] + Cardinality(Emitting(q)') <= Len(ledger'[q])
  BY DEF EventInv
<1>3. ledger'[q] = ledger[q] /\ events[q] \in Nat /\ Len(ledger[q]) \in Nat
  BY DEF EmitApproved, moneyVars, IInv, TypeOK
<1>4. CASE q = r
  <2>1. Emitting(q)' = Emitting(q) \ {h} /\ h \in Emitting(q)
    BY <1>4, <1>1 DEF Emitting, EmitApproved, Return, IInv, TypeOK
  <2>4. IsFiniteSet(Emitting(q))
    BY EmittingFinite
  <2>2. Cardinality(Emitting(q)') = Cardinality(Emitting(q)) - 1
    BY <2>1, <2>4, FS_RemoveElement
  <2>3. events'[q] = events[q] + 1
    BY <1>4 DEF EmitApproved, IInv, TypeOK
  <2> QED BY <1>3, <2>2, <2>3, EmittingFinite DEF EventInv
<1>5. CASE q # r
  <2>1. Emitting(q)' = Emitting(q) /\ events'[q] = events[q]
    BY <1>5 DEF Emitting, EmitApproved, Return, IInv, TypeOK
  <2> QED BY <1>3, <2>1 DEF EventInv
<1> QED BY <1>4, <1>5

LEMMA EventNext ==
  ASSUME IInv, IInv', EventInv, [TopupNext]_vars
  PROVE  EventInv'
<1> USE DEF docVars, moneyVars, Emitting
<1>0. TypeOK /\ TypeOK'
  BY DEF IInv
<1>1. CASE \E c \in Customers, r \in Requests, a \in Amounts,
             ratio \in Ratios, i \in BOOLEAN :
               CreateTopupRequest(c, r, a, ratio, i)
  BY <1>0, <1>1, EventQuiet DEF CreateTopupRequest
<1>2. ASSUME NEW h \in Handlers, NEW r \in Requests, NEW k, NEW b,
             NEW n \in {"saving", "approving"}, Begin(h, k, r, b, n)
      PROVE  EventInv'
  <2>0. ASSUME NEW q \in Requests, NEW g \in Handlers,
               pc'[g] = "emitting", req'[g] = q
        PROVE  pc[g] = "emitting" /\ req[g] = q
    <3>1. pc'[h] # "emitting"
      BY <1>0, <1>2 DEF Begin, TypeOK
    <3> QED BY <1>0, <1>2, <2>0, <3>1 DEF Begin, TypeOK
  <2>1. \A q \in Requests : Emitting(q)' \subseteq Emitting(q)
    BY <2>0
  <2> QED BY <1>0, <1>2, <2>1, EventQuiet DEF Begin
<1>3. ASSUME NEW h \in Handlers, NEW r \in Requests,
             CustomerCall(h, r) \/ AdminCall(h, r)
      PROVE  EventInv'
  BY <1>2, <1>3 DEF CustomerCall, AdminCall, ReadConfirmTransfer,
       ReadCancelRequest, ReadAdminReject, ReadAdminApprove
<1>4. ASSUME NEW h \in Handlers, NEW r \in Requests, NEW t \in BankTxs,
             ReadAutoApprove(h, r, t)
      PROVE  EventInv'
  BY <1>2, <1>4 DEF ReadAutoApprove
<1>5. ASSUME NEW h \in Handlers, Advance(h) PROVE EventInv'
  <2>1. CASE SaveRequest(h)
    <3>1. \A q \in Requests : Emitting(q)' \subseteq Emitting(q)
      BY <1>0, <2>1 DEF SaveRequest, Return, TypeOK
    <3> QED BY <1>0, <2>1, <3>1, EventQuiet DEF SaveRequest
  <2>2. CASE SaveInTransaction(h)
    BY <1>0, <2>2, EventQuiet DEF SaveInTransaction, TypeOK
  <2>3. CASE AddCreditInTransaction(h)
    BY <1>0, <2>3, EventQuiet DEF AddCreditInTransaction, TypeOK
  <2>4. CASE AbortApproval(h)
    BY <1>0, <2>4, EventQuiet DEF AbortApproval, Return, TypeOK
  <2> QED BY <1>5, <2>1, <2>2, <2>3, <2>4, EventCommit, EventEmit DEF Advance
<1>6. CASE Crash
  <2>1. \A q \in Requests : Emitting(q)' = {}
    BY <1>6 DEF Crash
  <2> QED BY <1>0, <1>6, <2>1, EventQuiet DEF Crash
<1>7. CASE \E c \in Customers : SaveBillingInfo(c)
  BY <1>0, <1>7, EventQuiet DEF SaveBillingInfo
<1>8. CASE UNCHANGED vars
  BY <1>0, <1>8, EventQuiet DEF vars, handlerVars
<1> QED BY <1>1, <1>3, <1>4, <1>5, <1>6, <1>7, <1>8 DEF TopupNext

\* The CRM is told of a topup at most once per committed approval, however
\* handlers interleave and wherever the process dies.
THEOREM EventsFollow == TopupSpec => []EventsFollowCommits
<1>1. Init => EventInv
  <2>1. ASSUME Init, NEW r \in Requests
        PROVE  events[r] + Cardinality(Emitting(r)) <= Len(ledger[r])
    <3>1. Emitting(r) = {}
      BY <2>1 DEF Init, Emitting
    <3>2. Cardinality(Emitting(r)) = 0
      BY <3>1, FS_EmptySet
    <3> QED BY <2>1, <3>2 DEF Init
  <2> QED BY <2>1 DEF EventInv
<1>2. EventInv /\ IInv => EventsFollowCommits
  BY EmittingFinite DEF EventInv, EventsFollowCommits, IInv, TypeOK
<1> QED BY <1>1, <1>2, EventNext, Invariance, PTL DEF TopupSpec

\* The invariant the runs check as one: typed, paid when approved, covered
\* when automatic, announced at most once per payment.
THEOREM CreditWasExplained == TopupSpec => []CreditIsExplained
BY TypeCorrect, ApprovedWasCredited, AutoCreditWasBacked, EventsFollow, PTL
   DEF CreditIsExplained

-----------------------------------------------------------------------------

(***************************************************************************)
(* The refinement: a step opens a request, pays one, or settles those that *)
(* its handlers leave behind.                                              *)
(***************************************************************************)

LEMMA InitSettles == Init => Settlements!Init
BY DEF Init, Settlements!Init, Phase

LEMMA OpenSettles ==
  ASSUME IInv, NEW c \in Customers, NEW r \in Requests, NEW a \in Amounts,
         NEW ratio \in Ratios, NEW i \in BOOLEAN,
         CreateTopupRequest(c, r, a, ratio, i)
  PROVE  Settlements!Next
<1> DEFINE offer == <<a, CreditFor(a, ratio)>>
           Offers == {<<x, CreditFor(x, y)>> : x \in Amounts, y \in Ratios}
<1>1. \A q \in Requests : Phase(q)' = IF q = r THEN "open" ELSE Phase(q)
  BY DEF CreateTopupRequest, Phase, Settled, IInv, TypeOK
<1>2. Phase(r) = "absent"
  BY DEF CreateTopupRequest, Phase
<1>3. [q \in Requests |-> Phase(q)]'
        = [[q \in Requests |-> Phase(q)] EXCEPT ![r] = "open"]
  BY <1>1
<1>4. Settlements!Open(r, c, offer)
  BY <1>2, <1>3 DEF Settlements!Open, CreateTopupRequest, moneyVars
<1>5. offer \in Offers
  OBVIOUS
<1> QED BY <1>4, <1>5 DEF Settlements!Next

LEMMA PaySettles ==
  ASSUME IInv, NEW h \in Handlers, CommitApproval(h)
  PROVE  Settlements!Next
<1> DEFINE phase == [q \in Requests |-> Phase(q)]
<1>0. PICK r \in Requests : r = req[h]
  BY DEF IInv, HandlerInv, CommitApproval
<1>1. /\ status[r] # "none"
      /\ by[h] \in BankTxs \cup {Admin}
      /\ Settlements!Covers(by[h], r)
  BY <1>0 DEF IInv, HandlerInv, CommitApproval, Settlements!Covers
<1>2. Phase(r) = "open"
  BY <1>0, <1>1 DEF Phase, Settled, CommitApproval
<1>3. ASSUME NEW q \in Requests, q # r PROVE Phase(q)' = Phase(q)
  <2>1. status'[q] = status[q]
    BY <1>0, <1>3 DEF CommitApproval, IInv, TypeOK
  <2>2. Settled(q)' = Settled(q)
    <3>1. \A g \in Handlers : g # h => pc'[g] = pc[g] /\ req'[g] = req[g]
      BY DEF CommitApproval, IInv, TypeOK
    <3>2. req'[h] # q /\ req[h] # q
      BY <1>0, <1>3 DEF CommitApproval
    <3> QED BY <2>1, <3>1, <3>2 DEF Settled
  <2> QED BY <2>1, <2>2 DEF Phase
<1>4. Phase(r)' \in {"open", "settled"}
  BY <1>0, <1>1 DEF Phase, CommitApproval, IInv, TypeOK
<1>5. phase' \in {phase, [phase EXCEPT ![r] = "settled"]}
  <2>1. CASE Phase(r)' = "open"
    <3>1. \A q \in Requests : Phase(q)' = Phase(q)
      BY <1>2, <1>3, <2>1
    <3>2. phase' = phase
      BY <3>1
    <3> QED BY <3>2
  <2>2. CASE Phase(r)' = "settled"
    <3>1. \A q \in Requests : Phase(q)' = IF q = r THEN "settled" ELSE Phase(q)
      BY <1>3, <2>2
    <3>2. phase' = [phase EXCEPT ![r] = "settled"]
      BY <3>1
    <3> QED BY <3>2
  <2> QED BY <1>4, <2>1, <2>2
<1>6. Settlements!Pay(r, by[h])
  BY <1>0, <1>1, <1>2, <1>5 DEF Settlements!Pay, CommitApproval
<1> QED BY <1>1, <1>6 DEF Settlements!Next

\* A step that pays nothing and opens nothing can only settle requests.
LEMMA EndSettles ==
  ASSUME IInv, [TopupNext]_vars, UNCHANGED <<owner, amount, credit, moneyVars>>,
         \A r \in Requests : (status'[r] = "none") = (status[r] = "none")
  PROVE  Settlements!Next
<1> DEFINE ended == {r \in Requests : Phase(r) = "open" /\ Phase(r)' = "settled"}
           phase == [q \in Requests |-> Phase(q)]
<1>1. ASSUME NEW r \in Requests
      PROVE  Phase(r)' = IF r \in ended THEN "settled" ELSE Phase(r)
  <2>1. Settled(r) => Settled(r)'
    BY SettledStep
  <2> QED BY <2>1 DEF Phase
<1>2. phase' = [r \in Requests |-> IF r \in ended THEN "settled" ELSE phase[r]]
  BY <1>1
<1>3. Settlements!Settle(ended)
  BY <1>2 DEF Settlements!Settle, moneyVars
<1> QED BY <1>3 DEF Settlements!Next

LEMMA StepSettles ==
  ASSUME IInv, [TopupNext]_vars
  PROVE  Settlements!Next
<1> USE DEF docVars
<1>1. CASE \E c \in Customers, r \in Requests, a \in Amounts,
             ratio \in Ratios, i \in BOOLEAN :
               CreateTopupRequest(c, r, a, ratio, i)
  BY <1>1, OpenSettles
<1>2. ASSUME NEW h \in Handlers, NEW r \in Requests,
             \/ CustomerCall(h, r) \/ AdminCall(h, r)
             \/ \E t \in BankTxs : ReadAutoApprove(h, r, t)
      PROVE  Settlements!Next
  <2>1. UNCHANGED <<docVars, moneyVars>>
    BY <1>2 DEF CustomerCall, AdminCall, ReadConfirmTransfer, ReadCancelRequest,
         ReadAdminReject, ReadAdminApprove, ReadAutoApprove, Begin
  <2> QED BY <2>1, EndSettles
<1>3. ASSUME NEW h \in Handlers, Advance(h) PROVE Settlements!Next
  <2>1. CASE SaveRequest(h)
    <3>1. /\ req[h] \in Requests
          /\ status[req[h]] # "none"
          /\ SavedStatus(kind[h]) # "none"
      BY <2>1 DEF SaveRequest, SavedStatus, IInv, HandlerInv
    <3>2. \A r \in Requests : (status'[r] = "none") = (status[r] = "none")
      BY <2>1, <3>1 DEF SaveRequest, IInv, TypeOK
    <3> QED BY <2>1, <3>2, EndSettles DEF SaveRequest
  <2>2. CASE CommitApproval(h)
    BY <2>2, PaySettles
  <2>3. CASE ~SaveRequest(h) /\ ~CommitApproval(h)
    <3>1. UNCHANGED <<docVars, moneyVars>>
      BY <1>3, <2>3 DEF Advance, SaveInTransaction, AddCreditInTransaction,
           AbortApproval, EmitApproved
    <3> QED BY <3>1, EndSettles
  <2> QED BY <2>1, <2>2, <2>3
<1>4. CASE Crash \/ UNCHANGED vars \/ \E c \in Customers : SaveBillingInfo(c)
  <2>1. UNCHANGED <<docVars, moneyVars>>
    BY <1>4 DEF Crash, SaveBillingInfo, vars
  <2> QED BY <2>1, EndSettles
<1> QED BY <1>1, <1>2, <1>3, <1>4 DEF TopupNext

\* Topup requests implement the abstract settlement: a request is opened, paid
\* for what it promised by somebody entitled to, and final once settled.
THEOREM TopupSettles == TopupSpec => ImplementsSettlement
<1>1. ASSUME IInv, [TopupNext]_vars
      PROVE  [Settlements!Next]_Settlements!vars
  BY <1>1, StepSettles
<1> QED BY <1>1, InitSettles, Invariance, PTL
    DEF TopupSpec, ImplementsSettlement, Settlements!Spec
-----------------------------------------------------------------------------

\* What has been credited for each request, and the requests of a customer.
Granted == [r \in Requests |-> Len(ledger[r]) * credit[r]]
RequestsOf(c) == {r \in Requests : owner[r] = c}
Created == {r \in Requests : owner[r] # None}

\* Only finitely many requests were ever created, so that they can be summed.
LedgerInv ==
    /\ IsFiniteSet(Created)
    /\ \A r \in Requests : status[r] = "none" => owner[r] = None
    /\ LedgerMatchesBalance

LEMMA LedgerInvIs ==
  LedgerMatchesBalance <=>
    \A c \in Customers : balance[c] = SumFunctionOnSet(Granted, RequestsOf(c))
BY DEF LedgerMatchesBalance, Granted, RequestsOf

LEMMA GrantedIsNat ==
  ASSUME TypeOK
  PROVE  \A r \in Requests : Granted[r] \in Nat /\ Granted[r] = Len(ledger[r]) * credit[r]
<1>1. \A m, n \in Nat : m * n \in Nat
  OBVIOUS
<1>2. \A r \in Requests : Len(ledger[r]) \in Nat /\ credit[r] \in Nat
  BY DEF TypeOK
<1> QED BY <1>1, <1>2 DEF Granted

LEMMA RequestsOfFinite ==
  ASSUME IsFiniteSet(Created), NEW c \in Customers
  PROVE  IsFiniteSet(RequestsOf(c))
BY FS_Subset DEF Created, RequestsOf

LEMMA InitLedger == Init => LedgerInv
<1> SUFFICES ASSUME Init PROVE LedgerInv
  OBVIOUS
<1>1. Created = {} /\ \A c \in Customers : RequestsOf(c) = {}
  BY DEF Init, Created, RequestsOf
<1>2. IsFiniteSet(Created) /\ SumFunctionOnSet(Granted, {}) = 0
  BY <1>1, FS_EmptySet, SumEmpty
<1> QED BY <1>1, <1>2, LedgerInvIs DEF Init, LedgerInv

LEMMA CreateLedger ==
  ASSUME IInv, IInv', LedgerInv, NEW c \in Customers, NEW r \in Requests,
         NEW a \in Amounts, NEW ratio \in Ratios, NEW i \in BOOLEAN,
         CreateTopupRequest(c, r, a, ratio, i)
  PROVE  LedgerInv'
<1>1. /\ status[r] = "none" /\ owner[r] = None /\ ledger[r] = <<>>
      /\ owner' = [owner EXCEPT ![r] = c]
      /\ status' = [status EXCEPT ![r] = "pending"]
      /\ \A q \in Requests \ {r} : credit'[q] = credit[q]
      /\ UNCHANGED <<balance, ledger>>
  BY DEF CreateTopupRequest, moneyVars, IInv, RequestInv, LedgerInv, TypeOK
<1>2. Created' = Created \cup {r} /\ IsFiniteSet(Created')
  <2>2. owner'[r] # None /\ \A q \in Requests \ {r} : owner'[q] = owner[q]
    BY <1>1 DEF IInv, TypeOK
  <2>1. Created' = Created \cup {r}
    BY <2>2 DEF Created
  <2> QED BY <2>1, FS_AddElement DEF LedgerInv
<1>3. \A q \in Requests : Granted'[q] = Granted[q] /\ Granted[q] \in Nat
  <2>1. Granted'[r] = 0 /\ Granted[r] = 0
    <3>1. Len(ledger[r]) = 0 /\ Len(ledger'[r]) = 0 /\ credit[r] \in Nat /\ credit'[r] \in Nat
      BY <1>1 DEF IInv, TypeOK
    <3>2. \A n \in Nat : 0 * n = 0
      OBVIOUS
    <3> QED BY <3>1, <3>2, GrantedIsNat DEF Granted
  <2> QED BY <1>1, <2>1, GrantedIsNat DEF Granted, IInv
<1>4. ASSUME NEW d \in Customers
      PROVE  balance'[d] = SumFunctionOnSet(Granted', RequestsOf(d)')
  <2>1. balance'[d] = SumFunctionOnSet(Granted, RequestsOf(d))
    BY <1>1, LedgerInvIs DEF LedgerInv
  <2>2. /\ IsFiniteSet(RequestsOf(d)) /\ RequestsOf(d) \subseteq Requests
        /\ r \notin RequestsOf(d)
    BY <1>1, RequestsOfFinite DEF RequestsOf, LedgerInv
  <2>3. SumFunctionOnSet(Granted, RequestsOf(d)) = SumFunctionOnSet(Granted', RequestsOf(d))
    BY <1>3, <2>2, SumAgrees
  <2>4. CASE d # c
    <3>1. RequestsOf(d)' = RequestsOf(d)
      BY <1>1, <2>4 DEF RequestsOf, IInv, TypeOK
    <3> QED BY <2>1, <2>3, <3>1
  <2>5. CASE d = c
    <3>1. RequestsOf(d)' = RequestsOf(d) \cup {r}
      BY <1>1, <2>5 DEF RequestsOf, IInv, TypeOK
    <3>2. SumFunctionOnSet(Granted', RequestsOf(d) \cup {r})
            = Granted'[r] + SumFunctionOnSet(Granted', RequestsOf(d))
      <4>1. \A q \in RequestsOf(d) \cup {r} : Granted'[q] \in Int
        BY <1>3, <2>2
      <4> QED BY <2>2, <4>1, SumAdds
    <3>3. Granted'[r] = 0
      <4>1. Len(ledger'[r]) = 0 /\ credit'[r] \in Nat
        BY <1>1 DEF IInv, TypeOK
      <4>2. \A n \in Nat : 0 * n = 0
        OBVIOUS
      <4> QED BY <4>1, <4>2 DEF Granted
    <3>4. balance'[d] \in Nat
      BY DEF IInv, TypeOK
    <3> QED BY <2>1, <2>3, <3>1, <3>2, <3>3, <3>4
  <2> QED BY <2>4, <2>5
<1>5. \A q \in Requests : status'[q] = "none" => owner'[q] = None
  BY <1>1 DEF LedgerInv, IInv, TypeOK
<1>6. LedgerMatchesBalance'
  BY <1>4 DEF LedgerMatchesBalance, Granted, RequestsOf
<1> QED BY <1>2, <1>5, <1>6 DEF LedgerInv

LEMMA CommitLedger ==
  ASSUME IInv, IInv', LedgerInv, NEW h \in Handlers, CommitApproval(h)
  PROVE  LedgerInv'
<1> DEFINE r == req[h]
           c == owner[r]
<1>1. r \in Requests /\ c \in Customers /\ status[r] # "none" /\ by[h] \in Approvers
  BY DEF IInv, HandlerInv, RequestInv, CommitApproval
<1>2. /\ status' = [status EXCEPT ![r] = "approved"]
      /\ balance' = [balance EXCEPT ![c] = @ + credit[r]]
      /\ ledger' = [ledger EXCEPT ![r] = Append(@, by[h])]
      /\ UNCHANGED <<owner, credit>>
  BY DEF CommitApproval
<1> HIDE DEF r
<1>3. Created' = Created /\ \A d \in Customers : RequestsOf(d)' = RequestsOf(d)
  BY <1>2 DEF Created, RequestsOf
<1>4. \A q \in Requests \ {r} : Granted'[q] = Granted[q]
  BY <1>1, <1>2, GrantedIsNat DEF Granted, IInv, TypeOK
<1>5. Granted'[r] = Granted[r] + credit[r]
  <2>1. Len(ledger'[r]) = Len(ledger[r]) + 1 /\ Len(ledger[r]) \in Nat /\ credit[r] \in Nat
    BY <1>1, <1>2 DEF IInv, TypeOK
  <2>2. \A m, n \in Nat : (m + 1) * n = m * n + n
    OBVIOUS
  <2>3. Granted'[r] = (Len(ledger[r]) + 1) * credit[r]
    BY <1>1, <1>2, <2>1 DEF Granted
  <2>4. Granted[r] = Len(ledger[r]) * credit[r]
    BY <1>1 DEF Granted
  <2> QED BY <2>1, <2>2, <2>3, <2>4
<1>6. \A q \in Requests : Granted[q] \in Nat /\ Granted'[q] \in Nat
  <2>1. credit[r] \in Nat /\ \A q \in Requests : Granted[q] \in Nat
    BY <1>1, GrantedIsNat DEF IInv, TypeOK
  <2> QED BY <1>4, <1>5, <2>1
<1>7. ASSUME NEW d \in Customers
      PROVE  balance'[d] = SumFunctionOnSet(Granted', RequestsOf(d)')
  <2>1. balance[d] = SumFunctionOnSet(Granted, RequestsOf(d)) /\ balance[d] \in Nat
    BY LedgerInvIs DEF LedgerInv, IInv, TypeOK
  <2>2. IsFiniteSet(RequestsOf(d)) /\ RequestsOf(d) \subseteq Requests
    BY RequestsOfFinite DEF RequestsOf, LedgerInv
  <2>3. CASE d # c
    <3>1. r \notin RequestsOf(d)
      BY <2>3 DEF RequestsOf
    <3>2. SumFunctionOnSet(Granted, RequestsOf(d)) = SumFunctionOnSet(Granted', RequestsOf(d))
      BY <1>4, <2>2, <3>1, SumAgrees
    <3> QED BY <1>2, <1>3, <2>1, <2>3, <3>2 DEF IInv, TypeOK
  <2>4. CASE d = c
    <3>1. r \in RequestsOf(d)
      BY <1>1, <2>4 DEF RequestsOf
    <3>2. SumFunctionOnSet(Granted', RequestsOf(d))
            = SumFunctionOnSet(Granted, RequestsOf(d)) + Granted'[r] - Granted[r]
      BY <1>4, <1>6, <2>2, <3>1, SumChanges
    <3>3. balance'[d] = balance[d] + credit[r] /\ credit[r] \in Nat
      BY <1>1, <1>2, <2>4 DEF IInv, TypeOK
    <3> QED BY <1>1, <1>3, <1>5, <1>6, <2>1, <3>2, <3>3
  <2> QED BY <2>3, <2>4
<1>8. \A q \in Requests : status'[q] = "none" => owner'[q] = None
  BY <1>1, <1>2 DEF LedgerInv, IInv, TypeOK
<1>9. LedgerMatchesBalance'
  BY <1>7 DEF LedgerMatchesBalance, Granted, RequestsOf
<1> QED BY <1>3, <1>8, <1>9 DEF LedgerInv

LEMMA NextLedger ==
  ASSUME IInv, IInv', LedgerInv, [TopupNext]_vars
  PROVE  LedgerInv'
<1>0. ASSUME UNCHANGED <<owner, credit, balance, ledger>>,
             \A r \in Requests : status'[r] = "none" => status[r] = "none"
      PROVE  LedgerInv'
  BY <1>0 DEF LedgerInv, Created, LedgerMatchesBalance
<1> USE DEF docVars, moneyVars
<1>1. CASE \E c \in Customers, r \in Requests, a \in Amounts,
             ratio \in Ratios, i \in BOOLEAN :
               CreateTopupRequest(c, r, a, ratio, i)
  BY <1>1, CreateLedger
<1>2. ASSUME NEW h \in Handlers, NEW r \in Requests,
             \/ CustomerCall(h, r) \/ AdminCall(h, r)
             \/ \E t \in BankTxs : ReadAutoApprove(h, r, t)
      PROVE  LedgerInv'
  BY <1>0, <1>2 DEF CustomerCall, AdminCall, ReadConfirmTransfer, ReadCancelRequest,
       ReadAdminReject, ReadAdminApprove, ReadAutoApprove, Begin
<1>3. ASSUME NEW h \in Handlers, Advance(h) PROVE LedgerInv'
  <2>1. CASE SaveRequest(h)
    <3>1. status[req[h]] # "none" /\ SavedStatus(kind[h]) # "none"
      BY <2>1 DEF SaveRequest, SavedStatus, IInv, HandlerInv
    <3> QED BY <1>0, <2>1, <3>1 DEF SaveRequest, IInv, TypeOK
  <2>2. CASE CommitApproval(h)
    BY <2>2, CommitLedger
  <2>3. CASE ~SaveRequest(h) /\ ~CommitApproval(h)
    BY <1>0, <1>3, <2>3 DEF Advance, SaveInTransaction, AddCreditInTransaction,
         AbortApproval, EmitApproved
  <2> QED BY <2>1, <2>2, <2>3
<1>4. CASE Crash \/ UNCHANGED vars \/ \E c \in Customers : SaveBillingInfo(c)
  BY <1>0, <1>4 DEF Crash, SaveBillingInfo, vars
<1> QED BY <1>1, <1>2, <1>3, <1>4 DEF TopupNext

\* Whatever was approved, aborted or cut off by a crash, a customer's balance
\* is what the entries of the customer's requests add up to.
THEOREM LedgerExplainsBalance == TopupSpec => []LedgerMatchesBalance
BY InitLedger, NextLedger, Invariance, PTL DEF TopupSpec, LedgerInv

-----------------------------------------------------------------------------
(* The bank log.                                                           *)

USE BankAssumption

\* What a job knows of its row.
JobOK(k) ==
    /\ k \in JobType
    /\ k.pc # "idle" => k.tx \in BankTxs
    /\ k.pc = "matching" => Matchable(k.tx)
    /\ k.pc \in {"matching", "approving", "linking"} =>
          k.link = None /\ k.kind # "dispatch"

\* BankTypeOK without the topup requests' part, and what jobs know.
BankInv ==
    /\ row \in [BankTxs -> RowStatus]
    /\ matched \in [BankTxs -> Requests \cup {None}]
    /\ retries \in [BankTxs -> 0 .. MaxRetries]
    /\ failures \in 0 .. Threshold
    /\ cooled \in BOOLEAN
    /\ job \in [Jobs -> JobType]
    /\ \A j \in Jobs : JobOK(job[j])
    /\ delivered \subseteq BankTxs
    /\ lost \subseteq BankTxs /\ settled \subseteq BankTxs /\ pressed \subseteq BankTxs

LEMMA IdleJobOK == JobOK(IdleJob)
BY DEF IdleJob, JobOK, JobType, JobPCs

LEMMA NewJobOK ==
  ASSUME NEW pcj \in {"rules", "retrying", "forwarding"},
         NEW k \in {"single", "batch", "dispatch"}, NEW t \in BankTxs,
         NEW link \in Requests \cup {None}
  PROVE  JobOK(NewJob(pcj, k, t, link))
BY DEF NewJob, IdleJob, JobOK, JobType, JobPCs

LEMMA InitBankInv == BankInit => BankInv
BY IdleJobOK DEF BankInit, BankInv, RowStatus, JobOK

\* A step that replaces one job by one that is all right.
LEMMA OneJob ==
  ASSUME BankInv, NEW j \in Jobs, NEW new, JobOK(new), job' = [job EXCEPT ![j] = new]
  PROVE  job' \in [Jobs -> JobType] /\ \A i \in Jobs : JobOK(job'[i])
BY DEF BankInv, JobOK

LEMMA EndJob ==
  ASSUME BankInv, NEW j \in Jobs, End(j)
  PROVE  job' \in [Jobs -> JobType] /\ \A i \in Jobs : JobOK(job'[i])
BY OneJob, IdleJobOK DEF End

\* Going on to a step that asks nothing but a transaction, or to the match.
LEMMA GotoJob ==
  ASSUME BankInv, NEW j \in Jobs, job[j].pc # "idle",
         NEW pcj \in {"rules", "forwarding", "matching"},
         pcj = "matching" =>
            /\ Matchable(job[j].tx)
            /\ job[j].link = None /\ job[j].kind # "dispatch",
         Goto(j, pcj)
  PROVE  job' \in [Jobs -> JobType] /\ \A i \in Jobs : JobOK(job'[i])
<1> DEFINE new == [job[j] EXCEPT !.pc = pcj]
<1>1. JobOK(new)
  BY DEF BankInv, JobOK, JobType, JobPCs
<1>2. job' = [job EXCEPT ![j] = new]
  BY DEF Goto, BankInv
<1> HIDE DEF new
<1> QED BY <1>1, <1>2, OneJob

LEMMA MatchOrEndJob ==
  ASSUME BankInv, NEW j \in Jobs, job[j].pc # "idle", job[j].kind # "dispatch",
         MatchOrEnd(j)
  PROVE  job' \in [Jobs -> JobType] /\ \A i \in Jobs : JobOK(job'[i])
BY EndJob, GotoJob DEF MatchOrEnd, JobPCs

LEMMA RecordRow ==
  ASSUME BankInv, NEW j \in Jobs, job[j].pc # "idle", NEW s \in RowStatus,
         Record(j, s)
  PROVE  row' \in [BankTxs -> RowStatus]
BY DEF BankInv, Record

LEMMA CallBankInv ==
  ASSUME BankInv, BankCall
  PROVE  BankInv'
<1>1. ASSUME NEW j \in Jobs, NEW t \in BankTxs, Ingest(j, t) PROVE BankInv'
  <2>1. JobOK(NewJob("rules", "single", t, None))
    BY NewJobOK
  <2>2. job' \in [Jobs -> JobType] /\ \A i \in Jobs : JobOK(job'[i])
    BY <1>1, <2>1, OneJob DEF Ingest
  <2> QED BY <1>1, <2>2 DEF Ingest, BankInv, RowStatus, breakerVars
<1>2. ASSUME NEW j \in Jobs, NEW t \in BankTxs, ReadRetry(j, t) PROVE BankInv'
  <2>1. JobOK(NewJob("retrying", "single", t, matched[t]))
    BY NewJobOK DEF BankInv
  <2>2. job' \in [Jobs -> JobType] /\ \A i \in Jobs : JobOK(job'[i])
    BY <1>2, <2>1, OneJob DEF ReadRetry, TakeUp
  <2>3. retries' \in [BankTxs -> 0 .. MaxRetries]
    <3>1. retries[t] + 1 \in 0 .. MaxRetries
      BY <1>2 DEF ReadRetry, BankInv
    <3> QED BY <1>2, <3>1 DEF ReadRetry, BankInv
  <2>4. pressed' \subseteq BankTxs
    BY <1>2 DEF ReadRetry, TakeUp, BankInv
  <2> QED BY <1>2, <2>2, <2>3, <2>4 DEF ReadRetry, BankInv, breakerVars
<1>3. ASSUME NEW j \in Jobs, NEW t \in BankTxs, ReadDispatch(j, t) PROVE BankInv'
  <2>1. JobOK(NewJob("forwarding", "dispatch", t, None))
    BY NewJobOK
  <2>2. job' \in [Jobs -> JobType] /\ \A i \in Jobs : JobOK(job'[i])
    BY <1>3, <2>1, OneJob DEF ReadDispatch
  <2> QED BY <1>3, <2>2 DEF ReadDispatch, TakeUp, BankInv, rowVars, breakerVars
<1>4. ASSUME NEW batch \in SUBSET BankTxs, NEW completed \in SUBSET BankTxs,
             NEW slots, IngestAcbBatch(batch, completed, slots)
      PROVE  BankInv'
  <2> DEFINE process == {t \in batch : row[t] = "none"} \cap completed
  <2>1. row' \in [BankTxs -> RowStatus]
    BY <1>4 DEF IngestAcbBatch, BankInv, RowStatus
  <2>2. ASSUME NEW i \in Jobs PROVE JobOK(job'[i])
    <3>1. CASE \E t \in process : slots[t] = i
      <4>1. PICK t \in process : job'[i] = NewJob("rules", "batch", t, None)
        BY <1>4, <3>1 DEF IngestAcbBatch
      <4> QED BY <4>1, NewJobOK
    <3>2. CASE ~\E t \in process : slots[t] = i
      BY <1>4, <3>2 DEF IngestAcbBatch, BankInv
    <3> QED BY <3>1, <3>2
  <2>3. job' \in [Jobs -> JobType]
    BY <1>4, <2>2 DEF IngestAcbBatch, JobOK
  <2> QED BY <1>4, <2>1, <2>2, <2>3 DEF IngestAcbBatch, BankInv, breakerVars
<1> QED BY <1>1, <1>2, <1>3, <1>4 DEF BankCall

LEMMA JobBankInv ==
  ASSUME BankInv, NEW j \in Jobs, JobStep(j)
  PROVE  BankInv'
<1> USE DEF BankInv, rowVars, breakerVars, origins, At
<1>0. ASSUME CatchError(j), job[j].pc # "idle" PROVE BankInv'
  <2>1. job' \in [Jobs -> JobType] /\ \A i \in Jobs : JobOK(job'[i])
    BY <1>0, EndJob DEF CatchError
  <2>2. row' \in [BankTxs -> RowStatus]
    BY <1>0, RecordRow DEF CatchError, RowStatus
  <2>3. lost' \subseteq BankTxs
    BY <1>0 DEF CatchError, JobOK
  <2> QED BY <1>0, <2>1, <2>2, <2>3 DEF CatchError
<1>1. CASE SaveRetry(j)
  <2>1. job' \in [Jobs -> JobType] /\ \A i \in Jobs : JobOK(job'[i])
    BY <1>1, GotoJob, EndJob DEF SaveRetry, JobPCs
  <2>2. row' \in [BankTxs -> RowStatus]
    BY <1>1, RecordRow DEF SaveRetry, RowStatus
  <2>3. lost' \subseteq BankTxs
    BY <1>1 DEF SaveRetry
  <2> QED BY <1>1, <2>1, <2>2, <2>3 DEF SaveRetry
<1>2. CASE RulesUnavailable(j)
  <2>1. CASE At(j, "rules", {"single", "batch"}) /\ CatchError(j)
    BY <1>0, <2>1
  <2>2. CASE /\ lost' = lost \cup {job[k].tx : k \in {i \in Jobs : At(i, "rules", {"batch"})}}
             /\ job' = [k \in Jobs |-> IF At(k, "rules", {"batch"}) THEN IdleJob ELSE job[k]]
             /\ UNCHANGED <<vars, rowVars, breakerVars, delivered, origins>>
    <3>1. \A i \in Jobs : JobOK(job'[i])
      BY <2>2, IdleJobOK
    <3>2. job' \in [Jobs -> JobType]
      BY <2>2, <3>1 DEF JobOK
    <3>3. lost' \subseteq BankTxs
      BY <2>2 DEF JobOK
    <3> QED BY <2>2, <3>1, <3>2, <3>3
  <2> QED BY <1>2, <2>1, <2>2 DEF RulesUnavailable
<1>3. CASE NoRoute(j)
  BY <1>3, MatchOrEndJob, RecordRow DEF NoRoute, RowStatus
<1>4. CASE RefusedByBreaker(j)
  BY <1>4, EndJob, RecordRow DEF RefusedByBreaker, RowStatus
<1>5. CASE Forward(j)
  BY <1>5, GotoJob DEF Forward, JobPCs
<1>6. ASSUME NEW ok \in BOOLEAN, NEW accepted \in BOOLEAN, Reply(j, ok, accepted)
      PROVE  BankInv'
  <2> DEFINE new == [job[j] EXCEPT !.pc = "replied", !.ok = ok]
  <2>1. JobOK(new)
    <3>1. JobOK(job[j]) /\ job[j].pc = "forwarding"
      BY <1>6 DEF Reply
    <3>2. new \in JobType /\ new.pc = "replied" /\ new.tx = job[j].tx
      BY <3>1 DEF JobOK, JobType, JobPCs
    <3> HIDE DEF new
    <3> QED BY <3>1, <3>2 DEF JobOK
  <2>2. job' = [job EXCEPT ![j] = new]
    BY <1>6 DEF Reply
  <2>3. job' \in [Jobs -> JobType] /\ \A i \in Jobs : JobOK(job'[i])
    <3> HIDE DEF new
    <3> QED BY <2>1, <2>2, OneJob
  <2>4. job[j].tx \in BankTxs
    BY <1>6 DEF Reply, JobOK
  <2> QED BY <1>6, <2>3, <2>4 DEF Reply
<1>7. CASE RecordReply(j)
  BY <1>7, EndJob, MatchOrEndJob, RecordRow DEF RecordReply, RowStatus
<1>8. CASE RecordFails(j)
  BY <1>0, <1>8 DEF RecordFails
<1>9. ASSUME NEW h \in Handlers, StartMatch(j, h) PROVE BankInv'
  <2> DEFINE new == [job[j] EXCEPT !.pc = "approving", !.handler = h]
  <2>1. JobOK(new)
    <3>1. JobOK(job[j]) /\ job[j].pc = "matching"
      BY <1>9 DEF StartMatch
    <3>2. new \in JobType /\ new.pc = "approving" /\ new.tx = job[j].tx
          /\ new.link = job[j].link /\ new.kind = job[j].kind
      BY <3>1 DEF JobOK, JobType, JobPCs
    <3> HIDE DEF new
    <3> QED BY <3>1, <3>2 DEF JobOK
  <2>2. job' = [job EXCEPT ![j] = new]
    BY <1>9 DEF StartMatch
  <2>3. job' \in [Jobs -> JobType] /\ \A i \in Jobs : JobOK(job'[i])
    <3> HIDE DEF new
    <3> QED BY <2>1, <2>2, OneJob
  <2> QED BY <1>9, <2>3 DEF StartMatch
<1>10. CASE SkipMatch(j)
  BY <1>10, EndJob DEF SkipMatch
<1>11. CASE LinkMatch(j)
  <2>1. job' \in [Jobs -> JobType] /\ \A i \in Jobs : JobOK(job'[i])
    BY <1>11, EndJob DEF LinkMatch
  <2>2. matched' \in [BankTxs -> Requests \cup {None}]
    <3>1. CASE matched' = matched
      BY <3>1
    <3>2. CASE matched' = [matched EXCEPT ![job[j].tx] = Content[job[j].tx]]
      BY <1>11, <3>2 DEF LinkMatch, JobOK
    <3> QED BY <1>11, <3>1, <3>2 DEF LinkMatch
  <2> QED BY <1>11, <2>1, <2>2 DEF LinkMatch
<1> QED BY <1>1, <1>2, <1>3, <1>4, <1>5, <1>6, <1>7, <1>8, <1>9, <1>10, <1>11
    DEF JobStep

LEMMA HandlerBankInv ==
  ASSUME BankInv, NEW h \in Handlers, HandlerStep(h)
  PROVE  BankInv'
<1> USE DEF BankInv
<1>1. ASSUME NEW pcj \in {"idle", "linking"}, JobAfter(h, pcj)
      PROVE  job' \in [Jobs -> JobType] /\ \A i \in Jobs : JobOK(job'[i])
  <2>1. \A k : JobOK(k) /\ k.pc = "approving" => JobOK([k EXCEPT !.pc = "linking"])
    BY DEF JobOK, JobType, JobPCs
  <2>2. \A i \in Jobs : JobOK(job'[i])
    BY <1>1, <2>1, IdleJobOK DEF JobAfter
  <2> QED BY <1>1, <2>2 DEF JobAfter, JobOK
<1> QED BY <1>1 DEF HandlerStep, rowVars, breakerVars, origins

LEMMA NextBankInv ==
  ASSUME BankInv, [BankNext]_allVars
  PROVE  BankInv'
<1>1. CASE TopupCall
  BY <1>1 DEF TopupCall, bankVars, origins, rowVars, breakerVars, BankInv
<1>2. CASE CoolDown
  BY <1>2 DEF CoolDown, rowVars, origins, BankInv
<1>3. CASE BankCrash
  <2>1. \A i \in Jobs : JobOK(job'[i])
    BY <1>3, IdleJobOK DEF BankCrash
  <2> QED BY <1>3, <2>1 DEF BankCrash, rowVars, origins, BankInv, JobOK
<1>4. CASE UNCHANGED allVars
  BY <1>4 DEF allVars, bankVars, origins, rowVars, breakerVars, BankInv
<1> QED BY <1>1, <1>2, <1>3, <1>4, CallBankInv, JobBankInv, HandlerBankInv DEF BankNext

LEMMA BankInvariance == BankSpec => []BankInv
BY InitBankInv, NextBankInv, PTL DEF BankSpec

-----------------------------------------------------------------------------

\* Every row that is more than stored, and every job, is of a transaction that was
\* reported as completed or that an administrator took up.
Accounted == settled \cup pressed

OriginsInv ==
    /\ \A t \in BankTxs : row[t] \notin {"none", "ignored"} => t \in Accounted
    /\ \A j \in Jobs : job[j].pc # "idle" => job[j].tx \in Accounted

\* A step at the transactions that jobs are at work on, under the same origins.
LEMMA OriginsKept ==
  ASSUME BankInv, OriginsInv, UNCHANGED origins,
         \A i \in Jobs : \/ job'[i] = job[i] \/ job'[i].pc = "idle"
                         \/ job[i].pc # "idle" /\ job'[i].tx = job[i].tx,
         \A t \in BankTxs : \/ row'[t] = row[t]
                            \/ \E i \in Jobs : job[i].pc # "idle" /\ job[i].tx = t
  PROVE  OriginsInv'
BY DEF OriginsInv, Accounted, origins

LEMMA NextOriginsInv ==
  ASSUME BankInv, OriginsInv, [BankNext]_allVars
  PROVE  OriginsInv'
<1>1. ASSUME NEW j \in Jobs, NEW t \in BankTxs, Ingest(j, t) PROVE OriginsInv'
  BY <1>1 DEF Ingest, OriginsInv, Accounted, BankInv, NewJob, IdleJob
<1>2. ASSUME NEW j \in Jobs, NEW t \in BankTxs, ReadRetry(j, t) PROVE OriginsInv'
  BY <1>2 DEF ReadRetry, TakeUp, OriginsInv, Accounted, BankInv, NewJob, IdleJob
<1>3. ASSUME NEW j \in Jobs, NEW t \in BankTxs, ReadDispatch(j, t) PROVE OriginsInv'
  BY <1>3 DEF ReadDispatch, TakeUp, rowVars, OriginsInv, Accounted, BankInv, NewJob, IdleJob
<1>4. ASSUME NEW batch \in SUBSET BankTxs, NEW completed \in SUBSET BankTxs,
             NEW slots, IngestAcbBatch(batch, completed, slots)
      PROVE  OriginsInv'
  <2> DEFINE process == {t \in batch : row[t] = "none"} \cap completed
  <2>1. settled' = settled \cup process /\ pressed' = pressed
    BY <1>4 DEF IngestAcbBatch
  <2>2. ASSUME NEW t \in BankTxs, row'[t] \notin {"none", "ignored"}
        PROVE  t \in settled \cup pressed \cup process
    BY <1>4, <2>2 DEF IngestAcbBatch, OriginsInv, Accounted, BankInv
  <2>3. ASSUME NEW i \in Jobs, job'[i].pc # "idle"
        PROVE  job'[i].tx \in settled \cup pressed \cup process
    <3>1. CASE \E t \in process : slots[t] = i
      <4>1. PICK t \in process : job'[i] = NewJob("rules", "batch", t, None)
        BY <1>4, <3>1 DEF IngestAcbBatch
      <4> QED BY <4>1 DEF NewJob, IdleJob
    <3>2. CASE ~\E t \in process : slots[t] = i
      BY <1>4, <2>3, <3>2 DEF IngestAcbBatch, OriginsInv, Accounted
    <3> QED BY <3>1, <3>2
  <2> QED BY <2>1, <2>2, <2>3 DEF OriginsInv, Accounted
<1>5. ASSUME NEW j \in Jobs, JobStep(j) PROVE OriginsInv'
  <2>1. UNCHANGED origins
    BY <1>5 DEF JobStep, SaveRetry, RulesUnavailable, CatchError, NoRoute, RefusedByBreaker,
       Forward, Reply, RecordReply, RecordFails, StartMatch, SkipMatch, LinkMatch
  <2>2. job[j].pc # "idle"
    BY <1>5 DEF JobStep, SaveRetry, RulesUnavailable, CatchError, NoRoute, RefusedByBreaker,
       Forward, Reply, RecordReply, RecordFails, StartMatch, SkipMatch, LinkMatch, At
  <2>3. ASSUME NEW i \in Jobs
        PROVE  \/ job'[i] = job[i] \/ job'[i].pc = "idle"
               \/ job[i].pc # "idle" /\ job'[i].tx = job[i].tx
    BY <1>5, <2>2 DEF JobStep, SaveRetry, RulesUnavailable, CatchError, NoRoute,
       RefusedByBreaker, Forward, Reply, RecordReply, RecordFails, StartMatch, SkipMatch,
       LinkMatch, MatchOrEnd, End, Goto, IdleJob, BankInv, JobType
  <2>4. ASSUME NEW t \in BankTxs PROVE row'[t] = row[t] \/ job[j].tx = t
    BY <1>5 DEF JobStep, SaveRetry, RulesUnavailable, CatchError, NoRoute,
       RefusedByBreaker, Forward, Reply, RecordReply, RecordFails, StartMatch, SkipMatch,
       LinkMatch, Record, rowVars, BankInv
  <2> QED BY <2>1, <2>2, <2>3, <2>4, OriginsKept
<1>6. ASSUME NEW h \in Handlers, HandlerStep(h) PROVE OriginsInv'
  <2>1. ASSUME NEW i \in Jobs
        PROVE  \/ job'[i] = job[i] \/ job'[i].pc = "idle"
               \/ job[i].pc # "idle" /\ job'[i].tx = job[i].tx
    BY <1>6 DEF HandlerStep, JobAfter, IdleJob, BankInv, JobType
  <2> QED BY <1>6, <2>1, OriginsKept DEF HandlerStep, rowVars
<1>7. CASE BankCrash
  BY <1>7, OriginsKept DEF BankCrash, IdleJob, rowVars
<1>8. CASE TopupCall \/ CoolDown \/ UNCHANGED allVars
  BY <1>8, OriginsKept DEF TopupCall, CoolDown, allVars, bankVars, rowVars
<1> QED BY <1>1, <1>2, <1>3, <1>4, <1>5, <1>6, <1>7, <1>8 DEF BankNext, BankCall

-----------------------------------------------------------------------------

\* The bank log only starts an automatic approval as the topup requests allow.
LEMMA StepImplementsTopup ==
  ASSUME BankInv, [BankNext]_allVars
  PROVE  [TopupNext]_vars
<1>1. CASE TopupCall
  BY <1>1 DEF TopupCall, TopupNext
<1>2. CASE BankCall
  BY <1>2 DEF BankCall, Ingest, ReadRetry, TakeUp, ReadDispatch, IngestAcbBatch
<1>3. ASSUME NEW h \in Handlers, HandlerStep(h) PROVE [TopupNext]_vars
  BY <1>3 DEF HandlerStep, TopupNext, Advance
<1>4. ASSUME NEW j \in Jobs, JobStep(j) PROVE [TopupNext]_vars
  <2>1. ASSUME NEW h \in Handlers, StartMatch(j, h) PROVE TopupNext
    <3>1. job[j].tx \in BankTxs /\ Content[job[j].tx] \in Requests
      BY <2>1 DEF StartMatch, BankInv, JobOK, Matchable
    <3> QED BY <2>1, <3>1 DEF StartMatch, TopupNext
  <2>2. CASE ~\E h \in Handlers : StartMatch(j, h)
    BY <1>4, <2>2 DEF JobStep, SaveRetry, RulesUnavailable, CatchError, NoRoute,
         RefusedByBreaker, Forward, Reply, RecordReply, RecordFails, CatchError, SkipMatch,
         LinkMatch
  <2> QED BY <2>1, <2>2
<1>5. CASE CoolDown \/ UNCHANGED allVars
  BY <1>5 DEF CoolDown, allVars
<1>6. CASE BankCrash
  BY <1>6 DEF BankCrash, TopupNext
<1> QED BY <1>1, <1>2, <1>3, <1>4, <1>5, <1>6 DEF BankNext

\* Bank-log processing is one more caller of the topup requests: as far as
\* they can tell, it does nothing their own specification does not allow.
THEOREM BankImplementsTopup == BankSpec => ImplementsTopup
<1>1. BankInit => Init
  BY DEF BankInit
<1> QED BY <1>1, StepImplementsTopup, BankInvariance, PTL
    DEF BankSpec, ImplementsTopup, TopupSpec

\* Hence all that is proved of topup requests holds with the bank log: every
\* credit is explained, and requests implement the abstract settlement.
THEOREM BankCreditWasExplained ==
  BankSpec => []CreditIsExplained /\ SettledIsFinal /\ ImplementsSettlement
BY BankImplementsTopup, CreditWasExplained, SettledStaysFinal, TopupSettles, PTL
   DEF ImplementsTopup

-----------------------------------------------------------------------------

(***************************************************************************)
(* Why the bank log is honest.  A handler that approves for a transfer was *)
(* started by a job whose row came in and names the handler's request; the *)
(* job waits for that handler, and goes on to the link only behind the     *)
(* commit; it records success only behind the acceptance it was told of.   *)
(***************************************************************************)
HandlerHonest(h) ==
    pc[h] # "idle" /\ by[h] \in BankTxs =>
        /\ by[h] \in Accounted /\ by[h] \in Incoming /\ Content[by[h]] = req[h]
        /\ pc[h] = "emitting" => EntriesBy(by[h], req[h]) # {}

JobHonest(j) ==
    /\ job[j].pc = "approving" =>
          /\ job[j].handler \in Handlers
          /\ pc[job[j].handler] \in {"approving", "emitting"} \cup InTransaction
          /\ by[job[j].handler] = job[j].tx
    /\ job[j].pc = "linking" =>
          /\ Content[job[j].tx] \in Requests
          /\ EntriesBy(job[j].tx, Content[job[j].tx]) # {}
    /\ job[j].pc = "replied" /\ job[j].ok => job[j].tx \in delivered

MoneyWasMeant ==
    \A r \in Requests, t \in BankTxs :
        EntriesBy(t, r) # {} => t \in Accounted /\ t \in Incoming /\ Content[t] = r

HonestInv ==
    /\ OriginsInv
    /\ \A h \in Handlers : HandlerHonest(h)
    /\ \A j \in Jobs : JobHonest(j)
    /\ MoneyWasMeant
    /\ LinkedIsCredited
    /\ SuccessWasDelivered

\* Only a commit writes a ledger, by one entry of its handler.
LEMMA LedgerStep ==
  ASSUME IInv, [TopupNext]_vars
  PROVE  \/ UNCHANGED ledger
         \/ \E h \in Handlers : CommitApproval(h)
<1>1. CASE \E c \in Customers, r \in Requests, a \in Amounts,
             ratio \in Ratios, i \in BOOLEAN :
               CreateTopupRequest(c, r, a, ratio, i)
  BY <1>1 DEF CreateTopupRequest, moneyVars
<1>2. CASE \E h \in Handlers, r \in Requests :
             \/ CustomerCall(h, r) \/ AdminCall(h, r)
             \/ \E t \in BankTxs : ReadAutoApprove(h, r, t)
  BY <1>2 DEF CustomerCall, AdminCall, ReadConfirmTransfer, ReadCancelRequest,
       ReadAdminReject, ReadAdminApprove, ReadAutoApprove, Begin, moneyVars
<1>3. CASE \E h \in Handlers : Advance(h)
  BY <1>3 DEF Advance, SaveRequest, SaveInTransaction, AddCreditInTransaction,
       AbortApproval, EmitApproved, moneyVars
<1>4. CASE Crash \/ UNCHANGED vars \/ \E c \in Customers : SaveBillingInfo(c)
  BY <1>4 DEF Crash, SaveBillingInfo, vars, moneyVars
<1> QED BY <1>1, <1>2, <1>3, <1>4 DEF TopupNext

LEMMA CommitEntries ==
  ASSUME IInv, NEW h \in Handlers, CommitApproval(h),
         NEW r \in Requests, NEW t \in BankTxs
  PROVE  /\ EntriesBy(t, r) # {} => EntriesBy(t, r)' # {}
         /\ EntriesBy(t, r)' # {} =>
               EntriesBy(t, r) # {} \/ (r = req[h] /\ t = by[h])
         /\ r = req[h] /\ t = by[h] => EntriesBy(t, r)' # {}
         /\ t # by[h] => EntriesBy(t, r)' = EntriesBy(t, r)
<1>1. CASE r # req[h]
  <2>1. ledger'[r] = ledger[r]
    BY <1>1 DEF CommitApproval, IInv, TypeOK
  <2> QED BY <1>1, <2>1 DEF EntriesBy
<1>2. CASE r = req[h]
  <2> DEFINE n == Len(ledger[r])
  <2>0. pc[h] = "credited" /\ ledger' = [ledger EXCEPT ![r] = Append(@, by[h])]
    BY <1>2 DEF CommitApproval
  <2>1. /\ ledger[r] \in Seq(Approvers) /\ by[h] \in Approvers
        /\ ledger'[r] = Append(ledger[r], by[h])
    BY <2>0 DEF IInv, TypeOK, HandlerInv, InTransaction
  <2>2. /\ n \in Nat /\ Len(ledger'[r]) = n + 1
        /\ \A i \in 1 .. n : ledger'[r][i] = ledger[r][i]
        /\ ledger'[r][n + 1] = by[h]
    BY <2>1
  <2>3. /\ \A i \in 1 .. n : i \in 1 .. Len(ledger'[r])
        /\ n + 1 \in 1 .. Len(ledger'[r])
        /\ \A i \in 1 .. Len(ledger'[r]) : i \in 1 .. n \/ i = n + 1
    BY <2>2
  <2> HIDE DEF n
  <2>4. \A i \in EntriesBy(t, r) : i \in 1 .. n /\ ledger[r][i] = t
    BY DEF EntriesBy, n
  <2>5. EntriesBy(t, r)' = {i \in 1 .. Len(ledger'[r]) : ledger'[r][i] = t}
    BY DEF EntriesBy
  <2>6. \A i \in EntriesBy(t, r) : i \in EntriesBy(t, r)'
    BY <2>2, <2>3, <2>4, <2>5
  <2>7. t = by[h] => n + 1 \in EntriesBy(t, r)'
    BY <2>2, <2>3, <2>5
  <2>8. \A i \in EntriesBy(t, r)' : i \in EntriesBy(t, r) \/ t = by[h]
    BY <2>2, <2>3, <2>5 DEF EntriesBy, n
  <2> QED BY <1>2, <2>6, <2>7, <2>8
<1> QED BY <1>1, <1>2

\* Entries stay.
LEMMA EntriesStay ==
  ASSUME IInv, [TopupNext]_vars, NEW r \in Requests, NEW t \in BankTxs,
         EntriesBy(t, r) # {}
  PROVE  EntriesBy(t, r)' # {}
<1>1. CASE UNCHANGED ledger
  BY <1>1 DEF EntriesBy
<1> QED BY <1>1, LedgerStep, CommitEntries

\* What is accounted for stays so.
LEMMA AccountedGrows ==
  ASSUME [BankNext]_allVars
  PROVE  \A t : t \in Accounted => t \in Accounted'
<1>1. CASE BankCall
  BY <1>1 DEF BankCall, Ingest, ReadRetry, ReadDispatch, TakeUp, IngestAcbBatch, Accounted
<1>2. CASE UNCHANGED origins
  BY <1>2 DEF origins, Accounted
<1>3. CASE \E j \in Jobs : JobStep(j)
  BY <1>2, <1>3 DEF JobStep, SaveRetry, RulesUnavailable, CatchError, NoRoute,
     RefusedByBreaker, Forward, Reply, RecordReply, RecordFails, StartMatch, SkipMatch,
     LinkMatch
<1> QED BY <1>1, <1>2, <1>3 DEF BankNext, TopupCall, HandlerStep, CoolDown, BankCrash,
     allVars, bankVars

LEMMA MoneyStep ==
  ASSUME IInv, HonestInv, [TopupNext]_vars, [BankNext]_allVars
  PROVE  MoneyWasMeant'
<1>0. \A t : t \in Accounted => t \in Accounted'
  BY AccountedGrows
<1>1. CASE UNCHANGED ledger
  BY <1>0, <1>1 DEF HonestInv, MoneyWasMeant, EntriesBy
<1>2. ASSUME NEW h \in Handlers, CommitApproval(h) PROVE MoneyWasMeant'
  <2>1. by[h] \in BankTxs =>
          by[h] \in Accounted /\ by[h] \in Incoming /\ Content[by[h]] = req[h]
    BY <1>2 DEF HonestInv, HandlerHonest, CommitApproval
  <2>2. ASSUME NEW r \in Requests, NEW t \in BankTxs, EntriesBy(t, r)' # {}
        PROVE  t \in Accounted' /\ t \in Incoming /\ Content[t] = r
    BY <1>0, <1>2, <2>1, <2>2, CommitEntries DEF HonestInv, MoneyWasMeant
  <2> QED BY <2>2 DEF MoneyWasMeant
<1> QED BY <1>1, <1>2, LedgerStep

\* Handlers stay honest: only a job's match begins one in a transfer's name.
LEMMA HandlersStep ==
  ASSUME IInv, HonestInv, BankInv, [BankNext]_allVars
  PROVE  \A h \in Handlers : HandlerHonest(h)'
<1>0. [TopupNext]_vars /\ \A t : t \in Accounted => t \in Accounted'
  BY StepImplementsTopup, AccountedGrows
<1> SUFFICES ASSUME NEW h \in Handlers, (pc[h] # "idle" /\ by[h] \in BankTxs)'
             PROVE  /\ by'[h] \in Accounted' /\ by'[h] \in Incoming /\ Content[by'[h]] = req'[h]
                    /\ pc'[h] = "emitting" => EntriesBy(by[h], req[h])' # {}
  BY DEF HandlerHonest
<1>1. ASSUME UNCHANGED <<pc[h], by[h], req[h]>>
      PROVE  /\ by'[h] \in Accounted' /\ by'[h] \in Incoming /\ Content[by'[h]] = req'[h]
             /\ pc'[h] = "emitting" => EntriesBy(by[h], req[h])' # {}
  <2>1. /\ by[h] \in Accounted
        /\ by[h] \in Incoming /\ Content[by[h]] = req[h] /\ req[h] \in Requests
        /\ pc[h] = "emitting" => EntriesBy(by[h], req[h]) # {}
    BY <1>1 DEF HonestInv, HandlerHonest, IInv, HandlerInv
  <2>2. pc[h] = "emitting" => EntriesBy(by[h], req[h])' # {}
    <3>1. \A r \in Requests, t \in BankTxs :
             EntriesBy(t, r) # {} => EntriesBy(t, r)' # {}
      BY <1>0, EntriesStay
    <3>2. /\ pc'[h] = pc[h] /\ by'[h] = by[h] /\ req'[h] = req[h]
          /\ by[h] \in BankTxs /\ req[h] \in Requests
      BY <1>1, <2>1
    <3>3. pc[h] = "emitting" => EntriesBy(by[h], req[h]) # {}
      BY <2>1
    <3>4. EntriesBy(by[h], req[h])' =
            {i \in 1 .. Len(ledger'[req[h]]) : ledger'[req[h]][i] = by[h]}
      BY <3>2 DEF EntriesBy
    <3>5. \A r \in Requests, t \in BankTxs :
             EntriesBy(t, r)' = {i \in 1 .. Len(ledger'[r]) : ledger'[r][i] = t}
      BY DEF EntriesBy
    <3> QED BY <3>1, <3>2, <3>3, <3>4, <3>5
  <2> QED BY <1>0, <1>1, <2>1, <2>2
<1>2. ASSUME NEW g \in Handlers, NEW k, NEW r, NEW b, NEW n, Begin(g, k, r, b, n), g # h
      PROVE  UNCHANGED <<pc[h], by[h], req[h]>>
  BY <1>2 DEF Begin, IInv, TypeOK
<1>3. CASE TopupCall
  <2>1. CASE /\ ~\E g \in Handlers, r \in Requests : CustomerCall(g, r) \/ AdminCall(g, r)
             /\ UNCHANGED <<pc, by, req>>
    BY <1>1, <2>1
  <2>2. ASSUME NEW g \in Handlers, NEW r \in Requests,
               CustomerCall(g, r) \/ AdminCall(g, r)
        PROVE  UNCHANGED <<pc[h], by[h], req[h]>>
    <3>1. \/ Begin(g, "confirmTransfer", r, None, "saving")
          \/ Begin(g, "cancelRequest", r, None, "saving")
          \/ Begin(g, "adminReject", r, None, "saving")
          \/ Begin(g, "adminApprove", r, Admin, "approving")
      BY <2>2 DEF CustomerCall, AdminCall, ReadConfirmTransfer, ReadCancelRequest,
           ReadAdminReject, ReadAdminApprove
    <3>2. by'[g] \in {None, Admin}
      BY <3>1 DEF Begin, IInv, TypeOK
    <3>3. g # h
      BY <3>2, ConstantsAssumption
    <3> QED BY <3>1, <3>3, <1>2
  <2> QED BY <1>1, <1>3, <2>1, <2>2 DEF TopupCall, CreateTopupRequest, SaveBillingInfo
<1>4. ASSUME NEW g \in Handlers, HandlerStep(g)
      PROVE  /\ by'[h] \in Accounted' /\ by'[h] \in Incoming /\ Content[by'[h]] = req'[h]
             /\ pc'[h] = "emitting" => EntriesBy(by[h], req[h])' # {}
  <2>1. CASE g # h
    BY <1>1, <1>4, <2>1 DEF HandlerStep, SaveRequest, SaveInTransaction,
       AddCreditInTransaction, CommitApproval, AbortApproval, EmitApproved, Return,
       IInv, TypeOK
  <2>2. CASE g = h /\ (SaveRequest(h) \/ AbortApproval(h) \/ EmitApproved(h))
    BY <2>2 DEF SaveRequest, AbortApproval, EmitApproved, Return, IInv, TypeOK
  <2>3. CASE g = h /\ (SaveInTransaction(h) \/ AddCreditInTransaction(h))
    BY <1>0, <2>3 DEF SaveInTransaction, AddCreditInTransaction, HonestInv, HandlerHonest,
       IInv, TypeOK
  <2>4. CASE g = h /\ CommitApproval(h)
    <3>1. /\ UNCHANGED <<by, req>> /\ pc[h] = "credited"
          /\ req[h] \in Requests /\ by[h] \in BankTxs
      BY <2>4 DEF CommitApproval, IInv, HandlerInv
    <3>2. EntriesBy(by[h], req[h])' # {}
      <4>1. \A r \in Requests, t \in BankTxs :
               r = req[h] /\ t = by[h] => EntriesBy(t, r)' # {}
        BY <2>4, CommitEntries
      <4> QED BY <3>1, <4>1 DEF EntriesBy
    <3> QED BY <1>0, <3>1, <3>2 DEF HonestInv, HandlerHonest
  <2> QED BY <1>4, <2>1, <2>2, <2>3, <2>4 DEF HandlerStep
<1>5. ASSUME NEW j \in Jobs, JobStep(j)
      PROVE  /\ by'[h] \in Accounted' /\ by'[h] \in Incoming /\ Content[by'[h]] = req'[h]
             /\ pc'[h] = "emitting" => EntriesBy(by[h], req[h])' # {}
  <2>1. ASSUME NEW g \in Handlers, StartMatch(j, g)
        PROVE  /\ by'[h] \in Accounted' /\ by'[h] \in Incoming /\ Content[by'[h]] = req'[h]
               /\ pc'[h] = "emitting" => EntriesBy(by[h], req[h])' # {}
    <3>1. /\ Begin(g, "autoApprove", Content[job[j].tx], job[j].tx, "approving")
          /\ job[j].tx \in Incoming /\ job[j].tx \in Accounted
      BY <2>1 DEF StartMatch, ReadAutoApprove, BankInv, JobOK, Matchable, HonestInv, OriginsInv
    <3>2. CASE g = h
      BY <1>0, <3>1, <3>2 DEF Begin, IInv, TypeOK
    <3> QED BY <1>1, <1>2, <3>1, <3>2
  <2>2. CASE UNCHANGED vars
    BY <1>1, <2>2 DEF vars, handlerVars
  <2> QED BY <1>5, <2>1, <2>2 DEF JobStep, SaveRetry, RulesUnavailable, CatchError, NoRoute,
       RefusedByBreaker, Forward, Reply, RecordReply, RecordFails, CatchError, SkipMatch, LinkMatch
<1>6. CASE BankCrash
  BY <1>6 DEF BankCrash, Crash
<1>7. CASE BankCall \/ CoolDown \/ UNCHANGED allVars
  BY <1>1, <1>7 DEF BankCall, Ingest, ReadRetry, TakeUp, ReadDispatch, IngestAcbBatch,
     CoolDown, allVars, vars, handlerVars
<1> QED BY <1>3, <1>4, <1>5, <1>6, <1>7 DEF BankNext

\* A job whose record stays is honest while its handler goes on.
LEMMA KeepJob ==
  ASSUME IInv, BankInv, HonestInv, [BankNext]_allVars, NEW i \in Jobs,
         job'[i] = job[i], delivered \subseteq delivered',
         job[i].pc = "approving" =>
            /\ by'[job[i].handler] = by[job[i].handler]
            /\ pc'[job[i].handler] \in {"approving", "emitting"} \cup InTransaction
  PROVE  JobHonest(i)'
<1>1. JobHonest(i)
  BY DEF HonestInv
<1>2. CASE job[i].pc = "linking"
  <2>1. PICK r \in Requests, t \in BankTxs : r = Content[job[i].tx] /\ t = job[i].tx
    BY <1>1, <1>2 DEF JobHonest, BankInv, JobOK
  <2>2. EntriesBy(t, r)' # {}
    BY <1>1, <1>2, <2>1, StepImplementsTopup, EntriesStay DEF JobHonest
  <2> QED BY <1>2, <2>1, <2>2 DEF JobHonest, EntriesBy
<1>3. CASE job[i].pc # "linking"
  BY <1>1, <1>3 DEF JobHonest
<1> QED BY <1>2, <1>3

\* A handler that begins is nobody's: jobs wait for handlers that are busy.
LEMMA OtherHandler ==
  ASSUME IInv, HonestInv, NEW i \in Jobs, job[i].pc = "approving",
         NEW g \in Handlers, NEW k, NEW r, NEW b, NEW n, Begin(g, k, r, b, n)
  PROVE  /\ by'[job[i].handler] = by[job[i].handler]
         /\ pc'[job[i].handler] \in {"approving", "emitting"} \cup InTransaction
BY DEF HonestInv, JobHonest, Begin, IInv, TypeOK, InTransaction

LEMMA JobsStep ==
  ASSUME IInv, HonestInv, BankInv, [BankNext]_allVars, NEW i \in Jobs
  PROVE  JobHonest(i)'
<1>0. job[i].pc = "approving" =>
        pc[job[i].handler] \in {"approving", "emitting"} \cup InTransaction
  BY DEF HonestInv, JobHonest
<1>1. CASE UNCHANGED <<vars, job[i]>> /\ delivered \subseteq delivered'
  BY <1>0, <1>1, KeepJob DEF vars, handlerVars
<1>2. CASE job'[i].pc \notin {"approving", "linking", "replied"}
  BY <1>2 DEF JobHonest
<1>3. CASE TopupCall
  <2>1. job'[i] = job[i] /\ delivered' = delivered
    BY <1>3 DEF TopupCall, bankVars, origins
  <2>2. CASE UNCHANGED <<pc, by>>
    BY <1>0, <2>1, <2>2, KeepJob
  <2>3. ASSUME NEW g \in Handlers, NEW r \in Requests,
               CustomerCall(g, r) \/ AdminCall(g, r)
        PROVE  JobHonest(i)'
    <3>1. \/ Begin(g, "confirmTransfer", r, None, "saving")
          \/ Begin(g, "cancelRequest", r, None, "saving")
          \/ Begin(g, "adminReject", r, None, "saving")
          \/ Begin(g, "adminApprove", r, Admin, "approving")
      BY <2>3 DEF CustomerCall, AdminCall, ReadConfirmTransfer, ReadCancelRequest,
           ReadAdminReject, ReadAdminApprove
    <3> QED BY <2>1, <3>1, OtherHandler, KeepJob
  <2> QED BY <1>3, <2>2, <2>3 DEF TopupCall, CreateTopupRequest, SaveBillingInfo
<1>4. CASE BankCall
  <2>1. CASE \E j \in Jobs, t \in BankTxs :
                Ingest(j, t) \/ ReadRetry(j, t) \/ ReadDispatch(j, t)
    <3>1. PICK j \in Jobs, t \in BankTxs, pcj \in {"rules", "retrying", "forwarding"},
               k \in {"single", "batch", "dispatch"}, link \in Requests \cup {None} :
             job' = [job EXCEPT ![j] = NewJob(pcj, k, t, link)]
      BY <2>1 DEF Ingest, ReadRetry, TakeUp, ReadDispatch, BankInv
    <3>2. UNCHANGED <<vars, delivered>>
      BY <2>1 DEF Ingest, ReadRetry, TakeUp, ReadDispatch
    <3> QED BY <1>1, <1>2, <3>1, <3>2 DEF NewJob, IdleJob, BankInv
  <2>2. ASSUME NEW batch, NEW completed, NEW slots,
               IngestAcbBatch(batch, completed, slots)
        PROVE  JobHonest(i)'
    <3>1. job'[i] = job[i] \/ \E t : job'[i] = NewJob("rules", "batch", t, None)
      BY <2>2 DEF IngestAcbBatch
    <3> QED BY <1>1, <1>2, <2>2, <3>1 DEF IngestAcbBatch, NewJob, IdleJob
  <2> QED BY <1>4, <2>1, <2>2 DEF BankCall
<1>5. ASSUME NEW g \in Handlers, HandlerStep(g) PROVE JobHonest(i)'
  <2>0. delivered' = delivered
    BY <1>5 DEF HandlerStep
  <2>1. CASE job[i].pc = "approving" /\ job[i].handler = g
    <3>1. CASE SaveInTransaction(g) \/ AddCreditInTransaction(g) \/ CommitApproval(g)
      <4>1. by' = by /\ pc'[g] \in {"approving", "emitting"} \cup InTransaction
        BY <3>1 DEF SaveInTransaction, AddCreditInTransaction, CommitApproval,
           InTransaction, IInv, TypeOK
      <4>2. job' = job
        BY <1>5, <3>1 DEF HandlerStep, SaveInTransaction, AddCreditInTransaction,
           CommitApproval, AbortApproval, EmitApproved, Return, IInv, TypeOK,
           InTransaction
      <4> QED BY <2>0, <2>1, <4>1, <4>2, KeepJob
    <3>2. CASE SaveRequest(g)
      BY <1>0, <2>1, <3>2 DEF SaveRequest, InTransaction
    <3>3. CASE AbortApproval(g) /\ JobAfter(g, "idle")
      BY <1>2, <2>1, <3>3 DEF JobAfter, IdleJob
    <3>4. CASE EmitApproved(g) /\ JobAfter(g, "linking")
      <4>1. /\ job[i].tx \in BankTxs /\ by[g] = job[i].tx
            /\ req[g] \in Requests /\ Content[job[i].tx] = req[g]
            /\ EntriesBy(job[i].tx, Content[job[i].tx]) # {}
        BY SMTT(20), <2>1, <3>4 DEF HonestInv, JobHonest, HandlerHonest, EmitApproved, BankInv,
           JobOK, IInv, HandlerInv
      <4>2. job'[i] = [job[i] EXCEPT !.pc = "linking"] /\ ledger' = ledger
        BY <2>1, <3>4 DEF JobAfter, EmitApproved, moneyVars
      <4>3. job'[i].pc = "linking" /\ job'[i].tx = job[i].tx
        BY <4>2 DEF BankInv, JobType
      <4>4. EntriesBy(job[i].tx, Content[job[i].tx])' # {}
        BY <4>1, <4>2, <4>3 DEF EntriesBy
      <4> QED BY <4>1, <4>3, <4>4 DEF JobHonest
    <3> QED BY <1>5, <3>1, <3>2, <3>3, <3>4 DEF HandlerStep
  <2>2. CASE ~(job[i].pc = "approving" /\ job[i].handler = g)
    <3>1. job'[i] = job[i]
      BY <1>5, <2>2 DEF HandlerStep, JobAfter
    <3>2. \A k \in Handlers : k # g => UNCHANGED <<pc[k], by[k]>>
      BY <1>5 DEF HandlerStep, SaveRequest, SaveInTransaction, AddCreditInTransaction,
         CommitApproval, AbortApproval, EmitApproved, Return, IInv, TypeOK
    <3>3. job[i].pc = "approving" => job[i].handler \in Handlers \ {g}
      BY <2>2 DEF HonestInv, JobHonest
    <3> QED BY <1>0, <2>0, <3>1, <3>2, <3>3, KeepJob
  <2> QED BY <2>1, <2>2
<1>6. ASSUME NEW j \in Jobs, JobStep(j) PROVE JobHonest(i)'
  <2>1. ASSUME NEW g \in Handlers, StartMatch(j, g) PROVE JobHonest(i)'
    <3>1. /\ Begin(g, "autoApprove", Content[job[j].tx], job[j].tx, "approving")
          /\ job' = [job EXCEPT ![j].pc = "approving", ![j].handler = g]
          /\ delivered' = delivered
      BY <2>1 DEF StartMatch, ReadAutoApprove
    <3>2. CASE i = j
      <4>1. job'[i].pc = "approving" /\ job'[i].handler = g /\ job'[i].tx = job[i].tx
        BY <3>1, <3>2 DEF BankInv, JobType
      <4>2. pc'[g] = "approving" /\ by'[g] = job[i].tx
        BY <3>1, <3>2 DEF Begin, IInv, TypeOK
      <4> QED BY <4>1, <4>2 DEF JobHonest
    <3>3. CASE i # j
      <4>1. job'[i] = job[i]
        BY <3>1, <3>3 DEF BankInv
      <4> QED BY <3>1, <4>1, OtherHandler, KeepJob
    <3> QED BY <3>2, <3>3
  <2>2. ASSUME NEW ok \in BOOLEAN, NEW accepted \in BOOLEAN, Reply(j, ok, accepted)
        PROVE  JobHonest(i)'
    <3>1. delivered \subseteq delivered' /\ UNCHANGED vars
      BY <2>2 DEF Reply
    <3>2. CASE i = j
      <4>1. /\ job'[i].pc = "replied" /\ job'[i].ok = ok /\ job'[i].tx = job[i].tx
            /\ ok => job[i].tx \in delivered'
        BY <2>2, <3>2 DEF Reply, BankInv, JobType
      <4> QED BY <4>1 DEF JobHonest
    <3>3. CASE i # j
      BY <1>1, <2>2, <3>1, <3>3 DEF Reply, BankInv
    <3> QED BY <3>2, <3>3
  <2>3. CASE RulesUnavailable(j)
    BY <1>1, <1>2, <2>3 DEF RulesUnavailable, CatchError, End, IdleJob, BankInv
  <2>4. CASE /\ UNCHANGED <<vars, delivered>>
             /\ \/ End(j)
                \/ \E pcj \in {"rules", "forwarding", "matching"} : Goto(j, pcj)
    <3>1. CASE i = j
      BY <1>2, <2>4, <3>1 DEF End, Goto, IdleJob, BankInv, JobType
    <3>2. CASE i # j
      BY <1>1, <2>4, <3>2 DEF End, Goto, BankInv
    <3> QED BY <3>1, <3>2
  <2> QED BY <1>6, <2>1, <2>2, <2>3, <2>4 DEF JobStep, SaveRetry, NoRoute,
       RefusedByBreaker, Forward, RecordReply, RecordFails, CatchError, SkipMatch, LinkMatch, MatchOrEnd
<1>7. CASE CoolDown \/ UNCHANGED allVars
  BY <1>1, <1>7 DEF CoolDown, allVars, bankVars, origins
<1>8. CASE BankCrash
  BY <1>2, <1>8 DEF BankCrash, IdleJob
<1> QED BY <1>3, <1>4, <1>5, <1>6, <1>7, <1>8 DEF BankNext

\* A link is written by a job that saw the commit, and names what it paid.
LEMMA LinkedStep ==
  ASSUME IInv, BankInv, HonestInv, [BankNext]_allVars
  PROVE  LinkedIsCredited'
<1>1. \A r \in Requests, t \in BankTxs : EntriesBy(t, r) # {} => EntriesBy(t, r)' # {}
  BY StepImplementsTopup, EntriesStay
<1>2. CASE UNCHANGED matched
  <2>1. ASSUME NEW t \in BankTxs, matched[t] # None
        PROVE  EntriesBy(t, matched[t])' # {}
    <3>1. PICK r \in Requests : r = matched[t]
      BY <2>1 DEF BankInv
    <3>2. EntriesBy(t, r)' # {}
      BY <1>1, <2>1, <3>1 DEF HonestInv, LinkedIsCredited
    <3> QED BY <1>2, <3>1, <3>2 DEF EntriesBy
  <2> QED BY <1>2, <2>1 DEF LinkedIsCredited
<1>3. ASSUME NEW j \in Jobs, LinkMatch(j) PROVE LinkedIsCredited'
  <2>0. CASE UNCHANGED matched
    BY <1>2, <2>0
  <2> SUFFICES ASSUME matched' # matched PROVE LinkedIsCredited'
    BY <2>0
  <2>1. PICK u \in BankTxs, q \in Requests :
           /\ u = job[j].tx /\ q = Content[u] /\ EntriesBy(u, q) # {}
           /\ matched' = [matched EXCEPT ![u] = q]
           /\ ledger' = ledger
    BY <1>3 DEF LinkMatch, HonestInv, JobHonest, BankInv, JobOK, vars, moneyVars
  <2>2. \A t \in BankTxs : \A r : EntriesBy(t, r)' = EntriesBy(t, r)
    BY <2>1 DEF EntriesBy
  <2>3. ASSUME NEW t \in BankTxs, matched'[t] # None
        PROVE  EntriesBy(t, matched'[t]) # {}
    BY <2>1, <2>3 DEF HonestInv, LinkedIsCredited, BankInv
  <2>4. ASSUME NEW t \in BankTxs, matched'[t] # None
        PROVE  EntriesBy(t, matched[t])' # {}
    BY <2>1, <2>3, <2>4 DEF EntriesBy
  <2> QED BY <2>4 DEF LinkedIsCredited
<1>4. CASE \E j \in Jobs : JobStep(j)
  BY <1>2, <1>3, <1>4 DEF JobStep, SaveRetry, RulesUnavailable, CatchError, NoRoute,
     RefusedByBreaker, Forward, Reply, RecordReply, RecordFails, CatchError, StartMatch, SkipMatch,
     rowVars
<1>5. CASE TopupCall \/ BankCall \/ (\E h \in Handlers : HandlerStep(h)) \/ CoolDown
           \/ BankCrash \/ UNCHANGED allVars
  BY <1>2, <1>5 DEF TopupCall, BankCall, Ingest, ReadRetry, TakeUp, ReadDispatch,
     IngestAcbBatch, HandlerStep, CoolDown, BankCrash, allVars, bankVars, origins, rowVars
<1> QED BY <1>4, <1>5 DEF BankNext

\* Success is recorded by a job whose call was accepted.
LEMMA SuccessStep ==
  ASSUME BankInv, HonestInv, [BankNext]_allVars
  PROVE  SuccessWasDelivered'
<1>1. CASE UNCHANGED row /\ delivered \subseteq delivered'
  BY <1>1 DEF HonestInv, SuccessWasDelivered
<1>2. ASSUME NEW j \in Jobs, NEW s \in RowStatus \ {"success"}, Record(j, s),
             UNCHANGED delivered
      PROVE  SuccessWasDelivered'
  BY <1>2 DEF Record, HonestInv, SuccessWasDelivered, BankInv
<1>3. ASSUME NEW j \in Jobs, RecordReply(j) PROVE SuccessWasDelivered'
  <2>1. CASE job[j].ok
    <3>1. /\ row' = [row EXCEPT ![job[j].tx] = "success"] /\ delivered' = delivered
          /\ job[j].tx \in delivered
      BY <1>3, <2>1 DEF RecordReply, Record, HonestInv, JobHonest
    <3> QED BY <3>1 DEF HonestInv, SuccessWasDelivered, BankInv
  <2>2. CASE ~job[j].ok
    BY <1>2, <1>3, <2>2 DEF RecordReply, RowStatus
  <2> QED BY <2>1, <2>2
<1>4. ASSUME NEW j \in Jobs, JobStep(j) PROVE SuccessWasDelivered'
  BY <1>1, <1>2, <1>3, <1>4 DEF JobStep, SaveRetry, RulesUnavailable, CatchError, NoRoute,
     RefusedByBreaker, Forward, Reply, RecordFails, CatchError, StartMatch, SkipMatch, LinkMatch,
     rowVars, RowStatus
<1>5. CASE BankCall
  <2>1. ASSUME NEW t \in BankTxs, row'[t] = "success"
        PROVE  row[t] = "success"
    BY <1>5, <2>1 DEF BankCall, Ingest, ReadRetry, TakeUp, ReadDispatch, IngestAcbBatch,
       rowVars, BankInv
  <2>2. delivered' = delivered
    BY <1>5 DEF BankCall, Ingest, ReadRetry, TakeUp, ReadDispatch, IngestAcbBatch
  <2> QED BY <2>1, <2>2 DEF HonestInv, SuccessWasDelivered
<1>6. CASE TopupCall \/ (\E h \in Handlers : HandlerStep(h)) \/ CoolDown
           \/ BankCrash \/ UNCHANGED allVars
  BY <1>1, <1>6 DEF TopupCall, HandlerStep, CoolDown, BankCrash, allVars, bankVars, origins,
     rowVars
<1> QED BY <1>4, <1>5, <1>6 DEF BankNext

LEMMA NextHonestInv ==
  ASSUME IInv, BankInv, HonestInv, [BankNext]_allVars
  PROVE  HonestInv'
<1>1. MoneyWasMeant'
  BY StepImplementsTopup, MoneyStep
<1> QED BY <1>1, NextOriginsInv, HandlersStep, JobsStep, LinkedStep, SuccessStep DEF HonestInv

LEMMA InitHonestInv == BankInit => HonestInv
BY DEF BankInit, Init, HonestInv, HandlerHonest, JobHonest, IdleJob, MoneyWasMeant,
   LinkedIsCredited, SuccessWasDelivered, EntriesBy, OriginsInv

LEMMA HonestInvariance == BankSpec => []HonestInv
<1>1. BankSpec => []IInv
  BY BankImplementsTopup, Invariance, PTL DEF ImplementsTopup
<1> QED BY <1>1, InitHonestInv, NextHonestInv, BankInvariance, PTL DEF BankSpec

\* A row that says success was delivered, a row that is linked has paid for that
\* request, and what it paid for was reported as completed (or taken up by an
\* administrator), meant for it and covered: for any number of jobs, retries,
\* duplicates, failing writes and crashes.
THEOREM BankStaysHonest == BankSpec => []BankIsHonest
<1>1. BankInv /\ TypeOK => BankTypeOK
  BY DEF BankInv, BankTypeOK
<1>2. HonestInv /\ IInv => CreditFollowsTheMoney
  <2>1. ASSUME HonestInv, IInv, NEW r \in Requests, NEW t \in BankTxs,
               EntriesBy(t, r) # {}
        PROVE  /\ t \in settled \cup pressed
               /\ t \in Incoming /\ Content[t] = r /\ BankAmount[t] >= amount[r]
    <3>1. PICK i \in 1 .. Len(ledger[r]) : ledger[r][i] = t
      BY <2>1 DEF EntriesBy
    <3> QED BY <2>1, <3>1 DEF HonestInv, MoneyWasMeant, Accounted, IInv, AutoCreditIsBacked
  <2> QED BY <2>1 DEF CreditFollowsTheMoney
<1>3. HonestInv /\ BankInv /\ IInv => BankIsHonest
  BY <1>1, <1>2 DEF BankIsHonest, HonestInv, IInv
<1>4. BankSpec => []IInv
  BY BankImplementsTopup, Invariance, PTL DEF ImplementsTopup
<1> QED BY <1>3, <1>4, HonestInvariance, BankInvariance, PTL

-----------------------------------------------------------------------------

\* Nothing is known of a transaction that has no row.
KnownRows ==
    \A t \in BankTxs : row[t] = "none" =>
        matched[t] = None /\ \A j \in Jobs : job[j].tx # t

\* A job of t is new, over, or keeps what it is and has read.
LEMMA JobKept ==
  ASSUME BankInv, KnownRows, [BankNext]_allVars, NEW i \in Jobs, NEW t \in BankTxs,
         job'[i].tx = t
  PROVE  \/ /\ job[i].tx = t
            /\ job'[i].kind = job[i].kind /\ job'[i].link = job[i].link
         \/ row[t] = "none" /\ row'[t] # "none"
         \/ /\ row[t] # "none"
            /\ job'[i].kind = "dispatch" \/ job'[i].link = matched[t]
<1>0. None \notin BankTxs
  BY ConstantsAssumption
<1>1. CASE job'[i] = job[i]
  BY <1>1
<1>2. CASE job'[i] = IdleJob
  BY <1>0, <1>2 DEF IdleJob
<1>3. CASE BankCall
  <2>1. ASSUME NEW j \in Jobs, NEW u \in BankTxs, Ingest(j, u), job'[i] # job[i]
        PROVE  row[t] = "none" /\ row'[t] # "none"
    BY <2>1 DEF Ingest, NewJob, IdleJob, BankInv
  <2>2. ASSUME NEW j \in Jobs, NEW u \in BankTxs, ReadRetry(j, u), job'[i] # job[i]
        PROVE  row[t] # "none" /\ job'[i].link = matched[t]
    BY <2>2 DEF ReadRetry, TakeUp, NewJob, IdleJob, BankInv
  <2>3. ASSUME NEW j \in Jobs, NEW u \in BankTxs, ReadDispatch(j, u), job'[i] # job[i]
        PROVE  row[t] # "none" /\ job'[i].kind = "dispatch"
    BY <2>3 DEF ReadDispatch, TakeUp, NewJob, IdleJob, BankInv
  <2>4. ASSUME NEW batch \in SUBSET BankTxs, NEW completed, NEW slots,
               IngestAcbBatch(batch, completed, slots), job'[i] # job[i]
        PROVE  row[t] = "none" /\ row'[t] # "none"
    <3>1. PICK u \in batch : /\ row[u] = "none" /\ u \in completed
                             /\ job'[i] = NewJob("rules", "batch", u, None)
      BY <2>4 DEF IngestAcbBatch
    <3>2. u = t
      BY <3>1 DEF NewJob, IdleJob
    <3> QED BY <2>4, <3>1, <3>2 DEF IngestAcbBatch
  <2> QED BY <1>1, <1>3, <2>1, <2>2, <2>3, <2>4 DEF BankCall
<1>4. ASSUME NEW j \in Jobs, JobStep(j)
      PROVE  \/ job'[i] \in {job[i], IdleJob}
             \/ /\ job'[i].tx = job[i].tx
                /\ job'[i].kind = job[i].kind /\ job'[i].link = job[i].link
  BY <1>4 DEF JobStep, SaveRetry, RulesUnavailable, CatchError, NoRoute, RefusedByBreaker, Forward,
     Reply, RecordReply, RecordFails, CatchError, StartMatch, SkipMatch, LinkMatch, MatchOrEnd, End,
     Goto, BankInv, JobType
<1>5. CASE \E h \in Handlers : HandlerStep(h)
  BY <1>1, <1>2, <1>5 DEF HandlerStep, JobAfter, BankInv, JobType
<1>6. CASE TopupCall \/ CoolDown \/ BankCrash \/ UNCHANGED allVars
  BY <1>1, <1>2, <1>6 DEF TopupCall, CoolDown, BankCrash, allVars, bankVars, origins
<1> QED BY <1>1, <1>2, <1>3, <1>4, <1>5, <1>6 DEF BankNext

\* Rows are never forgotten, and links are only written by jobs.
LEMMA RowKept ==
  ASSUME BankInv, HonestInv, [BankNext]_allVars, NEW t \in BankTxs
  PROVE  /\ row'[t] = "none" => row[t] = "none"
         /\ \/ matched'[t] = matched[t]
            \/ matched'[t] # None /\ \E j \in Jobs : job[j].tx = t
<1>1. ASSUME NEW j \in Jobs, LinkMatch(j)
      PROVE  /\ row' = row
             /\ \/ matched'[t] = matched[t]
                \/ matched'[t] # None /\ \E k \in Jobs : job[k].tx = t
  BY <1>1, ConstantsAssumption DEF LinkMatch, HonestInv, JobHonest, BankInv
<1>2. CASE \E j \in Jobs : JobStep(j)
  BY <1>1, <1>2 DEF JobStep, SaveRetry, RulesUnavailable, CatchError, NoRoute, RefusedByBreaker,
     Forward, Reply, RecordReply, RecordFails, CatchError, StartMatch, SkipMatch, Record, rowVars,
     BankInv
<1>3. CASE BankCall
  BY <1>3 DEF BankCall, Ingest, ReadRetry, TakeUp, ReadDispatch, IngestAcbBatch, rowVars, BankInv
<1>4. CASE TopupCall \/ (\E h \in Handlers : HandlerStep(h)) \/ CoolDown
           \/ BankCrash \/ UNCHANGED allVars
  BY <1>4 DEF TopupCall, HandlerStep, CoolDown, BankCrash, allVars, bankVars, origins, rowVars
<1> QED BY <1>2, <1>3, <1>4 DEF BankNext

LEMMA NextKnownRows ==
  ASSUME BankInv, HonestInv, KnownRows, [BankNext]_allVars
  PROVE  KnownRows'
<1> SUFFICES ASSUME NEW t \in BankTxs, row'[t] = "none"
             PROVE  matched'[t] = None /\ \A j \in Jobs : job'[j].tx # t
  BY DEF KnownRows
<1>1. row[t] = "none" /\ matched[t] = None /\ \A j \in Jobs : job[j].tx # t
  BY RowKept DEF KnownRows
<1> QED BY <1>1, RowKept, JobKept

\* Whom a handler approves for changes only when it begins or ends.
LEMMA ByStep ==
  ASSUME IInv, [BankNext]_allVars, NEW h \in Handlers
  PROVE  \/ by'[h] \in {by[h], None, Admin}
         \/ \E j \in Jobs : job[j].pc = "matching" /\ by'[h] = job[j].tx
<1>1. CASE TopupCall
  <2>1. ASSUME NEW g \in Handlers, NEW r \in Requests,
               CustomerCall(g, r) \/ AdminCall(g, r)
        PROVE  by'[h] \in {by[h], None, Admin}
    BY <2>1 DEF CustomerCall, AdminCall, ReadConfirmTransfer, ReadCancelRequest,
       ReadAdminReject, ReadAdminApprove, Begin, IInv, TypeOK
  <2> QED BY <1>1, <2>1 DEF TopupCall, CreateTopupRequest, SaveBillingInfo
<1>2. ASSUME NEW g \in Handlers, HandlerStep(g) PROVE by'[h] \in {by[h], None}
  BY <1>2 DEF HandlerStep, SaveRequest, SaveInTransaction, AddCreditInTransaction,
     CommitApproval, AbortApproval, EmitApproved, Return, IInv, TypeOK
<1>3. ASSUME NEW j \in Jobs, JobStep(j)
      PROVE  by'[h] = by[h] \/ (job[j].pc = "matching" /\ by'[h] = job[j].tx)
  <2>1. ASSUME NEW g \in Handlers, StartMatch(j, g)
        PROVE  by'[h] = by[h] \/ (job[j].pc = "matching" /\ by'[h] = job[j].tx)
    BY <2>1 DEF StartMatch, ReadAutoApprove, Begin, IInv, TypeOK
  <2>2. CASE UNCHANGED vars
    BY <2>2 DEF vars, handlerVars
  <2> QED BY <1>3, <2>1, <2>2 DEF JobStep, SaveRetry, RulesUnavailable, CatchError, NoRoute,
       RefusedByBreaker, Forward, Reply, RecordReply, RecordFails, CatchError, SkipMatch, LinkMatch
<1>4. CASE BankCrash
  BY <1>4 DEF BankCrash, Crash
<1>5. CASE BankCall \/ CoolDown \/ UNCHANGED allVars
  BY <1>5 DEF BankCall, Ingest, ReadRetry, TakeUp, ReadDispatch, IngestAcbBatch, CoolDown,
     allVars, vars, handlerVars
<1> QED BY <1>1, <1>2, <1>3, <1>4, <1>5 DEF BankNext

LEMMA SpentStep ==
  ASSUME IInv, BankInv, HonestInv, KnownRows, [BankNext]_allVars,
         NEW t \in BankTxs, Spent(t)
  PROVE  Spent(t)' /\ \A r \in Requests : EntriesBy(t, r)' = EntriesBy(t, r)
<1>1. matched'[t] # None
  BY RowKept DEF Spent
<1>2. ASSUME NEW j \in Jobs, job'[j].tx = t
      PROVE  job'[j].kind = "dispatch" \/ job'[j].link # None
  BY <1>2, JobKept DEF Spent, KnownRows
<1>3. ASSUME NEW h \in Handlers PROVE by'[h] # t
  <2>1. t # None /\ t # Admin /\ by[h] # t
    BY ConstantsAssumption DEF Spent
  <2>2. ASSUME NEW j \in Jobs, job[j].pc = "matching" PROVE job[j].tx # t
    BY <2>2 DEF Spent, BankInv, JobOK
  <2> QED BY <2>1, <2>2, ByStep
<1>4. ASSUME NEW r \in Requests PROVE EntriesBy(t, r)' = EntriesBy(t, r)
  <2>1. CASE UNCHANGED ledger
    BY <2>1 DEF EntriesBy
  <2>2. ASSUME NEW h \in Handlers, CommitApproval(h)
        PROVE  EntriesBy(t, r)' = EntriesBy(t, r)
    BY <2>2, CommitEntries DEF Spent
  <2> QED BY <2>1, <2>2, LedgerStep, StepImplementsTopup
<1> QED BY <1>1, <1>2, <1>3, <1>4 DEF Spent

\* A linked row whose earlier work is over never credits its request again,
\* however often it is retried, delivered again or dispatched.
THEOREM LinkedStaysFinal == BankSpec => LinkedIsFinal
<1>1. BankSpec => []IInv
  BY BankImplementsTopup, Invariance, PTL DEF ImplementsTopup
<1>2. BankInit => KnownRows
  BY ConstantsAssumption DEF BankInit, KnownRows, IdleJob
<1>3. ASSUME IInv, BankInv, HonestInv, KnownRows, [BankNext]_allVars
      PROVE  [\A t \in BankTxs : Spent(t) =>
                Spent(t)' /\ \A r \in Requests : EntriesBy(t, r)' = EntriesBy(t, r)]_allVars
  BY <1>3, SpentStep
<1> QED BY <1>1, <1>2, <1>3, NextKnownRows, BankInvariance, HonestInvariance, PTL
    DEF BankSpec, LinkedIsFinal
=============================================================================
