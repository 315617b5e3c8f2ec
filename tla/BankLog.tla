------------------------------- MODULE BankLog -------------------------------
(***************************************************************************)
(* Incoming bank transactions: modules/bankLog, composed with the topup    *)
(* requests they may approve.                                              *)
(*                                                                         *)
(* A webhook stores a row per bank transaction (unique txId) and processes *)
(* it in the background: find a routing rule, forward to the rule's API    *)
(* behind a circuit breaker, record the outcome, then try to match the     *)
(* transfer content with a topup request.  An administrator may retry or   *)
(* dispatch a row at any time before it succeeded.  Background work lives  *)
(* in memory only: a crash loses it, the row stays.                        *)
(*                                                                         *)
(* Which rule matches is an arbitrary choice (rules are edited freely and  *)
(* cached for minutes); there is one target API.  Left out: rule           *)
(* administration, listings, request headers, response bodies.             *)
(***************************************************************************)
EXTENDS TopupRequest

CONSTANTS
    Jobs,           \* background jobs and admin calls in flight at once
    Content,        \* [BankTxs -> Requests \cup {None}]: the request named
    Incoming,       \* bank transactions that are credits to the account
    Threshold,      \* failures that open the circuit breaker
    MaxRetries      \* bound on the calls of retryTransaction per row

ASSUME BankAssumption ==
    /\ Content \in [BankTxs -> Requests \cup {None}]
    /\ Incoming \subseteq BankTxs
    /\ Threshold \in Nat \ {0}
    /\ MaxRetries \in Nat

VARIABLES
    row,        \* bank transaction -> BANK_LOG_TX_STATUSES, "none" if unknown
    matched,    \* bank transaction -> matchedTopupRequestId
    retries,    \* bank transaction -> calls of retryTransaction so far
    failures,   \* circuit breaker: consecutive failures, up to Threshold
    cooled,     \* circuit breaker: 30 s have passed since the last failure
    job,        \* job -> what it is doing
    delivered,  \* bank transactions the target API has accepted
    lost,       \* rows whose processing was given up, or ended without a record of it (history)
    settled,    \* rows stored to be processed: the bank reported them as completed (history)
    pressed     \* rows stored as ignored that an administrator took up nevertheless (history)

rowVars == <<row, matched, retries>>
breakerVars == <<failures, cooled>>
origins == <<settled, pressed>>
bankVars == <<rowVars, breakerVars, job, delivered, lost, origins>>
allVars == <<vars, bankVars>>

-----------------------------------------------------------------------------

RowStatus == {"none", "pending", "ignored", "no_route", "failed", "success"}

JobPCs == {"idle", "retrying", "rules", "forwarding", "replied", "matching",
           "approving", "linking"}

IdleJob == [pc |-> "idle", kind |-> "none", tx |-> None, link |-> None,
            ok |-> FALSE, handler |-> None]

\* A job for t; link is matchedTopupRequestId as its copy of the row has it.
NewJob(pcj, k, t, link) ==
    [IdleJob EXCEPT !.pc = pcj, !.kind = k, !.tx = t, !.link = link]

Idle(j) == job[j].pc = "idle"
At(j, pcj, kinds) == job[j].pc = pcj /\ job[j].kind \in kinds

Goto(j, pcj) == job' = [job EXCEPT ![j].pc = pcj]
End(j) == job' = [job EXCEPT ![j] = IdleJob]

\* updateOne({ _id }, { $set: { status } }): never looks at the old status.
Record(j, s) == row' = [row EXCEPT ![job[j].tx] = s]

\* The content names a topup request and the money came in.
Matchable(t) == Content[t] # None /\ t \in Incoming /\ BankAmount[t] > 0

BankInit ==
    /\ Init
    /\ row = [t \in BankTxs |-> "none"]
    /\ matched = [t \in BankTxs |-> None]
    /\ retries = [t \in BankTxs |-> 0]
    /\ failures = 0
    /\ cooled = TRUE
    /\ job = [j \in Jobs |-> IdleJob]
    /\ delivered = {}
    /\ lost = {} /\ settled = {} /\ pressed = {}

-----------------------------------------------------------------------------

\* ingestTransaction: insert, or DUPLICATE by the unique txId; then process.
Ingest(j, t) ==
    /\ Idle(j)
    /\ row[t] = "none"
    /\ row' = [row EXCEPT ![t] = "pending"]
    /\ job' = [job EXCEPT ![j] = NewJob("rules", "single", t, None)]
    /\ settled' = settled \cup {t}
    /\ UNCHANGED <<vars, matched, retries, breakerVars, delivered, lost, pressed>>

(***************************************************************************)
(* ingestAcbBatch: the new transactions of a notification are stored, the  *)
(* others are duplicates.  Only completed TRANSACTION_UPDATEs are          *)
(* processed; the rest is stored as ignored under the same unique txId.    *)
(* slots gives each transaction to process a background job.               *)
(***************************************************************************)
IngestAcbBatch(batch, completed, slots) ==
    LET new == {t \in batch : row[t] = "none"}
        process == new \cap completed
    IN  /\ new # {}
        /\ slots \in [process -> {j \in Jobs : Idle(j)}]
        /\ \A t, u \in process : slots[t] = slots[u] => t = u
        /\ row' = [t \in BankTxs |->
                     IF t \notin new THEN row[t]
                     ELSE IF t \in process THEN "pending" ELSE "ignored"]
        /\ job' = [j \in Jobs |->
                     IF \E t \in process : slots[t] = j
                     THEN NewJob("rules", "batch",
                                 CHOOSE t \in process : slots[t] = j, None)
                     ELSE job[j]]
        /\ settled' = settled \cup process
        /\ UNCHANGED <<vars, matched, retries, breakerVars, delivered, lost, pressed>>

\* An administrator takes up any row that has not succeeded, an ignored one too.
TakeUp(t) ==
    /\ row[t] \notin {"none", "success"}
    /\ pressed' = IF row[t] = "ignored" THEN pressed \cup {t} ELSE pressed

\* retryTransaction reads the row ...
ReadRetry(j, t) ==
    /\ Idle(j) /\ TakeUp(t)
    /\ retries[t] < MaxRetries
    /\ retries' = [retries EXCEPT ![t] = @ + 1]
    /\ job' = [job EXCEPT ![j] = NewJob("retrying", "single", t, matched[t])]
    /\ UNCHANGED <<vars, row, matched, breakerVars, delivered, lost, settled>>

\* ... makes it pending again and processes its copy in the background, unless
\* the save fails.  (retryCount, written with it, is only displayed.)
SaveRetry(j) ==
    /\ At(j, "retrying", {"single"})
    /\ \/ Record(j, "pending") /\ lost' = lost \ {job[j].tx} /\ Goto(j, "rules")
       \/ UNCHANGED <<row, lost>> /\ End(j)
    /\ UNCHANGED <<vars, matched, retries, breakerVars, delivered, origins>>

\* dispatchTransaction forwards by a rule of the administrator's choice,
\* whatever the circuit breaker says.
ReadDispatch(j, t) ==
    /\ Idle(j) /\ TakeUp(t)
    /\ job' = [job EXCEPT ![j] = NewJob("forwarding", "dispatch", t, None)]
    /\ UNCHANGED <<vars, rowVars, breakerVars, delivered, lost, settled>>

-----------------------------------------------------------------------------

CircuitOpen == failures >= Threshold /\ ~cooled

\* (mutated form: matchedTopupRequestId is not looked at)
MatchAgainOrEnd(j) ==
    IF Matchable(job[j].tx) THEN Goto(j, "matching") ELSE End(j)

\* The next step after an outcome is recorded: the auto match, for money
\* received with a content (checked on the job's own copy of the row).
MatchOrEnd(j) ==
    IF Matchable(job[j].tx) /\ job[j].link = None
    THEN Goto(j, "matching")
    ELSE End(j)

\* (mutated form: the error is logged and the row left alone)
CatchErrorLogged(j) ==
    /\ End(j)
    /\ UNCHANGED <<vars, rowVars, breakerVars, delivered, lost, origins>>

\* A catch block: it writes failed and gives up the auto match.  That write
\* fails silently, and then the row stays as it is.
CatchError(j) ==
    /\ \/ Record(j, "failed") /\ UNCHANGED lost
       \/ /\ lost' = IF job[j].kind = "dispatch" THEN lost ELSE lost \cup {job[j].tx}
          /\ UNCHANGED row
    /\ End(j)
    /\ UNCHANGED <<vars, matched, retries, breakerVars, delivered, origins>>

\* _getActiveRules, or the update that records an outcome, fails.  Inside
\* _processTransaction that is caught; the batch fetches the rules outside it
\* and drops its jobs.
RulesUnavailable(j) ==
    \/ At(j, "rules", {"single", "batch"}) /\ CatchError(j)
    \/ /\ At(j, "rules", {"batch"})
       /\ lost' = lost \cup {job[k].tx : k \in {i \in Jobs : At(i, "rules", {"batch"})}}
       /\ job' = [k \in Jobs |-> IF At(k, "rules", {"batch"}) THEN IdleJob ELSE job[k]]
       /\ UNCHANGED <<vars, rowVars, breakerVars, delivered, origins>>

NoRoute(j) ==
    /\ At(j, "rules", {"single", "batch"})
    /\ Record(j, "no_route")
    /\ MatchOrEnd(j)
    /\ UNCHANGED <<vars, matched, retries, breakerVars, delivered, lost, origins>>

\* An open breaker records the failure and returns: no auto match.
RefusedByBreaker(j) ==
    /\ At(j, "rules", {"single", "batch"})
    /\ CircuitOpen
    /\ Record(j, "failed")
    /\ End(j)
    /\ UNCHANGED <<vars, matched, retries, breakerVars, delivered, lost, origins>>

Forward(j) ==
    /\ At(j, "rules", {"single", "batch"})
    /\ ~CircuitOpen
    /\ Goto(j, "forwarding")
    /\ UNCHANGED <<vars, rowVars, breakerVars, delivered, lost, origins>>

\* The API answers or the call fails or times out; a call that fails for
\* us may have been accepted over there.
Reply(j, ok, accepted) ==
    /\ job[j].pc = "forwarding"
    /\ ok => accepted
    /\ job' = [job EXCEPT ![j].pc = "replied", ![j].ok = ok]
    /\ failures' = IF ok THEN 0
                   ELSE IF failures < Threshold THEN failures + 1 ELSE failures
    /\ cooled' = ok
    /\ delivered' = IF accepted THEN delivered \cup {job[j].tx} ELSE delivered
    /\ UNCHANGED <<vars, rowVars, lost, origins>>

\* (mutated form: any answer counts as success)
RecordAnyReply(j) ==
    /\ job[j].pc = "replied"
    /\ Record(j, "success")
    /\ IF job[j].kind = "dispatch" THEN End(j) ELSE MatchOrEnd(j)
    /\ UNCHANGED <<vars, matched, retries, breakerVars, delivered, lost, origins>>

RecordReply(j) ==
    /\ job[j].pc = "replied"
    /\ Record(j, IF job[j].ok THEN "success" ELSE "failed")
    /\ IF job[j].kind = "dispatch" THEN End(j) ELSE MatchOrEnd(j)
    /\ UNCHANGED <<vars, matched, retries, breakerVars, delivered, lost, origins>>

\* The update itself fails.
RecordFails(j) == job[j].pc = "replied" /\ CatchError(j)

\* Half a minute without a failure.
CoolDown ==
    /\ ~cooled
    /\ cooled' = TRUE
    /\ UNCHANGED <<vars, rowVars, failures, job, delivered, lost, origins>>

-----------------------------------------------------------------------------

\* (mutated form: the request's status is not checked)
StartMatchUnchecked(j, h) ==
    LET t == job[j].tx
    IN  /\ job[j].pc = "matching"
        /\ status[Content[t]] # "none"
        /\ Begin(h, "autoApprove", Content[t], t, "approving")
        /\ job' = [job EXCEPT ![j].pc = "approving", ![j].handler = h]
        /\ UNCHANGED <<rowVars, breakerVars, delivered, lost, origins>>

\* _autoMatchTopupRequest: autoApprove reads the request and goes on ...
StartMatch(j, h) ==
    LET t == job[j].tx
    IN  /\ job[j].pc = "matching"
        /\ ReadAutoApprove(h, Content[t], t)
        /\ job' = [job EXCEPT ![j].pc = "approving", ![j].handler = h]
        /\ UNCHANGED <<rowVars, breakerVars, delivered, lost, origins>>

\* ... or refuses, or the feature is switched off, or the read fails.
SkipMatch(j) ==
    /\ job[j].pc = "matching"
    /\ End(j)
    /\ UNCHANGED <<vars, rowVars, breakerVars, delivered, lost, origins>>

\* The job awaiting handler h goes on to the link when autoApprove returned
\* a result, and ends when it threw.
JobAfter(h, pcj) ==
    job' = [j \in Jobs |->
              IF job[j].pc = "approving" /\ job[j].handler = h
              THEN IF pcj = "idle" THEN IdleJob ELSE [job[j] EXCEPT !.pc = pcj]
              ELSE job[j]]

HandlerStep(h) ==
    /\ \/ /\ \/ SaveRequest(h)
             \/ SaveInTransaction(h)
             \/ AddCreditInTransaction(h)
             \/ CommitApproval(h)
          /\ UNCHANGED job
       \/ AbortApproval(h) /\ JobAfter(h, "idle")
       \/ EmitApproved(h) /\ JobAfter(h, "linking")
    /\ UNCHANGED <<rowVars, breakerVars, delivered, lost, origins>>

\* The approved request is noted on the bank row, unless that update fails.
LinkMatch(j) ==
    LET t == job[j].tx
    IN  /\ job[j].pc = "linking"
        /\ matched' \in {[matched EXCEPT ![t] = Content[t]], matched}
        /\ End(j)
        /\ UNCHANGED <<vars, row, retries, breakerVars, delivered, lost, origins>>

\* A restart begins with an empty breaker and no background job: nothing
\* calls recoverPendingTransactions.
BankCrash ==
    /\ Crash
    /\ job' = [j \in Jobs |-> IdleJob]
    /\ failures' = 0
    /\ cooled' = TRUE
    /\ lost' = lost \cup {t \in BankTxs : row[t] = "pending"}
    /\ UNCHANGED <<rowVars, delivered, origins>>

-----------------------------------------------------------------------------

\* What else happens to topup requests, from their own controllers.
TopupCall ==
    /\ \/ \E c \in Customers, r \in Requests, a \in Amounts, ratio \in Ratios,
             requestInvoice \in BOOLEAN :
               CreateTopupRequest(c, r, a, ratio, requestInvoice)
       \/ \E c \in Customers : SaveBillingInfo(c)
       \/ \E h \in Handlers, r \in Requests : CustomerCall(h, r) \/ AdminCall(h, r)
    /\ UNCHANGED bankVars

BankCall ==
    \/ \E j \in Jobs, t \in BankTxs :
          Ingest(j, t) \/ ReadRetry(j, t) \/ ReadDispatch(j, t)
    \/ \E batch, completed \in SUBSET BankTxs :
          \E slots \in [{t \in batch \cap completed : row[t] = "none"} -> Jobs] :
              IngestAcbBatch(batch, completed, slots)

JobStep(j) ==
    \/ SaveRetry(j)
    \/ RulesUnavailable(j)
    \/ NoRoute(j)
    \/ RefusedByBreaker(j)
    \/ Forward(j)
    \/ \E ok, accepted \in BOOLEAN : Reply(j, ok, accepted)
    \/ RecordReply(j)
    \/ RecordFails(j)
    \/ \E h \in Handlers : StartMatch(j, h)
    \/ SkipMatch(j)
    \/ LinkMatch(j)

BankNext ==
    \/ TopupCall
    \/ BankCall
    \/ \E h \in Handlers : HandlerStep(h)
    \/ \E j \in Jobs : JobStep(j)
    \/ CoolDown
    \/ BankCrash

\* Background promises and handlers are driven on by the event loop, and
\* every HTTP call to the target API ends by its timeout.
BankFairness ==
    /\ \A j \in Jobs : WF_allVars(JobStep(j))
    /\ \A h \in Handlers : WF_allVars(HandlerStep(h)) /\ SF_allVars(SaveRequest(h) /\ HandlerStep(h))

BankSpec == BankInit /\ [][BankNext]_allVars
FairBankSpec == BankSpec /\ BankFairness

-----------------------------------------------------------------------------

JobType ==
    [pc : JobPCs, kind : {"none", "single", "batch", "dispatch"},
     tx : BankTxs \cup {None}, link : Requests \cup {None}, ok : BOOLEAN,
     handler : Handlers \cup {None}]

BankTypeOK ==
    /\ TypeOK
    /\ row \in [BankTxs -> RowStatus]
    /\ matched \in [BankTxs -> Requests \cup {None}]
    /\ retries \in [BankTxs -> 0 .. MaxRetries]
    /\ failures \in 0 .. Threshold
    /\ cooled \in BOOLEAN
    /\ job \in [Jobs -> JobType]
    /\ delivered \subseteq BankTxs
    /\ lost \subseteq BankTxs /\ settled \subseteq BankTxs /\ pressed \subseteq BankTxs

EntriesBy(t, r) == {i \in 1 .. Len(ledger[r]) : ledger[r][i] = t}

\* Bank-log processing is one more caller of autoApprove: as far as the
\* topup requests can tell it only does what their own specification allows.
ImplementsTopup == TopupSpec

\* A bank row linked to a request did pay for it: the link is written only
\* after autoApprove's transaction has committed.
LinkedIsCredited ==
    \A t \in BankTxs : matched[t] # None => EntriesBy(t, matched[t]) # {}

\* The money behind an automatic credit was reported as completed, unless an
\* administrator took up a row stored as ignored; it is a credit to the account,
\* was meant for that very request, and was enough, through retries, duplicates
\* and races.
CreditFollowsTheMoney ==
    \A r \in Requests, t \in BankTxs :
        EntriesBy(t, r) # {} =>
            /\ t \in settled \cup pressed
            /\ t \in Incoming /\ Content[t] = r /\ BankAmount[t] >= amount[r]

\* No row reads success unless the target API took the transaction, whoever
\* wrote the row last.
SuccessWasDelivered ==
    \A t \in BankTxs : row[t] = "success" => t \in delivered

\* All of it: a row says success of what was delivered, is linked to what it
\* paid for, and pays for nothing else.
BankIsHonest ==
    BankTypeOK /\ LinkedIsCredited /\ CreditFollowsTheMoney /\ SuccessWasDelivered

\* Once a row is linked and the work that began before the link is over,
\* the row is spent: retries never credit its request again, even when an
\* outdated confirmation has reopened the request meanwhile.
Spent(t) ==
    /\ matched[t] # None
    /\ \A j \in Jobs :
          job[j].tx = t => job[j].kind = "dispatch" \/ job[j].link # None
    /\ \A h \in Handlers : by[h] # t

LinkedIsFinal ==
    [][\A t \in BankTxs : Spent(t) =>
          Spent(t)' /\ \A r \in Requests : EntriesBy(t, r)' = EntriesBy(t, r)]_allVars

\* A pending row gets an outcome, unless its processing was given up, or neither
\* the outcome nor the failure to record it could be written.
PendingIsProcessed ==
    \A t \in BankTxs :
        row[t] = "pending" ~> (row[t] # "pending" \/ t \in lost)
=============================================================================
