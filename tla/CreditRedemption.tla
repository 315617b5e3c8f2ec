-------------------------- MODULE CreditRedemption --------------------------
(***************************************************************************)
(* Credit from codes: voucher redemption and SmaxAi codes                  *)
(* (modules/customer/credit/credit.service), and the life of vouchers      *)
(* (modules/course/courseConfig/courseVoucher.service and its cron).       *)
(*                                                                         *)
(* A redemption first reads the voucher outside any transaction, then      *)
(* takes a use of it, writes its CreditTransactions and adds the credit,   *)
(* all in one MongoDB transaction (see TopupRequest for what a transaction *)
(* holds and when it conflicts).  A SmaxAi code is reserved by a pending   *)
(* CreditTransaction, validated by a third party, then granted.            *)
(* Administrators change vouchers by read, check, write without looking    *)
(* again.                                                                  *)
(*                                                                         *)
(* A voucher stands for its code; its kind, credits and limits never       *)
(* change.  Left out: vouchers worth nothing, which leave no               *)
(* CreditTransaction behind; listings, exports, logs.                      *)
(***************************************************************************)
EXTENDS Integers, Sequences, FiniteSets, Functions

CONSTANTS
    Customers, EduCustomers,    \* isEduAccount
    Vouchers, Shared,           \* the SHARED ones; the others are SINGLE
    Credits,                    \* [Vouchers -> [CreditTypes -> Nat]]
    MaxUses, UsagePerUser,      \* [Vouchers -> Nat]; 0 per user: no limit
    Codes, CodeAmount,          \* SmaxAi codes and what they are worth
    Keys,                       \* idempotency keys sent by clients
    AdminStatuses,              \* statuses administrators give (a bound)
    Handlers,                   \* requests in flight at the same time
    None

CreditTypes == {"MAIN", "REWARD", "EDU"}

ASSUME RedemptionAssumption ==
    /\ IsFiniteSet(Handlers)
    /\ EduCustomers \subseteq Customers
    /\ Shared \subseteq Vouchers
    /\ Credits \in [Vouchers -> [CreditTypes -> Nat]]
    /\ \A v \in Vouchers : \E ty \in CreditTypes : Credits[v][ty] > 0
    /\ MaxUses \in [Vouchers -> Nat \ {0}]
    /\ UsagePerUser \in [Vouchers -> Nat]
    /\ CodeAmount \in [Codes -> Nat]
    /\ AdminStatuses \subseteq {"inactive", "active", "used", "expired"}
    /\ None \notin Customers \cup Vouchers \cup Codes \cup Keys \cup AdminStatuses

VARIABLES
    voucher,    \* voucher -> status; "none" before creation, "removed" by TTL
    uses,       \* voucher -> currentUses
    expiry,     \* voucher -> is expiresAt unset, ahead or past
    deleted,    \* vouchers soft-deleted (their code is renamed)
    redeemed,   \* voucher -> its groups of CreditTransactions, in order
    smax,       \* code -> its CreditTransaction, if any
    balance,    \* customer -> credit type -> amount
    pc,         \* handler -> where it stands
    call,       \* handler -> what it was called with
    stale,      \* handler -> documents changed since its snapshot
    reopened,   \* voucher -> how often an update took it back from used (history)
    orphaned    \* codes whose handler died or failed to grant (history)

voucherVars == <<voucher, uses, expiry, deleted, redeemed, reopened>>
smaxVars == <<smax, orphaned>>
handlerVars == <<pc, call, stale>>
vars == <<voucherVars, smaxVars, balance, handlerVars>>

VoucherStatuses == {"inactive", "active", "used", "expired"}
Finished == {"used", "expired"}

\* What a handler was called with; over: its copy of the voucher reads used or expired.
Call(c, o, k, s) ==
    [cust |-> c, on |-> o, key |-> k, status |-> s,
     over |-> o \in Vouchers /\ voucher[o] \in Finished]
NoCall == [cust |-> None, on |-> None, key |-> None, status |-> None, over |-> FALSE]
NoTx == [status |-> "none", cust |-> None, key |-> None]

-----------------------------------------------------------------------------

Exists(v) == voucher[v] \notin {"none", "removed"}

InTransaction(h) == pc[h] \in {"counted", "taken", "paid", "granting"}
VoucherHeld(v) == \E h \in Handlers : pc[h] \in {"taken", "paid"} /\ call[h].on = v
CustomerHeld(c) ==
    \E h \in Handlers : pc[h] \in {"paid", "granting"} /\ call[h].cust = c

\* Documents v and c change: the open snapshots that include them are outdated.
Touched(vs, cs) ==
    [h \in Handlers |->
        IF InTransaction(h)
        THEN stale[h] \cup (IF call[h].on \in vs THEN {"voucher"} ELSE {})
                      \cup (IF call[h].cust \in cs THEN {"customer"} ELSE {})
        ELSE {}]

\* Redemptions of v by c (distinct transactionGroupIds).
UsesBy(c, v) == {i \in 1 .. Len(redeemed[v]) : redeemed[v][i].cust = c}

\* Two vouchers whose CreditTransactions carry the same `${key}-TYPE`.
Overlap(v, w) == \E ty \in CreditTypes : Credits[v][ty] > 0 /\ Credits[w][ty] > 0

KeySeen(k) ==
    \E w \in Vouchers : Overlap(w, w)
        /\ \E i \in 1 .. Len(redeemed[w]) : redeemed[w][i].key = k

\* The unique index on idempotencyKey refuses h's inserts.
KeyTaken(k, v, h) ==
    /\ k # None
    /\ \E w \in Vouchers : Overlap(v, w) /\
          \/ \E i \in 1 .. Len(redeemed[w]) : redeemed[w][i].key = k
          \/ \E g \in Handlers \ {h} :
                pc[g] = "paid" /\ call[g].on = w /\ call[g].key = k

Add(credit, c) ==
    [balance EXCEPT ![c] = [ty \in CreditTypes |-> @[ty] + credit[ty]]]

Begin(h, state, args) ==
    /\ pc[h] = "idle"
    /\ pc' = [pc EXCEPT ![h] = state]
    /\ call' = [call EXCEPT ![h] = args]

Goto(h, state) == pc' = [pc EXCEPT ![h] = state] /\ UNCHANGED call

Return(h) ==
    /\ pc' = [pc EXCEPT ![h] = "idle"]
    /\ call' = [call EXCEPT ![h] = NoCall]

Init ==
    /\ voucher = [v \in Vouchers |-> "none"]
    /\ uses = [v \in Vouchers |-> 0]
    /\ expiry = [v \in Vouchers |-> "never"]
    /\ deleted = {}
    /\ redeemed = [v \in Vouchers |-> <<>>]
    /\ smax = [x \in Codes |-> NoTx]
    /\ balance = [c \in Customers |-> [ty \in CreditTypes |-> 0]]
    /\ pc = [h \in Handlers |-> "idle"]
    /\ call = [h \in Handlers |-> NoCall]
    /\ stale = [h \in Handlers |-> {}]
    /\ reopened = [v \in Vouchers |-> 0]
    /\ orphaned = {}

-----------------------------------------------------------------------------

\* createVoucher, and each document bulkCreateVouchers inserts (unordered).
CreateVoucher(v, status, expires) ==
    /\ voucher[v] = "none"
    /\ voucher' = [voucher EXCEPT ![v] = status]
    /\ expiry' = [expiry EXCEPT ![v] = IF expires THEN "ahead" ELSE "never"]
    /\ UNCHANGED <<uses, deleted, redeemed, reopened, smaxVars, balance, handlerVars>>

\* (mutated form: any voucher will do)
ReadAnyVoucher(h, v, status) ==
    /\ Exists(v) /\ v \notin deleted
    /\ Begin(h, "updating", Call(None, v, None, status))
    /\ UNCHANGED <<voucherVars, smaxVars, balance, stale>>

\* updateVoucherStatus reads the voucher and refuses a used or expired one ...
ReadVoucherStatus(h, v, status) ==
    /\ Exists(v) /\ v \notin deleted
    /\ voucher[v] \notin Finished
    /\ Begin(h, "updating", Call(None, v, None, status))
    /\ UNCHANGED <<voucherVars, smaxVars, balance, stale>>

\* ... then findByIdAndUpdate sets it, whatever it has become.
WriteVoucherStatus(h) ==
    LET v == call[h].on
    IN  /\ pc[h] = "updating"
        /\ ~VoucherHeld(v)
        /\ IF Exists(v)
           THEN /\ voucher' = [voucher EXCEPT ![v] = call[h].status]
                /\ reopened' = IF voucher[v] = "used" /\ call[h].status # "used"
                               THEN [reopened EXCEPT ![v] = @ + 1] ELSE reopened
                /\ stale' = Touched({v}, {})
           ELSE UNCHANGED <<voucher, reopened, stale>>
        /\ Return(h)
        /\ UNCHANGED <<uses, expiry, deleted, redeemed, smaxVars, balance>>

\* updateBatchStatus: updateMany tests and sets each voucher in one step.
UpdateBatchStatus(v, status) ==
    /\ Exists(v) /\ voucher[v] \notin Finished
    /\ ~VoucherHeld(v)
    /\ voucher' = [voucher EXCEPT ![v] = status]
    /\ stale' = Touched({v}, {})
    /\ UNCHANGED <<uses, expiry, deleted, redeemed, reopened, smaxVars,
                   balance, pc, call>>

\* deleteVoucher and deleteVouchersByBatch: read, then save as deleted under
\* a renamed code.  Status and uses are not written.
ReadDelete(h, v) ==
    /\ Exists(v) /\ v \notin deleted
    /\ Begin(h, "deleting", Call(None, v, None, None))
    /\ UNCHANGED <<voucherVars, smaxVars, balance, stale>>

SaveDelete(h) ==
    LET v == call[h].on
    IN  /\ pc[h] = "deleting"
        /\ ~VoucherHeld(v)
        /\ deleted' = IF Exists(v) THEN deleted \cup {v} ELSE deleted
        /\ stale' = Touched({v}, {})
        /\ Return(h)
        /\ UNCHANGED <<voucher, uses, expiry, redeemed, reopened, smaxVars, balance>>

\* The expiry date passes.
Expire(v) ==
    /\ expiry[v] = "ahead"
    /\ expiry' = [expiry EXCEPT ![v] = "past"]
    /\ UNCHANGED <<voucher, uses, deleted, redeemed, reopened, smaxVars,
                   balance, handlerVars>>

\* autoUpdateExpiredVouchers, every 15 minutes and at startup.
AutoUpdateExpired(v) ==
    /\ Exists(v) /\ expiry[v] = "past"
    /\ voucher[v] \in {"active", "inactive"}
    /\ ~VoucherHeld(v)
    /\ voucher' = [voucher EXCEPT ![v] = "expired"]
    /\ stale' = Touched({v}, {})
    /\ UNCHANGED <<uses, expiry, deleted, redeemed, reopened, smaxVars,
                   balance, pc, call>>

\* deleteAt is past: set with the date of a SINGLE voucher, unset when used.
TtlDue(v) == v \notin Shared /\ expiry[v] = "past" /\ redeemed[v] = <<>>

\* The TTL monitor removes the document.
RemoveByTtl(v) ==
    /\ Exists(v) /\ TtlDue(v)
    /\ ~VoucherHeld(v)
    /\ voucher' = [voucher EXCEPT ![v] = "removed"]
    /\ stale' = Touched({v}, {})
    /\ UNCHANGED <<uses, expiry, deleted, redeemed, reopened, smaxVars,
                   balance, pc, call>>

-----------------------------------------------------------------------------

\* redeemVoucher, before its transaction: the key was not credited yet, the
\* voucher is active, not past its date, not used up, and open to c.
ReadVoucher(h, c, v, key) ==
    /\ key # None => ~KeySeen(key)
    /\ voucher[v] = "active" /\ v \notin deleted
    /\ expiry[v] # "past"
    /\ uses[v] < MaxUses[v]
    /\ Credits[v]["EDU"] > 0 => c \in EduCustomers
    /\ Begin(h, "checked", Call(c, v, key, None))
    /\ UNCHANGED <<voucherVars, smaxVars, balance, stale>>

\* (mutated form: one redemption more than the limit)
CountUsesInclusive(h) ==
    LET v == call[h].on
    IN  /\ pc[h] = "checked"
        /\ v \in Shared /\ UsagePerUser[v] > 0
        /\ Cardinality(UsesBy(call[h].cust, v)) <= UsagePerUser[v]
        /\ Goto(h, "counted")
        /\ stale' = [stale EXCEPT ![h] = {}]
        /\ UNCHANGED <<voucherVars, smaxVars, balance>>

\* The transaction of a SHARED voucher with a limit per customer begins by
\* counting this customer's redemptions: that read takes the snapshot.
CountUses(h) ==
    LET v == call[h].on
    IN  /\ pc[h] = "checked"
        /\ v \in Shared /\ UsagePerUser[v] > 0
        /\ Cardinality(UsesBy(call[h].cust, v)) < UsagePerUser[v]
        /\ Goto(h, "counted")
        /\ stale' = [stale EXCEPT ![h] = {}]
        /\ UNCHANGED <<voucherVars, smaxVars, balance>>

\* The filter of findOneAndUpdate: a SINGLE voucher only has to be active.
UseAvailable(v) ==
    /\ voucher[v] = "active"
    /\ v \in Shared => uses[v] < MaxUses[v]

\* findOneAndUpdate in the session takes one use of the voucher.
TakeUse(h) ==
    LET v == call[h].on
    IN  /\ IF v \in Shared /\ UsagePerUser[v] > 0
           THEN pc[h] = "counted" ELSE pc[h] = "checked"
        /\ "voucher" \notin stale[h]
        /\ ~VoucherHeld(v)
        /\ UseAvailable(v)
        /\ Goto(h, "taken")
        /\ UNCHANGED <<voucherVars, smaxVars, balance, stale>>

\* insertMany of the CreditTransactions and $inc of the customer's credits.
PayVoucher(h) ==
    /\ pc[h] = "taken"
    /\ ~KeyTaken(call[h].key, call[h].on, h)
    /\ "customer" \notin stale[h]
    /\ ~CustomerHeld(call[h].cust)
    /\ Goto(h, "paid")
    /\ UNCHANGED <<voucherVars, smaxVars, balance, stale>>

\* The commit makes it all visible: the last use also marks the voucher used
\* and a SINGLE voucher loses its deleteAt (see TtlDue).
CommitVoucher(h) ==
    LET v == call[h].on
        c == call[h].cust
    IN  /\ pc[h] = "paid"
        /\ uses' = [uses EXCEPT ![v] = @ + 1]
        /\ voucher' = IF v \notin Shared \/ uses[v] + 1 >= MaxUses[v]
                      THEN [voucher EXCEPT ![v] = "used"] ELSE voucher
        /\ redeemed' = [redeemed EXCEPT ![v] =
                          Append(@, [cust |-> c, key |-> call[h].key])]
        /\ balance' = Add(Credits[v], c)
        /\ stale' = [Touched({v}, {c}) EXCEPT ![h] = {}]
        /\ Return(h)
        /\ UNCHANGED <<expiry, deleted, reopened, smaxVars>>

\* A refused limit or filter, a duplicate key, a write conflict, a failure.
AbortVoucher(h) ==
    /\ pc[h] \in {"checked", "counted", "taken", "paid"}
    /\ stale' = [stale EXCEPT ![h] = {}]
    /\ Return(h)
    /\ UNCHANGED <<voucherVars, smaxVars, balance>>

-----------------------------------------------------------------------------

\* redeemSmaxAi: the code is reserved by a pending CreditTransaction.  The
\* indexes on {source, reference} and idempotencyKey admit one per code and
\* per key, whatever became of it.
ReserveCode(h, c, x, key) ==
    /\ smax[x].status = "none"
    /\ key # None => \A y \in Codes : smax[y].key # key
    /\ Begin(h, "asking", Call(c, x, key, None))
    /\ smax' = [smax EXCEPT ![x] = [status |-> "pending", cust |-> c, key |-> key]]
    /\ UNCHANGED <<voucherVars, orphaned, balance, stale>>

\* The third party refuses the code, or cannot be reached.
RefuseCode(h) ==
    /\ pc[h] = "asking"
    /\ smax' = [smax EXCEPT ![call[h].on].status = "failed"]
    /\ Return(h)
    /\ UNCHANGED <<voucherVars, orphaned, balance, stale>>

\* The code is valid: a transaction adds the reward credit ...
GrantCode(h) ==
    /\ pc[h] = "asking"
    /\ ~CustomerHeld(call[h].cust)
    /\ Goto(h, "granting")
    /\ stale' = [stale EXCEPT ![h] = {}]
    /\ UNCHANGED <<voucherVars, smaxVars, balance>>

\* ... and completes the CreditTransaction.
CommitCode(h) ==
    LET x == call[h].on
        c == call[h].cust
    IN  /\ pc[h] = "granting"
        /\ smax' = [smax EXCEPT ![x].status = "success"]
        /\ balance' = Add([ty \in CreditTypes |->
                             IF ty = "REWARD" THEN CodeAmount[x] ELSE 0], c)
        /\ stale' = [Touched({}, {c}) EXCEPT ![h] = {}]
        /\ Return(h)
        /\ UNCHANGED <<voucherVars, orphaned>>

\* The transaction fails (a write conflict does it): the answer is a 500 and
\* the CreditTransaction stays pending.
AbortCode(h) ==
    /\ pc[h] \in {"asking", "granting"}
    /\ orphaned' = orphaned \cup {call[h].on}
    /\ stale' = [stale EXCEPT ![h] = {}]
    /\ Return(h)
    /\ UNCHANGED <<voucherVars, smax, balance>>

\* Failed zero-amount CreditTransactions are removed after 30 days.
ForgetCode(x) ==
    /\ smax[x].status = "failed"
    /\ smax' = [smax EXCEPT ![x] = NoTx]
    /\ UNCHANGED <<voucherVars, orphaned, balance, handlerVars>>

Crash ==
    /\ pc' = [h \in Handlers |-> "idle"]
    /\ call' = [h \in Handlers |-> NoCall]
    /\ stale' = [h \in Handlers |-> {}]
    /\ orphaned' = orphaned \cup {x \in Codes : smax[x].status = "pending"}
    /\ UNCHANGED <<voucherVars, smax, balance>>

-----------------------------------------------------------------------------

Advance(h) ==
    \/ WriteVoucherStatus(h) \/ SaveDelete(h)
    \/ CountUses(h) \/ TakeUse(h) \/ PayVoucher(h) \/ CommitVoucher(h)
    \/ AbortVoucher(h)
    \/ RefuseCode(h) \/ GrantCode(h) \/ CommitCode(h) \/ AbortCode(h)

AdminStep ==
    \/ \E v \in Vouchers, status \in AdminStatuses, expires \in BOOLEAN :
          CreateVoucher(v, status, expires)
    \/ \E h \in Handlers, v \in Vouchers, status \in AdminStatuses :
          ReadVoucherStatus(h, v, status)
    \/ \E v \in Vouchers, status \in AdminStatuses : UpdateBatchStatus(v, status)
    \/ \E h \in Handlers, v \in Vouchers : ReadDelete(h, v)

ClockStep ==
    \/ \E v \in Vouchers : Expire(v) \/ AutoUpdateExpired(v) \/ RemoveByTtl(v)
    \/ \E x \in Codes : ForgetCode(x)

CustomerStep ==
    \E h \in Handlers, c \in Customers, key \in Keys \cup {None} :
        \/ \E v \in Vouchers : ReadVoucher(h, c, v, key)
        \/ \E x \in Codes : ReserveCode(h, c, x, key)

Next ==
    \/ AdminStep
    \/ ClockStep
    \/ CustomerStep
    \/ \E h \in Handlers : Advance(h)
    \/ Crash

Spec == Init /\ [][Next]_vars

-----------------------------------------------------------------------------

Calls ==
    [cust : Customers \cup {None}, on : Vouchers \cup Codes \cup {None},
     key : Keys \cup {None}, status : AdminStatuses \cup {None}, over : BOOLEAN]

TypeOK ==
    /\ voucher \in [Vouchers -> VoucherStatuses \cup {"none", "removed"}]
    /\ uses \in [Vouchers -> Nat]
    /\ expiry \in [Vouchers -> {"never", "ahead", "past"}]
    /\ deleted \subseteq Vouchers
    /\ redeemed \in [Vouchers -> Seq([cust : Customers, key : Keys \cup {None}])]
    /\ smax \in [Codes -> [status : {"none", "pending", "failed", "success"},
                           cust : Customers \cup {None}, key : Keys \cup {None}]]
    /\ balance \in [Customers -> [CreditTypes -> Nat]]
    /\ pc \in [Handlers -> {"idle", "updating", "deleting", "checked", "counted",
                            "taken", "paid", "asking", "granting"}]
    /\ call \in [Handlers -> Calls]
    /\ stale \in [Handlers -> SUBSET {"voucher", "customer"}]
    /\ reopened \in [Vouchers -> Nat] /\ orphaned \subseteq Codes

\* What the redemptions of c, and the codes granted to c, add up to.
Redeemed == {v \in Vouchers : redeemed[v] # <<>>}
VoucherCredit(c, ty) ==
    SumFunctionOnSet([v \in Vouchers |-> Cardinality(UsesBy(c, v)) * Credits[v][ty]],
                     Redeemed)
GrantedCodes(c) == {x \in Codes : smax[x].status = "success" /\ smax[x].cust = c}
CodeCredit(c) == SumFunctionOnSet(CodeAmount, GrantedCodes(c))

\* Every credit on an account comes from a recorded redemption or a granted
\* code, and each of those was added exactly once.
BalanceIsExplained ==
    \A c \in Customers, ty \in CreditTypes :
        balance[c][ty] =
            VoucherCredit(c, ty) + IF ty = "REWARD" THEN CodeCredit(c) ELSE 0

\* currentUses counts the redemptions and stays within maxUses, also when
\* customers redeem the last use together.  An outdated status update that takes a
\* SINGLE voucher back from used costs one more redemption at most.
UsesAreBounded ==
    \A v \in Vouchers :
        /\ uses[v] = Len(redeemed[v])
        /\ uses[v] <= MaxUses[v] + (IF v \in Shared THEN 0 ELSE reopened[v])

\* usagePerUser holds although two requests of a customer may count at the
\* same time: both then write the voucher, and one of them conflicts.
PerUserLimit ==
    \A v \in Shared, c \in Customers :
        UsagePerUser[v] > 0 => Cardinality(UsesBy(c, v)) <= UsagePerUser[v]

\* A key credits each credit type at most once, across vouchers and retries.
KeyCreditsOnce ==
    \A v, w \in Vouchers :
        \A i \in 1 .. Len(redeemed[v]), j \in 1 .. Len(redeemed[w]) :
            /\ redeemed[v][i].key = redeemed[w][j].key
            /\ redeemed[v][i].key # None
            /\ Overlap(v, w)
            => v = w /\ i = j

\* A code waiting for an answer is waited for by a handler, unless that
\* handler failed or died.
CodesAreHandled ==
    \A x \in Codes : smax[x].status = "pending" =>
        x \in orphaned \/ \E h \in Handlers : call[h].on = x

\* All of it: credit comes from recorded redemptions, and those stay within
\* every limit: uses, uses of one customer, keys, codes being checked.
RedemptionsAreExplained ==
    /\ TypeOK
    /\ BalanceIsExplained
    /\ UsesAreBounded
    /\ PerUserLimit
    /\ KeyCreditsOnce
    /\ CodesAreHandled

\* A used or expired voucher is over for good, unless a handler is at work on it
\* that looked at it before: whoever looks at it now leaves it as it is.
SeenByAll(v) == \A h \in Handlers : call[h].on = v => call[h].over
FinishedIsFinal ==
    [][\A v \in Vouchers : voucher[v] \in Finished /\ SeenByAll(v) =>
          /\ redeemed'[v] = redeemed[v]
          /\ voucher'[v] \in {voucher[v], "removed"}]_vars
=============================================================================
