------------------------------- MODULE ZCode -------------------------------
(***************************************************************************)
(* Licence codes: modules/zcode.  Administrators import codes in batches;  *)
(* an external shop sends the half of a code it knows (sku and partial     *)
(* code) and is handed the other half, once.                               *)
(*                                                                         *)
(* redeemCode takes a code with one conditional update.  The handlers of   *)
(* the administrators find documents, look at their status and then update *)
(* them by id alone, so what they saw may be out of date: updateStatus,    *)
(* updateBulkStatus, retryZCode and deleteById, and so is the marking of   *)
(* ambiguous codes by redeemCode itself.                                   *)
(*                                                                         *)
(* Left out: encryption, prices, call times, error reasons, statistics, and *)
(* a failed lookup of a stored answer, which is logged and ignored.        *)
(***************************************************************************)
EXTENDS Integers, FiniteSets

CONSTANTS
    KeyCodes,   \* key codes that may be imported
    Partials,   \* what the shop sends: sku, partB and partC
    PartialOf,  \* [KeyCodes -> Partials]
    Headers,    \* values of the X-Idempotency-Key header
    Requests,   \* requests in flight at the same time
    Nothing     \* no header, no code

ASSUME ZCodeAssumption ==
    /\ PartialOf \in [KeyCodes -> Partials]
    /\ IsFiniteSet(KeyCodes)
    /\ Nothing \notin Headers \cup KeyCodes

VARIABLES
    status,     \* code -> its document's status, "none" without a document
    answers,    \* key -> the code of the stored answer
    work,       \* handler -> what it is about to write
    handed,     \* code -> how often its other half was handed out (history)
    overtaken   \* codes handed out under an administrator's eyes (history)

docs == <<status, answers>>
history == <<handed, overtaken>>
codeVars == <<docs, work, history>>

-----------------------------------------------------------------------------

Status == {"available", "unavailable", "success", "error"}
Settable == {"available", "unavailable"}

\* Handlers that write to documents whatever their status is by then.
Unconditional == {"set", "delete"}

Idle == [kind |-> "idle", codes |-> {}, target |-> Nothing, key |-> Nothing]
Job(kind, codes, target, key) ==
    [kind |-> kind, codes |-> codes, target |-> target, key |-> key]

Stored == {c \in KeyCodes : status[c] # "none"}
Unspent == {c \in Stored : status[c] # "success"}

\* Updates by id find a deleted document no more, even if its code comes back.
ById == {"set", "delete", "take"}
Without(gone) ==
    [h \in Requests |->
        IF work[h].kind \in ById THEN [work[h] EXCEPT !.codes = @ \ gone] ELSE work[h]]

Start(h, job) ==
    /\ work[h] = Idle
    /\ work' = [work EXCEPT ![h] = job]
    /\ UNCHANGED <<docs, history>>

Done(h) == work' = [work EXCEPT ![h] = Idle]

CodesInit ==
    /\ status = [c \in KeyCodes |-> "none"]
    /\ answers = [k \in Headers |-> Nothing]
    /\ work = [h \in Requests |-> Idle]
    /\ handed = [c \in KeyCodes |-> 0]
    /\ overtaken = {}

-----------------------------------------------------------------------------
(* Administrators.                                                         *)

\* createZCodes: refused if one of the codes is stored already.
ReadCreate(h, codes) ==
    /\ codes # {} /\ codes \cap Stored = {}
    /\ Start(h, Job("insert", codes, Nothing, Nothing))

\* insertMany stops at the first code that another import stored meanwhile
\* (keyCode is unique); those before it stay.
InsertCodes(h) ==
    /\ work[h].kind = "insert"
    /\ \E inserted \in SUBSET (work[h].codes \ Stored) :
          /\ work[h].codes \cap Stored = {} => inserted = work[h].codes
          /\ status' = [c \in KeyCodes |-> IF c \in inserted THEN "available" ELSE status[c]]
    /\ Done(h)
    /\ UNCHANGED <<answers, history>>

\* updateStatus of one code, and updateBulkStatus of the valid ones in a list.
MaySet(c, target) == c \in Unspent /\ status[c] # target
ReadStatus(h, codes, target) ==
    /\ codes # {} /\ \A c \in codes : MaySet(c, target)
    /\ Start(h, Job("set", codes, target, Nothing))

ReadRetry(h, c) ==
    /\ status[c] = "error"
    /\ Start(h, Job("set", {c}, "available", Nothing))

\* The three of them, and redeemCode for ambiguous codes.
WriteStatus(h) ==
    /\ work[h].kind = "set"
    /\ status' = [c \in KeyCodes |-> IF c \in work[h].codes THEN work[h].target ELSE status[c]]
    /\ Done(h)
    /\ UNCHANGED <<answers, history>>

MarkDuplicates(codes) ==
    /\ codes \cap Unspent # {}
    /\ status' = [c \in KeyCodes |-> IF c \in codes \cap Unspent THEN "error" ELSE status[c]]
    /\ UNCHANGED <<answers, work, history>>

ReadDeleteById(h, c) ==
    /\ c \in Unspent
    /\ Start(h, Job("delete", {c}, Nothing, Nothing))

DeleteById(h) ==
    /\ work[h].kind = "delete"
    /\ status' = [c \in KeyCodes |-> IF c \in work[h].codes THEN "none" ELSE status[c]]
    /\ work' = [Without(work[h].codes) EXCEPT ![h] = Idle]
    /\ UNCHANGED <<answers, history>>

\* deleteBatch, deleteList
DeleteCodes(codes) ==
    LET gone == codes \cap Unspent
    IN  /\ gone # {}
        /\ status' = [c \in KeyCodes |-> IF c \in gone THEN "none" ELSE status[c]]
        /\ work' = Without(gone)
        /\ UNCHANGED <<answers, history>>

-----------------------------------------------------------------------------
(* The shop.                                                               *)

\* verifyIdempotency: a stored answer is sent again and changes nothing.
BeginRedeem(h, p, k) ==
    /\ k # Nothing => answers[k] = Nothing
    /\ Start(h, Job("redeem", {c \in KeyCodes : PartialOf[c] = p}, Nothing, k))

FindAvailable(h) ==
    LET found == {c \in work[h].codes : status[c] = "available"}
        key == work[h].key
    IN  /\ work[h].kind = "redeem"
        /\ work' = [work EXCEPT ![h] =
                      IF found = {} THEN Idle
                      ELSE IF Cardinality(found) = 1 THEN Job("take", found, Nothing, key)
                      ELSE Job("set", found, "error", Nothing)]
        /\ UNCHANGED <<docs, history>>

\* An unconditional write to c is on its way.
Watched(c) == \E h \in Requests : work[h].kind \in Unconditional /\ c \in work[h].codes

\* (mutated form: whatever the status is by now)
TakeAnyway(h) == work[h].codes
Takeable(h) == {c \in work[h].codes : status[c] = "available"}

TakeCode(h) ==
    /\ work[h].kind = "take"
    /\ \E c \in Takeable(h) :
          /\ status' = [status EXCEPT ![c] = "success"]
          /\ handed' = [handed EXCEPT ![c] = @ + 1]
          /\ overtaken' = IF Watched(c) THEN overtaken \cup {c} ELSE overtaken
          /\ work' = [work EXCEPT ![h] =
                        IF work[h].key = Nothing THEN Idle ELSE [@ EXCEPT !.kind = "answer"]]
    /\ UNCHANGED answers

\* ZCODE_RACE_CONDITION
LoseCode(h) ==
    /\ work[h].kind = "take" /\ Takeable(h) = {}
    /\ Done(h)
    /\ UNCHANGED <<docs, history>>

\* saveIdempotencyResult, after the answer was sent; a duplicate is ignored.
\* (mutated form: the last answer is kept)
KeepLast(k, c) == c
KeepFirst(k, c) == IF answers[k] = Nothing THEN c ELSE answers[k]
SaveAnswer(h, c) ==
    /\ work[h].kind = "answer" /\ c \in work[h].codes
    /\ answers' = [answers EXCEPT ![work[h].key] = KeepFirst(work[h].key, c)]
    /\ Done(h)
    /\ UNCHANGED <<status, history>>

\* The TTL index forgets answers after 24 hours.
ForgetAnswer(k) ==
    /\ answers[k] # Nothing
    /\ answers' = [answers EXCEPT ![k] = Nothing]
    /\ UNCHANGED <<status, work, history>>

CodesCrash ==
    /\ \E h \in Requests : work[h] # Idle
    /\ work' = [h \in Requests |-> Idle]
    /\ UNCHANGED <<docs, history>>

-----------------------------------------------------------------------------

Administrate(h) ==
    \/ \E codes \in SUBSET KeyCodes :
          \/ ReadCreate(h, codes)
          \/ \E target \in Settable : ReadStatus(h, codes, target)
    \/ \E c \in KeyCodes : ReadRetry(h, c) \/ ReadDeleteById(h, c)
    \/ InsertCodes(h)
    \/ WriteStatus(h)
    \/ DeleteById(h)

Redeem(h) ==
    \/ \E p \in Partials, k \in Headers \cup {Nothing} : BeginRedeem(h, p, k)
    \/ FindAvailable(h)
    \/ TakeCode(h)
    \/ LoseCode(h)
    \/ \E c \in KeyCodes : SaveAnswer(h, c)

CodesNext ==
    \/ \E h \in Requests : Administrate(h) \/ Redeem(h)
    \/ \E codes \in SUBSET KeyCodes : MarkDuplicates(codes) \/ DeleteCodes(codes)
    \/ \E k \in Headers : ForgetAnswer(k)
    \/ CodesCrash

CodesSpec == CodesInit /\ [][CodesNext]_codeVars

-----------------------------------------------------------------------------

Kinds == {"idle", "insert", "set", "delete", "redeem", "take", "answer"}

CodesTypeOK ==
    /\ status \in [KeyCodes -> Status \cup {"none"}]
    /\ answers \in [Headers -> KeyCodes \cup {Nothing}]
    /\ work \in [Requests -> [kind : Kinds, codes : SUBSET KeyCodes,
                              target : Status \cup {Nothing}, key : Headers \cup {Nothing}]]
    /\ handed \in [KeyCodes -> Nat]
    /\ overtaken \subseteq KeyCodes

\* A code handed out to the shop is spent for good, and cannot be deleted,
\* unless an unconditional write to it was on its way at that moment.
SpentStaysSpent ==
    \A c \in KeyCodes \ overtaken : handed[c] > 0 => status[c] = "success"

\* Two requests never get the same code, with the same exception.
HandedOnce == \A c \in KeyCodes \ overtaken : handed[c] <= 1

\* Retries with a key get the code of the first answer while it is kept.
AnswersAreStable ==
    [][\A k \in Headers : answers[k] # Nothing => answers'[k] \in {answers[k], Nothing}]_codeVars

\* All of it: a code is handed out once and spent by that, whatever requests
\* of administrators and of the shop overlap.
CodesAreSpentOnce == CodesTypeOK /\ SpentStaysSpent /\ HandedOnce
=============================================================================
