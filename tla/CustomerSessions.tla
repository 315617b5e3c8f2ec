--------------------------- MODULE CustomerSessions ---------------------------
(***************************************************************************)
(* Accounts of Bot.vn users: modules/customer/botvnAuth, its middlewares   *)
(* (core/middleware/customerAuth and externalAuth) and the codes and QR    *)
(* tokens it keeps in the cache.                                           *)
(*                                                                         *)
(* A session is a document of its own; every way to sign in removes the    *)
(* sessions of the customer and then makes one.  Nothing is atomic beyond  *)
(* one call of the database or of the cache.                               *)
(* Left out: profiles, switches and maintenance of BotvnConfig, which can  *)
(* only have a request refused, the signature of the Mini App, and phones  *)
(* shared by several customers.                                            *)
(***************************************************************************)
EXTENDS Integers, Sequences, FiniteSets

CONSTANTS
    Emails, Zalos, Phones, Tokens,  \* what requests name
    Handlers,
    Starts,                         \* bound: [customers, ops] a behaviour begins with
    MaxAttempts,                    \* OTP_MAX_VERIFY_ATTEMPTS
    MaxRequests, MaxFaults,         \* bounds
    None

VARIABLES
    customers,  \* the customers, oldest first
    sessions,   \* the documents of botvnusersessions
    codes,      \* cache: what an e-mail may be proved with, by kind and e-mail
    qr,         \* cache: QR token -> status
    job,        \* handler -> its request: op, step, at, what it names, and the
                \* customer, password, code and status it read
    ops, requests, faults,
    lastId,     \* the last session id, code or password
    sent,       \* kind and e-mail -> the last code sent (history)
    proved,     \* kind and e-mail -> the last code used, and how often (history)
    signedIn,   \* QR token -> sign-ins it was used for (history)
    late,       \* sessions made for a password that was changed meanwhile (history)
    crowded,    \* customers two sign-ins overlapped at (history)
    raced,      \* QR tokens and codes two requests used at the same time, or the
                \* cache lost a write of (history)
    cutOff      \* customers a crash kept the sessions of (history)

storeVars == <<customers, sessions, codes, qr>>
countVars == <<ops, requests, faults>>
historyVars == <<sent, proved, signedIn, late, crowded, raced, cutOff>>
vars == <<storeVars, job, countVars, lastId, historyVars>>

-----------------------------------------------------------------------------
\* What each request does, in this order.

Program ==
    [login |-> <<"find", "clear", "open">>,
     logout |-> <<"drop">>,
     zaloMiniAppLogin |-> <<"zalo", "clear", "open">>,
     register |-> <<"register", "find", "send">>,
     sendOtp |-> <<"find", "send">>,
     verifyOtp |-> <<"code", "find", "activate", "clear", "open">>,
     googleLogin |-> <<"google", "clear", "open", "save">>,
     changePassword |-> <<"own", "password", "clear">>,
     deleteAccount |-> <<"own", "deactivate", "clear">>,
     forgotPassword |-> <<"find", "send">>,
     forgotPasswordVerifyOtp |-> <<"code", "token">>,
     resetPassword |-> <<"code", "find", "password", "clear">>,
     scanQr |-> <<"seen", "scan">>,
     getQrStatus |-> <<"seen", "take">>,
     verifyQr |-> <<"seen", "zalo", "clear", "open", "qr">>]
Operations == DOMAIN Program \cup {"generateQr"}

ByEmail == {"login", "register", "sendOtp", "verifyOtp", "googleLogin", "forgotPassword",
            "forgotPasswordVerifyOtp", "resetPassword"}
ByZalo == {"zaloMiniAppLogin", "verifyQr"}
ByToken == {"scanQr", "getQrStatus"}
PasswordOps == {"changePassword", "resetPassword"}
ByAccount == {"changePassword", "deleteAccount"}

\* The kind of code an operation sends or checks.
Kinds == {"activation", "forgotten", "reset"}
KindOf(op) ==
    CASE op \in {"register", "sendOtp", "verifyOtp"} -> "activation"
      [] op \in {"forgotPassword", "forgotPasswordVerifyOtp"} -> "forgotten"
      [] OTHER -> "reset"

NoCode == [code |-> 0, attempts |-> 0]
Job(op, at, email, zalo, phone, token, c, session) ==
    [op |-> op, step |-> 1, at |-> at, email |-> email, zalo |-> zalo, phone |-> phone, token |-> token,
     c |-> c, session |-> session, pw |-> 0, code |-> NoCode, status |-> None]
NoJob == Job("none", "idle", None, None, None, None, 0, 0)

Customer(email, zalo, phone, pw, active) ==
    [email |-> email, zalo |-> zalo, phone |-> phone,
     pw |-> pw, active |-> active, saved |-> TRUE]

Idle(h) == job[h].at = "idle"
Saved == {c \in DOMAIN customers : customers[c].saved}
WithEmail(e) == {c \in Saved : e # None /\ customers[c].email = e}
WithZalo(z) == {c \in Saved : customers[c].zalo = z}
WithPhone(p) == {c \in Saved : p # None /\ customers[c].phone = p}
RowsOf(c) == {s \in sessions : s.customer = c}
OneOf(docs) == IF docs = {} THEN {0} ELSE docs

\* On to the next step with the job as it is now; the last step ends it.
After(now) ==
    LET on == [now EXCEPT !.step = @ + 1]
    IN  IF now.step = Len(Program[now.op]) THEN NoJob ELSE [on EXCEPT !.at = Program[on.op][on.step]]
Then(h, now) == job' = [job EXCEPT ![h] = After(now)]
Proceed(h) == Then(h, job[h])
Stop(h) == job' = [job EXCEPT ![h] = NoJob]
\* A call within the step.
Goto(h, at, c) == job' = [job EXCEPT ![h] = LET now == [@ EXCEPT !.c = c] IN [now EXCEPT !.at = at]]

Init ==
    \E start \in Starts :
        /\ customers = start.customers /\ ops = start.ops
        /\ sessions = {[id |-> c, customer |-> c, pw |-> customers[c].pw] : c \in DOMAIN customers}
        /\ codes = [k \in Kinds \X Emails |-> NoCode]
        /\ qr = [t \in Tokens |-> "unissued"]
        /\ job = [h \in Handlers |-> NoJob]
        /\ requests = 0 /\ faults = 0 /\ lastId = Len(start.customers)
        /\ sent = [k \in Kinds \X Emails |-> 0]
        /\ proved = [k \in Kinds \X Emails |-> [code |-> 0, times |-> 0]]
        /\ signedIn = [t \in Tokens |-> 0]
        /\ late = {} /\ crowded = {} /\ raced = {} /\ cutOff = {}

Begin(h, op, email, zalo, phone, token, c, session) ==
    /\ Idle(h) /\ op \in ops /\ requests < MaxRequests
    /\ requests' = requests + 1
    /\ job' = [job EXCEPT ![h] = Job(op, Program[op][1], email, zalo, phone, token, c, session)]
    /\ UNCHANGED <<storeVars, ops, faults, lastId, historyVars>>

\* botvnAuthenticateRequest: the customer of a session that is there; one
\* whose token is out of date is removed by a request of its own.
Request(h) ==
    \/ \E op \in ByEmail, e \in Emails : Begin(h, op, e, None, None, None, 0, 0)
    \/ \E op \in ByZalo, z \in Zalos, p \in Phones \cup {None}, t \in Tokens :
        Begin(h, op, None, z, p, t, 0, 0)
    \/ \E op \in ByToken, t \in Tokens : Begin(h, op, None, None, None, t, 0, 0)
    \/ \E op \in ByAccount : \E s \in sessions :
        s.customer \in Saved /\ Begin(h, op, None, None, None, None, s.customer, 0)
    \/ \E s \in sessions : Begin(h, "logout", None, None, None, None, 0, s.id)

-----------------------------------------------------------------------------
\* Finding the customer

ReadOnly == UNCHANGED <<storeVars, countVars, lastId, historyVars>>
Keep == UNCHANGED <<countVars, lastId, historyVars>>
Fails(h) == Stop(h) /\ ReadOnly

\* The account of the e-mail: active for a login and for a forgotten
\* password, inactive for an activation, any for the proof of a code.
Admits(op, c) ==
    CASE op = "login" -> customers[c].active /\ customers[c].pw > 0
      [] op = "forgotPassword" -> customers[c].active
      [] op \in {"register", "sendOtp"} -> ~customers[c].active
      [] OTHER -> TRUE

FindByEmail(h) ==
    /\ job[h].at = "find"
    /\ LET found == {c \in WithEmail(job[h].email) : Admits(job[h].op, c)} IN
       \/ \E c \in found :
            /\ Then(h, [job[h] EXCEPT !.c = c, !.pw = customers[c].pw,
                             !.status = IF customers[c].active THEN "active" ELSE "inactive"])
            /\ ReadOnly
       \/ found = {} /\ Fails(h)

\* changePassword and deleteAccount: the signed-in customer, if still active.
FindOwn(h) ==
    /\ job[h].at = "own"
    /\ \/ customers[job[h].c].active /\ Proceed(h) /\ ReadOnly
       \/ ~customers[job[h].c].active /\ Fails(h)

\* register makes an inactive account; the unique index refuses a second one.
Register(h) ==
    /\ job[h].at = "register"
    /\ \/ /\ WithEmail(job[h].email) = {}
          /\ lastId' = lastId + 1
          /\ customers' = Append(customers,
                Customer(job[h].email, None, None, lastId + 1, FALSE))
          /\ Proceed(h)
          /\ UNCHANGED <<sessions, codes, qr, countVars, historyVars>>
       \/ WithEmail(job[h].email) # {} /\ Fails(h)

\* Zalo: by the Zalo id; otherwise by the phone, which is then linked to it;
\* otherwise a new, active customer.  The Zalo id is unique.
FindByZalo(h) ==
    /\ job[h].at = "zalo"
    /\ \E c \in OneOf(WithZalo(job[h].zalo)) :
        \/ /\ c # 0
           /\ customers' = IF job[h].op = "zaloMiniAppLogin" /\ job[h].phone # None
                           THEN [customers EXCEPT ![c].phone = job[h].phone] ELSE customers
           /\ Goto(h, "checked", c)
        \/ c = 0 /\ Goto(h, "phone", c) /\ UNCHANGED customers
    /\ UNCHANGED <<sessions, codes, qr>> /\ Keep

FindByPhone(h) ==
    /\ job[h].at = "phone"
    /\ \E c \in OneOf(WithPhone(job[h].phone)) : Goto(h, IF c = 0 THEN "insert" ELSE "link", c)
    /\ ReadOnly

LinkZalo(h) ==
    /\ job[h].at = "link"
    /\ \/ /\ WithZalo(job[h].zalo) \subseteq {job[h].c}
          /\ customers' = [customers EXCEPT ![job[h].c].zalo = job[h].zalo]
          /\ Goto(h, "checked", job[h].c)
          /\ UNCHANGED <<sessions, codes, qr>> /\ Keep
       \/ ~(WithZalo(job[h].zalo) \subseteq {job[h].c}) /\ Fails(h)

InsertZalo(h) ==
    /\ job[h].at = "insert"
    /\ \/ /\ WithZalo(job[h].zalo) = {}
          /\ customers' = Append(customers, Customer(None, job[h].zalo, job[h].phone, 0, TRUE))
          /\ Goto(h, "checked", Len(customers) + 1)
          /\ UNCHANGED <<sessions, codes, qr>> /\ Keep
       \/ WithZalo(job[h].zalo) # {} /\ Fails(h)

\* An inactive account is refused; the QR token says so.
CheckActive(h) ==
    /\ job[h].at = "checked"
    /\ IF customers[job[h].c].active THEN Proceed(h) /\ UNCHANGED qr
       ELSE /\ Stop(h)
            /\ qr' = IF job[h].op = "verifyQr"
                     THEN [qr EXCEPT ![job[h].token] = "ACCOUNT_INACTIVE"] ELSE qr
    /\ UNCHANGED <<customers, sessions, codes>> /\ Keep

\* googleLogin: by the Google id or the e-mail, or a new customer that is
\* saved only after its session.
FindByGoogle(h) ==
    /\ job[h].at = "google"
    /\ \/ \E c \in WithEmail(job[h].email) :
            /\ IF customers[c].active THEN Then(h, [job[h] EXCEPT !.c = c]) ELSE Stop(h)
            /\ UNCHANGED customers
       \/ /\ WithEmail(job[h].email) = {}
          /\ customers' = Append(customers,
                [Customer(job[h].email, None, None, 0, TRUE) EXCEPT !.saved = FALSE])
          /\ Then(h, [job[h] EXCEPT !.c = Len(customers) + 1])
    /\ UNCHANGED <<sessions, codes, qr>> /\ Keep

\* Its save: E11000 if the e-mail was registered meanwhile.
SaveGoogle(h) ==
    LET c == job[h].c IN
    /\ job[h].at = "save"
    /\ customers' = IF customers[c].saved \/ WithEmail(job[h].email) = {}
                    THEN [customers EXCEPT ![c].saved = TRUE]
                    ELSE customers
    /\ Proceed(h)
    /\ UNCHANGED <<sessions, codes, qr>> /\ Keep

-----------------------------------------------------------------------------
\* Sessions

\* deleteMany: the sessions of the customer end.
ClearSessions(h) ==
    /\ job[h].at = "clear"
    /\ sessions' = sessions \ RowsOf(job[h].c)
    /\ Proceed(h)
    /\ UNCHANGED <<customers, codes, qr>> /\ Keep

\* create: one session; others may have been made since the deletion.
OpenSession(h) ==
    LET c == job[h].c
        row == [id |-> lastId + 1, customer |-> c,
                pw |-> IF job[h].op = "login" THEN job[h].pw ELSE customers[c].pw]
    IN  /\ job[h].at = "open"
        /\ sessions' = sessions \cup {row}
        /\ lastId' = lastId + 1
        /\ crowded' = IF \E g \in Handlers \ {h} : job[g].at = "open" /\ job[g].c = c
                      THEN crowded \cup {c} ELSE crowded
        /\ late' = IF row.pw # customers[c].pw THEN late \cup {row.id} ELSE late
        /\ signedIn' = IF job[h].op = "verifyQr" THEN [signedIn EXCEPT ![job[h].token] = @ + 1]
                       ELSE signedIn
        /\ Proceed(h)
        /\ UNCHANGED <<customers, codes, qr, countVars, sent, proved, raced, cutOff>>

\* logout, and an access token that is out of date.
DropSession(h) ==
    /\ job[h].at = "drop"
    /\ sessions' = {s \in sessions : s.id # job[h].session}
    /\ Proceed(h)
    /\ UNCHANGED <<customers, codes, qr>> /\ Keep

\* changePassword and resetPassword; the sessions end in the next step.
\* (mutated form: they do not)
SetPasswordOnly(h) ==
    /\ job[h].at = "password"
    /\ customers' = [customers EXCEPT ![job[h].c].pw = lastId + 1]
    /\ lastId' = lastId + 1 /\ Stop(h)
    /\ UNCHANGED <<sessions, codes, qr, countVars, historyVars>>
SetPassword(h) ==
    /\ job[h].at = "password"
    /\ customers' = [customers EXCEPT ![job[h].c].pw = lastId + 1]
    /\ lastId' = lastId + 1 /\ Proceed(h)
    /\ UNCHANGED <<sessions, codes, qr, countVars, historyVars>>

\* verifyOtp and deleteAccount; a customer found active is not written.
SetActive(h) ==
    /\ job[h].at \in {"activate", "deactivate"}
    /\ customers' = IF job[h].at = "activate" /\ job[h].status = "active" THEN customers
                    ELSE [customers EXCEPT ![job[h].c].active = (job[h].at = "activate")]
    /\ Proceed(h)
    /\ UNCHANGED <<sessions, codes, qr>> /\ Keep

-----------------------------------------------------------------------------
\* Codes and QR tokens in the cache

Key(h) == <<KindOf(job[h].op), job[h].email>>

\* A new code replaces the one there is.
SendCode(h) ==
    /\ job[h].at = "send"
    /\ codes' = [codes EXCEPT ![Key(h)] = [code |-> lastId + 1, attempts |-> 0]]
    /\ sent' = [sent EXCEPT ![Key(h)] = lastId + 1]
    /\ lastId' = lastId + 1
    /\ Proceed(h)
    /\ UNCHANGED <<customers, sessions, qr, countVars, proved, signedIn, late, crowded, raced, cutOff>>

\* The code to prove is read first.  None, or too many attempts: refused.
ReadCode(h) ==
    LET cached == codes[Key(h)] IN
    /\ job[h].at = "code"
    /\ IF cached.code = 0 THEN Stop(h) /\ UNCHANGED codes
       ELSE IF cached.attempts >= MaxAttempts
       THEN Stop(h) /\ codes' = [codes EXCEPT ![Key(h)] = NoCode]
       ELSE /\ \E step \in {"right", "wrong"} :
                  job' = [job EXCEPT ![h] = LET now == [@ EXCEPT !.code = cached] IN [now EXCEPT !.at = step]]
            /\ UNCHANGED codes
    /\ UNCHANGED <<customers, sessions, qr>> /\ Keep

\* The right code proves the e-mail; it is removed.
Holding(code) == {h \in Handlers : job[h].at \in {"right", "wrong"} /\ job[h].code.code = code}
Proves(h) ==
    LET code == job[h].code.code IN
    /\ proved' = [proved EXCEPT ![Key(h)] = [code |-> code, times |-> IF @.code = code THEN @.times + 1 ELSE 1]]
    /\ Proceed(h)
    /\ UNCHANGED <<customers, sessions, qr, lastId, sent, signedIn, late, crowded, cutOff>>
Proved(h) ==
    /\ Proves(h)
    /\ raced' = IF Holding(job[h].code.code) # {h} THEN raced \cup {Key(h)} ELSE raced
    /\ UNCHANGED countVars

\* (mutated form: it stays)
UseCodeAgain(h) == job[h].at = "right" /\ Proved(h) /\ UNCHANGED codes
UseCode(h) ==
    /\ job[h].at = "right"
    /\ codes' = [codes EXCEPT ![Key(h)] = NoCode]
    /\ Proved(h)

\* A wrong one is counted: what was read is written back.  A wrong reset
\* token is removed.
CountAttempt(h) ==
    /\ job[h].at = "wrong"
    /\ codes' = [codes EXCEPT ![Key(h)] =
            IF job[h].op = "resetPassword" THEN NoCode
            ELSE [job[h].code EXCEPT !.attempts = @ + 1]]
    /\ raced' = IF codes[Key(h)] # job[h].code THEN raced \cup {Key(h)} ELSE raced
    /\ Stop(h)
    /\ UNCHANGED <<customers, sessions, qr, countVars, lastId, sent, proved, signedIn, late, crowded, cutOff>>

GiveResetToken(h) ==
    LET key == <<"reset", job[h].email>> IN
    /\ job[h].at = "token"
    /\ codes' = [codes EXCEPT ![key] = [code |-> lastId + 1, attempts |-> 0]]
    /\ sent' = [sent EXCEPT ![key] = lastId + 1]
    /\ lastId' = lastId + 1
    /\ Proceed(h)
    /\ UNCHANGED <<customers, sessions, qr, countVars, proved, signedIn, late, crowded, raced, cutOff>>

GenerateQr(t) ==
    /\ "generateQr" \in ops /\ qr[t] = "unissued"
    /\ qr' = [qr EXCEPT ![t] = "PENDING"]
    /\ UNCHANGED <<customers, sessions, codes, job>> /\ Keep

\* The answer of verifyQrToken once the session is made.
AnswerQr(h) ==
    /\ job[h].at = "qr"
    /\ qr' = [qr EXCEPT ![job[h].token] = "AUTHENTICATED"]
    /\ Proceed(h)
    /\ UNCHANGED <<customers, sessions, codes>> /\ Keep

\* What the token's status must be: a scan wants one that is not used yet, a
\* verification one that was scanned.
Verifying(t) == \E g \in Handlers :
    job[g].op = "verifyQr" /\ job[g].token = t /\ job[g].at # "seen"
Usable(op, status) ==
    CASE op = "scanQr" -> status \notin {"unissued", "none", "AUTHENTICATED"}
      [] op = "verifyQr" -> status = "SCANNED"
      [] OTHER -> status \notin {"unissued", "none"}
ReadQr(h) ==
    LET t == job[h].token
        usable == Usable(job[h].op, qr[t])
    IN  /\ job[h].at = "seen"
        /\ IF usable THEN Then(h, [job[h] EXCEPT !.status = qr[t]]) ELSE Stop(h)
        /\ raced' = IF job[h].op \in {"verifyQr", "scanQr"} /\ usable /\ Verifying(t)
                    THEN raced \cup {t} ELSE raced
        /\ UNCHANGED <<storeVars, countVars, lastId, sent, proved, signedIn, late, crowded, cutOff>>

ScanQr(h) ==
    LET t == job[h].token IN
    /\ job[h].at = "scan"
    /\ qr' = [qr EXCEPT ![t] = "SCANNED"]
    /\ raced' = IF qr[t] # job[h].status \/ Verifying(t) THEN raced \cup {t} ELSE raced
    /\ Proceed(h)
    /\ UNCHANGED <<customers, sessions, codes, countVars, lastId, sent, proved, signedIn, late, crowded, cutOff>>

\* A client that polls takes the answer out of the cache.
TakeQr(h) ==
    /\ job[h].at = "take"
    /\ qr' = IF job[h].status = "AUTHENTICATED" THEN [qr EXCEPT ![job[h].token] = "none"] ELSE qr
    /\ Proceed(h)
    /\ UNCHANGED <<customers, sessions, codes>> /\ Keep

\* CacheService.set and del log a failure and return: the request goes on as
\* if the cache had been written.  A code that proved stays there;
CacheFails == faults < MaxFaults /\ faults' = faults + 1 /\ UNCHANGED <<ops, requests, codes, qr>>
KeepUsedCode(h) ==
    /\ job[h].at = "right" /\ CacheFails
    /\ Proves(h)
    /\ raced' = raced \cup {Key(h)}

\* a code is sent that the cache does not have;
LoseCode(h) ==
    LET key == IF job[h].at = "token" THEN <<"reset", job[h].email>> ELSE Key(h) IN
    /\ job[h].at \in {"send", "token"} /\ CacheFails
    /\ sent' = [sent EXCEPT ![key] = lastId + 1]
    /\ lastId' = lastId + 1
    /\ raced' = raced \cup {key}
    /\ Proceed(h)
    /\ UNCHANGED <<customers, sessions, proved, signedIn, late, crowded, cutOff>>

\* and the last write of a request leaves the token or the count as it was.
LoseAnswer(h) ==
    /\ job[h].at \in {"qr", "scan", "take", "wrong"} /\ CacheFails
    /\ Stop(h)
    /\ raced' = IF job[h].at = "qr" THEN raced \cup {job[h].token} ELSE raced
    /\ UNCHANGED <<customers, sessions, lastId, sent, proved, signedIn, late, crowded, cutOff>>

\* An entry of the cache runs out.
CacheExpires ==
    /\ \/ \E k \in DOMAIN codes : codes[k] # NoCode /\ codes' = [codes EXCEPT ![k] = NoCode]
            /\ UNCHANGED qr
       \/ \E t \in Tokens : qr[t] \notin {"unissued", "none"} /\ qr' = [qr EXCEPT ![t] = "none"]
            /\ UNCHANGED codes
    /\ faults < MaxFaults /\ faults' = faults + 1
    /\ UNCHANGED <<customers, sessions, job, ops, requests, lastId, historyVars>>

\* The process of a handler dies, or a call fails that its request fails with.
Crash(h) ==
    /\ ~Idle(h) /\ faults < MaxFaults
    /\ faults' = faults + 1
    /\ Stop(h)
    /\ cutOff' = IF job[h].at = "clear" /\ job[h].op \in PasswordOps
                 THEN cutOff \cup {job[h].c} ELSE cutOff
    /\ raced' = IF job[h].at = "qr" THEN raced \cup {job[h].token} ELSE raced
    /\ UNCHANGED <<storeVars, ops, requests, lastId, sent, proved, signedIn, late, crowded>>

-----------------------------------------------------------------------------

Step(h) ==
    \/ FindByEmail(h) \/ FindOwn(h) \/ Register(h)
    \/ FindByZalo(h) \/ FindByPhone(h) \/ LinkZalo(h) \/ InsertZalo(h) \/ CheckActive(h)
    \/ FindByGoogle(h) \/ SaveGoogle(h)
    \/ ClearSessions(h) \/ OpenSession(h) \/ DropSession(h) \/ SetPassword(h) \/ SetActive(h)
    \/ SendCode(h) \/ ReadCode(h) \/ UseCode(h) \/ CountAttempt(h) \/ GiveResetToken(h)
    \/ AnswerQr(h) \/ ReadQr(h) \/ ScanQr(h) \/ TakeQr(h)
    \/ KeepUsedCode(h) \/ LoseCode(h) \/ LoseAnswer(h)

Next == \/ \E h \in Handlers : Request(h) \/ Step(h) \/ Crash(h)
        \/ CacheExpires
        \/ \E t \in Tokens : GenerateQr(t)

Spec == Init /\ [][Next]_vars

-----------------------------------------------------------------------------
\* Properties

\* Customers, sessions and cache entries are well-formed.
TypeOK ==
    /\ \A c \in DOMAIN customers :
        /\ customers[c].email \in Emails \cup {None} /\ customers[c].zalo \in Zalos \cup {None}
        /\ customers[c].pw \in 0..lastId
    /\ \A s \in sessions : s.customer \in DOMAIN customers /\ s.id \in 1..lastId
    /\ \A k \in DOMAIN codes : codes[k].attempts \in 0..MaxAttempts
    /\ \A t \in Tokens : qr[t] \in {"unissued", "none", "PENDING", "SCANNED", "AUTHENTICATED",
                                    "ACCOUNT_INACTIVE"}

\* A customer has one session, whichever way he signed in last ("Ensure only
\* 1 active session"), unless two sign-ins had both removed the old ones
\* before either made its own.
OneSession ==
    /\ TypeOK
    /\ \A c \in DOMAIN customers : Cardinality(RowsOf(c)) <= 1 \/ c \in crowded

\* A session made under an older password is about to be removed by the
\* request that changed it, unless that request died, or the login had
\* checked the old password before the change and answered after it.
OldSessionsEnd ==
    \A s \in sessions :
        \/ s.pw = customers[s.customer].pw
        \/ s.id \in late \/ s.customer \in cutOff
        \/ \E h \in Handlers : /\ job[h].op \in PasswordOps /\ job[h].at = "clear"
                               /\ job[h].c = s.customer

\* A QR token signs in once, however often it is scanned, polled and
\* verified, unless two of these requests overlapped, or the answer of one
\* was not written: it died before, or the cache failed.
QrSignsInOnce == \A t \in Tokens : signedIn[t] <= 1 \/ t \in raced

\* The code in the cache is the last one that was sent, and a code proves
\* its e-mail once - unless two requests had both read it: the later one
\* proves it again, or writes the old code over a new one; or the cache
\* failed to take a new code or to remove a used one.
CodesProveOnce ==
    \A k \in DOMAIN codes :
        k \notin raced => codes[k].code \in {0, sent[k]} /\ proved[k].times <= 1
=============================================================================
