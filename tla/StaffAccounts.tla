---------------------------- MODULE StaffAccounts ----------------------------
(***************************************************************************)
(* Accounts of the staff: modules/system/auth, modules/system/user and the *)
(* authentication of a request (core/middleware/auth).                     *)
(*                                                                         *)
(* The sessions of a member of staff are an array inside his account.  A   *)
(* handler reads the account, works on its copy, and saves what it changed *)
(* in the copy: a new session is pushed, a rotated one is set at its       *)
(* position, any other change sets the whole array.  The documents have no *)
(* version, so no save is refused because the copy is out of date.         *)
(* Left out: names and passwords; departments, groups and functions, which *)
(* can only have a request refused.                                        *)
(***************************************************************************)
EXTENDS Integers, Sequences, FiniteSets, SequencesExt

CONSTANTS
    Staff, Handlers,
    Accesses,               \* values of moduleAccess
    Starts,                 \* bound: [accounts, assigned, ops] a behaviour begins with
    MaxRequests, MaxAged,   \* bounds: requests, and expiries of tokens
    None

Roles == {"OWNER", "ADMIN", "STAFF"}
Level(role) == CASE role = "OWNER" -> 3 [] role = "ADMIN" -> 2 [] role = "STAFF" -> 1
isOwnerOrAdmin(role) == role \in {"OWNER", "ADMIN"}

OpenOps == {"login", "refresh", "logout", "forgot", "reset"}    \* without a token
OwnOps == {"me", "change"}                                      \* on one's own account
AdminOps == {"create", "update", "delete", "restore", "purge"}  \* on somebody's
Operations == OpenOps \cup OwnOps \cup AdminOps \cup {"expire"}    \* time passes

VARIABLES
    accounts,   \* member of staff -> account
    assigned,   \* the staff that events name
    disabled,   \* the staff whose account has isActive false
    job,        \* handler -> its request: op, step, who it is from and his role,
                \* the account it is about and its copy, the position of the
                \* session, what it asks for
    aged,       \* tokens -> 1: access token out of date, 2: refresh token too
    lastId,     \* the last session id given out
    requests,   \* requests so far
    ops,        \* the operations of this behaviour
    opened,     \* member of staff -> the sessions he should have (history)
    stale,      \* accounts a handler saved sessions to from an old copy (history)
    mixed,      \* accounts an update was saved to from an old copy (history)
    crossed     \* an owner was removed by one who was no owner then (history)

storeVars == <<accounts, assigned, disabled>>
historyVars == <<opened, stale, mixed, crossed>>
vars == <<storeVars, job, aged, lastId, requests, ops, historyVars>>

-----------------------------------------------------------------------------
\* Sessions

Session(id, tok) == [id |-> id, tok |-> tok]
Gap == Session(0, 0)        \* null, or an element without its fields

Ages(s) == IF s \in DOMAIN aged THEN aged[s] ELSE 0
Fresh(s) == Ages(s) < 2
Whole(ss) == \A i \in DOMAIN ss : ss[i].id # 0

\* The elements of ss at these positions, in their order.
Nth(positions, j) == CHOOSE i \in positions : Cardinality({k \in positions : k <= i}) = j
Picked(ss, positions) == [j \in 1..Cardinality(positions) |-> ss[Nth(positions, j)]]
Without(ss, id) == Picked(ss, {i \in DOMAIN ss : ss[i].id # id})
Unexpired(ss) == Picked(ss, {i \in DOMAIN ss : Fresh(ss[i])})

\* What the save of a changed copy does to the array that is stored.
Push(s) == [kind |-> "push", s |-> s, i |-> 0, ss |-> <<>>]
SetAll(ss) == [kind |-> "set", s |-> Gap, i |-> 0, ss |-> ss]
SetAt(i, s) == [kind |-> "at", s |-> s, i |-> i, ss |-> <<>>]
NoWrite == [kind |-> "none", s |-> Gap, i |-> 0, ss |-> <<>>]

\* $set of sessions.i.* : the element keeps its id; beyond the end of the
\* array it is made without one, after nulls.
Placed(ss, i, s) ==
    IF i <= Len(ss) THEN [ss EXCEPT ![i].tok = s.tok]
    ELSE [j \in 1..i |-> IF j <= Len(ss) THEN ss[j]
                         ELSE IF j < i THEN Gap ELSE Session(0, s.tok)]

Saved(ss, w) ==
    CASE w.kind = "none" -> ss
      [] w.kind = "push" -> Append(ss, w.s)
      [] w.kind = "set" -> w.ss
      [] w.kind = "at" -> Placed(ss, w.i, w.s)

\* mongoose leaves out an assignment that changes nothing.
Cleared(copy) == IF copy.sessions = <<>> THEN NoWrite ELSE SetAll(<<>>)

-----------------------------------------------------------------------------
\* Accounts

\* computePermissionsFromModuleAccess: a function of these two.
ComputePermissions(access, role) == <<access, role>>

Account(role, access, sessions) ==
    [role |-> role, access |-> access, permissions |-> ComputePermissions(access, role),
     sessions |-> sessions, reset |-> FALSE, state |-> "live"]
NotThere == [Account("STAFF", None, <<>>) EXCEPT !.state = "absent"]

Live(u) == accounts[u].state = "live"
Owners == {u \in Staff : Live(u) /\ accounts[u].role = "OWNER"}

NoJob == [op |-> "none", at |-> "idle", actor |-> None, target |-> None, i |-> 0,
          by |-> None, copy |-> None, role |-> None, access |-> None, force |-> FALSE]
Idle(h) == job[h].at = "idle"
Done(h) == job' = [job EXCEPT ![h] = NoJob]
Goto(h, step) == job' = [job EXCEPT ![h].at = step]

Init ==
    \E start \in Starts :
        /\ accounts = start.accounts /\ assigned = start.assigned /\ ops = start.ops
        /\ opened = [u \in Staff |-> start.accounts[u].sessions]
        /\ lastId = 4 /\ disabled = {}
        /\ job = [h \in Handlers |-> NoJob]
        /\ aged = << >> /\ requests = 0
        /\ stale = {} /\ mixed = {} /\ crossed = FALSE

Request(h, op, u, i) ==
    /\ Idle(h) /\ op \in ops /\ requests < MaxRequests
    /\ requests' = requests + 1
    /\ job' = [job EXCEPT ![h] = [NoJob EXCEPT !.op = op, !.at = op, !.actor = u, !.target = u,
                                               !.i = i, !.by = accounts[u].role, !.copy = accounts[u]]]
    /\ UNCHANGED <<storeVars, aged, lastId, ops, historyVars>>

\* Time passes for a session.
Expire(u, i) ==
    LET s == accounts[u].sessions[i] IN
    /\ "expire" \in ops /\ s # Gap
    /\ Cardinality(DOMAIN aged) < MaxAged \/ s \in DOMAIN aged
    /\ Ages(s) < 2
    /\ aged' = [t \in DOMAIN aged \cup {s} |-> IF t = s THEN Ages(s) + 1 ELSE aged[t]]
    /\ UNCHANGED <<storeVars, job, lastId, requests, ops, historyVars>>

-----------------------------------------------------------------------------
\* Signing in and out

Sessions(h) == job[h].copy.sessions
Mine(h) == Sessions(h)[job[h].i]
NullBefore(ss, i) == \E j \in 1..(i - 1) : ss[j] = Gap

\* login, forgotPassword, resetPassword find a live account by its e-mail,
\* with the right password or token; refresh and logout find it by session.
\* Only login looks at isActive.
BeginOpen(h, op, u) ==
    /\ op \in {"login", "forgot", "reset"}
    /\ Live(u)
    /\ op = "reset" => accounts[u].reset
    /\ op = "login" => u \notin disabled
    /\ Request(h, op, u, 0)

BeginSession(h, op, u, i) ==
    /\ op \in {"refresh", "logout"}
    /\ Live(u)
    /\ accounts[u].sessions[i].id # 0
    /\ Request(h, op, u, i)

\* The save of h's copy: what it writes to the sessions, what the sessions
\* should be then, and whether a copy out of date spoils that.
SaveSessions(h, w, expected, spoilt, fields(_)) ==
    LET u == job[h].target
        now == accounts[u].sessions
    IN  /\ IF w.kind = "at" /\ w.i <= Len(now) /\ now[w.i] = Gap
           THEN UNCHANGED <<accounts, opened, stale>>      \* refused by the database
           ELSE /\ accounts' = [accounts EXCEPT ![u] =
                        [fields(accounts[u]) EXCEPT !.sessions = Saved(now, w)]]
                /\ opened' = [opened EXCEPT ![u] = expected]
                /\ stale' = IF spoilt THEN stale \cup {u} ELSE stale
        /\ UNCHANGED <<aged, requests, ops>>

Same(account) == account
Purged(h) == accounts[job[h].target].state = "purged"
Outdated(h) == accounts[job[h].target].sessions # Sessions(h)
MovedOn(h) ==
    LET now == accounts[job[h].target].sessions
    IN  job[h].i > Len(now) \/ now[job[h].i].id # Mine(h).id

\* Only the sessions of an account change.
SessionsOnly == UNCHANGED <<assigned, disabled, mixed, crossed>>

\* The handler fails: nothing is saved.
Throws(h) == Done(h) /\ UNCHANGED <<storeVars, aged, lastId, requests, ops, historyVars>>

\* login: out-of-date sessions are filtered out, the new one is pushed.
\* Nulls make the filter throw, an element without an id fails validation.
\* (mutated form: the array is always set as a whole)
LoginSetsAll(h) ==
    /\ job[h].at = "login" /\ ~Purged(h)
    /\ LET u == job[h].target
           new == Session(lastId + 1, 1)
           kept == Unexpired(Sessions(h))
       IN  /\ lastId' = lastId + 1
           /\ SaveSessions(h, SetAll(Append(kept, new)), Append(Unexpired(opened[u]), new),
                           kept # Sessions(h) /\ Outdated(h), Same)
    /\ Done(h) /\ SessionsOnly
login(h) ==
    /\ job[h].at = "login"
    /\ LET u == job[h].target
           new == Session(lastId + 1, 1)
           kept == Unexpired(Sessions(h))
           filtered == kept # Sessions(h)
       IN  \/ (Purged(h) \/ Gap \in Range(Sessions(h)) \/ ~Whole(kept)) /\ Throws(h)
           \/ /\ ~Purged(h) /\ Gap \notin Range(Sessions(h)) /\ Whole(kept)
              /\ lastId' = lastId + 1
              /\ SaveSessions(h, IF filtered THEN SetAll(Append(kept, new)) ELSE Push(new),
                    Append(IF filtered THEN Unexpired(opened[u]) ELSE opened[u], new),
                    filtered /\ Outdated(h), Same)
              /\ Done(h) /\ SessionsOnly

\* refresh with the right token rotates the session where it was found.
refresh(h) ==
    /\ job[h].at = "refresh" /\ ~Purged(h)
    /\ ~NullBefore(Sessions(h), job[h].i)
    /\ Fresh(Mine(h))
    /\ LET u == job[h].target
           new == Session(Mine(h).id, Mine(h).tok + 1)
       IN  SaveSessions(h, SetAt(job[h].i, new),
                [j \in DOMAIN opened[u] |-> IF opened[u][j].id = new.id THEN new ELSE opened[u][j]],
                MovedOn(h), Same)
    /\ Done(h) /\ UNCHANGED lastId /\ SessionsOnly

\* logout; a refresh with an old token, or too late; an access token out of
\* date: the session is filtered out and the array written as a whole.
DropSession(h) ==
    /\ ~Purged(h)
    /\ Gap \notin Range(Sessions(h))
    /\ LET kept == Without(Sessions(h), Mine(h).id) IN
       \/ ~Whole(kept) /\ Throws(h)
       \/ /\ Whole(kept)
          /\ SaveSessions(h, SetAll(kept), Without(opened[job[h].target], Mine(h).id),
                          Outdated(h), Same)
          /\ Done(h) /\ UNCHANGED lastId /\ SessionsOnly

logout(h) == job[h].at = "logout" /\ DropSession(h)
RefuseRefresh(h) ==
    /\ job[h].at = "refresh"
    /\ ~Fresh(Mine(h)) \/ Mine(h).tok > 1
    /\ DropSession(h)
RefuseAccess(h) == job[h].at = "lapsed" /\ DropSession(h)

\* A null in the array stops a handler that looks through it.
TripOverNull(h) ==
    /\ job[h].at \in {"logout", "refresh", "lapsed"}
    /\ \/ Purged(h)
       \/ job[h].at # "refresh" /\ Gap \in Range(Sessions(h))
       \/ NullBefore(Sessions(h), job[h].i)
    /\ Throws(h)

forgotPassword(h) ==
    /\ job[h].at = "forgot" /\ ~Purged(h)
    /\ accounts' = [accounts EXCEPT ![job[h].target].reset = TRUE]
    /\ Done(h)
    /\ UNCHANGED <<assigned, disabled, aged, lastId, requests, ops, historyVars>>

\* resetPassword and changePassword end all sessions.
ClearSensitiveUserState(h) ==
    /\ job[h].at \in {"reset", "change"} /\ ~Purged(h)
    /\ LET NoReset(account) == [account EXCEPT !.reset = FALSE] IN
       SaveSessions(h, Cleared(job[h].copy), <<>>,
                    Sessions(h) = <<>> /\ Outdated(h), NoReset)
    /\ Done(h) /\ UNCHANGED lastId /\ SessionsOnly

-----------------------------------------------------------------------------
\* A request with an access token

\* authenticateRequest finds the account of the token; an element that lost
\* its id still carries one.
Authenticate(h, op, u, i) ==
    LET s == accounts[u].sessions[i] IN
    /\ op \in OwnOps \cup AdminOps
    /\ Live(u) /\ s.tok # 0
    /\ ~NullBefore(accounts[u].sessions, i)
    /\ op \in AdminOps => isOwnerOrAdmin(accounts[u].role)
    /\ Idle(h) /\ op \in ops /\ requests < MaxRequests
    /\ requests' = requests + 1
    /\ \E step \in IF Ages(s) > 0 THEN {"lapsed"}
                   ELSE {"touch", IF op \in AdminOps THEN "target" ELSE op} :
        job' = [job EXCEPT ![h] = [NoJob EXCEPT !.op = op, !.at = step, !.actor = u, !.target = u,
                                                !.i = i, !.by = accounts[u].role, !.copy = accounts[u]]]
    /\ UNCHANGED <<storeVars, aged, lastId, ops, historyVars>>

\* Every five minutes lastUsedAt is set, at the position of the session.
TouchSession(h) ==
    /\ job[h].at = "touch"
    /\ LET u == job[h].target
           now == accounts[u].sessions
           beyond == job[h].i > Len(now)
       IN  IF Purged(h) \/ (~beyond /\ now[job[h].i] = Gap) THEN Throws(h)
           ELSE /\ accounts' = IF beyond THEN [accounts EXCEPT ![u].sessions =
                                                    Placed(@, job[h].i, Gap)]
                               ELSE accounts
                /\ stale' = IF beyond THEN stale \cup {u} ELSE stale
                /\ Goto(h, IF job[h].op \in AdminOps THEN "target" ELSE job[h].op)
                /\ UNCHANGED <<assigned, disabled, aged, lastId, requests, ops, opened, mixed, crossed>>

\* updateOwnProfile and getMe: nothing of the account that is kept here.
updateOwnProfile(h) == job[h].at = "me" /\ Throws(h)

ReadOnly == UNCHANGED <<storeVars, aged, lastId, requests, ops, historyVars>>

\* The account the request is about, and what it asks for.
FindTarget(h, u) ==
    /\ job[h].at = "target"
    /\ CASE job[h].op \in {"restore", "purge"} -> accounts[u].state = "deleted"
         [] job[h].op = "create" -> accounts[u].state = "absent"
         [] OTHER -> Live(u)
    /\ job' = [job EXCEPT ![h].at = job[h].op, ![h].target = u, ![h].copy = accounts[u]]
    /\ ReadOnly

\* Nobody makes an owner, and everybody only roles below his own.
canAssignRole(actorRole, role) == role # "OWNER" /\ Level(actorRole) > Level(role)

\* createUserAccount: the unique index lets one account of an e-mail in.
CreateUser(h, role, access) ==
    LET u == job[h].target IN
    /\ job[h].at = "create"
    /\ canAssignRole(job[h].by, role)
    /\ accounts' = IF accounts[u].state = "absent"
                   THEN [accounts EXCEPT ![u] = Account(role, access, <<>>)] ELSE accounts
    /\ Done(h)
    /\ UNCHANGED <<assigned, disabled, aged, lastId, requests, ops, historyVars>>

OverOwner(h) == job[h].copy.role = "OWNER" => job[h].by = "OWNER"

\* updateUserAccount, its guards.  A part that is None is not in the payload.
\* (mutated form: one may change one's own role)
UpdateOneself(h, role, access) ==
    /\ job[h].at = "update" /\ OverOwner(h)
    /\ role \notin {None, job[h].copy.role} => canAssignRole(job[h].by, role)
    /\ job' = [job EXCEPT ![h].at = "saveUpdate", ![h].role = role, ![h].access = access]
    /\ ReadOnly
UpdateUser(h, role, access) ==
    /\ job[h].at = "update" /\ OverOwner(h)
    /\ role \notin {None, job[h].copy.role} =>
        job[h].actor # job[h].target /\ canAssignRole(job[h].by, role)
    /\ job' = [job EXCEPT ![h].at = "saveUpdate", ![h].role = role, ![h].access = access]
    /\ ReadOnly

\* Its save: changed fields only.  A new role or access ends the sessions.
Asked(part, value) == IF part = None THEN value ELSE part
SaveFields(h, recompute) ==
    LET copy == job[h].copy
        u == job[h].target
        role == Asked(job[h].role, copy.role)
        access == Asked(job[h].access, copy.access)
        forceLogout == job[h].access # None \/ role # copy.role
        permissions == IF forceLogout /\ recompute THEN ComputePermissions(access, role)
                       ELSE copy.permissions
        Changed(account) ==
            [account EXCEPT !.role = IF role # copy.role THEN role ELSE @,
                            !.access = IF access # copy.access THEN access ELSE @,
                            !.permissions = IF permissions # copy.permissions THEN permissions ELSE @]
    IN  /\ SaveSessions(h, IF forceLogout THEN Cleared(copy) ELSE NoWrite,
                        IF forceLogout THEN <<>> ELSE opened[u],
                        forceLogout /\ Sessions(h) = <<>> /\ Outdated(h), Changed)
        /\ mixed' = IF <<accounts[u].role, accounts[u].access>> # <<copy.role, copy.access>>
                    THEN mixed \cup {u} ELSE mixed
        /\ crossed' = (crossed \/ (copy.role = "OWNER" /\ role # "OWNER"
                                     /\ job[h].actor \notin Owners))
        \* isActive is as the payload says, or as it was
        /\ disabled' \in {disabled, disabled \cup {u}, disabled \ {u}}
        /\ Done(h) /\ UNCHANGED <<assigned, lastId>>

SaveUpdate(h) == job[h].at = "saveUpdate" /\ ~Purged(h) /\ SaveFields(h, TRUE)

\* deleteUserAccount: not oneself, an owner only by an owner and never the
\* last; then the events are looked at, or the account is taken out of them.
CountOwners(h, force) ==
    /\ job[h].at = "delete"
    /\ job[h].actor # job[h].target /\ OverOwner(h)
    /\ job[h].copy.role = "OWNER" => Cardinality(Owners) > 1
    /\ job' = [job EXCEPT ![h].at = "events", ![h].force = force]
    /\ ReadOnly

CheckEvents(h) ==
    LET u == job[h].target IN
    /\ job[h].at = "events"
    /\ job[h].force \/ u \notin assigned
    /\ assigned' = assigned \ {u}
    /\ Goto(h, "softDelete")
    /\ UNCHANGED <<accounts, disabled, aged, lastId, requests, ops, historyVars>>

SoftDelete(h) ==
    LET u == job[h].target IN
    /\ job[h].at = "softDelete" /\ ~Purged(h)
    /\ accounts' = [accounts EXCEPT ![u].state = "deleted"]
    /\ crossed' = (crossed \/ (accounts[u].role = "OWNER" /\ job[h].actor \notin Owners))
    /\ Done(h)
    /\ UNCHANGED <<assigned, disabled, aged, lastId, requests, ops, opened, stale, mixed>>

RestoreUser(h) ==
    /\ job[h].at = "restore" /\ ~Purged(h)
    /\ accounts' = [accounts EXCEPT ![job[h].target].state = "live"]
    /\ Done(h)
    /\ UNCHANGED <<assigned, disabled, aged, lastId, requests, ops, historyVars>>

\* permanentDeleteUserAccount: out of the events, then out of the database.
PurgeUser(h) ==
    /\ job[h].at = "purge" /\ job[h].actor # job[h].target
    /\ assigned' = assigned \ {job[h].target}
    /\ Goto(h, "remove")
    /\ UNCHANGED <<accounts, disabled, aged, lastId, requests, ops, historyVars>>
RemoveUser(h) ==
    /\ job[h].at = "remove"
    /\ accounts' = [accounts EXCEPT ![job[h].target].state = "purged"]
    /\ crossed' = (crossed \/ (job[h].target \in Owners /\ job[h].actor \notin Owners))
    /\ Done(h)
    /\ UNCHANGED <<assigned, disabled, aged, lastId, requests, ops, opened, stale, mixed>>

\* A guard refuses the request, or the account to save is gone.  The rules
\* for departments, groups and managers may refuse any that gets to them.
Refused(h) ==
    \/ job[h].at \in {"target", "create", "update"}
    \/ /\ job[h].at = "delete"
       /\ \/ job[h].actor = job[h].target \/ ~OverOwner(h)
          \/ job[h].copy.role = "OWNER" /\ Cardinality(Owners) <= 1
    \/ job[h].at = "events" /\ ~job[h].force /\ job[h].target \in assigned
    \/ job[h].at = "purge" /\ job[h].actor = job[h].target
    \/ job[h].at \in {"forgot", "reset", "change", "saveUpdate", "softDelete", "restore"} /\ Purged(h)
Refuse(h) == Refused(h) /\ Throws(h)

-----------------------------------------------------------------------------

Step(h) ==
    \/ login(h) \/ refresh(h) \/ RefuseRefresh(h) \/ RefuseAccess(h) \/ logout(h)
    \/ TripOverNull(h) \/ forgotPassword(h) \/ ClearSensitiveUserState(h)
    \/ TouchSession(h) \/ updateOwnProfile(h)
    \/ \E u \in Staff : FindTarget(h, u)
    \/ \E role \in Roles, access \in Accesses : CreateUser(h, role, access)
    \/ \E role \in Roles \cup {None}, access \in Accesses \cup {None} : UpdateUser(h, role, access)
    \/ SaveUpdate(h)
    \/ \E force \in BOOLEAN : CountOwners(h, force)
    \/ CheckEvents(h) \/ SoftDelete(h) \/ RestoreUser(h) \/ PurgeUser(h) \/ RemoveUser(h)
    \/ Refuse(h)

Next ==
    \/ \E h \in Handlers :
        \/ \E op \in Operations, u \in Staff :
            \/ BeginOpen(h, op, u)
            \/ \E i \in DOMAIN accounts[u].sessions :
                BeginSession(h, op, u, i) \/ Authenticate(h, op, u, i)
        \/ Step(h)
    \/ \E u \in Staff : \E i \in DOMAIN accounts[u].sessions : Expire(u, i)

Spec == Init /\ [][Next]_vars

-----------------------------------------------------------------------------
\* Properties

\* Accounts and requests are well-formed.
TypeOK ==
    /\ \A u \in Staff :
        /\ accounts[u].role \in Roles /\ accounts[u].access \in Accesses \cup {None}
        /\ accounts[u].state \in {"absent", "live", "deleted", "purged"}
        /\ \A i \in DOMAIN accounts[u].sessions : accounts[u].sessions[i].id \in 0..lastId
    /\ assigned \subseteq Staff /\ disabled \subseteq Staff /\ ops \subseteq Operations
    /\ requests \in 0..MaxRequests

\* The sessions of an account are those that were opened and not closed
\* since, each with its last token, and every element of the array is whole
\* - unless a handler wrote the array, or a position of it, from a copy that
\* was out of date there.  A login next to any other handler loses nothing.
SessionsAreExplained ==
    TypeOK /\ \A u \in Staff \ stale :
        accounts[u].sessions = opened[u] /\ Whole(accounts[u].sessions)

\* The permissions of an account are those of its role and its access,
\* unless two updates of it overlapped: each computed them from the half the
\* other one had not saved yet.
PermissionsMatch ==
    \A u \in Staff \ mixed :
        accounts[u].permissions = ComputePermissions(accounts[u].access, accounts[u].role)

\* There is always an owner, unless one was deleted, demoted or, restored since
\* the request to purge him began, purged for somebody who was no owner then.
OwnersRemain == Owners = {} => crossed
=============================================================================
