------------------------------- MODULE MCSystem -------------------------------
(* Where the parts start; each has a start at which it rests.  The         *)
(* instances in System need the starts, so these use instances of their own. *)
EXTENDS System, TLC

CONSTANTS ann, bob, eve, a0, a1, mail, z1, z2, p1

S0 == INSTANCE StaffAccounts WITH Starts <- {}
Alone(ann_) == ann :> ann_ @@ bob :> S0!NotThere @@ eve :> S0!NotThere
MCStarts == {
    [accounts |-> Alone(S0!Account("OWNER", None, <<S0!Session(1, 1), S0!Session(2, 1)>>)),
     assigned |-> {}, ops |-> S0!OpenOps \cup S0!OwnOps \cup {"expire"}],
    [accounts |-> (ann :> S0!Account("OWNER", None, <<S0!Session(1, 1)>>)
                   @@ bob :> S0!Account("OWNER", None, <<S0!Session(2, 1)>>)
                   @@ eve :> S0!Account("STAFF", a0, <<S0!Session(3, 1)>>)),
     assigned |-> {bob}, ops |-> S0!AdminOps \ {"create"}],
    [accounts |-> (ann :> S0!Account("OWNER", None, <<S0!Session(1, 1)>>)
                   @@ bob :> S0!Account("ADMIN", None, <<S0!Session(2, 1)>>)
                   @@ eve :> S0!NotThere),
     assigned |-> {}, ops |-> {"create", "update", "login", "delete"}],
    [accounts |-> (ann :> S0!Account("OWNER", None, <<S0!Session(1, 1)>>)
                   @@ bob :> [S0!Account("OWNER", None, <<S0!Session(2, 1)>>) EXCEPT !.state = "deleted"]
                   @@ eve :> S0!NotThere),
     assigned |-> {}, ops |-> {"restore", "purge", "delete"}],
    [accounts |-> Alone(S0!NotThere), assigned |-> {}, ops |-> {}] }

C0 == INSTANCE CustomerSessions WITH Starts <- {}, MaxRequests <- MaxCustomerRequests, job <- customerJob,
          ops <- customerOps, requests <- customerRequests, faults <- customerFaults, lastId <- lastCode
Customer(active) == C0!Customer(mail, None, p1, 1, active)
MCCustomerStarts == {
    [customers |-> <<Customer(TRUE)>>,
     ops |-> {"login", "logout", "googleLogin", "changePassword", "deleteAccount"}],
    [customers |-> <<Customer(FALSE)>>, ops |-> {"login", "sendOtp", "verifyOtp", "deleteAccount"}],
    [customers |-> <<Customer(TRUE)>>,
     ops |-> {"login", "forgotPassword", "forgotPasswordVerifyOtp", "resetPassword"}],
    [customers |-> <<>>, ops |-> {"register", "googleLogin", "verifyOtp"}],
    [customers |-> <<Customer(FALSE)>>, ops |-> {"generateQr", "scanQr", "verifyQr"}],
    [customers |-> <<C0!Customer(None, z2, p1, 0, TRUE)>>,
     ops |-> {"generateQr", "scanQr", "getQrStatus", "verifyQr", "zaloMiniAppLogin"}],
    [customers |-> <<>>, ops |-> {}] }

Cached(style_, ops_, reads, last) == [style |-> style_, ops |-> ops_, reads |-> reads, last |-> last]
MCCacheStarts == {
    Cached("versioned", {"read", "write", "unlock", "expire"}, 3, 1),
    Cached("versioned", {"read", "write", "age", "fail", "crash"}, 2, 2),
    Cached("versioned", {"read", "write", "restart"}, 3, 1),
    Cached("plain", {"read", "write", "expire", "fail", "crash"}, 3, 2),
    Cached("plain", {}, 0, 0) }

MCGateStarts == {{"fail", "tick"}, {"fail", "call"}, {"call", "tick"}, {"call", "restart"}, {}}

D0 == INSTANCE Seeding WITH SeedStarts <- {}
Empty == [c \in D0!Collections |-> {}]
Uncounted == [c \in D0!Collections |-> Absent]
Full(n) == [c \in D0!Collections |-> 1..n]
Counted(n) == [c \in D0!Collections |-> IF c \notin D0!Numbered THEN Absent ELSE n]
Seeded(programs_, ops_, ids_, counters_, runs, requests_) ==
    [programs |-> programs_, ops |-> ops_, ids |-> ids_, counters |-> counters_,
     runs |-> runs, requests |-> requests_]
MCSeedStarts == {
    Seeded({"seed", "init"}, {}, Empty, Uncounted, 2, 0),
    Seeded({"seed", "init"}, {"crash"}, Empty, Uncounted, 1, 2),
    Seeded({"reset", "init", "seed"}, {"crash", "fail"}, Full(1), Counted(1), 2, 0),
    Seeded({"seed", "meta"}, {"crash"}, [Full(1) EXCEPT !["kinds"] = {2}, !["programmes"] = {}], Counted(1), 2, 0),
    Seeded({"reset"}, {}, Full(2), Counted(2), 1, 2),
    Seeded({}, {}, Empty, Uncounted, 0, 0) }

\* Requests are alike, in every part.
Symmetry == Permutations(Handlers)
===============================================================================
