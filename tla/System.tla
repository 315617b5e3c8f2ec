-------------------------------- MODULE System --------------------------------
(***************************************************************************)
(* Accounts and sessions of the staff and of the customers, the cache, the *)
(* memory of the bank's calls, and the scripts that fill the database.     *)
(* They share no document, so each behaviour is about one of the parts,    *)
(* chosen by its start, and the others rest.                               *)
(***************************************************************************)
EXTENDS Integers, Sequences, FiniteSets

CONSTANTS Staff, Accesses, MaxRequests, MaxAged, None,
          Emails, Zalos, Phones, Tokens, MaxAttempts, MaxCustomerRequests, MaxFaults,
          Handlers, Readers, Writers, LastFault, LastData, Gone,
          Scripts, Clients, LastId, Absent,
          Addresses, RequestIds, Threshold, Window, BlockFor, KeepFor, TrackerSize, StoreSize,
          LastTime, MaxCalls, Never,
          Starts, CustomerStarts, CacheStarts, GateStarts, SeedStarts   \* of the parts

\* A start of the cache says how many reads and writes there will be.
ASSUME CacheAssumption ==
    /\ IsFiniteSet(Readers) /\ IsFiniteSet(Writers) /\ LastData \in Nat /\ Gone \notin Nat
    /\ CacheStarts \subseteq [style : {"versioned", "plain"}, ops : SUBSET STRING,
                              reads : Nat, last : 0 .. LastData]

VARIABLES part,
          accounts, assigned, disabled, job, aged, lastId, requests, ops, opened, stale, mixed, crossed,
          customers, sessions, codes, qr, customerJob, customerOps, customerRequests, customerFaults,
          lastCode, sent, proved, signedIn, late, crowded, raced, cutOff,
          style, cacheOps, faults, readsLeft, writesLeft, data, version, entries, locks,
          readers, writers, announced, rewound, freed,
          tracked, accepted, calls, time, gateOps, callCount, failedAt, forgotten, taken, together,
          ids, counters, scripts, clients, programs, seedOps, runsLeft, requestsLeft,
          given, twice, brokenOff, outrun, wasReset

staffVars == <<accounts, assigned, disabled, job, aged, lastId, requests, ops, opened, stale, mixed, crossed>>
customerVars == <<customers, sessions, codes, qr, customerJob, customerOps, customerRequests, customerFaults,
                  lastCode, sent, proved, signedIn, late, crowded, raced, cutOff>>
cacheVars == <<style, cacheOps, faults, readsLeft, writesLeft, data, version, entries, locks,
               readers, writers, announced, rewound, freed>>
gateVars == <<tracked, accepted, calls, time, gateOps, callCount, failedAt, forgotten, taken, together>>
seedVars == <<ids, counters, scripts, clients, programs, seedOps, runsLeft, requestsLeft,
              given, twice, brokenOff, outrun, wasReset>>

S == INSTANCE StaffAccounts

\* The accounts of a start are as some history of requests may have left them;
\* where there are requests to come, there is an owner.
ASSUME StaffAssumption ==
    /\ MaxRequests \in Nat
    /\ \A start \in Starts :
        /\ start.accounts \in [Staff -> [role : S!Roles, access : Accesses \cup {None},
                                         permissions : (Accesses \cup {None}) \X S!Roles,
                                         sessions : Seq([id : 1..4, tok : Nat]), reset : BOOLEAN,
                                         state : {"absent", "live", "deleted", "purged"}]]
        /\ \A u \in Staff : start.accounts[u].permissions =
                                S!ComputePermissions(start.accounts[u].access, start.accounts[u].role)
        /\ \A u \in Staff : LET ss == start.accounts[u].sessions IN
              /\ \A i, j \in DOMAIN ss : ss[i].id = ss[j].id => i = j
              /\ start.accounts[u].state = "absent" => ss = <<>>
        /\ start.assigned \subseteq Staff /\ start.ops \subseteq S!Operations
        /\ start.ops # {} => \E u \in Staff : start.accounts[u].state = "live" /\ start.accounts[u].role = "OWNER"

C == INSTANCE CustomerSessions WITH Starts <- CustomerStarts, MaxRequests <- MaxCustomerRequests,
         job <- customerJob, ops <- customerOps, requests <- customerRequests, faults <- customerFaults,
         lastId <- lastCode

\* The customers of a start are as they were registered.
ASSUME CustomerAssumption ==
    /\ MaxAttempts \in Nat
    /\ \A start \in CustomerStarts :
        /\ start.customers \in Seq([email : Emails \cup {None}, zalo : Zalos \cup {None}, phone : Phones \cup {None},
                                    pw : Nat, active : BOOLEAN, saved : BOOLEAN])
        /\ \A c \in DOMAIN start.customers : start.customers[c].pw <= Len(start.customers)

K == INSTANCE Cache
G == INSTANCE BankGate WITH Calls <- Handlers
D == INSTANCE Seeding

\* The sizes, times and the threshold are those of acbWebhookAuth, the sizes and the threshold positive.
ASSUME GateAssumption ==
    /\ Threshold \in Nat \ {0} /\ Window \in Nat \ {0} /\ BlockFor \in Nat /\ KeepFor \in Nat
    /\ TrackerSize \in Nat \ {0} /\ StoreSize \in Nat \ {0}
    /\ Never \notin Int

\* The database of a start is empty or as scripts and requests left it: the
\* counters cover the numbers, and what is referred to is there.
ASSUME SeedAssumption ==
    /\ Absent \notin Nat
    /\ Absent \notin [program : {"reset", "meta", "seed", "init"}, next : Nat, saw : {Absent} \cup [is : BOOLEAN \cup SUBSET Nat]]
    /\ \A start \in SeedStarts :
        /\ start.ids \in [D!Collections -> SUBSET (Nat \ {0})]
        /\ start.counters \in [D!Collections -> Nat \cup {Absent}]
        /\ start.programs \subseteq {"reset", "meta", "seed", "init"}
        /\ \A c \in D!Numbered : \A i \in start.ids[c] : start.counters[c] # Absent /\ i <= start.counters[c]
        /\ 2 \in start.ids["funnel"] => 1 \in start.ids["funnel"]
        /\ 1 \in start.ids["programmes"] => 1 \in start.ids["kinds"]

Init ==
    /\ S!Init /\ C!Init /\ K!CacheInit /\ G!GateInit /\ D!SeedInit
    /\ part \in {"staff", "customers", "cache", "gate", "seeds"}
    /\ (part = "staff") = (ops # {}) /\ (part = "customers") = (customerOps # {})
    /\ (part = "cache") = (cacheOps # {}) /\ (part = "gate") = (gateOps # {})
    /\ (part = "seeds") = (programs # {})

Next ==
    \/ part = "staff" /\ S!Next /\ UNCHANGED <<part, customerVars, cacheVars, gateVars, seedVars>>
    \/ part = "customers" /\ C!Next /\ UNCHANGED <<part, staffVars, cacheVars, gateVars, seedVars>>
    \/ part = "cache" /\ K!CacheNext /\ UNCHANGED <<part, staffVars, customerVars, gateVars, seedVars>>
    \/ part = "gate" /\ G!GateNext /\ UNCHANGED <<part, staffVars, customerVars, cacheVars, seedVars>>
    \/ part = "seeds" /\ D!SeedNext /\ UNCHANGED <<part, staffVars, customerVars, cacheVars, gateVars>>

Spec == Init /\ [][Next]_<<part, staffVars, customerVars, cacheVars, gateVars, seedVars>>

\* The properties of the five, stated and explained in their modules.

\* Sessions are those opened and not ended, unless copies overlapped (StaffAccounts).
SessionsAreExplained == part = "staff" => S!SessionsAreExplained
\* Permissions are those of the role, and an owner remains (StaffAccounts).
RolesAreKept == part = "staff" => S!PermissionsMatch /\ S!OwnersRemain
\* A customer has one session, and none from before a new password (CustomerSessions).
CustomersSignInOnce == part = "customers" => C!OneSession /\ C!OldSessionsEnd
\* QR tokens and codes are used once (CustomerSessions).
ProofsAreUsedOnce == part = "customers" => C!QrSignsInOnce /\ C!CodesProveOnce
\* A reader is not given data from before a write that had ended (Cache).
CacheIsHonest == part = "cache" => K!CacheIsHonest
\* Addresses are refused, and request ids taken again, for cause (BankGate).
GateRemembers == part = "gate" => G!GateRemembers
\* Counters cover the ids, ids are given once, seeds stand together (Seeding).
SeedsAddUp == part = "seeds" => D!SeedsAddUp
===============================================================================
