------------------------------- MODULE BankGate -------------------------------
(***************************************************************************)
(* What the server remembers about the bank's calls, in two maps of        *)
(* bounded size that a restart empties: the addresses whose calls could    *)
(* not be verified, and the request ids already taken.  A call's address   *)
(* is looked up first, its key and checksum in a later turn (the rate      *)
(* limit in between is asynchronous), and its request id is remembered     *)
(* when its answer is sent.                                                *)
(***************************************************************************)
EXTENDS Integers, Sequences, FiniteSets, SequencesExt

CONSTANTS
    Addresses, RequestIds, Calls,
    Threshold, Window, BlockFor, KeepFor,   \* failures; how long, in units of time
    TrackerSize, StoreSize,                 \* entries of the two maps
    LastTime, MaxCalls, GateStarts,         \* bounds
    Never

VARIABLES
    tracked,    \* entries [address, failures, until], oldest first
    accepted,   \* entries [id, at], oldest first
    calls,      \* call -> [stage, address, id], or Never
    time, gateOps, callCount,
    failedAt,   \* address -> times of its failed calls, in order (history)
    forgotten,  \* addresses and ids evicted or lost in a restart (history)
    taken,      \* <<id, time>> of each call answered well (history)
    together    \* ids two calls worked on at once (history)

gateVars == <<tracked, accepted, calls, time, gateOps, callCount, failedAt, forgotten, taken, together>>
gateHistory == <<failedAt, forgotten, taken, together>>

GateInit ==
    /\ gateOps \in GateStarts
    /\ tracked = <<>> /\ accepted = <<>> /\ calls = [c \in Calls |-> Never]
    /\ time = 0 /\ callCount = 0
    /\ failedAt = [a \in Addresses |-> <<>>] /\ forgotten = {} /\ taken = {} /\ together = {}

Checked(address) == [stage |-> "checked", address |-> address, id |-> Never]
Tracked(address) == {i \in DOMAIN tracked : tracked[i].address = address}
Without(entries, i) == RemoveAt(entries, i)
\* A map at its size loses its oldest entry.
Room(entries, size) == IF Len(entries) >= size THEN Tail(entries) ELSE entries
Evicted(entries, size) == IF Len(entries) >= size THEN {Head(entries)} ELSE {}
\* (mutated form: failures before the window still count)
RecentForEver(failures) == failures
\* Failures are kept in the order of their times: those out of the window come first.
Recent(failures) ==
    SubSeq(failures, 1 + Max({0} \cup {i \in DOMAIN failures : time - failures[i] >= Window}), Len(failures))

\* _isIpBlocked: [blocked, tracked], what it answers and what it leaves behind.
Look(address) ==
    IF Tracked(address) = {} THEN [blocked |-> FALSE, tracked |-> tracked]
    ELSE LET i == CHOOSE x \in Tracked(address) : TRUE
             entry == tracked[i]
             failures == Recent(entry.failures)
         IN IF entry.until # Never
            THEN IF time > entry.until THEN [blocked |-> FALSE, tracked |-> Without(tracked, i)]
                 ELSE [blocked |-> TRUE, tracked |-> tracked]
            ELSE [blocked |-> FALSE,
                  tracked |-> IF failures = <<>> THEN Without(tracked, i)
                              ELSE [tracked EXCEPT ![i].failures = failures]]

\* _recordAuthFailure
Record(address) ==
    LET all == IF Tracked(address) # {} THEN tracked
               ELSE Append(Room(tracked, TrackerSize), [address |-> address, failures |-> <<>>, until |-> Never])
        i == CHOOSE x \in DOMAIN all : all[x].address = address
        failures == Append(Recent(all[i].failures), time)
    IN IF Len(failures) >= Threshold THEN [all EXCEPT ![i].until = time + BlockFor, ![i].failures = <<>>]
       ELSE [all EXCEPT ![i].failures = failures]

\* checkAcbBruteForce: a blocked address is refused; looking up may drop what is over.
CheckAddress(c, address) ==
    /\ calls[c] = Never /\ callCount < MaxCalls /\ callCount' = callCount + 1
    /\ gateOps \cap {"fail", "call"} # {}
    /\ tracked' = Look(address).tracked
    /\ calls' = IF Look(address).blocked THEN calls ELSE [calls EXCEPT ![c] = Checked(address)]
    /\ UNCHANGED <<accepted, time, gateOps, gateHistory>>

\* verifyAcbApiKey, verifyAcbChecksum: not right.
Unverified(c) ==
    LET address == calls[c].address IN
    /\ "fail" \in gateOps /\ calls[c] # Never /\ calls[c].stage = "checked"
    /\ tracked' = Record(address)
    /\ calls' = [calls EXCEPT ![c] = Never]
    /\ failedAt' = [failedAt EXCEPT ![address] = Append(@, time)]
    /\ forgotten' = IF Tracked(address) = {} THEN forgotten \cup {e.address : e \in Evicted(tracked, TrackerSize)}
                    ELSE forgotten
    /\ UNCHANGED <<accepted, time, gateOps, callCount, taken, together>>

\* checkAcbRequestIdDedup, after both were right: the id is taken for a repetition
\* if it is remembered and not too old.
Remembered(id) == {i \in DOMAIN accepted : accepted[i].id = id}
Repeated(id) == \E i \in Remembered(id) : time - accepted[i].at <= KeepFor
Works(c, id) == calls[c] # Never /\ calls[c].stage = "working" /\ calls[c].id = id
Verified(c, id) ==
    /\ "call" \in gateOps /\ calls[c] # Never /\ calls[c].stage = "checked"
    /\ IF Repeated(id) THEN calls' = [calls EXCEPT ![c] = Never] /\ UNCHANGED accepted
       ELSE /\ calls' = [calls EXCEPT ![c].stage = "working", ![c].id = id]
            /\ accepted' = IF Remembered(id) = {} THEN accepted
                           ELSE Without(accepted, CHOOSE i \in Remembered(id) : TRUE)
    /\ together' = IF ~Repeated(id) /\ \E d \in Calls : Works(d, id) THEN together \cup {id} ELSE together
    /\ UNCHANGED <<tracked, time, gateOps, callCount, failedAt, forgotten, taken>>

\* Its answer is sent; only a good one (2xx) leaves the id behind.
Answered(c, well) ==
    LET id == calls[c].id
        new == well /\ Remembered(id) = {}
    IN /\ calls[c] # Never /\ calls[c].stage = "working"
       /\ calls' = [calls EXCEPT ![c] = Never]
       /\ accepted' = IF new THEN Append(Room(accepted, StoreSize), [id |-> id, at |-> time]) ELSE accepted
       /\ forgotten' = IF new THEN forgotten \cup {e.id : e \in Evicted(accepted, StoreSize)} ELSE forgotten
       /\ taken' = IF well THEN taken \cup {<<id, time, Cardinality(taken)>>} ELSE taken
       /\ UNCHANGED <<tracked, time, gateOps, callCount, failedAt, together>>

Tick ==
    /\ "tick" \in gateOps /\ time < LastTime /\ time' = time + 1
    /\ UNCHANGED <<tracked, accepted, calls, gateOps, callCount, gateHistory>>

Restart ==
    /\ "restart" \in gateOps /\ callCount < MaxCalls /\ callCount' = callCount + 1
    /\ tracked' = <<>> /\ accepted' = <<>> /\ calls' = [c \in Calls |-> Never]
    /\ forgotten' = Addresses \cup RequestIds
    /\ UNCHANGED <<time, gateOps, failedAt, taken, together>>

GateNext ==
    \/ \E c \in Calls, a \in Addresses : CheckAddress(c, a)
    \/ \E c \in Calls : Unverified(c)
    \/ \E c \in Calls, id \in RequestIds : Verified(c, id)
    \/ \E c \in Calls, well \in BOOLEAN : Answered(c, well)
    \/ Tick
    \/ Restart

-----------------------------------------------------------------------------
\* Some run of Threshold failures lies within a window and ended no longer than a block ago.
Earned(address) ==
    LET f == failedAt[address] IN
    \E i \in 1..(Len(f) - Threshold + 1) :
        /\ f[i + Threshold - 1] - f[i] < Window
        /\ time <= f[i + Threshold - 1] + BlockFor
\* An address is only refused for as many recent failures as the threshold says; and,
\* unless it was forgotten, its last failures having reached the threshold it is refused.
BlocksAreEarned ==
    \A a \in Addresses :
        /\ Look(a).blocked => Earned(a)
        /\ Len(failedAt[a]) = Threshold /\ a \notin forgotten /\ Earned(a) => Look(a).blocked
\* A request id is only taken twice while its first answer was not out, after the
\* time it is kept, or when it was forgotten.
TakenOnce ==
    \A x, y \in taken :
        x[1] = y[1] /\ x[3] < y[3] =>
            x[1] \in together \/ x[1] \in forgotten \/ y[2] - x[2] > KeepFor

GateRemembers == BlocksAreEarned /\ TakenOnce
===============================================================================
