--------------------------------- MODULE Cache ---------------------------------
(***************************************************************************)
(* Cached reads (core/services/CacheService) of data that is written to    *)
(* MongoDB, in the two styles of the code:                                 *)
(*   - versioned: the keys of a namespace contain its version, which every *)
(*     writer raises after his write (the lists of configurations, users   *)
(*     and customers);                                                     *)
(*   - plain: one key, deleted after a write (the bank's routing rules,    *)
(*     the permissions of a role).                                         *)
(* One query of one namespace is modelled, and its data is a number that   *)
(* every write raises.  With Redis switched off the first style does not   *)
(* cache at all, and the second one caches in the process.                 *)
(***************************************************************************)
EXTENDS Integers, FiniteSets, FiniteSetsExt

CONSTANTS
    Readers, Writers,
    LastFault,              \* bound: expiries, failures and restarts
    CacheStarts,            \* bound: [style, ops, reads, last] a behaviour begins
                            \* with: how many reads there are, and writes
    LastData,               \* bound: the most writes of a start
    Gone

VARIABLES
    style, cacheOps, faults,
    readsLeft, writesLeft,
    data,       \* in MongoDB
    version,    \* of the namespace; 0: no such key
    entries,    \* version -> what is cached under it; 0 is the plain key
    locks,      \* versions with a lock
    readers,    \* reader -> its step, the version, data and lock it has
    writers,    \* writer -> the data it wrote and has not announced, or Gone
    announced,  \* the last data whose writer has finished (history)
    rewound,    \* the highest version the namespace was set back from, or that a
                \* writer failed to raise (history)
    freed       \* locks that went while they were held (history)

cacheVars == <<style, cacheOps, faults, readsLeft, writesLeft, data, version, entries, locks,
               readers, writers, announced, rewound, freed>>
Settings == <<style, cacheOps>>
Budget == <<Settings, readsLeft, writesLeft>>

Versions == 0 .. LastData + 1
Away == [at |-> "away", version |-> 0, data |-> 0, hasLock |-> FALSE, again |-> FALSE,
         floor |-> 0, late |-> FALSE]

CacheInit ==
    \E start \in CacheStarts :
        /\ style = start.style /\ cacheOps = start.ops
        /\ readsLeft = start.reads /\ writesLeft = start.last /\ faults = 0 /\ data = 0 /\ version = 0
        /\ entries = [v \in Versions |-> Gone] /\ locks = {}
        /\ readers = [r \in Readers |-> Away] /\ writers = [w \in Writers |-> Gone]
        /\ announced = 0 /\ rewound = 0 /\ freed = 0

Go(r, at) == readers' = [readers EXCEPT ![r].at = at]
Answer(r, entry) ==
    readers' = [readers EXCEPT ![r].at = "answered", ![r].data = entry.data,
                               ![r].late = entry.late, ![r].again = entry.old]
OnlyReaders == UNCHANGED <<Budget, faults, data, version, entries, locks,
                           writers, announced, rewound, freed>>
\* What goes wrong is switched on by the start, and bounded.
Fault(op) == op \in cacheOps /\ faults < LastFault /\ faults' = faults + 1
\* (mutated form: the version is read when the data is there)
KeyForNow(r) == IF style = "plain" THEN 0 ELSE version
KeyFor(r) == readers[r].version

-----------------------------------------------------------------------------
\* A reader

Begin(r) ==
    /\ "read" \in cacheOps /\ readsLeft > 0 /\ readers[r].at = "away"
    /\ readers' = [readers EXCEPT ![r] =
          [Away EXCEPT !.at = IF style = "plain" THEN "look" ELSE "version", !.floor = announced]]
    /\ readsLeft' = readsLeft - 1
    /\ UNCHANGED <<Settings, writesLeft, faults, data, version, entries, locks, writers, announced, rewound, freed>>

\* getNamespaceVersion
GetVersion(r) ==
    /\ readers[r].at = "version"
    /\ readers' = [readers EXCEPT ![r].at = IF version = 0 THEN "setVersion" ELSE "look",
                                  ![r].version = version]
    /\ OnlyReaders
\* If it cannot be read it is taken for 1.
GuessVersion(r) ==
    /\ Fault("fail") /\ readers[r].at \in {"version", "setVersion"}
    /\ readers' = [readers EXCEPT ![r].at = "look", ![r].version = 1] /\ rewound' = Max({rewound, 1})
    /\ UNCHANGED <<Budget, data, version, entries, locks, writers, announced, freed>>
SetVersion(r) ==
    /\ readers[r].at = "setVersion"
    /\ version' = 1 /\ rewound' = IF version > 1 THEN Max({rewound, version}) ELSE rewound
    /\ readers' = [readers EXCEPT ![r].at = "look", ![r].version = 1]
    /\ UNCHANGED <<Budget, faults, data, entries, locks, writers, announced, freed>>

\* The entry, however old; or else one reader at a time is to fetch.
Hit(r) ==
    /\ readers[r].at \in {"look", "poll"} /\ entries[KeyFor(r)] # Gone
    /\ Answer(r, [entries[KeyFor(r)] EXCEPT !.old = @ /\ readers[r].at = "look"]) /\ OnlyReaders
Miss(r) ==
    /\ readers[r].at = "look" /\ entries[KeyFor(r)] = Gone
    /\ Go(r, IF style = "plain" THEN "fetch" ELSE "lock") /\ OnlyReaders
Lock(r) ==
    /\ readers[r].at \in {"lock", "relock"} /\ KeyFor(r) \notin locks
    /\ locks' = locks \cup {KeyFor(r)}
    /\ readers' = [readers EXCEPT ![r].at = "fetch", ![r].hasLock = TRUE]
    /\ UNCHANGED <<Budget, faults, data, version, entries, writers, announced, rewound, freed>>
Locked(r) ==
    /\ readers[r].at \in {"lock", "relock"} /\ KeyFor(r) \in locks
    /\ Go(r, IF readers[r].at = "lock" THEN "poll" ELSE "away") /\ OnlyReaders
\* Two seconds later it fetches all the same.
GiveUp(r) == readers[r].at = "poll" /\ entries[KeyFor(r)] = Gone /\ Go(r, "fetch") /\ OnlyReaders

Fetch(r) ==
    /\ readers[r].at = "fetch"
    /\ readers' = [readers EXCEPT ![r].at = "store", ![r].data = data, ![r].late = FALSE] /\ OnlyReaders
Store(r) ==
    /\ readers[r].at = "store"
    /\ entries' = [entries EXCEPT ![KeyFor(r)] =
          [data |-> readers[r].data, old |-> FALSE, late |-> readers[r].data < announced]]
    /\ Go(r, IF readers[r].hasLock THEN "unlock" ELSE "answered")
    /\ UNCHANGED <<Budget, faults, data, version, locks, writers, announced, rewound, freed>>
\* The lock is deleted, whoever's it is by now.
Unlock(r) ==
    /\ readers[r].at = "unlock"
    /\ locks' = locks \ {KeyFor(r)}
    /\ readers' = [readers EXCEPT ![r].at = IF readers[r].again THEN "away" ELSE "answered",
                                  ![r].hasLock = FALSE]
    /\ UNCHANGED <<Budget, faults, data, version, entries, writers, announced, rewound, freed>>

\* The answer is given; an old one is renewed in the background (_asyncRefresh).
Leave(r) ==
    /\ readers[r].at = "answered"
    /\ readers' = [readers EXCEPT ![r] =
          IF readers[r].again THEN [readers[r] EXCEPT !.at = "relock"] ELSE Away]
    /\ OnlyReaders

\* A call of Redis fails: the reader takes the data from MongoDB.
RedisFails(r) ==
    /\ Fault("fail") /\ readers[r].at \in {"look", "lock", "poll", "store", "unlock"} /\ ~readers[r].again
    /\ readers' = [readers EXCEPT ![r].at = "direct", ![r].hasLock = FALSE]
    /\ UNCHANGED <<Budget, data, version, entries, locks, writers, announced, rewound, freed>>
Direct(r) ==
    /\ readers[r].at = "direct"
    /\ Answer(r, [data |-> data, late |-> FALSE, old |-> FALSE]) /\ OnlyReaders

-----------------------------------------------------------------------------
\* A writer, and time

Write(w) ==
    /\ "write" \in cacheOps /\ writers[w] = Gone /\ writesLeft > 0
    /\ writesLeft' = writesLeft - 1 /\ data' = data + 1 /\ writers' = [writers EXCEPT ![w] = data + 1]
    /\ UNCHANGED <<Settings, readsLeft, faults, version, entries, locks, readers, announced, rewound, freed>>
\* bumpNamespaceVersion (a missing key counts as 0), or del of the plain key.
Announce(w) ==
    /\ writers[w] # Gone
    /\ version' = IF style = "plain" THEN version ELSE version + 1
    /\ entries' = IF style = "plain" THEN [entries EXCEPT ![0] = Gone] ELSE entries
    /\ writers' = [writers EXCEPT ![w] = Gone] /\ announced' = Max({announced, writers[w]})
    /\ UNCHANGED <<Budget, faults, data, locks, readers, rewound, freed>>
\* It fails: that is logged, and the writer answers all the same.
AnnounceFails(w) ==
    /\ Fault("fail") /\ writers[w] # Gone
    /\ rewound' = IF style = "plain" THEN rewound ELSE Max({rewound, version})
    /\ entries' = IF style = "plain" /\ entries[0] # Gone THEN [entries EXCEPT ![0].late = TRUE] ELSE entries
    /\ writers' = [writers EXCEPT ![w] = Gone] /\ announced' = Max({announced, writers[w]})
    /\ UNCHANGED <<Budget, data, version, locks, readers, freed>>
Crash(w) ==
    /\ Fault("crash") /\ writers[w] # Gone /\ writers' = [writers EXCEPT ![w] = Gone]
    /\ UNCHANGED <<Budget, data, version, entries, locks, readers, announced, rewound, freed>>

Expire(v) ==
    /\ Fault("expire") /\ entries[v] # Gone /\ entries' = [entries EXCEPT ![v] = Gone]
    /\ UNCHANGED <<Budget, data, version, locks, readers, writers, announced, rewound, freed>>
GrowOld(v) ==
    /\ Fault("age") /\ style = "versioned" /\ entries[v] # Gone /\ ~entries[v].old
    /\ entries' = [entries EXCEPT ![v].old = TRUE]
    /\ UNCHANGED <<Budget, data, version, locks, readers, writers, announced, rewound, freed>>
LockExpires(v) ==
    /\ Fault("unlock") /\ v \in locks /\ locks' = locks \ {v} /\ freed' = freed + 1
    /\ UNCHANGED <<Budget, data, version, entries, readers, writers, announced, rewound>>
\* Redis starts again without its keys.
Restart ==
    /\ Fault("restart")
    /\ version' = 0 /\ entries' = [v \in Versions |-> Gone] /\ locks' = {}
    /\ rewound' = Max({rewound, version}) /\ freed' = freed + Cardinality(locks)
    /\ UNCHANGED <<Budget, data, readers, writers, announced>>

CacheNext ==
    \/ \E r \in Readers :
          \/ Begin(r) \/ GetVersion(r) \/ SetVersion(r) \/ GuessVersion(r) \/ Hit(r) \/ Miss(r) \/ Lock(r)
          \/ Locked(r) \/ GiveUp(r) \/ Fetch(r) \/ Store(r) \/ Unlock(r) \/ Leave(r) \/ RedisFails(r) \/ Direct(r)
    \/ \E w \in Writers : Write(w) \/ Announce(w) \/ AnnounceFails(w) \/ Crash(w)
    \/ \E v \in Versions : Expire(v) \/ GrowOld(v) \/ LockExpires(v)
    \/ Restart

-----------------------------------------------------------------------------
\* Properties

\* Who asks after a writer has finished is not answered with older data,
\* however the reads and writes overlap - unless the namespace was set back
\* to a version it had had (two first readers around a write, a version that
\* could not be read, a restart of Redis) or is at one that a writer failed to
\* raise, or a plain entry was stored by a reader the writer overtook or one
\* the writer failed to delete.
AnswersAreFresh ==
    \A r \in Readers : readers[r].at = "answered" =>
        \/ readers[r].data >= readers[r].floor
        \/ IF style = "plain" THEN readers[r].late ELSE KeyFor(r) <= rewound

\* One of those who hold the lock of a key fetches at a time, and one more for
\* each lock that went early; a fetch that takes longer than its lock deletes
\* the lock of the next one, which still adds only one.
FetchesAreFew ==
    \A v \in Versions :
        Cardinality({r \in Readers : readers[r].hasLock /\ KeyFor(r) = v}) <= 1 + freed

CacheIsHonest == AnswersAreFresh /\ FetchesAreFew
=============================================================================
