----------------------------- MODULE SystemProofs -----------------------------
(***************************************************************************)
(* What TLAPS proves of the parts of System.  A step of System is a step   *)
(* of one part, or leaves it alone, so that each part is proved by itself, *)
(* from any starts of the form that the assumptions state.                 *)
(***************************************************************************)
EXTENDS System, Sums, SequenceTheorems, FiniteSetTheorems, TLAPS

-----------------------------------------------------------------------------
(* The cache.  A version above `rewound` has been the namespace's only once *)
(* and never after a higher one, so what is fetched under it is as new as   *)
(* whatever was announced when it was read.                                 *)

Entries == [data : Nat, old : BOOLEAN, late : BOOLEAN]
Stages == {"away", "version", "setVersion", "look", "lock", "relock", "poll", "fetch", "store",
           "unlock", "answered", "direct"}
ReaderStates == [at : Stages, version : 0 .. LastData + 1, data : Nat, hasLock : BOOLEAN,
                 again : BOOLEAN, floor : Nat, late : BOOLEAN]
Pending == {w \in Writers : writers[w] # Gone}
Holders(v) == {r \in Readers : readers[r].hasLock /\ readers[r].version = v}

CacheTypes ==
    /\ style \in {"versioned", "plain"} /\ writesLeft \in Nat
    /\ data \in Nat /\ announced \in Nat /\ rewound \in Nat /\ freed \in Nat
    /\ version \in 0 .. LastData + 1
    /\ entries \in [K!Versions -> Entries \cup {Gone}]
    /\ locks \subseteq K!Versions
    /\ readers \in [Readers -> ReaderStates]
    /\ writers \in [Writers -> Nat \cup {Gone}]

\* The versions that the writes to come can lead to exist.
WritesFit ==
    /\ writesLeft + Cardinality(Pending) <= LastData
    /\ version + writesLeft + Cardinality(Pending) <= LastData + 1

\* What was announced has been written, and nobody asked later than now.
Announced ==
    /\ announced <= data
    /\ \A w \in Writers : writers[w] # Gone => writers[w] <= data
    /\ \A r \in Readers : readers[r].floor <= announced

\* Data that may be given to whoever uses the key, of a version v.
Fresh(v, d) ==
    /\ \A r \in Readers : readers[r].version = v => readers[r].floor <= d
    /\ v = version => announced <= d

VersionFits(v) ==
    /\ v > version => entries[v] = Gone /\ \A r \in Readers : readers[r].version # v
    /\ entries[v] # Gone => Fresh(v, entries[v].data)
    /\ \A r \in Readers :
          readers[r].version = v /\ readers[r].at = "store" => Fresh(v, readers[r].data)
VersionsInv == \A v \in K!Versions : v > rewound => VersionFits(v)

\* A plain entry that nobody overtook is as new as what is announced.
PlainReader(r) ==
    /\ readers[r].version = 0 /\ readers[r].at \notin {"version", "setVersion"}
    /\ readers[r].at \in {"store", "unlock", "answered"} /\ ~readers[r].late =>
          readers[r].floor <= readers[r].data
PlainInv ==
    style = "plain" =>
        /\ version = 0
        /\ entries[0] # Gone /\ ~entries[0].late => announced <= entries[0].data
        /\ \A r \in Readers : PlainReader(r)

\* What a reader has to answer with.
AnswerInv ==
    \A r \in Readers :
        style = "versioned" /\ readers[r].at \in {"unlock", "answered"}
        /\ readers[r].version > rewound => readers[r].floor <= readers[r].data

\* More hold the lock of a key than there is only if one went early.
LockFits(r) ==
    /\ readers[r].hasLock => readers[r].at \in {"fetch", "store", "unlock"}
    /\ readers[r].at = "unlock" => readers[r].hasLock
LocksInv ==
    /\ \A r \in Readers : LockFits(r)
    /\ \A v \in K!Versions :
          Cardinality(Holders(v)) <= (IF v \in locks THEN 1 ELSE 0) + freed

CacheInv ==
    CacheTypes /\ WritesFit /\ Announced /\ VersionsInv /\ PlainInv /\ AnswerInv /\ LocksInv


\* The operators that Cache takes from the community modules.
LEMMA SameCardinality ==
    ASSUME NEW s
    PROVE  K!Cardinality(s) = Cardinality(s)
BY DEF K!Cardinality, Cardinality, K!IsFiniteSet, IsFiniteSet

LEMMA MaxOfTwo ==
    ASSUME NEW a \in Int, NEW b \in Int
    PROVE  K!Max({a, b}) = IF a >= b THEN a ELSE b
<1>. DEFINE m == IF a >= b THEN a ELSE b
<1>1. m \in {a, b} /\ \A y \in {a, b} : m >= y
  OBVIOUS
<1>2. K!Max({a, b}) \in {a, b} /\ \A y \in {a, b} : K!Max({a, b}) >= y
  BY <1>1 DEF K!Max
<1>. QED
  BY <1>1, <1>2


ReaderSteps(r) ==
    \/ K!Begin(r) \/ K!GetVersion(r) \/ K!SetVersion(r) \/ K!GuessVersion(r) \/ K!Hit(r) \/ K!Miss(r)
    \/ K!Lock(r) \/ K!Locked(r) \/ K!GiveUp(r) \/ K!Fetch(r) \/ K!Store(r) \/ K!Unlock(r)
    \/ K!Leave(r) \/ K!RedisFails(r) \/ K!Direct(r)

\* A reader's step leaves it in one of a reader's states.
LEMMA ReaderTypesKept ==
    ASSUME CacheTypes, NEW r \in Readers, ReaderSteps(r)
    PROVE  readers' \in [Readers -> ReaderStates]
<1>. readers \in [Readers -> ReaderStates] /\ readers[r] \in ReaderStates
  BY DEF CacheTypes
<1>. 0 \in 0 .. LastData + 1 /\ 1 \in 0 .. LastData + 1 /\ version \in 0 .. LastData + 1
  BY CacheAssumption DEF CacheTypes
<1>1. CASE K!Begin(r)
  <2>. DEFINE x == [K!Away EXCEPT !.at = IF style = "plain" THEN "look" ELSE "version", !.floor = announced]
  <2>1. K!Away \in ReaderStates
    BY DEF ReaderStates, Stages, K!Away
  <2>2. x \in ReaderStates
    BY <2>1 DEF ReaderStates, Stages, CacheTypes
  <2>3. readers' = [readers EXCEPT ![r] = x]
    BY <1>1 DEF K!Begin
  <2>. QED
    BY <2>2, <2>3
<1>2. CASE K!GetVersion(r)
  <2>. DEFINE x == [readers[r] EXCEPT !.at = IF version = 0 THEN "setVersion" ELSE "look", !.version = version]
  <2>1. x \in ReaderStates
    BY DEF ReaderStates, Stages, CacheTypes
  <2>2. readers' = [readers EXCEPT ![r] = x]
    BY <1>2 DEF K!GetVersion, K!OnlyReaders
  <2>. QED
    BY <2>1, <2>2
<1>3. CASE K!SetVersion(r)
  <2>. DEFINE x == [readers[r] EXCEPT !.at = "look", !.version = 1]
  <2>1. x \in ReaderStates
    BY DEF ReaderStates, Stages, CacheTypes
  <2>2. readers' = [readers EXCEPT ![r] = x]
    BY <1>3 DEF K!SetVersion
  <2>. QED
    BY <2>1, <2>2
<1>4. CASE K!GuessVersion(r)
  <2>. DEFINE x == [readers[r] EXCEPT !.at = "look", !.version = 1]
  <2>1. x \in ReaderStates
    BY DEF ReaderStates, Stages, CacheTypes
  <2>2. readers' = [readers EXCEPT ![r] = x]
    BY <1>4 DEF K!GuessVersion
  <2>. QED
    BY <2>1, <2>2
<1>5. CASE K!Hit(r)
  <2>. DEFINE e == entries[readers[r].version]
              x == [readers[r] EXCEPT !.at = "answered", !.data = e.data, !.late = e.late,
                    !.again = e.old /\ readers[r].at = "look"]
  <2>1. e \in Entries
    BY <1>5 DEF K!Hit, K!KeyFor, CacheTypes, ReaderStates, K!Versions
  <2>2. x \in ReaderStates
    BY <2>1 DEF ReaderStates, Stages, Entries
  <2>3. readers' = [readers EXCEPT ![r] = x]
    BY <1>5, <2>1 DEF K!Hit, K!Answer, K!KeyFor, Entries
  <2>. QED
    BY <2>2, <2>3
<1>6. CASE K!Miss(r)
  BY <1>6 DEF K!Miss, K!Go, ReaderStates, Stages
<1>7. CASE K!Lock(r)
  <2>. DEFINE x == [readers[r] EXCEPT !.at = "fetch", !.hasLock = TRUE]
  <2>1. x \in ReaderStates
    BY DEF ReaderStates, Stages, CacheTypes
  <2>2. readers' = [readers EXCEPT ![r] = x]
    BY <1>7 DEF K!Lock
  <2>. QED
    BY <2>1, <2>2
<1>8. CASE K!Locked(r)
  BY <1>8 DEF K!Locked, K!Go, ReaderStates, Stages
<1>9. CASE K!GiveUp(r)
  BY <1>9 DEF K!GiveUp, K!Go, ReaderStates, Stages
<1>10. CASE K!Fetch(r)
  <2>. DEFINE x == [readers[r] EXCEPT !.at = "store", !.data = data, !.late = FALSE]
  <2>1. x \in ReaderStates
    BY DEF ReaderStates, Stages, CacheTypes
  <2>2. readers' = [readers EXCEPT ![r] = x]
    BY <1>10 DEF K!Fetch
  <2>. QED
    BY <2>1, <2>2
<1>11. CASE K!Store(r)
  BY <1>11 DEF K!Store, K!Go, ReaderStates, Stages
<1>12. CASE K!Unlock(r)
  <2>. DEFINE x == [readers[r] EXCEPT !.at = IF readers[r].again THEN "away" ELSE "answered", !.hasLock = FALSE]
  <2>1. x \in ReaderStates
    BY DEF ReaderStates, Stages, CacheTypes
  <2>2. readers' = [readers EXCEPT ![r] = x]
    BY <1>12 DEF K!Unlock
  <2>. QED
    BY <2>1, <2>2
<1>13. CASE K!Leave(r)
  <2>. DEFINE x == IF readers[r].again THEN [readers[r] EXCEPT !.at = "relock"] ELSE K!Away
  <2>1. x \in ReaderStates
    BY DEF ReaderStates, Stages, CacheTypes, K!Away
  <2>2. readers' = [readers EXCEPT ![r] = x]
    BY <1>13 DEF K!Leave, K!Away
  <2>. QED
    BY <2>1, <2>2
<1>14. CASE K!RedisFails(r)
  <2>. DEFINE x == [readers[r] EXCEPT !.at = "direct", !.hasLock = FALSE]
  <2>1. x \in ReaderStates
    BY DEF ReaderStates, Stages, CacheTypes
  <2>2. readers' = [readers EXCEPT ![r] = x]
    BY <1>14 DEF K!RedisFails
  <2>. QED
    BY <2>1, <2>2
<1>15. CASE K!Direct(r)
  <2>. DEFINE x == [readers[r] EXCEPT !.at = "answered", !.data = data, !.late = FALSE, !.again = FALSE]
  <2>1. x \in ReaderStates
    BY DEF ReaderStates, Stages, CacheTypes
  <2>2. readers' = [readers EXCEPT ![r] = x]
    BY <1>15 DEF K!Direct, K!Answer
  <2>. QED
    BY <2>1, <2>2
<1>. QED
  BY <1>1, <1>2, <1>3, <1>4, <1>5, <1>6, <1>7, <1>8, <1>9, <1>10, <1>11, <1>12, <1>13, <1>14, <1>15 DEF ReaderSteps

\* Readers change neither what is written nor who is about to announce it, and
\* the version only by setting a missing one.
LEMMA ReadersOnlyRead ==
    ASSUME CacheTypes, NEW r \in Readers, ReaderSteps(r)
    PROVE  /\ UNCHANGED <<style, writesLeft, data, writers, announced, freed>>
           /\ version' = version \/ version' = 1
           /\ rewound' \in Nat /\ rewound' >= rewound
<1>1. K!Max({rewound, 1}) \in Nat /\ K!Max({rewound, 1}) >= rewound
  BY MaxOfTwo DEF CacheTypes
<1>2. K!Max({rewound, version}) \in Nat /\ K!Max({rewound, version}) >= rewound
  <2>1. version \in Nat /\ rewound \in Nat
    BY CacheAssumption DEF CacheTypes
  <2>. QED
    BY <2>1, MaxOfTwo
<1>. QED
  BY <1>1, <1>2 DEF CacheTypes, ReaderSteps, K!Begin, K!GetVersion, K!SetVersion, K!GuessVersion, K!Hit,
      K!Miss, K!Lock, K!Locked, K!GiveUp, K!Fetch, K!Store, K!Unlock, K!Leave, K!RedisFails, K!Direct,
      K!OnlyReaders, K!Budget, K!Settings, K!Fault

\* The writers who have yet to announce what they wrote.
LEMMA PendingChanges ==
    ASSUME CacheTypes
    PROVE  /\ Cardinality(Pending) \in Nat
           /\ \A w \in Writers : K!Write(w) => Cardinality(Pending') = Cardinality(Pending) + 1
           /\ \A w \in Writers : K!Announce(w) \/ K!AnnounceFails(w) \/ K!Crash(w) =>
                 Cardinality(Pending) > 0 /\ Cardinality(Pending') = Cardinality(Pending) - 1
<1>1. IsFiniteSet(Pending) /\ Cardinality(Pending) \in Nat
  BY CacheAssumption, FS_Subset, FS_CardinalityType DEF Pending
<1>2. ASSUME NEW w \in Writers, K!Write(w)
      PROVE  Cardinality(Pending') = Cardinality(Pending) + 1
  <2>1. w \notin Pending /\ Pending' = Pending \cup {w}
    BY <1>2, CacheAssumption DEF K!Write, Pending, CacheTypes
  <2>. QED
    BY <1>1, <2>1, FS_AddElement
<1>3. ASSUME NEW w \in Writers, K!Announce(w) \/ K!AnnounceFails(w) \/ K!Crash(w)
      PROVE  Cardinality(Pending) > 0 /\ Cardinality(Pending') = Cardinality(Pending) - 1
  <2>1. w \in Pending /\ Pending' = Pending \ {w}
    BY <1>3 DEF K!Announce, K!AnnounceFails, K!Crash, Pending, CacheTypes
  <2>2. Cardinality(Pending') = Cardinality(Pending) - 1 /\ Cardinality(Pending') \in Nat
    BY <1>1, <2>1, FS_RemoveElement, FS_CardinalityType
  <2>. QED
    BY <1>1, <2>2
<1>. QED
  BY <1>1, <1>2, <1>3

LEMMA AwayFields ==
    /\ K!Away \in ReaderStates /\ K!Away.at = "away" /\ K!Away.version = 0 /\ K!Away.floor = 0
    /\ K!Away.hasLock = FALSE /\ K!Away.late = FALSE
<1>1. 0 \in 0 .. LastData + 1
  BY CacheAssumption
<1>. QED
  BY <1>1 DEF K!Away, ReaderStates, Stages

\* The other readers stay, and nobody asks but with what is announced.
LEMMA ReadersKeepTheirFloors ==
    ASSUME CacheTypes, NEW r \in Readers, ReaderSteps(r)
    PROVE  /\ \A q \in Readers : q # r => readers'[q] = readers[q]
           /\ readers'[r].floor \in {readers[r].floor, announced, 0}
<1>1. readers \in [Readers -> ReaderStates] /\ K!Away.floor = 0
  BY DEF CacheTypes, K!Away
<1>2. CASE K!Begin(r) \/ K!Leave(r)
  BY <1>1, <1>2 DEF K!Begin, K!Leave, K!Away, ReaderStates
<1>3. CASE ~K!Begin(r) /\ ~K!Leave(r)
  BY <1>1, <1>3 DEF ReaderStates, ReaderSteps, K!GetVersion, K!SetVersion, K!GuessVersion, K!Hit, K!Miss, K!Lock,
      K!Locked, K!GiveUp, K!Fetch, K!Store, K!Unlock, K!RedisFails, K!Direct, K!Go, K!Answer
<1>. QED
  BY <1>2, <1>3

\* The steps of the cache, by who takes them.
LEMMA CacheSteps ==
    ASSUME K!CacheNext
    PROVE  \/ \E r \in Readers : ReaderSteps(r)
           \/ \E w \in Writers : K!Write(w) \/ K!Announce(w) \/ K!AnnounceFails(w) \/ K!Crash(w)
           \/ \E v \in K!Versions : K!Expire(v) \/ K!GrowOld(v) \/ K!LockExpires(v)
           \/ K!Restart
BY DEF K!CacheNext, ReaderSteps

\* A step keeps the types.
LEMMA CacheTypesKept ==
    ASSUME CacheTypes, WritesFit, K!CacheNext
    PROVE  CacheTypes'
<1>1. version \in Nat /\ rewound \in Nat /\ 0 \in K!Versions /\ 1 \in K!Versions
  BY CacheAssumption DEF CacheTypes, K!Versions
<1>2. ASSUME NEW r \in Readers, ReaderSteps(r)
      PROVE  CacheTypes'
  <2>1. readers' \in [Readers -> ReaderStates]
    BY <1>2, ReaderTypesKept
  <2>2. /\ style' = style /\ writesLeft' = writesLeft /\ data' = data /\ writers' = writers
        /\ announced' = announced /\ freed' = freed /\ version' \in {version, 1} /\ rewound' \in Nat
    BY <1>2, ReadersOnlyRead
  <2>3. readers[r].version \in K!Versions /\ readers[r].data \in Nat
    BY DEF CacheTypes, ReaderStates, K!Versions
  <2>4. entries' \in [K!Versions -> Entries \cup {Gone}]
    <3>1. CASE K!Store(r)
      <4>1. [data |-> readers[r].data, old |-> FALSE, late |-> readers[r].data < announced] \in Entries
        BY <2>3 DEF Entries
      <4>. QED
        BY <3>1, <4>1 DEF K!Store, K!KeyFor, CacheTypes
    <3>2. CASE ~K!Store(r)
      BY <1>2, <3>2 DEF CacheTypes, ReaderSteps, K!Begin, K!GetVersion, K!SetVersion, K!GuessVersion, K!Hit,
          K!Miss, K!Lock, K!Locked, K!GiveUp, K!Fetch, K!Unlock, K!Leave, K!RedisFails, K!Direct, K!OnlyReaders
    <3>. QED
      BY <3>1, <3>2
  <2>5. locks' \subseteq K!Versions
    BY <1>2, <2>3 DEF CacheTypes, ReaderSteps, K!Begin, K!GetVersion, K!SetVersion, K!GuessVersion, K!Hit, K!Miss,
        K!Lock, K!Locked, K!GiveUp, K!Fetch, K!Store, K!Unlock, K!Leave, K!RedisFails, K!Direct, K!OnlyReaders,
        K!KeyFor
  <2>. QED
    BY <1>1, <2>1, <2>2, <2>4, <2>5 DEF CacheTypes, K!Versions
<1>3. ASSUME NEW w \in Writers, K!Write(w) \/ K!Announce(w) \/ K!AnnounceFails(w) \/ K!Crash(w)
      PROVE  CacheTypes'
  <2>1. CASE K!Write(w)
    BY <2>1 DEF K!Write, CacheTypes, K!Settings
  <2>2. CASE K!Announce(w)
    <3>1. writers[w] \in Nat /\ announced' \in Nat
      BY <2>2, MaxOfTwo DEF K!Announce, CacheTypes
    <3>2. version' \in 0 .. LastData + 1
      <4>1. Cardinality(Pending) \in Nat /\ Cardinality(Pending) > 0
        BY <2>2, PendingChanges
      <4>2. version + writesLeft + Cardinality(Pending) <= LastData + 1 /\ writesLeft \in Nat
        BY DEF WritesFit, CacheTypes
      <4>. QED
        BY <1>1, <2>2, <4>1, <4>2, CacheAssumption DEF K!Announce
    <3>3. entries' \in [K!Versions -> Entries \cup {Gone}] /\ writers' \in [Writers -> Nat \cup {Gone}]
      BY <1>1, <2>2 DEF K!Announce, CacheTypes
    <3>. QED
      BY <2>2, <3>1, <3>2, <3>3 DEF K!Announce, CacheTypes, K!Budget, K!Settings
  <2>3. CASE K!Crash(w)
    BY <2>3 DEF K!Crash, K!Budget, K!Settings, CacheTypes
  <2>4. CASE K!AnnounceFails(w)
    <3>1. writers[w] \in Nat /\ announced' \in Nat
      BY <2>4, MaxOfTwo DEF K!AnnounceFails, CacheTypes
    <3>2. rewound' \in Nat
      <4>1. version \in Nat /\ rewound \in Nat
        BY CacheAssumption DEF CacheTypes
      <4>. QED
        BY <2>4, <4>1, MaxOfTwo DEF K!AnnounceFails
    <3>3. entries' \in [K!Versions -> Entries \cup {Gone}] /\ writers' \in [Writers -> Nat \cup {Gone}]
      BY <1>1, <2>4 DEF K!AnnounceFails, CacheTypes, Entries
    <3>. QED
      BY <2>4, <3>1, <3>2, <3>3 DEF K!AnnounceFails, CacheTypes, K!Budget, K!Settings
  <2>. QED
    BY <1>3, <2>1, <2>2, <2>3, <2>4
<1>4. ASSUME NEW v \in K!Versions, K!Expire(v) \/ K!GrowOld(v) \/ K!LockExpires(v)
      PROVE  CacheTypes'
  <2>1. entries' \in [K!Versions -> Entries \cup {Gone}]
    BY <1>4 DEF K!Expire, K!GrowOld, K!LockExpires, CacheTypes, Entries
  <2>. QED
    BY <1>4, <2>1 DEF K!Expire, K!GrowOld, K!LockExpires, K!Budget, K!Settings, CacheTypes
<1>5. ASSUME K!Restart
      PROVE  CacheTypes'
  <2>1. rewound' \in Nat
    BY <1>1, <1>5, MaxOfTwo DEF K!Restart
  <2>2. Cardinality(locks) \in Nat
    <3>1. IsFiniteSet(K!Versions)
      BY CacheAssumption, FS_Interval DEF K!Versions
    <3>. QED
      BY <3>1, FS_Subset, FS_CardinalityType DEF CacheTypes
  <2>3. 0 \in 0 .. LastData + 1
    BY <1>1 DEF K!Versions
  <2>4. freed' \in Nat /\ entries' \in [K!Versions -> Entries \cup {Gone}] /\ locks' \subseteq K!Versions
    <3>1. freed \in Nat
      BY DEF CacheTypes
    <3>2. /\ freed' = freed + Cardinality(locks)
          /\ entries' = [v \in K!Versions |-> Gone] /\ locks' = {}
      BY <1>5, SameCardinality DEF K!Restart
    <3>. QED
      BY <2>2, <3>1, <3>2
  <2>. QED
    BY <1>5, <2>1, <2>3, <2>4 DEF K!Restart, K!Budget, K!Settings, CacheTypes
<1>. QED
  BY <1>2, <1>3, <1>4, <1>5, CacheSteps

\* Versions enough for the writes to come.
LEMMA WritesFitKept ==
    ASSUME CacheTypes, WritesFit, K!CacheNext
    PROVE  WritesFit'
<1>1. version \in Nat /\ writesLeft \in Nat /\ LastData \in Nat /\ Cardinality(Pending) \in Nat
  BY CacheAssumption, PendingChanges DEF CacheTypes
<1>2. ASSUME UNCHANGED writers
      PROVE  Pending' = Pending
  BY <1>2 DEF Pending
<1>3. ASSUME NEW r \in Readers, ReaderSteps(r)
      PROVE  WritesFit'
  <2>1. writers' = writers /\ writesLeft' = writesLeft /\ (version' = version \/ version' = 1)
    BY <1>3, ReadersOnlyRead
  <2>. QED
    BY <1>1, <1>2, <2>1 DEF WritesFit
<1>4. ASSUME NEW w \in Writers, K!Write(w)
      PROVE  WritesFit'
  <2>1. Cardinality(Pending') = Cardinality(Pending) + 1
    BY <1>4, PendingChanges
  <2>. QED
    BY <1>1, <1>4, <2>1 DEF K!Write, WritesFit
<1>5. ASSUME NEW w \in Writers, K!Announce(w) \/ K!AnnounceFails(w) \/ K!Crash(w)
      PROVE  WritesFit'
  <2>1. Cardinality(Pending') = Cardinality(Pending) - 1
    BY <1>5, PendingChanges
  <2>. QED
    BY <1>1, <1>5, <2>1 DEF K!Announce, K!AnnounceFails, K!Crash, K!Budget, K!Settings, WritesFit
<1>6. ASSUME NEW v \in K!Versions, K!Expire(v) \/ K!GrowOld(v) \/ K!LockExpires(v)
      PROVE  WritesFit'
  BY <1>2, <1>6 DEF K!Expire, K!GrowOld, K!LockExpires, K!Budget, K!Settings, WritesFit
<1>7. ASSUME K!Restart
      PROVE  WritesFit'
  BY <1>1, <1>2, <1>7 DEF K!Restart, K!Budget, K!Settings, WritesFit
<1>. QED
  BY <1>3, <1>4, <1>5, <1>6, <1>7, CacheSteps

\* Nobody has asked later than the last announcement, which follows its write.
LEMMA AnnouncedKept ==
    ASSUME CacheTypes, Announced, K!CacheNext
    PROVE  Announced'
<1>1. /\ data \in Nat /\ announced \in Nat /\ \A w \in Writers : writers[w] # Gone => writers[w] \in Nat
      /\ \A r \in Readers : readers[r].floor \in Nat
  BY DEF CacheTypes, ReaderStates
<1>2. ASSUME NEW r \in Readers, ReaderSteps(r)
      PROVE  Announced'
  <2>1. writers' = writers /\ data' = data /\ announced' = announced
    BY <1>2, ReadersOnlyRead
  <2>. QED
    BY <1>1, <1>2, <2>1, ReadersKeepTheirFloors DEF Announced
<1>3. ASSUME NEW w \in Writers, K!Write(w)
      PROVE  Announced'
  BY <1>1, <1>3, CacheAssumption DEF K!Write, Announced, CacheTypes
<1>4. ASSUME NEW w \in Writers, K!Announce(w) \/ K!AnnounceFails(w)
      PROVE  Announced'
  <2>1. announced' = IF announced >= writers[w] THEN announced ELSE writers[w]
    BY <1>1, <1>4, MaxOfTwo DEF K!Announce, K!AnnounceFails
  <2>2. writers[w] \in Nat /\ writers[w] <= data /\ announced <= data
    BY <1>1, <1>4 DEF K!Announce, K!AnnounceFails, Announced
  <2>3. announced' \in Nat /\ announced' <= data /\ announced <= announced'
    BY <1>1, <2>1, <2>2
  <2>. QED
    <3>1. /\ data' = data /\ readers' = readers
          /\ \A x \in Writers : writers'[x] # Gone => writers'[x] = writers[x]
      BY <1>4 DEF K!Announce, K!AnnounceFails, K!Budget, CacheTypes
    <3>. QED
      BY <1>1, <2>3, <3>1 DEF Announced
<1>5. ASSUME NEW w \in Writers, K!Crash(w)
      PROVE  Announced'
  BY <1>5 DEF K!Crash, Announced, CacheTypes
<1>6. ASSUME NEW v \in K!Versions, K!Expire(v) \/ K!GrowOld(v) \/ K!LockExpires(v)
      PROVE  Announced'
  BY <1>6 DEF K!Expire, K!GrowOld, K!LockExpires, Announced
<1>7. ASSUME K!Restart
      PROVE  Announced'
  BY <1>7 DEF K!Restart, Announced
<1>. QED
  BY <1>2, <1>3, <1>4, <1>5, <1>6, <1>7, CacheSteps

\* What is fetched under a version is as new as whoever uses it may expect.
LEMMA VersionsKept ==
    ASSUME CacheTypes, WritesFit, Announced, VersionsInv, PlainInv, K!CacheNext
    PROVE  VersionsInv'
<1>1. /\ version \in Nat /\ rewound \in Nat /\ data \in Nat /\ announced \in Nat /\ announced <= data
      /\ \A r \in Readers : readers[r].floor \in Nat /\ readers[r].floor <= announced /\ readers[r].data \in Nat
      /\ \A r \in Readers : readers[r].version \in K!Versions
      /\ K!Versions \subseteq Nat
  BY CacheAssumption DEF CacheTypes, Announced, ReaderStates, K!Versions
<1>2. ASSUME NEW r \in Readers, ReaderSteps(r)
      PROVE  VersionsInv'
  <2>. readers \in [Readers -> ReaderStates] /\ readers[r] \in ReaderStates
    BY DEF CacheTypes
  <2>1. /\ rewound' \in Nat /\ rewound' >= rewound /\ announced' = announced
        /\ \A q \in Readers : q # r => readers'[q] = readers[q]
    BY <1>2, ReadersOnlyRead, ReadersKeepTheirFloors
  <2>. SUFFICES ASSUME NEW v \in K!Versions, v > rewound'
                PROVE  VersionFits(v)'
    BY DEF VersionsInv
  <2>2. VersionFits(v) /\ v \in Nat /\ v > 0
    BY <1>1, <2>1 DEF VersionsInv
  <2>3. CASE K!GetVersion(r)
    BY <1>1, <2>1, <2>2, <2>3 DEF K!GetVersion, K!OnlyReaders, VersionFits, Fresh, ReaderStates
  <2>4. CASE K!SetVersion(r)
    <3>1. /\ version' = 1 /\ entries' = entries /\ readers'[r].version = 1 /\ readers'[r].at = "look"
          /\ readers'[r].floor = readers[r].floor
      BY <2>4 DEF K!SetVersion, ReaderStates
    <3>2. version > 1 => v > version
      <4>1. K!Max({rewound, version}) >= version
        BY <1>1, MaxOfTwo
      <4>. QED
        BY <1>1, <2>1, <2>4, <4>1 DEF K!SetVersion
    <3>3. CASE version > 1
      BY <1>1, <2>1, <2>2, <3>1, <3>2, <3>3 DEF VersionFits, Fresh
    <3>4. CASE version = 0
      <4>1. \A q \in Readers : readers[q].version # v
        BY <2>2, <3>4 DEF VersionFits
      <4>2. entries[v] = Gone
        BY <2>2, <3>4 DEF VersionFits
      <4>3. \A q \in Readers : readers'[q].version = v => q = r /\ v = 1 /\ readers'[q].at = "look"
        BY <2>1, <3>1, <4>1
      <4>. QED
        BY <3>1, <4>2, <4>3 DEF VersionFits
    <3>5. CASE version = 1
      <4>1. \A d \in Nat : v = version /\ announced <= d => \A q \in Readers : readers'[q].floor <= d
        BY <1>1, <2>1, <3>1
      <4>2. \A q \in Readers : readers'[q].at = "store" => readers'[q] = readers[q] /\ readers[q].data \in Nat
        BY <1>1, <2>1, <3>1
      <4>3. entries[v] # Gone => entries[v].data \in Nat
        BY DEF CacheTypes, Entries
      <4>4. CASE v = 1
        BY <2>1, <2>2, <3>1, <3>5, <4>1, <4>2, <4>3, <4>4 DEF VersionFits, Fresh
      <4>5. CASE v # 1
        BY <2>1, <2>2, <3>1, <3>5, <4>2, <4>5 DEF VersionFits, Fresh
      <4>. QED
        BY <4>4, <4>5
    <3>. QED
      BY <1>1, <3>3, <3>4, <3>5
  <2>5. CASE K!GuessVersion(r)
    <3>1. /\ version' = version /\ entries' = entries /\ readers'[r].version = 1 /\ readers'[r].at = "look"
      BY <2>5 DEF K!GuessVersion, ReaderStates, K!Budget
    <3>2. v > 1
      <4>1. K!Max({rewound, 1}) >= 1
        BY <1>1, MaxOfTwo
      <4>. QED
        BY <1>1, <2>1, <2>2, <2>5, <4>1 DEF K!GuessVersion
    <3>. QED
      BY <1>1, <2>1, <2>2, <3>1, <3>2 DEF VersionFits, Fresh
  <2>6. CASE K!Fetch(r)
    <3>1. /\ version' = version /\ entries' = entries
          /\ readers'[r] = [readers[r] EXCEPT !.at = "store", !.data = data, !.late = FALSE]
      BY <2>6 DEF K!Fetch, K!OnlyReaders
    <3>2. /\ readers'[r].version = readers[r].version /\ readers'[r].data = data
          /\ readers'[r].floor = readers[r].floor
      BY <3>1 DEF ReaderStates
    <3>3. announced <= data /\ \A q \in Readers : readers'[q].floor <= data
      BY <1>1, <2>1, <3>2
    <3>. DEFINE FreshThen(d) == /\ \A q \in Readers : readers'[q].version = v => readers'[q].floor <= d
                                /\ v = version' => announced' <= d
    <3>4. FreshThen(data) /\ \A d : Fresh(v, d) => FreshThen(d)
      BY <2>1, <3>1, <3>2, <3>3 DEF Fresh
    <3>5. \A q \in Readers : readers'[q].version = v /\ readers'[q].at = "store" => FreshThen(readers'[q].data)
      BY <2>1, <2>2, <3>2, <3>4 DEF VersionFits
    <3>6. entries'[v] # Gone => FreshThen(entries'[v].data)
      BY <2>2, <3>1, <3>4 DEF VersionFits
    <3>7. v > version' => entries'[v] = Gone /\ \A q \in Readers : readers'[q].version # v
      BY <2>1, <2>2, <3>1, <3>2 DEF VersionFits
    <3>. QED
      BY <3>5, <3>6, <3>7 DEF VersionFits, Fresh
  <2>7. CASE K!Store(r)
    <3>1. /\ version' = version /\ readers[r].at = "store"
          /\ \A x \in K!Versions : x # readers[r].version => entries'[x] = entries[x]
          /\ entries'[readers[r].version].data = readers[r].data
      BY <1>1, <2>7 DEF K!Store, K!KeyFor, CacheTypes
    <3>2. /\ readers'[r].version = readers[r].version /\ readers'[r].floor = readers[r].floor
          /\ readers'[r].at # "store"
      BY <2>7 DEF K!Store, K!Go, ReaderStates
    <3>. QED
      BY <1>1, <2>1, <2>2, <3>1, <3>2 DEF VersionFits, Fresh
  <2>8. CASE ~K!GetVersion(r) /\ ~K!SetVersion(r) /\ ~K!GuessVersion(r) /\ ~K!Fetch(r) /\ ~K!Store(r)
    <3>1. version' = version /\ entries' = entries
      BY <1>2, <2>8 DEF ReaderSteps, K!Begin, K!Hit, K!Miss, K!Lock, K!Locked, K!GiveUp, K!Unlock, K!Leave,
          K!RedisFails, K!Direct, K!OnlyReaders
    <3>2. CASE K!Begin(r) \/ K!Leave(r)
      <4>1. /\ readers'[r].at # "store"
            /\ \/ readers'[r].version = 0
               \/ readers'[r].version = readers[r].version /\ readers'[r].floor = readers[r].floor
        <5>1. CASE K!Begin(r)
          BY <5>1, AwayFields DEF K!Begin, ReaderStates
        <5>2. CASE K!Leave(r)
          BY <5>2, AwayFields DEF K!Leave, ReaderStates
        <5>. QED
          BY <3>2, <5>1, <5>2
      <4>. QED
        BY <1>1, <2>1, <2>2, <3>1, <4>1 DEF VersionFits, Fresh
    <3>3. CASE ~K!Begin(r) /\ ~K!Leave(r)
      <4>1. /\ readers'[r].at # "store" /\ readers'[r].version = readers[r].version
            /\ readers'[r].floor = readers[r].floor
        BY <1>2, <2>8, <3>3 DEF ReaderSteps, K!Hit, K!Miss, K!Lock, K!Locked, K!GiveUp, K!Unlock,
            K!RedisFails, K!Direct, K!Go, K!Answer, ReaderStates
      <4>. QED
        BY <1>1, <2>1, <2>2, <3>1, <4>1 DEF VersionFits, Fresh
    <3>. QED
      BY <3>2, <3>3
  <2>. QED
    BY <2>3, <2>4, <2>5, <2>6, <2>7, <2>8
<1>3. ASSUME NEW w \in Writers, K!Write(w) \/ K!Crash(w)
      PROVE  VersionsInv'
  BY <1>3 DEF K!Write, K!Crash, VersionsInv, VersionFits, Fresh
<1>4. ASSUME NEW w \in Writers, K!Announce(w)
      PROVE  VersionsInv'
  <2>. SUFFICES ASSUME NEW v \in K!Versions, v > rewound
                PROVE  VersionFits(v)'
    BY <1>4 DEF VersionsInv, K!Announce
  <2>1. VersionFits(v) /\ v \in Nat /\ v > 0
    BY <1>1 DEF VersionsInv
  <2>2. readers' = readers /\ entries'[v] = entries[v]
    BY <1>4, <2>1, <1>1 DEF K!Announce, CacheTypes
  <2>3. CASE style = "plain"
    <3>1. version' = 0 /\ v > version
      BY <1>4, <2>1, <2>3 DEF K!Announce, PlainInv
    <3>. QED
      BY <2>1, <2>2, <3>1 DEF VersionFits
  <2>4. CASE style # "plain"
    <3>1. version' = version + 1
      BY <1>4, <2>4 DEF K!Announce
    <3>. QED
      BY <1>1, <2>1, <2>2, <3>1 DEF VersionFits, Fresh
  <2>. QED
    BY <2>3, <2>4
<1>7. ASSUME NEW w \in Writers, K!AnnounceFails(w)
      PROVE  VersionsInv'
  <2>1. /\ version' = version /\ readers' = readers
        /\ style = "plain" => rewound' = rewound
        /\ style # "plain" => entries' = entries /\ rewound' = IF rewound >= version THEN rewound ELSE version
    BY <1>1, <1>7, MaxOfTwo DEF K!AnnounceFails
  <2>. SUFFICES ASSUME NEW v \in K!Versions, v > rewound'
                PROVE  VersionFits(v)'
    BY DEF VersionsInv
  <2>2. CASE style = "plain"
    <3>1. VersionFits(v) /\ v > version /\ v # 0
      BY <1>1, <2>1, <2>2 DEF VersionsInv, PlainInv
    <3>2. entries'[v] = entries[v]
      BY <1>7, <3>1 DEF K!AnnounceFails, CacheTypes
    <3>. QED
      BY <2>1, <3>1, <3>2 DEF VersionFits
  <2>3. CASE style # "plain"
    <3>1. VersionFits(v) /\ v # version'
      BY <1>1, <2>1, <2>3 DEF VersionsInv
    <3>. QED
      BY <2>1, <2>3, <3>1 DEF VersionFits, Fresh
  <2>. QED
    BY <2>2, <2>3
<1>5. ASSUME NEW x \in K!Versions, K!Expire(x) \/ K!GrowOld(x) \/ K!LockExpires(x)
      PROVE  VersionsInv'
  <2>1. /\ version' = version /\ readers' = readers /\ announced' = announced /\ rewound' = rewound
    BY <1>5 DEF K!Expire, K!GrowOld, K!LockExpires
  <2>2. ASSUME NEW v \in K!Versions, entries'[v] # Gone
        PROVE  entries[v] # Gone /\ entries'[v].data = entries[v].data
    <3>1. entries[v] \in Entries \cup {Gone} /\ entries[x] \in Entries \cup {Gone}
      BY DEF CacheTypes
    <3>. QED
      BY <1>5, <2>2, <3>1 DEF K!Expire, K!GrowOld, K!LockExpires, CacheTypes, Entries
  <2>. QED
    BY <2>1, <2>2 DEF VersionsInv, VersionFits, Fresh
<1>6. ASSUME K!Restart
      PROVE  VersionsInv'
  <2>1. rewound' = IF rewound >= version THEN rewound ELSE version
    BY <1>1, <1>6, MaxOfTwo DEF K!Restart
  <2>2. readers' = readers /\ \A v \in K!Versions : entries'[v] = Gone
    BY <1>6 DEF K!Restart
  <2>. QED
    BY <1>1, <2>1, <2>2 DEF VersionsInv, VersionFits
<1>. QED
  BY <1>2, <1>3, <1>4, <1>5, <1>6, <1>7, CacheSteps

\* What a reader has and is about to answer with.
LEMMA ReaderAnswers ==
    ASSUME CacheTypes, NEW r \in Readers, ReaderSteps(r), readers'[r].at \in {"unlock", "answered"}
    PROVE  \/ /\ readers[r].at \in {"look", "poll"} /\ entries[readers[r].version] # Gone
              /\ readers'[r].data = entries[readers[r].version].data
              /\ readers'[r].late = entries[readers[r].version].late
              /\ readers'[r].version = readers[r].version /\ readers'[r].floor = readers[r].floor
           \/ /\ readers[r].at \in {"store", "unlock"} /\ readers'[r].data = readers[r].data
              /\ readers'[r].late = readers[r].late
              /\ readers'[r].version = readers[r].version /\ readers'[r].floor = readers[r].floor
           \/ /\ readers[r].at = "direct" /\ readers'[r].data = data
              /\ readers'[r].version = readers[r].version /\ readers'[r].floor = readers[r].floor
<1>. readers \in [Readers -> ReaderStates] /\ readers[r] \in ReaderStates
  BY DEF CacheTypes
<1>1. ~K!Begin(r) /\ ~K!Leave(r)
  <2>1. CASE K!Begin(r)
    BY <2>1, AwayFields DEF K!Begin, ReaderStates
  <2>2. CASE K!Leave(r)
    BY <2>2, AwayFields DEF K!Leave, ReaderStates
  <2>. QED
    BY <2>1, <2>2
<1>2. CASE K!Hit(r)
  BY <1>2 DEF K!Hit, K!Answer, K!KeyFor, ReaderStates, CacheTypes, Entries
<1>3. CASE K!Store(r) \/ K!Unlock(r)
  BY <1>3 DEF K!Store, K!Unlock, K!Go, ReaderStates
<1>4. CASE K!Direct(r)
  BY <1>4 DEF K!Direct, K!Answer, ReaderStates
<1>5. CASE ~K!Hit(r) /\ ~K!Store(r) /\ ~K!Unlock(r) /\ ~K!Direct(r)
  BY <1>1, <1>5 DEF ReaderSteps, K!GetVersion, K!SetVersion, K!GuessVersion, K!Miss, K!Lock, K!Locked, K!GiveUp,
      K!Fetch, K!RedisFails, K!Go, ReaderStates
<1>. QED
  BY <1>2, <1>3, <1>4, <1>5

\* Whoever uses a version that was not set back is answered with data new enough.
LEMMA AnswersKept ==
    ASSUME CacheTypes, Announced, VersionsInv, AnswerInv, K!CacheNext
    PROVE  AnswerInv'
<1>1. /\ rewound \in Nat /\ data \in Nat /\ announced \in Nat /\ announced <= data
      /\ \A r \in Readers : readers[r].floor \in Nat /\ readers[r].floor <= announced
      /\ \A r \in Readers : readers[r].version \in K!Versions /\ readers[r].version \in Nat
  BY CacheAssumption DEF CacheTypes, Announced, ReaderStates, K!Versions
<1>2. ASSUME NEW r \in Readers, ReaderSteps(r)
      PROVE  AnswerInv'
  <2>1. /\ rewound' \in Nat /\ rewound' >= rewound /\ style' = style
        /\ \A q \in Readers : q # r => readers'[q] = readers[q]
    BY <1>2, ReadersOnlyRead, ReadersKeepTheirFloors
  <2>2. ASSUME style = "versioned", readers'[r].at \in {"unlock", "answered"}, readers'[r].version > rewound'
        PROVE  readers'[r].floor <= readers'[r].data
    <3>1. readers'[r].version = readers[r].version /\ readers[r].version > rewound
      BY <1>1, <1>2, <2>1, <2>2, ReaderAnswers
    <3>2. VersionFits(readers[r].version)
      BY <1>1, <3>1 DEF VersionsInv
    <3>3. entries[readers[r].version] # Gone => readers[r].floor <= entries[readers[r].version].data
      BY <3>2 DEF VersionFits, Fresh
    <3>4. readers[r].at = "store" => readers[r].floor <= readers[r].data
      BY <3>2 DEF VersionFits, Fresh
    <3>5. readers[r].at = "unlock" => readers[r].floor <= readers[r].data
      BY <2>2, <3>1 DEF AnswerInv
    <3>6. readers[r].floor <= data
      BY <1>1
    <3>. QED
      BY <1>2, <2>2, <3>3, <3>4, <3>5, <3>6, ReaderAnswers
  <2>3. ASSUME NEW q \in Readers, q # r, style = "versioned", readers'[q].at \in {"unlock", "answered"},
               readers'[q].version > rewound'
        PROVE  readers'[q].floor <= readers'[q].data
    BY <1>1, <2>1, <2>3 DEF AnswerInv
  <2>. QED
    BY <2>1, <2>2, <2>3 DEF AnswerInv
<1>3. ASSUME NEW w \in Writers, K!Write(w) \/ K!Announce(w) \/ K!Crash(w)
      PROVE  AnswerInv'
  BY <1>3 DEF K!Write, K!Announce, K!Crash, K!Budget, K!Settings, AnswerInv
<1>4. ASSUME NEW v \in K!Versions, K!Expire(v) \/ K!GrowOld(v) \/ K!LockExpires(v)
      PROVE  AnswerInv'
  BY <1>4 DEF K!Expire, K!GrowOld, K!LockExpires, K!Budget, K!Settings, AnswerInv
<1>6. ASSUME NEW w \in Writers, K!AnnounceFails(w)
      PROVE  AnswerInv'
  <2>1. rewound' \in Nat /\ rewound' >= rewound
    <3>1. rewound' \in {rewound, K!Max({rewound, version})}
      BY <1>6 DEF K!AnnounceFails
    <3>2. rewound \in Nat /\ version \in Int
      BY CacheAssumption DEF CacheTypes
    <3>3. K!Max({rewound, version}) = IF rewound >= version THEN rewound ELSE version
      BY <3>2, MaxOfTwo
    <3>. QED
      BY <3>1, <3>2, <3>3
  <2>. QED
    BY <1>1, <1>6, <2>1 DEF K!AnnounceFails, K!Budget, K!Settings, AnswerInv
<1>5. ASSUME K!Restart
      PROVE  AnswerInv'
  <2>1. rewound' \in Nat /\ rewound' >= rewound
    BY <1>1, <1>5, CacheAssumption, MaxOfTwo DEF K!Restart, CacheTypes
  <2>. QED
    BY <1>1, <1>5, <2>1 DEF K!Restart, K!Budget, K!Settings, AnswerInv
<1>. QED
  BY <1>2, <1>3, <1>4, <1>5, <1>6, CacheSteps

\* A plain entry is old only if a writer overtook the reader who stored it.
LEMMA PlainKept ==
    ASSUME CacheTypes, Announced, PlainInv, K!CacheNext
    PROVE  PlainInv'
<1>. SUFFICES ASSUME style' = "plain"
              PROVE  /\ version' = 0
                     /\ entries'[0] # Gone /\ ~entries'[0].late => announced' <= entries'[0].data
                     /\ \A r \in Readers : PlainReader(r)'
  BY DEF PlainInv
<1>1. style' = style
  BY ReadersOnlyRead, CacheSteps DEF K!Write, K!Announce, K!AnnounceFails, K!Crash, K!Expire, K!GrowOld, K!LockExpires, K!Restart,
      K!Budget, K!Settings
<1>2. /\ version = 0
      /\ entries[0] # Gone /\ ~entries[0].late => announced <= entries[0].data
      /\ \A r \in Readers : PlainReader(r)
      /\ announced <= data /\ data \in Nat /\ announced \in Nat /\ entries[0] \in Entries \cup {Gone}
      /\ \A r \in Readers : readers[r].floor \in Nat /\ readers[r].floor <= announced
  BY <1>1, CacheAssumption DEF PlainInv, CacheTypes, Announced, ReaderStates, K!Versions
<1>3. ASSUME NEW r \in Readers, ReaderSteps(r)
      PROVE  /\ version' = 0
             /\ entries'[0] # Gone /\ ~entries'[0].late => announced' <= entries'[0].data
             /\ \A q \in Readers : PlainReader(q)'
  <2>. readers \in [Readers -> ReaderStates] /\ readers[r] \in ReaderStates
    BY DEF CacheTypes
  <2>1. announced' = announced /\ \A q \in Readers : q # r => readers'[q] = readers[q]
    BY <1>3, ReadersOnlyRead, ReadersKeepTheirFloors
  <2>2. ~K!GetVersion(r) /\ ~K!SetVersion(r) /\ ~K!GuessVersion(r)
    BY <1>2 DEF PlainReader, K!GetVersion, K!SetVersion, K!GuessVersion
  <2>3. version' = 0
    BY <1>2, <1>3, <2>2 DEF ReaderSteps, K!Begin, K!Hit, K!Miss, K!Lock, K!Locked, K!GiveUp, K!Fetch, K!Store,
        K!Unlock, K!Leave, K!RedisFails, K!Direct, K!OnlyReaders
  <2>4. entries'[0] # Gone /\ ~entries'[0].late => announced' <= entries'[0].data
    <3>1. CASE K!Store(r)
      <4>1. readers[r].version = 0 /\ 0 \in K!Versions /\ readers[r].data \in Nat
        BY <1>2, CacheAssumption DEF PlainReader, K!Versions, ReaderStates
      <4>2. /\ entries'[0].data = readers[r].data
            /\ ~entries'[0].late => ~(readers[r].data < announced)
        BY <3>1, <4>1 DEF K!Store, K!KeyFor, CacheTypes
      <4>. QED
        BY <1>2, <2>1, <4>1, <4>2
    <3>2. CASE ~K!Store(r)
      BY <1>2, <1>3, <2>1, <2>2, <3>2 DEF ReaderSteps, K!Begin, K!Hit, K!Miss, K!Lock, K!Locked, K!GiveUp,
          K!Fetch, K!Unlock, K!Leave, K!RedisFails, K!Direct, K!OnlyReaders
    <3>. QED
      BY <3>1, <3>2
  <2>5. readers'[r].version = 0 /\ readers'[r].at \notin {"version", "setVersion"}
    <3>1. CASE K!Begin(r)
      BY <1>1, <3>1, AwayFields DEF K!Begin, ReaderStates
    <3>2. CASE K!Leave(r)
      BY <1>2, <3>2, AwayFields DEF K!Leave, ReaderStates, PlainReader
    <3>3. CASE ~K!Begin(r) /\ ~K!Leave(r)
      BY <1>2, <1>3, <2>2, <3>3 DEF ReaderSteps, K!Hit, K!Miss, K!Lock, K!Locked, K!GiveUp, K!Fetch, K!Store,
          K!Unlock, K!RedisFails, K!Direct, K!Go, K!Answer, ReaderStates, PlainReader
    <3>. QED
      BY <3>1, <3>2, <3>3
  <2>6. ASSUME readers'[r].at \in {"unlock", "answered"}, ~readers'[r].late
        PROVE  readers'[r].floor <= readers'[r].data
    <3>1. readers[r].version = 0 /\ PlainReader(r)
      BY <1>2 DEF PlainReader
    <3>2. entries[0] # Gone /\ ~entries[0].late => readers[r].floor <= entries[0].data
      BY <1>2 DEF Entries
    <3>3. readers[r].floor <= data
      BY <1>2
    <3>. QED
      BY <1>3, <2>6, <3>1, <3>2, <3>3, ReaderAnswers DEF PlainReader
  <2>7. readers'[r].at = "store" => readers'[r].floor <= readers'[r].data
    <3>1. CASE K!Fetch(r)
      BY <1>2, <3>1 DEF K!Fetch, ReaderStates
    <3>2. CASE K!Begin(r)
      BY <3>2, AwayFields DEF K!Begin, ReaderStates
    <3>3. CASE K!Leave(r)
      BY <3>3, AwayFields DEF K!Leave, ReaderStates
    <3>4. CASE ~K!Begin(r) /\ ~K!Leave(r) /\ ~K!Fetch(r)
      BY <1>3, <2>2, <3>4 DEF ReaderSteps, K!Hit, K!Miss, K!Lock, K!Locked, K!GiveUp, K!Store,
          K!Unlock, K!RedisFails, K!Direct, K!Go, K!Answer, ReaderStates
    <3>. QED
      BY <3>1, <3>2, <3>3, <3>4
  <2>8. PlainReader(r)'
    BY <2>5, <2>6, <2>7 DEF PlainReader
  <2>9. \A q \in Readers : q # r => PlainReader(q)'
    BY <1>2, <2>1 DEF PlainReader
  <2>. QED
    BY <2>3, <2>4, <2>8, <2>9
<1>4. ASSUME NEW w \in Writers, K!Write(w) \/ K!Announce(w) \/ K!AnnounceFails(w) \/ K!Crash(w)
      PROVE  /\ version' = 0
             /\ entries'[0] # Gone /\ ~entries'[0].late => announced' <= entries'[0].data
             /\ \A q \in Readers : PlainReader(q)'
  <2>1. version' = 0 /\ readers' = readers
    BY <1>1, <1>2, <1>4 DEF K!Write, K!Announce, K!AnnounceFails, K!Crash
  <2>2. entries'[0] = Gone \/ entries'[0].late \/ (entries' = entries /\ announced' = announced)
    <3>1. CASE K!Write(w) \/ K!Announce(w) \/ K!Crash(w)
      BY <1>1, <3>1, CacheAssumption DEF K!Write, K!Announce, K!Crash, CacheTypes, K!Versions
    <3>2. CASE K!AnnounceFails(w)
      <4>1. 0 \in K!Versions /\ style = "plain"
        BY <1>1, CacheAssumption DEF K!Versions
      <4>. QED
        BY <3>2, <4>1 DEF K!AnnounceFails, CacheTypes, Entries
    <3>. QED
      BY <1>4, <3>1, <3>2
  <2>. QED
    BY <1>2, <2>1, <2>2 DEF PlainReader
<1>5. ASSUME NEW v \in K!Versions, K!Expire(v) \/ K!GrowOld(v) \/ K!LockExpires(v)
      PROVE  /\ version' = 0
             /\ entries'[0] # Gone /\ ~entries'[0].late => announced' <= entries'[0].data
             /\ \A q \in Readers : PlainReader(q)'
  <2>1. version' = 0 /\ readers' = readers /\ announced' = announced
    BY <1>2, <1>5 DEF K!Expire, K!GrowOld, K!LockExpires
  <2>2. entries'[0] = entries[0] \/ entries'[0] = Gone
    <3>1. 0 \in K!Versions /\ entries \in [K!Versions -> Entries \cup {Gone}]
      BY CacheAssumption DEF CacheTypes, K!Versions
    <3>2. ~K!GrowOld(v)
      BY <1>1 DEF K!GrowOld
    <3>. QED
      BY <1>5, <3>1, <3>2 DEF K!Expire, K!LockExpires
  <2>. QED
    BY <1>2, <2>1, <2>2 DEF PlainReader
<1>6. ASSUME K!Restart
      PROVE  /\ version' = 0
             /\ entries'[0] # Gone /\ ~entries'[0].late => announced' <= entries'[0].data
             /\ \A q \in Readers : PlainReader(q)'
  <2>1. 0 \in K!Versions
    BY CacheAssumption DEF K!Versions
  <2>. QED
    BY <1>2, <1>6, <2>1 DEF K!Restart, PlainReader
<1>. QED
  BY <1>3, <1>4, <1>5, <1>6, CacheSteps

\* Locks

\* Keys lose their holders, and gain only the one who takes a free lock.
LEMMA HoldersAreFinite ==
    ASSUME NEW v
    PROVE  IsFiniteSet(Holders(v)) /\ Cardinality(Holders(v)) \in Nat
BY CacheAssumption, FS_Subset, FS_CardinalityType DEF Holders

LEMMA FewerHolders ==
    ASSUME NEW v, Holders(v)' \subseteq Holders(v)
    PROVE  Cardinality(Holders(v)') <= Cardinality(Holders(v)) /\ Cardinality(Holders(v)') \in Nat
BY HoldersAreFinite, FS_Subset, FS_CardinalityType

LEMMA LocksKept ==
    ASSUME CacheTypes, LocksInv, K!CacheNext
    PROVE  LocksInv'
<1>1. freed \in Nat /\ \A v \in K!Versions : Cardinality(Holders(v)) \in Nat
  BY HoldersAreFinite DEF CacheTypes
<1>2. ASSUME NEW r \in Readers, ReaderSteps(r)
      PROVE  LocksInv'
  <2>. readers \in [Readers -> ReaderStates] /\ readers[r] \in ReaderStates
    BY DEF CacheTypes
  <2>1. /\ freed' = freed
        /\ \A q \in Readers : q # r => readers'[q] = readers[q]
    BY <1>2, ReadersOnlyRead, ReadersKeepTheirFloors
  <2>2. LockFits(r)
    BY DEF LocksInv
  <2>3. CASE K!Lock(r)
    <3>1. /\ readers'[r].hasLock /\ readers'[r].at = "fetch" /\ readers'[r].version = readers[r].version
          /\ ~readers[r].hasLock
          /\ readers[r].version \notin locks /\ locks' = locks \cup {readers[r].version}
      BY <2>2, <2>3 DEF K!Lock, K!KeyFor, ReaderStates, LockFits
    <3>2. ASSUME NEW v \in K!Versions
          PROVE  Cardinality(Holders(v)') <= (IF v \in locks' THEN 1 ELSE 0) + freed'
      <4>1. CASE v = readers[r].version
        <5>1. Holders(v)' = Holders(v) \cup {r} /\ r \notin Holders(v)
          BY <2>1, <3>1, <4>1 DEF Holders
        <5>2. Cardinality(Holders(v)') = Cardinality(Holders(v)) + 1
          BY <5>1, HoldersAreFinite, FS_AddElement
        <5>3. Cardinality(Holders(v)) <= freed
          BY <1>1, <3>1, <4>1 DEF LocksInv
        <5>. QED
          BY <1>1, <2>1, <3>1, <4>1, <5>2, <5>3
      <4>2. CASE v # readers[r].version
        <5>1. Holders(v)' = Holders(v)
          BY <2>1, <3>1, <4>2 DEF Holders
        <5>. QED
          BY <2>1, <3>1, <4>2, <5>1 DEF LocksInv
      <4>. QED
        BY <4>1, <4>2
    <3>3. \A q \in Readers : LockFits(q)'
      BY <2>1, <3>1 DEF LocksInv, LockFits
    <3>. QED
      BY <3>2, <3>3 DEF LocksInv
  <2>4. CASE K!Unlock(r)
    <3>1. /\ readers[r].hasLock /\ ~readers'[r].hasLock /\ readers'[r].at # "unlock"
          /\ readers'[r].version = readers[r].version
          /\ locks' = locks \ {readers[r].version}
      BY <2>2, <2>4 DEF K!Unlock, K!KeyFor, ReaderStates, LockFits
    <3>2. ASSUME NEW v \in K!Versions
          PROVE  Cardinality(Holders(v)') <= (IF v \in locks' THEN 1 ELSE 0) + freed'
      <4>1. CASE v = readers[r].version
        <5>1. Holders(v)' = Holders(v) \ {r} /\ r \in Holders(v)
          BY <2>1, <3>1, <4>1 DEF Holders
        <5>2. Cardinality(Holders(v)') = Cardinality(Holders(v)) - 1
          BY <5>1, HoldersAreFinite, FS_RemoveElement
        <5>3. Cardinality(Holders(v)) <= 1 + freed
          BY <1>1 DEF LocksInv
        <5>. QED
          BY <1>1, <2>1, <3>1, <4>1, <5>2, <5>3
      <4>2. CASE v # readers[r].version
        <5>1. Holders(v)' = Holders(v)
          BY <2>1, <3>1, <4>2 DEF Holders
        <5>. QED
          BY <2>1, <3>1, <4>2, <5>1 DEF LocksInv
      <4>. QED
        BY <4>1, <4>2
    <3>3. \A q \in Readers : LockFits(q)'
      BY <2>1, <3>1 DEF LocksInv, LockFits
    <3>. QED
      BY <3>2, <3>3 DEF LocksInv
  <2>5. CASE ~K!Lock(r) /\ ~K!Unlock(r)
    <3>1. locks' = locks
      BY <1>2, <2>5 DEF ReaderSteps, K!Begin, K!GetVersion, K!SetVersion, K!GuessVersion, K!Hit, K!Miss,
          K!Locked, K!GiveUp, K!Fetch, K!Store, K!Leave, K!RedisFails, K!Direct, K!OnlyReaders
    <3>2. LockFits(r)' /\ (readers'[r].hasLock => readers[r].hasLock /\ readers'[r].version = readers[r].version)
      <4>1. CASE K!Begin(r)
        BY <4>1, AwayFields DEF K!Begin, ReaderStates, LockFits
      <4>2. CASE K!Leave(r)
        BY <2>2, <4>2, AwayFields DEF K!Leave, ReaderStates, LockFits
      <4>3. CASE ~K!Begin(r) /\ ~K!Leave(r)
        BY <1>2, <2>2, <2>5, <4>3 DEF ReaderSteps, K!GetVersion, K!SetVersion, K!GuessVersion, K!Hit, K!Miss,
            K!Locked, K!GiveUp, K!Fetch, K!Store, K!RedisFails, K!Direct, K!Go, K!Answer, ReaderStates, LockFits
      <4>. QED
        BY <4>1, <4>2, <4>3
    <3>3. \A q \in Readers : LockFits(q)'
      BY <2>1, <3>2 DEF LocksInv, LockFits
    <3>4. ASSUME NEW v \in K!Versions
          PROVE  Cardinality(Holders(v)') <= (IF v \in locks' THEN 1 ELSE 0) + freed'
      <4>1. Holders(v)' \subseteq Holders(v)
        BY <2>1, <3>2 DEF Holders
      <4>. QED
        BY <1>1, <2>1, <3>1, <4>1, FewerHolders DEF LocksInv
    <3>. QED
      BY <3>3, <3>4 DEF LocksInv
  <2>. QED
    BY <2>3, <2>4, <2>5
<1>3. ASSUME NEW w \in Writers, K!Write(w) \/ K!Announce(w) \/ K!AnnounceFails(w) \/ K!Crash(w)
      PROVE  LocksInv'
  BY <1>3 DEF K!Write, K!Announce, K!AnnounceFails, K!Crash, LocksInv, LockFits, Holders
<1>4. ASSUME NEW x \in K!Versions, K!Expire(x) \/ K!GrowOld(x) \/ K!LockExpires(x)
      PROVE  LocksInv'
  <2>1. /\ readers' = readers
        /\ \/ locks' = locks /\ freed' = freed
           \/ locks' = locks \ {x} /\ freed' = freed + 1
    BY <1>4 DEF K!Expire, K!GrowOld, K!LockExpires
  <2>2. \A v \in K!Versions : Holders(v)' = Holders(v)
    BY <2>1 DEF Holders
  <2>. QED
    BY <1>1, <2>1, <2>2 DEF LocksInv, LockFits
<1>5. ASSUME K!Restart
      PROVE  LocksInv'
  <2>1. readers' = readers /\ locks' = {} /\ freed' = freed + Cardinality(locks)
    BY <1>5, SameCardinality DEF K!Restart
  <2>2. IsFiniteSet(locks) /\ Cardinality(locks) \in Nat
    <3>1. IsFiniteSet(K!Versions)
      BY CacheAssumption, FS_Interval DEF K!Versions
    <3>. QED
      BY <3>1, FS_Subset, FS_CardinalityType DEF CacheTypes
  <2>3. locks # {} => Cardinality(locks) >= 1
    BY <2>2, FS_EmptySet
  <2>4. \A v \in K!Versions : Holders(v)' = Holders(v)
    BY <2>1 DEF Holders
  <2>5. \A v \in K!Versions : Cardinality(Holders(v)') <= (IF v \in locks' THEN 1 ELSE 0) + freed'
    BY <1>1, <2>1, <2>2, <2>3, <2>4 DEF LocksInv
  <2>. QED
    BY <2>1, <2>5 DEF LocksInv, LockFits
<1>. QED
  BY <1>2, <1>3, <1>4, <1>5, CacheSteps

-----------------------------------------------------------------------------
LEMMA CacheInitInv ==
    ASSUME K!CacheInit
    PROVE  CacheInv
<1>1. PICK start \in CacheStarts :
        /\ style = start.style
        /\ writesLeft = start.last /\ data = 0 /\ version = 0
        /\ entries = [v \in K!Versions |-> Gone] /\ locks = {}
        /\ readers = [r \in Readers |-> K!Away] /\ writers = [w \in Writers |-> Gone]
        /\ announced = 0 /\ rewound = 0 /\ freed = 0
  BY DEF K!CacheInit
<1>2. style \in {"versioned", "plain"} /\ writesLeft \in 0 .. LastData
  BY <1>1, CacheAssumption
<1>3. Pending = {} /\ \A v : Holders(v) = {}
  BY <1>1, AwayFields DEF Pending, Holders
<1>4. Cardinality({}) = 0
  BY FS_EmptySet
<1>5. CacheTypes
  BY <1>1, <1>2, AwayFields, CacheAssumption DEF CacheTypes
<1>6. WritesFit
  BY <1>1, <1>2, <1>3, <1>4, CacheAssumption DEF WritesFit
<1>7. Announced
  BY <1>1, AwayFields DEF Announced
<1>8. VersionsInv
  BY <1>1, AwayFields, CacheAssumption DEF VersionsInv, VersionFits, K!Versions
<1>9. PlainInv /\ AnswerInv
  BY <1>1, AwayFields, CacheAssumption DEF PlainInv, PlainReader, AnswerInv, K!Versions
<1>10. LocksInv
  BY <1>1, <1>3, <1>4, AwayFields DEF LocksInv, LockFits
<1>. QED
  BY <1>5, <1>6, <1>7, <1>8, <1>9, <1>10 DEF CacheInv

LEMMA CacheRests ==
    ASSUME CacheInv, UNCHANGED cacheVars
    PROVE  CacheInv'
BY DEF CacheInv, CacheTypes, WritesFit, Pending, Announced, VersionsInv, VersionFits, Fresh, PlainInv,
    PlainReader, AnswerInv, LocksInv, LockFits, Holders, cacheVars

LEMMA CacheInvHonest ==
    ASSUME CacheInv
    PROVE  K!CacheIsHonest
<1>. USE DEF CacheInv
<1>1. K!AnswersAreFresh
  BY CacheAssumption DEF K!AnswersAreFresh, CacheTypes, PlainInv, PlainReader, AnswerInv, ReaderStates, K!KeyFor
<1>2. K!FetchesAreFew
  <2>. SUFFICES ASSUME NEW v \in K!Versions
                PROVE  Cardinality(Holders(v)) <= 1 + freed
    BY SameCardinality DEF K!FetchesAreFew, Holders, K!KeyFor
  <2>1. Cardinality(Holders(v)) <= (IF v \in locks THEN 1 ELSE 0) + freed
    BY DEF LocksInv
  <2>. QED
    BY <2>1, HoldersAreFinite DEF CacheTypes
<1>. QED
  BY <1>1, <1>2 DEF K!CacheIsHonest

\* Whatever the reads, writes, failures and expiries: a reader is not answered
\* with data from before a write that had ended, unless the namespace was set
\* back or is at a version a writer failed to raise, or the plain entry was
\* overtaken or not deleted; and of those who hold a key's lock one fetches,
\* and one more for each lock that went early (CacheService.withVersionedCache).
THEOREM CacheStaysHonest == Spec => []CacheIsHonest
<1>1. Init => CacheInv
  BY CacheInitInv DEF Init
<1>2. CacheInv /\ [Next]_<<part, staffVars, customerVars, cacheVars, gateVars, seedVars>> => CacheInv'
  <2>. SUFFICES ASSUME CacheInv, [Next]_<<part, staffVars, customerVars, cacheVars, gateVars, seedVars>>
                PROVE  CacheInv'
    OBVIOUS
  <2>1. K!CacheNext \/ UNCHANGED cacheVars
    BY DEF Next
  <2>2. CASE K!CacheNext
    BY <2>2, CacheTypesKept, WritesFitKept, AnnouncedKept, VersionsKept, PlainKept, AnswersKept, LocksKept
      DEF CacheInv
  <2>. QED
    BY <2>1, <2>2, CacheRests
<1>3. CacheInv => CacheIsHonest
  BY CacheInvHonest DEF CacheIsHonest
<1>. QED
  BY <1>1, <1>2, <1>3, PTL DEF Spec

-----------------------------------------------------------------------------
(* The staff.  An update takes the permissions it writes from a copy of the *)
(* account, and one who removes an owner is not that owner himself.         *)

Shaped(account) ==
    account = [role |-> account.role, access |-> account.access, permissions |-> account.permissions,
               sessions |-> account.sessions, reset |-> account.reset, state |-> account.state]
ShapedJob(j) ==
    j = [op |-> j.op, at |-> j.at, actor |-> j.actor, target |-> j.target, i |-> j.i, by |-> j.by,
         copy |-> j.copy, role |-> j.role, access |-> j.access, force |-> j.force]

AccountsInv ==
    /\ accounts = [u \in Staff |-> accounts[u]] /\ \A u \in Staff : Shaped(accounts[u])
    /\ job = [h \in Handlers |-> job[h]] /\ \A h \in Handlers : ShapedJob(job[h])

\* What a request has found out remains true.
JobFits(h) ==
    LET j == job[h] IN
    /\ j.at = "touch" => j.op \in S!OwnOps \cup S!AdminOps
    /\ j.at = "target" => j.op \in S!AdminOps
    /\ j.at \in {"update", "saveUpdate", "delete", "events", "softDelete", "purge", "remove"} => j.target \in Staff
    /\ j.at \in {"update", "saveUpdate"} =>
          /\ j.target \notin mixed => j.copy.permissions = S!ComputePermissions(j.copy.access, j.copy.role)
          /\ accounts[j.target].role = "OWNER" => j.copy.role = "OWNER"
    /\ j.at = "saveUpdate" /\ j.role \notin {None, j.copy.role} => j.role # "OWNER" /\ j.actor # j.target
    /\ j.at \in {"events", "softDelete", "remove"} => j.actor # j.target

RolesInv ==
    AccountsInv /\ (\A h \in Handlers : JobFits(h)) /\ S!PermissionsMatch /\ S!OwnersRemain

StaffRights(u) == <<accounts[u].role, accounts[u].access, accounts[u].permissions, accounts[u].state>>

LEMMA OneAccount ==
    ASSUME accounts = [u \in Staff |-> accounts[u]], NEW v, NEW b, accounts' = [accounts EXCEPT ![v] = b]
    PROVE  /\ accounts' = [u \in Staff |-> accounts'[u]]
           /\ \A u \in Staff : accounts'[u] = IF u = v THEN b ELSE accounts[u]
OBVIOUS

LEMMA OneJob ==
    ASSUME job = [g \in Handlers |-> job[g]], NEW h \in Handlers, NEW j, job' = [job EXCEPT ![h] = j]
    PROVE  /\ job' = [g \in Handlers |-> job'[g]]
           /\ \A g \in Handlers : job'[g] = IF g = h THEN j ELSE job[g]
OBVIOUS

\* A record with another value of a field.
LEMMA WithSessions ==
    ASSUME NEW a, Shaped(a), NEW x
    PROVE  LET b == [a EXCEPT !.sessions = x]
           IN  Shaped(b) /\ b.role = a.role /\ b.access = a.access /\ b.permissions = a.permissions /\ b.state = a.state
              /\ b.sessions = x
<1>1. a = [role |-> a.role, access |-> a.access, permissions |-> a.permissions,
           sessions |-> a.sessions, reset |-> a.reset, state |-> a.state]
  BY DEF Shaped
<1>2. [a EXCEPT !.sessions = x] = [role |-> a.role, access |-> a.access, permissions |-> a.permissions,
           sessions |-> x, reset |-> a.reset, state |-> a.state]
  BY <1>1
<1>. QED
  BY <1>2 DEF Shaped

LEMMA WithReset ==
    ASSUME NEW a, Shaped(a), NEW x
    PROVE  LET b == [a EXCEPT !.reset = x]
           IN  Shaped(b) /\ b.role = a.role /\ b.access = a.access /\ b.permissions = a.permissions /\ b.state = a.state
              /\ b.sessions = a.sessions
<1>1. a = [role |-> a.role, access |-> a.access, permissions |-> a.permissions,
           sessions |-> a.sessions, reset |-> a.reset, state |-> a.state]
  BY DEF Shaped
<1>2. [a EXCEPT !.reset = x] = [role |-> a.role, access |-> a.access, permissions |-> a.permissions,
           sessions |-> a.sessions, reset |-> x, state |-> a.state]
  BY <1>1
<1>. QED
  BY <1>2 DEF Shaped

LEMMA WithState ==
    ASSUME NEW a, Shaped(a), NEW x
    PROVE  LET b == [a EXCEPT !.state = x]
           IN  Shaped(b) /\ b.role = a.role /\ b.access = a.access /\ b.permissions = a.permissions /\ b.state = x
              /\ b.sessions = a.sessions
<1>1. a = [role |-> a.role, access |-> a.access, permissions |-> a.permissions,
           sessions |-> a.sessions, reset |-> a.reset, state |-> a.state]
  BY DEF Shaped
<1>2. [a EXCEPT !.state = x] = [role |-> a.role, access |-> a.access, permissions |-> a.permissions,
           sessions |-> a.sessions, reset |-> a.reset, state |-> x]
  BY <1>1
<1>. QED
  BY <1>2 DEF Shaped

LEMMA SaveOnlySessions ==
    ASSUME AccountsInv, NEW h \in Handlers, NEW w, NEW e, NEW s, S!SaveSessions(h, w, e, s, S!Same)
    PROVE  /\ accounts' = [u \in Staff |-> accounts'[u]]
           /\ \A u \in Staff : Shaped(accounts'[u]) /\ StaffRights(u)' = StaffRights(u)
<1>1. CASE accounts' = accounts
  BY <1>1 DEF AccountsInv, StaffRights
<1>2. ASSUME NEW x, accounts' = [accounts EXCEPT ![job[h].target] = [accounts[job[h].target] EXCEPT !.sessions = x]]
      PROVE  /\ accounts' = [u \in Staff |-> accounts'[u]]
             /\ \A u \in Staff : Shaped(accounts'[u]) /\ StaffRights(u)' = StaffRights(u)
  <2>. DEFINE v == job[h].target
              b == [accounts[v] EXCEPT !.sessions = x]
  <2>1. v \in Staff => Shaped(b) /\ b.role = accounts[v].role /\ b.access = accounts[v].access
                       /\ b.permissions = accounts[v].permissions /\ b.state = accounts[v].state
    BY WithSessions DEF AccountsInv
  <2>2. /\ accounts' = [u \in Staff |-> accounts'[u]]
        /\ \A u \in Staff : accounts'[u] = IF u = v THEN b ELSE accounts[u]
    BY <1>2, OneAccount DEF AccountsInv
  <2>. HIDE DEF b
  <2>. QED
    BY <2>1, <2>2 DEF AccountsInv, StaffRights
<1>3. accounts' = accounts
      \/ \E x : accounts' = [accounts EXCEPT ![job[h].target] = [accounts[job[h].target] EXCEPT !.sessions = x]]
  BY DEF S!SaveSessions, S!Same
<1>. QED
  BY <1>1, <1>2, <1>3

\* The account stays as it is, but for sessions and the token of a reset.
LEMMA SaveSensitive ==
    ASSUME AccountsInv, NEW h \in Handlers, S!ClearSensitiveUserState(h)
    PROVE  /\ accounts' = [u \in Staff |-> accounts'[u]]
           /\ \A u \in Staff : Shaped(accounts'[u]) /\ StaffRights(u)' = StaffRights(u)
<1>1. CASE accounts' = accounts
  BY <1>1 DEF AccountsInv, StaffRights
<1>2. ASSUME NEW x, accounts' = [accounts EXCEPT ![job[h].target] =
                                    [[accounts[job[h].target] EXCEPT !.reset = FALSE] EXCEPT !.sessions = x]]
      PROVE  /\ accounts' = [u \in Staff |-> accounts'[u]]
             /\ \A u \in Staff : Shaped(accounts'[u]) /\ StaffRights(u)' = StaffRights(u)
  <2>. DEFINE v == job[h].target
              a == [accounts[v] EXCEPT !.reset = FALSE]
              b == [a EXCEPT !.sessions = x]
  <2>1. v \in Staff => Shaped(a) /\ a.role = accounts[v].role /\ a.access = accounts[v].access
                       /\ a.permissions = accounts[v].permissions /\ a.state = accounts[v].state
    BY WithReset DEF AccountsInv
  <2>2. /\ accounts' = [u \in Staff |-> accounts'[u]]
        /\ \A u \in Staff : accounts'[u] = IF u = v THEN b ELSE accounts[u]
    BY <1>2, OneAccount DEF AccountsInv
  <2>. HIDE DEF a
  <2>3. v \in Staff => Shaped(b) /\ b.role = a.role /\ b.access = a.access
                       /\ b.permissions = a.permissions /\ b.state = a.state
    BY <2>1, WithSessions
  <2>. HIDE DEF b
  <2>. QED
    BY <2>1, <2>2, <2>3 DEF AccountsInv, StaffRights
<1>3. accounts' = accounts
      \/ \E x : accounts' = [accounts EXCEPT ![job[h].target] =
                                    [[accounts[job[h].target] EXCEPT !.reset = FALSE] EXCEPT !.sessions = x]]
  BY DEF S!ClearSensitiveUserState, S!SaveSessions
<1>. QED
  BY <1>1, <1>2, <1>3

LEMMA SaveField ==
    ASSUME AccountsInv, NEW v, NEW x,
           \/ accounts' = [accounts EXCEPT ![v].sessions = x] \/ accounts' = [accounts EXCEPT ![v].reset = x]
    PROVE  /\ accounts' = [u \in Staff |-> accounts'[u]]
           /\ \A u \in Staff : Shaped(accounts'[u]) /\ StaffRights(u)' = StaffRights(u)
<1>1. ASSUME NEW b, accounts' = [accounts EXCEPT ![v] = b],
             v \in Staff => Shaped(b) /\ b.role = accounts[v].role /\ b.access = accounts[v].access
                       /\ b.permissions = accounts[v].permissions /\ b.state = accounts[v].state
      PROVE  /\ accounts' = [u \in Staff |-> accounts'[u]]
             /\ \A u \in Staff : Shaped(accounts'[u]) /\ StaffRights(u)' = StaffRights(u)
  BY <1>1, OneAccount DEF AccountsInv, StaffRights
<1>2. v \in Staff => Shaped(accounts[v])
  BY DEF AccountsInv
<1>3. CASE accounts' = [accounts EXCEPT ![v].sessions = x]
  <2>. DEFINE b == [accounts[v] EXCEPT !.sessions = x]
  <2>1. accounts' = [accounts EXCEPT ![v] = b]
    BY <1>3
  <2>2. v \in Staff => Shaped(b) /\ b.role = accounts[v].role /\ b.access = accounts[v].access
                       /\ b.permissions = accounts[v].permissions /\ b.state = accounts[v].state
    BY <1>2, WithSessions
  <2>. HIDE DEF b
  <2>. QED
    BY <1>1, <2>1, <2>2
<1>4. CASE accounts' = [accounts EXCEPT ![v].reset = x]
  <2>. DEFINE b == [accounts[v] EXCEPT !.reset = x]
  <2>1. accounts' = [accounts EXCEPT ![v] = b]
    BY <1>4
  <2>2. v \in Staff => Shaped(b) /\ b.role = accounts[v].role /\ b.access = accounts[v].access
                       /\ b.permissions = accounts[v].permissions /\ b.state = accounts[v].state
    BY <1>2, WithReset
  <2>. HIDE DEF b
  <2>. QED
    BY <1>1, <2>1, <2>2
<1>. QED
  BY <1>3, <1>4

\* Signing in and out, and the requests until they have found whom they are about.
SessionSteps(h) ==
    \/ S!login(h) \/ S!refresh(h) \/ S!RefuseRefresh(h) \/ S!RefuseAccess(h) \/ S!logout(h) \/ S!TripOverNull(h)
    \/ S!forgotPassword(h) \/ S!ClearSensitiveUserState(h) \/ S!TouchSession(h) \/ S!updateOwnProfile(h)
    \/ S!Refuse(h)

LEMMA SessionStepsKeepRights ==
    ASSUME AccountsInv, NEW h \in Handlers, SessionSteps(h)
    PROVE  /\ accounts' = [u \in Staff |-> accounts'[u]]
           /\ \A u \in Staff : Shaped(accounts'[u]) /\ StaffRights(u)' = StaffRights(u)
           /\ mixed' = mixed /\ crossed' = crossed
<1>. DEFINE Kept == /\ accounts' = [u \in Staff |-> accounts'[u]]
                    /\ \A u \in Staff : Shaped(accounts'[u]) /\ StaffRights(u)' = StaffRights(u)
<1>1. accounts' = accounts => Kept
  BY DEF AccountsInv, StaffRights
<1>2. S!Throws(h) => Kept /\ mixed' = mixed /\ crossed' = crossed
  BY <1>1 DEF S!Throws, S!storeVars, S!historyVars
<1>3. \A w, e, s : S!SaveSessions(h, w, e, s, S!Same) => Kept
  BY SaveOnlySessions
<1>4. S!DropSession(h) => Kept /\ mixed' = mixed /\ crossed' = crossed
  BY <1>2, <1>3 DEF S!DropSession, S!SessionsOnly
<1>5. CASE S!login(h)
  BY <1>2, <1>3, <1>5 DEF S!login, S!SessionsOnly
<1>6. CASE S!refresh(h)
  BY <1>3, <1>6 DEF S!refresh, S!SessionsOnly
<1>7. CASE S!RefuseRefresh(h) \/ S!RefuseAccess(h) \/ S!logout(h)
  BY <1>4, <1>7 DEF S!RefuseRefresh, S!RefuseAccess, S!logout
<1>8. CASE S!TripOverNull(h) \/ S!updateOwnProfile(h) \/ S!Refuse(h)
  BY <1>2, <1>8 DEF S!TripOverNull, S!updateOwnProfile, S!Refuse
<1>9. CASE S!forgotPassword(h)
  BY <1>9, SaveField DEF S!forgotPassword, S!historyVars
<1>10. CASE S!ClearSensitiveUserState(h)
  BY <1>10, SaveSensitive DEF S!ClearSensitiveUserState, S!SessionsOnly
<1>11. CASE S!TouchSession(h)
  <2>1. accounts' = accounts \/ \E x : accounts' = [accounts EXCEPT ![job[h].target].sessions = x]
    BY <1>11 DEF S!TouchSession, S!Throws, S!storeVars
  <2>2. Kept
    BY <1>1, <2>1, SaveField
  <2>. QED
    BY <1>2, <1>11, <2>2 DEF S!TouchSession
<1>. QED
  BY <1>5, <1>6, <1>7, <1>8, <1>9, <1>10, <1>11 DEF SessionSteps

LEMMA NoJobFits ==
    /\ ShapedJob(S!NoJob) /\ S!NoJob.at = "idle" /\ S!NoJob.op = "none"
BY DEF S!NoJob, ShapedJob

\* A job with another value of one of its fields.
LEMMA JobWithOp ==
    ASSUME NEW j, ShapedJob(j), NEW x
    PROVE  LET k == [j EXCEPT !.op = x]
           IN  ShapedJob(k) /\ <<k.op, k.at, k.actor, k.target, k.copy, k.role, k.by, k.i, k.access>>
                              = <<x, j.at, j.actor, j.target, j.copy, j.role, j.by, j.i, j.access>>
<1>1. j = [op |-> j.op, at |-> j.at, actor |-> j.actor, target |-> j.target, i |-> j.i,
           by |-> j.by, copy |-> j.copy, role |-> j.role, access |-> j.access, force |-> j.force]
  BY DEF ShapedJob
<1>2. [j EXCEPT !.op = x] = [op |-> x, at |-> j.at, actor |-> j.actor, target |-> j.target, i |-> j.i,
           by |-> j.by, copy |-> j.copy, role |-> j.role, access |-> j.access, force |-> j.force]
  BY <1>1
<1>. QED
  BY <1>2 DEF ShapedJob

LEMMA JobWithAt ==
    ASSUME NEW j, ShapedJob(j), NEW x
    PROVE  LET k == [j EXCEPT !.at = x]
           IN  ShapedJob(k) /\ <<k.op, k.at, k.actor, k.target, k.copy, k.role, k.by, k.i, k.access>>
                              = <<j.op, x, j.actor, j.target, j.copy, j.role, j.by, j.i, j.access>>
<1>1. j = [op |-> j.op, at |-> j.at, actor |-> j.actor, target |-> j.target, i |-> j.i,
           by |-> j.by, copy |-> j.copy, role |-> j.role, access |-> j.access, force |-> j.force]
  BY DEF ShapedJob
<1>2. [j EXCEPT !.at = x] = [op |-> j.op, at |-> x, actor |-> j.actor, target |-> j.target, i |-> j.i,
           by |-> j.by, copy |-> j.copy, role |-> j.role, access |-> j.access, force |-> j.force]
  BY <1>1
<1>. QED
  BY <1>2 DEF ShapedJob

LEMMA JobWithActor ==
    ASSUME NEW j, ShapedJob(j), NEW x
    PROVE  LET k == [j EXCEPT !.actor = x]
           IN  ShapedJob(k) /\ <<k.op, k.at, k.actor, k.target, k.copy, k.role, k.by, k.i, k.access>>
                              = <<j.op, j.at, x, j.target, j.copy, j.role, j.by, j.i, j.access>>
<1>1. j = [op |-> j.op, at |-> j.at, actor |-> j.actor, target |-> j.target, i |-> j.i,
           by |-> j.by, copy |-> j.copy, role |-> j.role, access |-> j.access, force |-> j.force]
  BY DEF ShapedJob
<1>2. [j EXCEPT !.actor = x] = [op |-> j.op, at |-> j.at, actor |-> x, target |-> j.target, i |-> j.i,
           by |-> j.by, copy |-> j.copy, role |-> j.role, access |-> j.access, force |-> j.force]
  BY <1>1
<1>. QED
  BY <1>2 DEF ShapedJob

LEMMA JobWithTarget ==
    ASSUME NEW j, ShapedJob(j), NEW x
    PROVE  LET k == [j EXCEPT !.target = x]
           IN  ShapedJob(k) /\ <<k.op, k.at, k.actor, k.target, k.copy, k.role, k.by, k.i, k.access>>
                              = <<j.op, j.at, j.actor, x, j.copy, j.role, j.by, j.i, j.access>>
<1>1. j = [op |-> j.op, at |-> j.at, actor |-> j.actor, target |-> j.target, i |-> j.i,
           by |-> j.by, copy |-> j.copy, role |-> j.role, access |-> j.access, force |-> j.force]
  BY DEF ShapedJob
<1>2. [j EXCEPT !.target = x] = [op |-> j.op, at |-> j.at, actor |-> j.actor, target |-> x, i |-> j.i,
           by |-> j.by, copy |-> j.copy, role |-> j.role, access |-> j.access, force |-> j.force]
  BY <1>1
<1>. QED
  BY <1>2 DEF ShapedJob

LEMMA JobWithI ==
    ASSUME NEW j, ShapedJob(j), NEW x
    PROVE  LET k == [j EXCEPT !.i = x]
           IN  ShapedJob(k) /\ <<k.op, k.at, k.actor, k.target, k.copy, k.role, k.by, k.i, k.access>>
                              = <<j.op, j.at, j.actor, j.target, j.copy, j.role, j.by, x, j.access>>
<1>1. j = [op |-> j.op, at |-> j.at, actor |-> j.actor, target |-> j.target, i |-> j.i,
           by |-> j.by, copy |-> j.copy, role |-> j.role, access |-> j.access, force |-> j.force]
  BY DEF ShapedJob
<1>2. [j EXCEPT !.i = x] = [op |-> j.op, at |-> j.at, actor |-> j.actor, target |-> j.target, i |-> x,
           by |-> j.by, copy |-> j.copy, role |-> j.role, access |-> j.access, force |-> j.force]
  BY <1>1
<1>. QED
  BY <1>2 DEF ShapedJob

LEMMA JobWithBy ==
    ASSUME NEW j, ShapedJob(j), NEW x
    PROVE  LET k == [j EXCEPT !.by = x]
           IN  ShapedJob(k) /\ <<k.op, k.at, k.actor, k.target, k.copy, k.role, k.by, k.i, k.access>>
                              = <<j.op, j.at, j.actor, j.target, j.copy, j.role, x, j.i, j.access>>
<1>1. j = [op |-> j.op, at |-> j.at, actor |-> j.actor, target |-> j.target, i |-> j.i,
           by |-> j.by, copy |-> j.copy, role |-> j.role, access |-> j.access, force |-> j.force]
  BY DEF ShapedJob
<1>2. [j EXCEPT !.by = x] = [op |-> j.op, at |-> j.at, actor |-> j.actor, target |-> j.target, i |-> j.i,
           by |-> x, copy |-> j.copy, role |-> j.role, access |-> j.access, force |-> j.force]
  BY <1>1
<1>. QED
  BY <1>2 DEF ShapedJob

LEMMA JobWithCopy ==
    ASSUME NEW j, ShapedJob(j), NEW x
    PROVE  LET k == [j EXCEPT !.copy = x]
           IN  ShapedJob(k) /\ <<k.op, k.at, k.actor, k.target, k.copy, k.role, k.by, k.i, k.access>>
                              = <<j.op, j.at, j.actor, j.target, x, j.role, j.by, j.i, j.access>>
<1>1. j = [op |-> j.op, at |-> j.at, actor |-> j.actor, target |-> j.target, i |-> j.i,
           by |-> j.by, copy |-> j.copy, role |-> j.role, access |-> j.access, force |-> j.force]
  BY DEF ShapedJob
<1>2. [j EXCEPT !.copy = x] = [op |-> j.op, at |-> j.at, actor |-> j.actor, target |-> j.target, i |-> j.i,
           by |-> j.by, copy |-> x, role |-> j.role, access |-> j.access, force |-> j.force]
  BY <1>1
<1>. QED
  BY <1>2 DEF ShapedJob

LEMMA JobWithRole ==
    ASSUME NEW j, ShapedJob(j), NEW x
    PROVE  LET k == [j EXCEPT !.role = x]
           IN  ShapedJob(k) /\ <<k.op, k.at, k.actor, k.target, k.copy, k.role, k.by, k.i, k.access>>
                              = <<j.op, j.at, j.actor, j.target, j.copy, x, j.by, j.i, j.access>>
<1>1. j = [op |-> j.op, at |-> j.at, actor |-> j.actor, target |-> j.target, i |-> j.i,
           by |-> j.by, copy |-> j.copy, role |-> j.role, access |-> j.access, force |-> j.force]
  BY DEF ShapedJob
<1>2. [j EXCEPT !.role = x] = [op |-> j.op, at |-> j.at, actor |-> j.actor, target |-> j.target, i |-> j.i,
           by |-> j.by, copy |-> j.copy, role |-> x, access |-> j.access, force |-> j.force]
  BY <1>1
<1>. QED
  BY <1>2 DEF ShapedJob

LEMMA JobWithAccess ==
    ASSUME NEW j, ShapedJob(j), NEW x
    PROVE  LET k == [j EXCEPT !.access = x]
           IN  ShapedJob(k) /\ <<k.op, k.at, k.actor, k.target, k.copy, k.role, k.by, k.i, k.access>>
                              = <<j.op, j.at, j.actor, j.target, j.copy, j.role, j.by, j.i, x>>
<1>1. j = [op |-> j.op, at |-> j.at, actor |-> j.actor, target |-> j.target, i |-> j.i,
           by |-> j.by, copy |-> j.copy, role |-> j.role, access |-> j.access, force |-> j.force]
  BY DEF ShapedJob
<1>2. [j EXCEPT !.access = x] = [op |-> j.op, at |-> j.at, actor |-> j.actor, target |-> j.target, i |-> j.i,
           by |-> j.by, copy |-> j.copy, role |-> j.role, access |-> x, force |-> j.force]
  BY <1>1
<1>. QED
  BY <1>2 DEF ShapedJob

LEMMA JobWithForce ==
    ASSUME NEW j, ShapedJob(j), NEW x
    PROVE  LET k == [j EXCEPT !.force = x]
           IN  ShapedJob(k) /\ <<k.op, k.at, k.actor, k.target, k.copy, k.role, k.by, k.i, k.access>>
                              = <<j.op, j.at, j.actor, j.target, j.copy, j.role, j.by, j.i, j.access>>
<1>1. j = [op |-> j.op, at |-> j.at, actor |-> j.actor, target |-> j.target, i |-> j.i,
           by |-> j.by, copy |-> j.copy, role |-> j.role, access |-> j.access, force |-> j.force]
  BY DEF ShapedJob
<1>2. [j EXCEPT !.force = x] = [op |-> j.op, at |-> j.at, actor |-> j.actor, target |-> j.target, i |-> j.i,
           by |-> j.by, copy |-> j.copy, role |-> j.role, access |-> j.access, force |-> x]
  BY <1>1
<1>. QED
  BY <1>2 DEF ShapedJob

\* One handler's job changes.
JobsKept(h) ==
    /\ job' = [g \in Handlers |-> job'[g]]
    /\ \A g \in Handlers : ShapedJob(job'[g]) /\ (g # h => job'[g] = job[g])

LEMMA DoneKeepsJobs ==
    ASSUME AccountsInv, NEW h \in Handlers, S!Done(h)
    PROVE  JobsKept(h) /\ job'[h] = S!NoJob
BY OneJob, NoJobFits DEF S!Done, JobsKept, AccountsInv

LEMMA GotoKeepsJobs ==
    ASSUME AccountsInv, NEW h \in Handlers, NEW step, S!Goto(h, step)
    PROVE  /\ JobsKept(h)
           /\ job'[h].at = step /\ job'[h].op = job[h].op /\ job'[h].actor = job[h].actor
           /\ job'[h].target = job[h].target /\ job'[h].copy = job[h].copy /\ job'[h].role = job[h].role
           /\ job'[h].i = job[h].i /\ job'[h].access = job[h].access
<1>. DEFINE j == [job[h] EXCEPT !.at = step]
<1>1. job' = [job EXCEPT ![h] = j]
  BY DEF S!Goto
<1>2. /\ ShapedJob(j) /\ j.at = step /\ j.op = job[h].op /\ j.actor = job[h].actor /\ j.target = job[h].target
      /\ j.copy = job[h].copy /\ j.role = job[h].role /\ j.i = job[h].i /\ j.access = job[h].access
  <2>1. ShapedJob(job[h])
    BY DEF AccountsInv
  <2>. QED
    BY <2>1, JobWithAt
<1>. HIDE DEF j
<1>. QED
  BY <1>1, <1>2, OneJob DEF JobsKept, AccountsInv

\* What the other handlers have found out remains true.
LEMMA OthersStillFit ==
    ASSUME \A g \in Handlers : JobFits(g), NEW h \in Handlers, JobsKept(h), mixed \subseteq mixed',
           \A u \in Staff : accounts'[u].role = "OWNER" => accounts[u].role = "OWNER",
           JobFits(h)'
    PROVE  \A g \in Handlers : JobFits(g)'
<1>. SUFFICES ASSUME NEW g \in Handlers, g # h
              PROVE  JobFits(g)'
  OBVIOUS
<1>1. job'[g] = job[g] /\ JobFits(g)
  BY DEF JobsKept
<1>. QED
  BY <1>1 DEF JobFits

LEMMA NoJobStillFits ==
    ASSUME NEW h \in Handlers, job'[h] = S!NoJob
    PROVE  JobFits(h)'
BY NoJobFits DEF JobFits

\* Rights that nobody touches.
LEMMA SameRights ==
    ASSUME S!PermissionsMatch, S!OwnersRemain, mixed \subseteq mixed', crossed' = crossed,
           \A u \in Staff : StaffRights(u)' = StaffRights(u)
    PROVE  S!PermissionsMatch' /\ S!OwnersRemain'
<1>1. S!Owners' = S!Owners
  BY DEF S!Owners, S!Live, StaffRights
<1>2. S!PermissionsMatch'
  BY DEF S!PermissionsMatch, S!ComputePermissions, StaffRights
<1>. QED
  BY <1>1, <1>2 DEF S!OwnersRemain

LEMMA RolesRest ==
    ASSUME RolesInv, UNCHANGED <<accounts, job, mixed, crossed>>
    PROVE  RolesInv'
<1>1. AccountsInv' /\ \A g \in Handlers : JobFits(g)'
  BY DEF RolesInv, AccountsInv, JobFits
<1>2. S!PermissionsMatch' /\ S!OwnersRemain'
  <2>1. \A u \in Staff : StaffRights(u)' = StaffRights(u)
    BY DEF StaffRights
  <2>. QED
    BY <2>1, SameRights DEF RolesInv
<1>. QED
  BY <1>1, <1>2 DEF RolesInv

LEMMA SessionStepsKeepRoles ==
    ASSUME RolesInv, NEW h \in Handlers, SessionSteps(h)
    PROVE  RolesInv'
<1>1. /\ accounts' = [u \in Staff |-> accounts'[u]]
      /\ \A u \in Staff : Shaped(accounts'[u]) /\ StaffRights(u)' = StaffRights(u)
      /\ mixed' = mixed /\ crossed' = crossed
  BY SessionStepsKeepRights DEF RolesInv
<1>2. S!Done(h) \/ (job[h].at = "touch" /\ S!Goto(h, IF job[h].op \in S!AdminOps THEN "target" ELSE job[h].op))
  BY DEF SessionSteps, S!login, S!refresh, S!RefuseRefresh, S!RefuseAccess, S!logout, S!TripOverNull,
      S!forgotPassword, S!ClearSensitiveUserState, S!TouchSession, S!updateOwnProfile, S!Refuse, S!Throws,
      S!DropSession
<1>3. JobsKept(h) /\ JobFits(h)'
  <2>1. CASE S!Done(h)
    BY <2>1, DoneKeepsJobs, NoJobStillFits DEF RolesInv
  <2>2. CASE job[h].at = "touch" /\ S!Goto(h, IF job[h].op \in S!AdminOps THEN "target" ELSE job[h].op)
    <3>1. job[h].op \in S!OwnOps \cup S!AdminOps
      BY <2>2 DEF RolesInv, JobFits
    <3>2. /\ JobsKept(h) /\ job'[h].at = (IF job[h].op \in S!AdminOps THEN "target" ELSE job[h].op)
          /\ job'[h].op = job[h].op
      BY <2>2, GotoKeepsJobs DEF RolesInv
    <3>. QED
      BY <3>1, <3>2 DEF JobFits, S!OwnOps, S!AdminOps
  <2>. QED
    BY <1>2, <2>1, <2>2
<1>4. \A u \in Staff : accounts'[u].role = accounts[u].role
  BY <1>1 DEF StaffRights
<1>5. \A g \in Handlers : JobFits(g)'
  BY <1>1, <1>3, <1>4, OthersStillFit DEF RolesInv
<1>6. S!PermissionsMatch' /\ S!OwnersRemain'
  BY <1>1, SameRights DEF RolesInv
<1>7. AccountsInv'
  BY <1>1, <1>3 DEF AccountsInv, JobsKept
<1>. QED
  BY <1>5, <1>6, <1>7 DEF RolesInv

-----------------------------------------------------------------------------
\* The rest of a request about somebody's account.

\* A request as it begins.
StartedJob(op, step, u, n) ==
    [S!NoJob EXCEPT !.op = op, !.at = step, !.actor = u, !.target = u, !.i = n,
                    !.by = accounts[u].role, !.copy = accounts[u]]

LEMMA StartedJobHas ==
    ASSUME NEW op, NEW step, NEW u, NEW n
    PROVE  LET j == StartedJob(op, step, u, n)
           IN  /\ ShapedJob(j) /\ j.at = step /\ j.op = op
               /\ j.target = u /\ j.i = n /\ j.copy = accounts[u]
<1>. DEFINE k1 == [S!NoJob EXCEPT !.op = op]
            k2 == [k1 EXCEPT !.at = step]
            k3 == [k2 EXCEPT !.actor = u]
            k4 == [k3 EXCEPT !.target = u]
            k5 == [k4 EXCEPT !.i = n]
            k6 == [k5 EXCEPT !.by = accounts[u].role]
            k7 == [k6 EXCEPT !.copy = accounts[u]]
<1>1. ShapedJob(k1) /\ k1.op = op
  BY NoJobFits, JobWithOp
<1>. HIDE DEF k1
<1>2. ShapedJob(k2) /\ k2.op = op /\ k2.at = step
  BY <1>1, JobWithAt
<1>. HIDE DEF k2
<1>3. ShapedJob(k3) /\ k3.op = op /\ k3.at = step
  BY <1>2, JobWithActor
<1>. HIDE DEF k3
<1>4. ShapedJob(k4) /\ k4.op = op /\ k4.at = step /\ k4.target = u
  BY <1>3, JobWithTarget
<1>. HIDE DEF k4
<1>5. ShapedJob(k5) /\ k5.op = op /\ k5.at = step /\ k5.target = u /\ k5.i = n
  BY <1>4, JobWithI
<1>. HIDE DEF k5
<1>6. ShapedJob(k6) /\ k6.op = op /\ k6.at = step /\ k6.target = u /\ k6.i = n
  BY <1>5, JobWithBy
<1>. HIDE DEF k6
<1>7. ShapedJob(k7) /\ k7.op = op /\ k7.at = step /\ k7.target = u /\ k7.i = n /\ k7.copy = accounts[u]
  BY <1>6, JobWithCopy
<1>. USE DEF k1, k2, k3, k4, k5, k6
<1>. QED
  BY <1>7 DEF StartedJob

\* A request begins with the account as it is.
LEMMA BeginKeepsRoles ==
    ASSUME RolesInv, NEW h \in Handlers, NEW op \in S!Operations, NEW u \in Staff, NEW i,
           S!BeginOpen(h, op, u) \/ S!BeginSession(h, op, u, i) \/ S!Authenticate(h, op, u, i)
    PROVE  RolesInv'
<1>1. UNCHANGED <<accounts, mixed, crossed>>
  BY DEF S!BeginOpen, S!BeginSession, S!Authenticate, S!Request, S!storeVars, S!historyVars
<1>2. \A step, n : /\ ShapedJob(StartedJob(op, step, u, n))
                   /\ StartedJob(op, step, u, n).at = step /\ StartedJob(op, step, u, n).op = op
  BY StartedJobHas
<1>3. PICK step, k :
        /\ job' = [job EXCEPT ![h] = k] /\ ShapedJob(k) /\ k.at = step /\ k.op = op
        /\ \/ step = op /\ op \in S!OpenOps
           \/ /\ op \in S!OwnOps \cup S!AdminOps
              /\ step \in {"lapsed", "touch", IF op \in S!AdminOps THEN "target" ELSE op}
  <2>1. CASE S!BeginOpen(h, op, u) \/ S!BeginSession(h, op, u, i)
    <3>1. op \in S!OpenOps
      BY <2>1 DEF S!BeginOpen, S!BeginSession, S!OpenOps
    <3>2. job' = [job EXCEPT ![h] = StartedJob(op, op, u, 0)] \/ job' = [job EXCEPT ![h] = StartedJob(op, op, u, i)]
      BY <2>1 DEF S!BeginOpen, S!BeginSession, S!Request, StartedJob
    <3>. QED
      BY <1>2, <3>1, <3>2
  <2>2. CASE S!Authenticate(h, op, u, i)
    <3>1. op \in S!OwnOps \cup S!AdminOps
      BY <2>2 DEF S!Authenticate
    <3>2. PICK x \in {"lapsed", "touch", IF op \in S!AdminOps THEN "target" ELSE op} :
            job' = [job EXCEPT ![h] = StartedJob(op, x, u, i)]
      BY <2>2 DEF S!Authenticate, StartedJob
    <3>3. ShapedJob(StartedJob(op, x, u, i)) /\ StartedJob(op, x, u, i).at = x /\ StartedJob(op, x, u, i).op = op
      BY <1>2
    <3>. QED
      BY <3>1, <3>2, <3>3
  <2>. QED
    BY <2>1, <2>2
<1>4. JobsKept(h) /\ job'[h].at = step /\ job'[h].op = op
  BY <1>3, OneJob DEF RolesInv, AccountsInv, JobsKept
<1>5. JobFits(h)'
  BY <1>3, <1>4 DEF JobFits, S!OpenOps, S!OwnOps, S!AdminOps
<1>6. \A g \in Handlers : JobFits(g)'
  BY <1>1, <1>4, <1>5, OthersStillFit DEF RolesInv
<1>7. \A x \in Staff : StaffRights(x)' = StaffRights(x)
  BY <1>1 DEF StaffRights
<1>8. S!PermissionsMatch' /\ S!OwnersRemain'
  BY <1>1, <1>7, SameRights DEF RolesInv
<1>. QED
  BY <1>1, <1>4, <1>6, <1>8 DEF RolesInv, AccountsInv, JobsKept

\* Finding the account, and the guards of an update and of a deletion.
LEMMA GuardsKeepRoles ==
    ASSUME RolesInv, NEW h \in Handlers,
           \/ \E u \in Staff : S!FindTarget(h, u)
           \/ \E role \in S!Roles \cup {None}, access \in Accesses \cup {None} : S!UpdateUser(h, role, access)
           \/ \E force \in BOOLEAN : S!CountOwners(h, force)
           \/ S!CheckEvents(h) \/ S!PurgeUser(h)
    PROVE  RolesInv'
<1>1. UNCHANGED <<accounts, mixed, crossed>>
  BY DEF S!FindTarget, S!UpdateUser, S!CountOwners, S!CheckEvents, S!PurgeUser, S!ReadOnly, S!storeVars, S!historyVars
<1>2. JobFits(h)
  BY DEF RolesInv
<1>. ShapedJob(job[h])
  BY DEF RolesInv, AccountsInv
<1>3. ASSUME NEW u \in Staff, S!FindTarget(h, u)
      PROVE  JobsKept(h) /\ JobFits(h)'
  <2>. DEFINE k1 == [job[h] EXCEPT !.at = job[h].op]
              k2 == [k1 EXCEPT !.target = u]
              k == [k2 EXCEPT !.copy = accounts[u]]
  <2>1. job' = [job EXCEPT ![h] = k] /\ job[h].op \in S!AdminOps
    BY <1>2, <1>3 DEF S!FindTarget, JobFits
  <2>2. /\ ShapedJob(k) /\ k.at = job[h].op /\ k.op = job[h].op /\ k.target = u /\ k.copy = accounts[u]
    <3>1. ShapedJob(k1) /\ k1.at = job[h].op /\ k1.op = job[h].op
      BY JobWithAt
    <3>. HIDE DEF k1
    <3>2. ShapedJob(k2) /\ k2.at = job[h].op /\ k2.op = job[h].op /\ k2.target = u
      BY <3>1, JobWithTarget
    <3>. HIDE DEF k2
    <3>. QED
      BY <3>2, JobWithCopy
  <2>. HIDE DEF k
  <2>3. JobsKept(h) /\ job'[h] = k
    BY <1>2, <2>1, <2>2, OneJob DEF RolesInv, AccountsInv, JobsKept
  <2>4. u \notin mixed' => accounts[u].permissions = S!ComputePermissions(accounts[u].access, accounts[u].role)
    BY <1>1 DEF RolesInv, S!PermissionsMatch
  <2>. QED
    BY <1>1, <2>1, <2>2, <2>3, <2>4 DEF JobFits, S!AdminOps
<1>4. ASSUME NEW role \in S!Roles \cup {None}, NEW access \in Accesses \cup {None}, S!UpdateUser(h, role, access)
      PROVE  JobsKept(h) /\ JobFits(h)'
  <2>. DEFINE k1 == [job[h] EXCEPT !.at = "saveUpdate"]
              k2 == [k1 EXCEPT !.role = role]
              k == [k2 EXCEPT !.access = access]
  <2>1. /\ job' = [job EXCEPT ![h] = k] /\ job[h].at = "update"
        /\ role \notin {None, job[h].copy.role} => job[h].actor # job[h].target /\ role # "OWNER"
    BY <1>4 DEF S!UpdateUser, S!canAssignRole
  <2>2. /\ ShapedJob(k) /\ k.at = "saveUpdate" /\ k.op = job[h].op /\ k.actor = job[h].actor
        /\ k.target = job[h].target /\ k.copy = job[h].copy /\ k.role = role
    <3>1. /\ ShapedJob(k1) /\ k1.at = "saveUpdate" /\ k1.op = job[h].op /\ k1.actor = job[h].actor
          /\ k1.target = job[h].target /\ k1.copy = job[h].copy
      BY JobWithAt
    <3>. HIDE DEF k1
    <3>2. /\ ShapedJob(k2) /\ k2.at = "saveUpdate" /\ k2.op = job[h].op /\ k2.actor = job[h].actor
          /\ k2.target = job[h].target /\ k2.copy = job[h].copy /\ k2.role = role
      BY <3>1, JobWithRole
    <3>. HIDE DEF k2
    <3>. QED
      BY <3>2, JobWithAccess
  <2>. HIDE DEF k
  <2>3. JobsKept(h) /\ job'[h] = k
    BY <1>2, <2>1, <2>2, OneJob DEF RolesInv, AccountsInv, JobsKept
  <2>. QED
    BY <1>1, <1>2, <2>1, <2>2, <2>3 DEF JobFits
<1>5. ASSUME NEW force \in BOOLEAN, S!CountOwners(h, force)
      PROVE  JobsKept(h) /\ JobFits(h)'
  <2>. DEFINE k1 == [job[h] EXCEPT !.at = "events"]
              k == [k1 EXCEPT !.force = force]
  <2>1. job' = [job EXCEPT ![h] = k] /\ job[h].at = "delete" /\ job[h].actor # job[h].target
    BY <1>5 DEF S!CountOwners
  <2>2. /\ ShapedJob(k) /\ k.at = "events" /\ k.actor = job[h].actor /\ k.target = job[h].target
    <3>1. ShapedJob(k1) /\ k1.at = "events" /\ k1.actor = job[h].actor /\ k1.target = job[h].target
      BY JobWithAt
    <3>. HIDE DEF k1
    <3>. QED
      BY <3>1, JobWithForce
  <2>. HIDE DEF k
  <2>3. JobsKept(h) /\ job'[h] = k
    BY <1>2, <2>1, <2>2, OneJob DEF RolesInv, AccountsInv, JobsKept
  <2>. QED
    BY <1>2, <2>1, <2>2, <2>3 DEF JobFits
<1>6. ASSUME S!CheckEvents(h) \/ S!PurgeUser(h)
      PROVE  JobsKept(h) /\ JobFits(h)'
  <2>1. /\ S!Goto(h, "softDelete") \/ S!Goto(h, "remove")
        /\ job[h].at \in {"events", "purge"} /\ job[h].actor # job[h].target
    BY <1>2, <1>6 DEF S!CheckEvents, S!PurgeUser, JobFits
  <2>2. /\ JobsKept(h) /\ job'[h].at \in {"softDelete", "remove"}
        /\ job'[h].actor = job[h].actor /\ job'[h].target = job[h].target
    BY <2>1, GotoKeepsJobs DEF RolesInv
  <2>. QED
    BY <1>2, <2>1, <2>2 DEF JobFits
<1>7. JobsKept(h) /\ JobFits(h)'
  BY <1>3, <1>4, <1>5, <1>6
<1>8. \A g \in Handlers : JobFits(g)'
  BY <1>1, <1>7, OthersStillFit DEF RolesInv
<1>9. \A x \in Staff : StaffRights(x)' = StaffRights(x)
  BY <1>1 DEF StaffRights
<1>10. S!PermissionsMatch' /\ S!OwnersRemain'
  BY <1>1, <1>9, SameRights DEF RolesInv
<1>. QED
  BY <1>1, <1>7, <1>8, <1>10 DEF RolesInv, AccountsInv, JobsKept

-----------------------------------------------------------------------------
\* The saves of rights.

\* One account changes, after Done.
LEMMA OneSaveKeepsRoles ==
    ASSUME RolesInv, NEW h \in Handlers, S!Done(h),
           NEW v, NEW b, accounts' = [accounts EXCEPT ![v] = b],
           mixed \subseteq mixed', crossed => crossed',
           v \in Staff =>
               /\ Shaped(b)
               /\ v \notin mixed' => b.permissions = S!ComputePermissions(b.access, b.role)
               /\ b.role = "OWNER" => accounts[v].role = "OWNER"
               /\ v \in S!Owners /\ ~(b.state = "live" /\ b.role = "OWNER") => crossed' \/ S!Owners \ {v} # {}
    PROVE  RolesInv'
<1>1. /\ accounts' = [u \in Staff |-> accounts'[u]]
      /\ \A u \in Staff : accounts'[u] = IF u = v THEN b ELSE accounts[u]
  BY OneAccount DEF RolesInv, AccountsInv
<1>2. JobsKept(h) /\ JobFits(h)'
  BY DoneKeepsJobs, NoJobStillFits DEF RolesInv
<1>3. AccountsInv'
  BY <1>1, <1>2 DEF RolesInv, AccountsInv, JobsKept
<1>4. \A u \in Staff : accounts'[u].role = "OWNER" => accounts[u].role = "OWNER"
  BY <1>1
<1>5. \A g \in Handlers : JobFits(g)'
  BY <1>2, <1>4, OthersStillFit DEF RolesInv
<1>6. S!PermissionsMatch'
  <2>. SUFFICES ASSUME NEW u \in Staff, u \notin mixed'
                PROVE  accounts'[u].permissions = S!ComputePermissions(accounts'[u].access, accounts'[u].role)
    BY DEF S!PermissionsMatch, S!ComputePermissions
  <2>1. CASE u = v
    BY <1>1, <2>1
  <2>2. CASE u # v
    BY <1>1, <2>2 DEF RolesInv, S!PermissionsMatch
  <2>. QED
    BY <2>1, <2>2
<1>7. S!OwnersRemain'
  <2>. SUFFICES ASSUME ~crossed'
                PROVE  S!Owners' # {}
    BY DEF S!OwnersRemain
  <2>1. S!Owners # {}
    BY DEF RolesInv, S!OwnersRemain
  <2>2. ASSUME NEW u \in S!Owners, u # v
        PROVE  u \in S!Owners'
    BY <1>1, <2>2 DEF S!Owners, S!Live
  <2>3. CASE v \in S!Owners
    <3>1. v \in Staff
      BY <2>3 DEF S!Owners
    <3>2. CASE b.state = "live" /\ b.role = "OWNER"
      BY <1>1, <3>1, <3>2 DEF S!Owners, S!Live
    <3>3. CASE ~(b.state = "live" /\ b.role = "OWNER")
      BY <2>2, <2>3, <3>1, <3>3
    <3>. QED
      BY <3>2, <3>3
  <2>. QED
    BY <2>1, <2>2, <2>3
<1>. QED
  BY <1>3, <1>5, <1>6, <1>7 DEF RolesInv

LEMMA CreateKeepsRoles ==
    ASSUME RolesInv, NEW h \in Handlers, NEW role \in S!Roles, NEW access \in Accesses, S!CreateUser(h, role, access)
    PROVE  RolesInv'
<1>. DEFINE v == job[h].target
            new == S!Account(role, access, <<>>)
<1>1. S!Done(h) /\ UNCHANGED <<mixed, crossed>> /\ role # "OWNER"
  BY DEF S!CreateUser, S!historyVars, S!canAssignRole
<1>2. CASE accounts[v].state = "absent"
  <2>1. accounts' = [accounts EXCEPT ![v] = new]
    BY <1>2 DEF S!CreateUser
  <2>2. Shaped(new) /\ new.permissions = S!ComputePermissions(new.access, new.role) /\ new.role # "OWNER"
    BY <1>1 DEF S!Account, Shaped
  <2>3. v \notin S!Owners
    BY <1>2 DEF S!Owners, S!Live
  <2>. HIDE DEF new, v
  <2>. QED
    BY <1>1, <2>1, <2>2, <2>3, OneSaveKeepsRoles
<1>3. CASE accounts[v].state # "absent"
  <2>1. accounts' = [accounts EXCEPT ![v] = accounts[v]]
    BY <1>3 DEF S!CreateUser, RolesInv, AccountsInv
  <2>2. v \in Staff => /\ Shaped(accounts[v])
                       /\ v \notin mixed => accounts[v].permissions = S!ComputePermissions(accounts[v].access, accounts[v].role)
                       /\ v \in S!Owners => accounts[v].state = "live" /\ accounts[v].role = "OWNER"
    BY DEF RolesInv, AccountsInv, S!PermissionsMatch, S!Owners, S!Live
  <2>. HIDE DEF v
  <2>. QED
    BY <1>1, <2>1, <2>2, OneSaveKeepsRoles
<1>. QED
  BY <1>2, <1>3

\* Deleted, restored, removed for good.
LEMMA StatesKeepRoles ==
    ASSUME RolesInv, NEW h \in Handlers, S!SoftDelete(h) \/ S!RestoreUser(h) \/ S!RemoveUser(h)
    PROVE  RolesInv'
<1>. DEFINE v == job[h].target
<1>1. PICK x : /\ accounts' = [accounts EXCEPT ![v].state = x] /\ S!Done(h) /\ mixed' = mixed
               /\ crossed => crossed'
               /\ x = "live" \/ (job[h].actor # v /\ (v \in S!Owners => crossed' \/ job[h].actor \in S!Owners))
  <2>1. job[h].at \in {"softDelete", "remove"} => job[h].actor # v
    BY DEF RolesInv, JobFits
  <2>2. CASE S!SoftDelete(h)
    BY <2>1, <2>2 DEF S!SoftDelete, S!Owners
  <2>3. CASE S!RestoreUser(h)
    BY <2>3 DEF S!RestoreUser, S!historyVars
  <2>4. CASE S!RemoveUser(h)
    BY <2>1, <2>4 DEF S!RemoveUser
  <2>. QED
    BY <2>2, <2>3, <2>4
<1>. DEFINE b == [accounts[v] EXCEPT !.state = x]
<1>2. accounts' = [accounts EXCEPT ![v] = b]
  BY <1>1
<1>3. v \in Staff => /\ Shaped(b) /\ b.role = accounts[v].role /\ b.access = accounts[v].access
                     /\ b.permissions = accounts[v].permissions /\ b.state = x
  <2>1. v \in Staff => Shaped(accounts[v])
    BY DEF RolesInv, AccountsInv
  <2>. QED
    BY <2>1, WithState
<1>4. v \in Staff /\ v \notin mixed => accounts[v].permissions = S!ComputePermissions(accounts[v].access, accounts[v].role)
  BY DEF RolesInv, S!PermissionsMatch
<1>5. v \in S!Owners => accounts[v].role = "OWNER"
  BY DEF S!Owners
<1>. HIDE DEF b, v
<1>6. v \in S!Owners /\ ~(x = "live") => crossed' \/ S!Owners \ {v} # {}
  BY <1>1
<1>7. v \in Staff =>
               /\ Shaped(b)
               /\ v \notin mixed' => b.permissions = S!ComputePermissions(b.access, b.role)
               /\ b.role = "OWNER" => accounts[v].role = "OWNER"
               /\ v \in S!Owners /\ ~(b.state = "live" /\ b.role = "OWNER") => crossed' \/ S!Owners \ {v} # {}
  BY <1>1, <1>3, <1>4, <1>5, <1>6
<1>. QED
  BY <1>1, <1>2, <1>7, OneSaveKeepsRoles

\* The record an update leaves.
WithRights(a, role, access, permissions, x) ==
    [[a EXCEPT !.role = role, !.access = access, !.permissions = permissions] EXCEPT !.sessions = x]

LEMMA ShapeWithRights ==
    ASSUME NEW a, Shaped(a), NEW role, NEW access, NEW permissions, NEW x
    PROVE  LET b == WithRights(a, role, access, permissions, x)
           IN  /\ Shaped(b) /\ b.role = role /\ b.access = access /\ b.permissions = permissions
               /\ b.state = a.state /\ b.sessions = x
<1>. DEFINE k1 == [a EXCEPT !.role = role]
            k2 == [k1 EXCEPT !.access = access]
            k3 == [k2 EXCEPT !.permissions = permissions]
            k4 == [k3 EXCEPT !.sessions = x]
<1>1. a = [role |-> a.role, access |-> a.access, permissions |-> a.permissions,
           sessions |-> a.sessions, reset |-> a.reset, state |-> a.state]
  BY DEF Shaped
<1>2. k1 = [role |-> role, access |-> a.access, permissions |-> a.permissions,
            sessions |-> a.sessions, reset |-> a.reset, state |-> a.state]
  BY <1>1
<1>. HIDE DEF k1
<1>3. k2 = [role |-> role, access |-> access, permissions |-> a.permissions,
            sessions |-> a.sessions, reset |-> a.reset, state |-> a.state]
  BY <1>2
<1>. HIDE DEF k2
<1>4. k3 = [role |-> role, access |-> access, permissions |-> permissions,
            sessions |-> a.sessions, reset |-> a.reset, state |-> a.state]
  BY <1>3
<1>. HIDE DEF k3
<1>5. k4 = [role |-> role, access |-> access, permissions |-> permissions,
            sessions |-> x, reset |-> a.reset, state |-> a.state]
  BY <1>4
<1>. HIDE DEF k4
<1>6. /\ Shaped(k4) /\ k4.role = role /\ k4.access = access /\ k4.permissions = permissions
      /\ k4.state = a.state /\ k4.sessions = x
  BY <1>5 DEF Shaped
<1>7. k4 = WithRights(a, role, access, permissions, x)
  BY DEF WithRights, k1, k2, k3, k4
<1>. QED
  BY <1>6, <1>7

LEMMA UpdateKeepsRoles ==
    ASSUME RolesInv, NEW h \in Handlers, S!SaveUpdate(h)
    PROVE  RolesInv'
<1>. DEFINE v == job[h].target
            copy == job[h].copy
            now == accounts[v]
            role == S!Asked(job[h].role, copy.role)
            access == S!Asked(job[h].access, copy.access)
            forceLogout == job[h].access # None \/ role # copy.role
            permissions == IF forceLogout THEN S!ComputePermissions(access, role) ELSE copy.permissions
            newRole == IF role # copy.role THEN role ELSE now.role
            newAccess == IF access # copy.access THEN access ELSE now.access
            newPermissions == IF permissions # copy.permissions THEN permissions ELSE now.permissions
<1>1. /\ v \in Staff /\ Shaped(now)
      /\ v \notin mixed => /\ copy.permissions = S!ComputePermissions(copy.access, copy.role)
                           /\ now.permissions = S!ComputePermissions(now.access, now.role)
      /\ now.role = "OWNER" => copy.role = "OWNER"
      /\ job[h].role \notin {None, copy.role} => job[h].role # "OWNER" /\ job[h].actor # v
  BY DEF RolesInv, JobFits, AccountsInv, S!PermissionsMatch, S!SaveUpdate
<1>2. /\ S!Done(h)
      /\ mixed' = IF <<now.role, now.access>> # <<copy.role, copy.access>> THEN mixed \cup {v} ELSE mixed
      /\ crossed' = (crossed \/ (copy.role = "OWNER" /\ role # "OWNER" /\ job[h].actor \notin S!Owners))
  BY DEF S!SaveUpdate, S!SaveFields
<1>3. PICK x : accounts' = [accounts EXCEPT ![v] =
                   [[now EXCEPT !.role = newRole, !.access = newAccess, !.permissions = newPermissions]
                       EXCEPT !.sessions = x]]
  BY DEF S!SaveUpdate, S!SaveFields, S!SaveSessions, S!Cleared, S!SetAll, S!NoWrite
<1>. DEFINE b == WithRights(now, newRole, newAccess, newPermissions, x)
<1>4. Shaped(b) /\ b.role = newRole /\ b.access = newAccess /\ b.permissions = newPermissions /\ b.state = now.state
  <2>1. Shaped(now)
    BY <1>1
  <2>. HIDE DEF newRole, newAccess, newPermissions, now
  <2>. QED
    BY <2>1, ShapeWithRights
<1>5. v \notin mixed' => newPermissions = S!ComputePermissions(newAccess, newRole)
  <2>. SUFFICES ASSUME v \notin mixed'
                PROVE  newPermissions = S!ComputePermissions(newAccess, newRole)
    OBVIOUS
  <2>1. v \notin mixed /\ now.role = copy.role /\ now.access = copy.access
    BY <1>2
  <2>2. now.permissions = copy.permissions /\ newRole = role /\ newAccess = access
    BY <1>1, <2>1
  <2>3. ~forceLogout => role = copy.role /\ access = copy.access
    BY DEF S!Asked
  <2>. QED
    BY <1>1, <2>1, <2>2, <2>3
<1>6. role # copy.role => role # "OWNER" /\ job[h].actor # v
  BY <1>1 DEF S!Asked
<1>7. newRole = "OWNER" => now.role = "OWNER"
  BY <1>6
<1>8. v \in S!Owners /\ ~(now.state = "live" /\ newRole = "OWNER") => crossed' \/ S!Owners \ {v} # {}
  <2>. SUFFICES ASSUME v \in S!Owners, ~(now.state = "live" /\ newRole = "OWNER"), ~crossed'
                PROVE  S!Owners \ {v} # {}
    OBVIOUS
  <2>1. now.state = "live" /\ now.role = "OWNER" /\ copy.role = "OWNER"
    BY <1>1 DEF S!Owners, S!Live
  <2>2. role # copy.role /\ role # "OWNER" /\ job[h].actor # v
    BY <1>6, <2>1
  <2>3. job[h].actor \in S!Owners
    BY <1>2, <2>1, <2>2
  <2>. QED
    BY <2>2, <2>3
<1>9. accounts' = [accounts EXCEPT ![v] = b]
  BY <1>3 DEF WithRights
<1>10. mixed \subseteq mixed' /\ (crossed => crossed')
  BY <1>2
<1>. HIDE DEF b, v, newRole, newAccess, newPermissions, now
<1>11. v \in Staff =>
               /\ Shaped(b)
               /\ v \notin mixed' => b.permissions = S!ComputePermissions(b.access, b.role)
               /\ b.role = "OWNER" => accounts[v].role = "OWNER"
               /\ v \in S!Owners /\ ~(b.state = "live" /\ b.role = "OWNER") => crossed' \/ S!Owners \ {v} # {}
  BY <1>4, <1>5, <1>7, <1>8 DEF now
<1>. QED
  BY <1>2, <1>9, <1>10, <1>11, OneSaveKeepsRoles

-----------------------------------------------------------------------------
LEMMA RolesFirst ==
    Init /\ part = "staff" => RolesInv
<1>. SUFFICES ASSUME Init, part = "staff" PROVE RolesInv
  OBVIOUS
<1>1. PICK start \in Starts : accounts = start.accounts /\ ops = start.ops
  BY DEF Init, S!Init
<1>2. /\ job = [h \in Handlers |-> S!NoJob] /\ mixed = {} /\ ops # {}
  BY DEF Init, S!Init
<1>3. accounts \in [Staff -> [role : S!Roles, access : Accesses \cup {None},
                              permissions : (Accesses \cup {None}) \X S!Roles,
                              sessions : Seq([id : 1 .. 4, tok : Nat]), reset : BOOLEAN,
                              state : {"absent", "live", "deleted", "purged"}]]
  BY <1>1, StaffAssumption
<1>4. /\ \A u \in Staff : accounts[u].permissions = S!ComputePermissions(accounts[u].access, accounts[u].role)
      /\ \E u \in Staff : accounts[u].state = "live" /\ accounts[u].role = "OWNER"
  BY <1>1, <1>2, StaffAssumption
<1>5. accounts = [u \in Staff |-> accounts[u]] /\ \A u \in Staff : Shaped(accounts[u])
  BY <1>3 DEF Shaped
<1>6. AccountsInv
  BY <1>2, <1>5, NoJobFits DEF AccountsInv
<1>7. \A h \in Handlers : JobFits(h)
  BY <1>2, NoJobFits DEF JobFits
<1>8. S!PermissionsMatch /\ S!OwnersRemain
  BY <1>4 DEF S!PermissionsMatch, S!OwnersRemain, S!Owners, S!Live
<1>. QED
  BY <1>6, <1>7, <1>8 DEF RolesInv

LEMMA RolesNext ==
    ASSUME RolesInv, S!Next
    PROVE  RolesInv'
<1>1. ASSUME NEW h \in Handlers, S!Step(h)
      PROVE  RolesInv'
  <2>1. CASE SessionSteps(h)
    BY <2>1, SessionStepsKeepRoles
  <2>2. CASE \/ \E u \in Staff : S!FindTarget(h, u)
             \/ \E role \in S!Roles \cup {None}, access \in Accesses \cup {None} : S!UpdateUser(h, role, access)
             \/ \E force \in BOOLEAN : S!CountOwners(h, force)
             \/ S!CheckEvents(h) \/ S!PurgeUser(h)
    BY <2>2, GuardsKeepRoles
  <2>3. CASE \E role \in S!Roles, access \in Accesses : S!CreateUser(h, role, access)
    BY <2>3, CreateKeepsRoles
  <2>4. CASE S!SaveUpdate(h)
    BY <2>4, UpdateKeepsRoles
  <2>5. CASE S!SoftDelete(h) \/ S!RestoreUser(h) \/ S!RemoveUser(h)
    BY <2>5, StatesKeepRoles
  <2>. QED
    BY <1>1, <2>1, <2>2, <2>3, <2>4, <2>5 DEF S!Step, SessionSteps
<1>2. ASSUME NEW h \in Handlers, NEW op \in S!Operations, NEW u \in Staff,
             \/ S!BeginOpen(h, op, u)
             \/ \E i \in DOMAIN accounts[u].sessions : S!BeginSession(h, op, u, i) \/ S!Authenticate(h, op, u, i)
      PROVE  RolesInv'
  BY <1>2, BeginKeepsRoles
<1>3. ASSUME NEW u \in Staff, NEW i \in DOMAIN accounts[u].sessions, S!Expire(u, i)
      PROVE  RolesInv'
  <2>1. UNCHANGED <<accounts, job, mixed, crossed>>
    BY <1>3 DEF S!Expire, S!storeVars, S!historyVars
  <2>. QED
    BY <2>1, RolesRest
<1>. QED
  BY <1>1, <1>2, <1>3 DEF S!Next

\* Every account holds the permissions of its role and access, and an owner
\* remains, but for the overlaps the histories name: for any staff, any number
\* of requests at a time, any roles and accesses at the start (StaffAccounts).
THEOREM RolesStayKept == Spec => []RolesAreKept
<1>. DEFINE Kept == part = "staff" => RolesInv
<1>1. Init => Kept
  BY RolesFirst
<1>2. Kept /\ [Next]_<<part, staffVars, customerVars, cacheVars, gateVars, seedVars>> => Kept'
  <2>. SUFFICES ASSUME Kept, [Next]_<<part, staffVars, customerVars, cacheVars, gateVars, seedVars>>
                PROVE  Kept'
    OBVIOUS
  <2>1. CASE part = "staff" /\ S!Next /\ part' = part
    BY <2>1, RolesNext
  <2>2. CASE part' = part /\ UNCHANGED staffVars
    BY <2>2, RolesRest DEF staffVars
  <2>3. CASE part # "staff" /\ part' = part
    BY <2>3
  <2>. QED
    BY <2>1, <2>2, <2>3 DEF Next
<1>3. Kept => RolesAreKept
  BY DEF RolesInv, RolesAreKept
<1>. QED
  BY <1>1, <1>2, <1>3, PTL DEF Spec

-----------------------------------------------------------------------------
(* The sessions of the staff.  A save from a copy that is still what is     *)
(* stored does to the array what was done to the sessions; sessions have an *)
(* id each, so that the one at a position is the one with its id.           *)

SessionStates == [id : Nat, tok : Nat]
\* Sessions with ids up to n.
Listed(ss, n) ==
    /\ ss \in Seq(SessionStates)
    /\ \A i \in DOMAIN ss : ss[i].id <= n
\* No id twice.
Apart(ss) == \A i, j \in DOMAIN ss : ss[i].id = ss[j].id => i = j

SoundAccount(u) ==
    /\ accounts[u].role \in S!Roles /\ accounts[u].access \in Accesses \cup {None}
    /\ accounts[u].state \in {"absent", "live", "deleted", "purged"}
    /\ accounts[u].state = "absent" => accounts[u].sessions = <<>>
    /\ Listed(accounts[u].sessions, lastId)
    /\ u \notin stale =>
        /\ opened[u] = accounts[u].sessions
        /\ S!Whole(accounts[u].sessions) /\ Apart(accounts[u].sessions)

SoundJob(h) ==
    LET j == job[h] IN
    j.at # "idle" =>
        /\ j.target \in Staff /\ Listed(j.copy.sessions, lastId)
        /\ j.at # "create" => accounts[j.target].state # "absent"
        /\ j.at \in {"refresh", "logout", "lapsed"} => j.i \in DOMAIN j.copy.sessions
        /\ j.at = "touch" => j.i \in Nat \ {0} /\ j.op \in S!OwnOps \cup S!AdminOps
        /\ j.at = "target" => j.op \in S!AdminOps
        /\ j.at = "saveUpdate" => j.role \in S!Roles \cup {None} /\ j.access \in Accesses \cup {None}

SessionsInv ==
    /\ opened = [u \in Staff |-> opened[u]]
    /\ lastId \in Nat /\ requests \in 0 .. MaxRequests
    /\ assigned \subseteq Staff /\ ops \subseteq S!Operations
    /\ \A u \in Staff : SoundAccount(u)
    /\ \A h \in Handlers : SoundJob(h)

LEMMA SessionRecord ==
    /\ \A m, t \in Nat : S!Session(m, t) \in SessionStates /\ S!Session(m, t).id = m /\ S!Session(m, t).tok = t
    /\ S!Gap \in SessionStates /\ S!Gap.id = 0
    /\ \A s \in SessionStates : s.id \in Nat /\ s.tok \in Nat /\ s = S!Session(s.id, s.tok)
BY DEF SessionStates, S!Session, S!Gap

LEMMA StaffCardinality ==
    ASSUME NEW s
    PROVE  S!Cardinality(s) = Cardinality(s)
BY DEF S!Cardinality, Cardinality, S!IsFiniteSet, IsFiniteSet

LEMMA ListedLonger ==
    ASSUME NEW ss, NEW n \in Nat, NEW m \in Nat, Listed(ss, n), n <= m
    PROVE  Listed(ss, m)
<1>1. \A i \in DOMAIN ss : ss[i] \in SessionStates
  BY DEF Listed
<1>. QED
  BY <1>1, SessionRecord DEF Listed

LEMMA NoSessions ==
    ASSUME NEW n \in Nat
    PROVE  Listed(<<>>, n) /\ Apart(<<>>) /\ S!Whole(<<>>)
BY DEF Listed, Apart, S!Whole

LEMMA OneMore ==
    ASSUME NEW n \in Nat, NEW ss, Listed(ss, n), NEW t \in Nat
    PROVE  LET new == Append(ss, S!Session(n + 1, t))
           IN  /\ Listed(new, n + 1)
               /\ Apart(ss) => Apart(new)
               /\ S!Whole(ss) => S!Whole(new)
<1>. DEFINE x == S!Session(n + 1, t)
            new == Append(ss, x)
<1>1. x \in SessionStates /\ x.id = n + 1
  BY SessionRecord
<1>2. \A i \in 1 .. Len(ss) : ss[i].id \in Nat /\ ss[i].id <= n
  BY SessionRecord DEF Listed
<1>. HIDE DEF x
<1>3. /\ new \in Seq(SessionStates) /\ Len(new) = Len(ss) + 1 /\ new[Len(ss) + 1] = x
      /\ \A i \in 1 .. Len(ss) : new[i] = ss[i]
  BY <1>1 DEF Listed
<1>. HIDE DEF new
<1>4. DOMAIN ss = 1 .. Len(ss) /\ DOMAIN new = 1 .. (Len(ss) + 1) /\ Len(ss) \in Nat
  BY <1>3 DEF Listed
<1>5. \A i \in DOMAIN new : i \in 1 .. Len(ss) \/ i = Len(ss) + 1
  BY <1>4
<1>6. \A i \in DOMAIN new : new[i].id <= n + 1 /\ new[i].id \in Nat
  BY <1>1, <1>2, <1>3, <1>5
<1>7. Listed(new, n + 1)
  BY <1>3, <1>6 DEF Listed
<1>8. S!Whole(ss) => S!Whole(new)
  BY <1>1, <1>3, <1>4, <1>5 DEF S!Whole
<1>9. Apart(ss) => Apart(new)
  <2>. SUFFICES ASSUME Apart(ss), NEW i \in DOMAIN new, NEW j \in DOMAIN new, new[i].id = new[j].id
                PROVE  i = j
    BY DEF Apart
  <2>1. CASE i \in 1 .. Len(ss) /\ j \in 1 .. Len(ss)
    BY <1>3, <1>4, <2>1 DEF Apart
  <2>2. CASE i = Len(ss) + 1 /\ j \in 1 .. Len(ss)
    BY <1>1, <1>2, <1>3, <2>2
  <2>3. CASE j = Len(ss) + 1 /\ i \in 1 .. Len(ss)
    BY <1>1, <1>2, <1>3, <2>3
  <2>. QED
    BY <1>5, <2>1, <2>2, <2>3
<1>. USE DEF new, x
<1>. QED
  BY <1>7, <1>8, <1>9

\* The j-th of the positions, for each j up to their number.
LEMMA NthPosition ==
    ASSUME NEW n \in Nat, NEW p \in SUBSET (1 .. n), NEW j \in 1 .. Cardinality(p)
    PROVE  /\ S!Nth(p, j) \in p
           /\ Cardinality({k \in p : k <= S!Nth(p, j)}) = j
<1>. DEFINE Up(i) == {k \in p : k <= i}
            c == Cardinality(p)
            rank == [i \in p |-> Cardinality(Up(i))]
<1>1. IsFiniteSet(p) /\ c \in Nat
  <2>1. IsFiniteSet(1 .. n)
    BY FS_Interval
  <2>2. IsFiniteSet(p)
    BY <2>1, FS_Subset
  <2>. QED
    BY <2>2, FS_CardinalityType
<1>2. ASSUME NEW i \in p
      PROVE  rank[i] \in 1 .. c
  <2>1. Up(i) \in SUBSET p /\ i \in Up(i)
    OBVIOUS
  <2>2. IsFiniteSet(Up(i)) /\ Cardinality(Up(i)) \in Nat /\ Cardinality(Up(i)) <= c
    BY <1>1, <2>1, FS_Subset, FS_CardinalityType
  <2>3. Cardinality(Up(i)) # 0
    BY <2>1, <2>2, FS_EmptySet
  <2>. HIDE DEF Up, c
  <2>. QED
    BY <1>1, <2>2, <2>3
<1>3. ASSUME NEW i \in p, NEW k \in p, i < k
      PROVE  rank[i] # rank[k]
  <2>1. Up(i) \in SUBSET Up(k) /\ k \in Up(k) /\ k \notin Up(i) /\ Up(k) \in SUBSET p
    <3>1. i \in Int /\ k \in Int /\ i < k /\ \A x \in p : x \in Int
      BY <1>3
    <3>2. \A x \in p : x <= i => x <= k
      BY <3>1
    <3>3. k <= k /\ ~(k <= i)
      BY <3>1
    <3>. QED
      BY <3>2, <3>3
  <2>2. IsFiniteSet(Up(k))
    BY <1>1, <2>1, FS_Subset
  <2>3. Cardinality(Up(i)) # Cardinality(Up(k))
    BY <2>1, <2>2, FS_Subset
  <2>. QED
    BY <2>3
<1>4. rank \in Injection(p, 1 .. c)
  <2>1. rank \in [p -> 1 .. c]
    BY <1>2
  <2>2. \A i, k \in p : i # k => i < k \/ k < i
    OBVIOUS
  <2>3. \A i, k \in p : rank[i] = rank[k] => i = k
    BY <1>3, <2>2
  <2>. QED
    BY <2>1, <2>3 DEF Injection, IsInjective
<1>5. rank \in Surjection(p, 1 .. c)
  <2>1. IsFiniteSet(1 .. c) /\ Cardinality(1 .. c) = c
    BY <1>1, FS_Interval
  <2>. HIDE DEF rank
  <2>. QED
    BY <1>4, <2>1, FS_Injection DEF c
<1>6. \E i \in p : Cardinality(Up(i)) = j
  BY <1>5 DEF Surjection
<1>7. \E i \in p : S!Cardinality(Up(i)) = j
  BY <1>6, StaffCardinality
<1>8. S!Nth(p, j) \in p /\ S!Cardinality(Up(S!Nth(p, j))) = j
  BY <1>7 DEF S!Nth
<1>. QED
  BY <1>8, StaffCardinality

LEMMA PickedFew ==
    ASSUME NEW n \in Nat, NEW ss, Listed(ss, n), NEW p \in SUBSET DOMAIN ss
    PROVE  Listed(S!Picked(ss, p), n) /\ (Apart(ss) => Apart(S!Picked(ss, p)))
<1>. DEFINE c == Cardinality(p)
            new == S!Picked(ss, p)
<1>1. DOMAIN ss = 1 .. Len(ss) /\ Len(ss) \in Nat /\ \A i \in DOMAIN ss : ss[i] \in SessionStates /\ ss[i].id <= n
  BY DEF Listed
<1>2. IsFiniteSet(p) /\ c \in Nat
  <2>1. IsFiniteSet(1 .. Len(ss))
    BY <1>1, FS_Interval
  <2>2. IsFiniteSet(p)
    BY <1>1, <2>1, FS_Subset
  <2>. QED
    BY <2>2, FS_CardinalityType
<1>3. new = [j \in 1 .. c |-> ss[S!Nth(p, j)]]
  BY StaffCardinality DEF S!Picked
<1>4. \A j \in 1 .. c : S!Nth(p, j) \in p /\ Cardinality({k \in p : k <= S!Nth(p, j)}) = j
  BY <1>1, NthPosition
<1>. HIDE DEF new, c
<1>5. \A j \in 1 .. c : new[j] = ss[S!Nth(p, j)] /\ new[j] \in SessionStates /\ new[j].id <= n
  BY <1>1, <1>3, <1>4
<1>6. DOMAIN new = 1 .. c /\ new \in Seq(SessionStates)
  <2>1. new \in [1 .. c -> SessionStates]
    BY <1>3, <1>5
  <2>. QED
    BY <1>2, <2>1
<1>7. Listed(new, n)
  BY <1>5, <1>6 DEF Listed
<1>8. ASSUME Apart(ss)
      PROVE  Apart(new)
  <2>. SUFFICES ASSUME NEW i \in 1 .. c, NEW j \in 1 .. c, new[i].id = new[j].id
                PROVE  i = j
    BY <1>6 DEF Apart
  <2>1. S!Nth(p, i) = S!Nth(p, j)
    BY <1>4, <1>5, <1>8 DEF Apart
  <2>. QED
    BY <1>4, <2>1
<1>. QED
  BY <1>7, <1>8 DEF new

\* $set of a position leaves sessions, whatever was there.
LEMMA PlacedListed ==
    ASSUME NEW n \in Nat, NEW ss, Listed(ss, n), NEW i \in Nat \ {0}, NEW s \in SessionStates
    PROVE  Listed(S!Placed(ss, i, s), n)
<1>1. DOMAIN ss = 1 .. Len(ss) /\ Len(ss) \in Nat /\ \A j \in DOMAIN ss : ss[j] \in SessionStates /\ ss[j].id <= n
  BY DEF Listed
<1>2. s.tok \in Nat
  BY SessionRecord
<1>3. CASE i <= Len(ss)
  <2>. DEFINE x == [ss[i] EXCEPT !.tok = s.tok]
  <2>1. S!Placed(ss, i, s) = [ss EXCEPT ![i] = x]
    BY <1>3 DEF S!Placed
  <2>2. i \in DOMAIN ss
    BY <1>1, <1>3
  <2>3. x \in SessionStates /\ x.id <= n
    BY <1>1, <1>2, <2>2 DEF SessionStates
  <2>. HIDE DEF x
  <2>4. [ss EXCEPT ![i] = x] \in Seq(SessionStates)
    BY <2>2, <2>3 DEF Listed
  <2>. QED
    BY <1>1, <2>1, <2>2, <2>3, <2>4 DEF Listed
<1>4. CASE ~(i <= Len(ss))
  <2>. DEFINE x(j) == IF j <= Len(ss) THEN ss[j] ELSE IF j < i THEN S!Gap ELSE S!Session(0, s.tok)
              new == [j \in 1 .. i |-> x(j)]
  <2>1. S!Placed(ss, i, s) = new
    BY <1>4 DEF S!Placed
  <2>2. S!Session(0, s.tok) \in SessionStates /\ S!Session(0, s.tok).id = 0 /\ S!Gap \in SessionStates /\ S!Gap.id = 0
    BY <1>2, SessionRecord
  <2>3. \A j \in 1 .. i : j <= Len(ss) => j \in DOMAIN ss
    BY <1>1
  <2>4. \A j \in 1 .. i : x(j) \in SessionStates /\ x(j).id <= n
    BY <1>1, <2>2, <2>3
  <2>. HIDE DEF x
  <2>5. new \in Seq(SessionStates) /\ DOMAIN new = 1 .. i
    BY <2>4
  <2>. QED
    BY <2>1, <2>4, <2>5 DEF Listed
<1>. QED
  BY <1>3, <1>4

\* Where ids differ, a rotation in its place is that of the one with the id.
LEMMA RotatedInPlace ==
    ASSUME NEW n \in Nat, NEW ss, Listed(ss, n), Apart(ss), S!Whole(ss), NEW i \in DOMAIN ss, NEW t \in Nat
    PROVE  LET new == S!Session(ss[i].id, t)
           IN  /\ S!Placed(ss, i, new) = [j \in DOMAIN ss |-> IF ss[j].id = new.id THEN new ELSE ss[j]]
               /\ S!Whole(S!Placed(ss, i, new)) /\ Apart(S!Placed(ss, i, new))
<1>. DEFINE new == S!Session(ss[i].id, t)
            all == [j \in DOMAIN ss |-> IF ss[j].id = new.id THEN new ELSE ss[j]]
<1>1. DOMAIN ss = 1 .. Len(ss) /\ Len(ss) \in Nat /\ ss[i] \in SessionStates
  BY DEF Listed
<1>2. new.id = ss[i].id /\ new.tok = t
  BY <1>1, SessionRecord
<1>3. [ss[i] EXCEPT !.tok = new.tok] = new
  BY <1>1, <1>2 DEF SessionStates, S!Session
<1>4. S!Placed(ss, i, new) = [ss EXCEPT ![i] = new]
  <2>1. i <= Len(ss)
    BY <1>1
  <2>2. S!Placed(ss, i, new) = [ss EXCEPT ![i].tok = new.tok]
    BY <2>1 DEF S!Placed
  <2>3. [ss EXCEPT ![i].tok = new.tok] = [ss EXCEPT ![i] = [ss[i] EXCEPT !.tok = new.tok]]
    OBVIOUS
  <2>. HIDE DEF new
  <2>. QED
    BY <1>3, <2>2, <2>3
<1>. HIDE DEF new
<1>5. ss = [j \in DOMAIN ss |-> ss[j]]
  BY DEF Listed
<1>6. [ss EXCEPT ![i] = new] = [j \in DOMAIN ss |-> IF j = i THEN new ELSE ss[j]]
  BY <1>5
<1>7. \A j \in DOMAIN ss : (ss[j].id = new.id) <=> j = i
  BY <1>2 DEF Apart
<1>8. S!Placed(ss, i, new) = all
  BY <1>4, <1>6, <1>7
<1>9. DOMAIN all = DOMAIN ss /\ \A j \in DOMAIN ss : all[j].id = ss[j].id
  BY <1>2, <1>7
<1>. HIDE DEF all
<1>10. S!Whole(all) /\ Apart(all)
  BY <1>9 DEF S!Whole, Apart
<1>. USE DEF all, new
<1>. QED
  BY <1>8, <1>10

-----------------------------------------------------------------------------
\* What the other handlers work on stays sound.
LEMMA OthersStaySound ==
    ASSUME \A g \in Handlers : SoundJob(g), NEW h \in Handlers, JobsKept(h),
           lastId \in Nat, lastId' \in Nat, lastId <= lastId',
           \A u \in Staff : accounts[u].state # "absent" => accounts'[u].state # "absent",
           SoundJob(h)'
    PROVE  \A g \in Handlers : SoundJob(g)'
<1>. SUFFICES ASSUME NEW g \in Handlers, g # h
              PROVE  SoundJob(g)'
  OBVIOUS
<1>1. job'[g] = job[g] /\ SoundJob(g)
  BY DEF JobsKept
<1>2. Listed(job[g].copy.sessions, lastId) => Listed(job[g].copy.sessions, lastId')
  BY ListedLonger
<1>. QED
  BY <1>1, <1>2 DEF SoundJob

\* An account with other sessions, or other rights, and the rest as they are.
LEMMA OneAccountStaysSound ==
    ASSUME \A u \in Staff : SoundAccount(u), accounts = [u \in Staff |-> accounts[u]],
           opened = [u \in Staff |-> opened[u]], lastId \in Nat, lastId' \in Nat, lastId <= lastId',
           NEW v \in Staff, NEW b, NEW e, stale \subseteq stale',
           accounts' = [accounts EXCEPT ![v] = b], opened' = [opened EXCEPT ![v] = e],
           b.role \in S!Roles, b.access \in Accesses \cup {None},
           b.state \in {"absent", "live", "deleted", "purged"}, b.state = "absent" => b.sessions = <<>>,
           Listed(b.sessions, lastId'),
           v \notin stale' => e = b.sessions /\ S!Whole(b.sessions) /\ Apart(b.sessions)
    PROVE  (\A u \in Staff : SoundAccount(u)') /\ opened' = [u \in Staff |-> opened'[u]]
<1>1. \A u \in Staff : /\ accounts'[u] = IF u = v THEN b ELSE accounts[u]
                       /\ opened'[u] = IF u = v THEN e ELSE opened[u]
  OBVIOUS
<1>2. opened' = [u \in Staff |-> opened'[u]]
  OBVIOUS
<1>3. ASSUME NEW u \in Staff, u # v
      PROVE  SoundAccount(u)'
  <2>1. accounts'[u] = accounts[u] /\ opened'[u] = opened[u] /\ SoundAccount(u)
    BY <1>1, <1>3
  <2>2. Listed(accounts[u].sessions, lastId')
    BY <2>1, ListedLonger DEF SoundAccount
  <2>. QED
    BY <2>1, <2>2 DEF SoundAccount
<1>4. SoundAccount(v)'
  BY <1>1 DEF SoundAccount
<1>. QED
  BY <1>2, <1>3, <1>4

LEMMA AccountsRestSound ==
    ASSUME \A u \in Staff : SoundAccount(u), UNCHANGED <<accounts, opened>>, stale \subseteq stale',
           lastId \in Nat, lastId' \in Nat, lastId <= lastId'
    PROVE  \A u \in Staff : SoundAccount(u)'
<1>. SUFFICES ASSUME NEW u \in Staff
              PROVE  SoundAccount(u)'
  OBVIOUS
<1>1. SoundAccount(u) /\ accounts' = accounts /\ opened' = opened
  OBVIOUS
<1>2. Listed(accounts[u].sessions, lastId')
  BY <1>1, ListedLonger DEF SoundAccount
<1>. QED
  BY <1>1, <1>2 DEF SoundAccount

\* A handler's step leaves the staff sound.
LEMMA HandlerKeepsSessions ==
    ASSUME SessionsInv, NEW h \in Handlers, JobsKept(h), SoundJob(h)',
           lastId' \in {lastId, lastId + 1}, UNCHANGED <<requests, ops>>, assigned' \subseteq assigned,
           \A u \in Staff : SoundAccount(u)', opened' = [u \in Staff |-> opened'[u]],
           \A u \in Staff : accounts[u].state # "absent" => accounts'[u].state # "absent"
    PROVE  SessionsInv'
<1>1. lastId \in Nat /\ lastId' \in Nat /\ lastId <= lastId'
  BY DEF SessionsInv
<1>2. \A g \in Handlers : SoundJob(g)'
  BY <1>1, OthersStaySound DEF SessionsInv
<1>. QED
  BY <1>1, <1>2 DEF SessionsInv

LEMMA NoJobSound ==
    ASSUME NEW h \in Handlers, job'[h] = S!NoJob
    PROVE  SoundJob(h)'
BY NoJobFits DEF SoundJob

LEMMA ThrowsKeepsSessions ==
    ASSUME AccountsInv, SessionsInv, NEW h \in Handlers, S!Throws(h)
    PROVE  SessionsInv'
<1>1. S!Done(h) /\ UNCHANGED <<accounts, assigned, lastId, requests, ops, opened, stale>>
  BY DEF S!Throws, S!storeVars, S!historyVars
<1>2. JobsKept(h) /\ SoundJob(h)'
  BY <1>1, DoneKeepsJobs, NoJobSound
<1>3. \A u \in Staff : SoundAccount(u)'
  BY <1>1, AccountsRestSound DEF SessionsInv
<1>. QED
  BY <1>1, <1>2, <1>3, HandlerKeepsSessions DEF SessionsInv

\* A save of sessions, of a copy and by a rule that fit.
SaveFits(h, w, e, s) ==
    LET u == job[h].target
        saved == S!Saved(accounts[u].sessions, w)
    IN  /\ Listed(saved, lastId')
        /\ u \notin stale /\ ~s => e = saved /\ S!Whole(saved) /\ Apart(saved)

\* The account as a save leaves it, or as it was.
LEMMA WriteKeepsSessions ==
    ASSUME AccountsInv, SessionsInv, NEW h \in Handlers, NEW w, NEW e, NEW s, NEW b, S!Done(h),
           job[h].at \notin {"idle", "create"}, SaveFits(h, w, e, s),
           lastId' \in {lastId, lastId + 1}, UNCHANGED <<requests, ops, assigned>>,
           \/ UNCHANGED <<accounts, opened, stale>>
           \/ /\ accounts' = [accounts EXCEPT ![job[h].target] = b] /\ opened' = [opened EXCEPT ![job[h].target] = e]
              /\ stale' = IF s THEN stale \cup {job[h].target} ELSE stale,
           b.role \in S!Roles, b.access \in Accesses \cup {None}, b.state = accounts[job[h].target].state,
           b.sessions = S!Saved(accounts[job[h].target].sessions, w)
    PROVE  SessionsInv'
<1>. DEFINE v == job[h].target
<1>1. v \in Staff /\ accounts[v].state # "absent" /\ SoundAccount(v)
  BY DEF SessionsInv, SoundJob
<1>3. /\ lastId \in Nat /\ lastId' \in Nat /\ lastId <= lastId' /\ JobsKept(h) /\ SoundJob(h)'
  BY DoneKeepsJobs, NoJobSound DEF SessionsInv
<1>5. Listed(b.sessions, lastId') /\ (v \notin stale /\ ~s => e = b.sessions /\ S!Whole(b.sessions) /\ Apart(b.sessions))
  BY DEF SaveFits
<1>6. CASE UNCHANGED <<accounts, opened, stale>>
  <2>1. \A u \in Staff : SoundAccount(u)'
    BY <1>3, <1>6, AccountsRestSound DEF SessionsInv
  <2>. QED
    BY <1>3, <1>6, <2>1, HandlerKeepsSessions DEF SessionsInv
<1>7. CASE /\ accounts' = [accounts EXCEPT ![v] = b] /\ opened' = [opened EXCEPT ![v] = e]
           /\ stale' = IF s THEN stale \cup {v} ELSE stale
  <2>1. b.state \in {"absent", "live", "deleted", "purged"} /\ b.state # "absent"
    BY <1>1 DEF SoundAccount
  <2>2. stale \subseteq stale' /\ (v \notin stale' => v \notin stale /\ ~s)
    BY <1>7
  <2>3. (\A u \in Staff : SoundAccount(u)') /\ opened' = [u \in Staff |-> opened'[u]]
    <3>. HIDE DEF v
    <3>. QED
      BY <1>1, <1>3, <1>5, <1>7, <2>1, <2>2, OneAccountStaysSound DEF SessionsInv, AccountsInv
  <2>4. \A u \in Staff : accounts[u].state # "absent" => accounts'[u].state # "absent"
    <3>1. \A u \in Staff : accounts'[u] = IF u = v THEN b ELSE accounts[u]
      BY <1>7, OneAccount DEF AccountsInv
    <3>. QED
      BY <2>1, <3>1
  <2>. QED
    BY <1>3, <2>3, <2>4, HandlerKeepsSessions
<1>. QED
  BY <1>6, <1>7

LEMMA SaveKeepsSessions ==
    ASSUME AccountsInv, SessionsInv, NEW h \in Handlers, NEW w, NEW e, NEW s, S!SaveSessions(h, w, e, s, S!Same),
           job[h].at \notin {"idle", "create"}, SaveFits(h, w, e, s), S!Done(h), S!SessionsOnly,
           lastId' \in {lastId, lastId + 1}
    PROVE  SessionsInv'
<1>. DEFINE v == job[h].target
            now == accounts[v].sessions
            b == [accounts[v] EXCEPT !.sessions = S!Saved(now, w)]
<1>1. v \in Staff /\ SoundAccount(v) /\ Shaped(accounts[v])
  BY DEF SessionsInv, SoundJob, AccountsInv
<1>2. /\ b.role = accounts[v].role /\ b.access = accounts[v].access /\ b.state = accounts[v].state
      /\ b.sessions = S!Saved(now, w)
  BY <1>1, WithSessions
<1>3. UNCHANGED <<requests, ops, assigned>>
  BY DEF S!SaveSessions, S!SessionsOnly
<1>4. \/ UNCHANGED <<accounts, opened, stale>>
      \/ /\ accounts' = [accounts EXCEPT ![v] = b] /\ opened' = [opened EXCEPT ![v] = e]
         /\ stale' = IF s THEN stale \cup {v} ELSE stale
  <2>. DEFINE refused == w.kind = "at" /\ w.i <= Len(now) /\ now[w.i] = S!Gap
  <2>1. CASE refused
    BY <2>1 DEF S!SaveSessions
  <2>2. CASE ~refused
    <3>1. accounts' = [accounts EXCEPT ![v] = b]
      BY <2>2 DEF S!SaveSessions, S!Same
    <3>2. opened' = [opened EXCEPT ![v] = e]
      BY <2>2 DEF S!SaveSessions
    <3>3. stale' = IF s THEN stale \cup {v} ELSE stale
      BY <2>2 DEF S!SaveSessions
    <3>. QED
      BY <3>1, <3>2, <3>3
  <2>. QED
    BY <2>1, <2>2
<1>5. b.role \in S!Roles /\ b.access \in Accesses \cup {None}
  BY <1>1, <1>2 DEF SoundAccount
<1>. HIDE DEF b
<1>. QED
  BY <1>2, <1>3, <1>4, <1>5, WriteKeepsSessions

LEMMA LoginKeepsSessions ==
    ASSUME AccountsInv, SessionsInv, NEW h \in Handlers, S!login(h)
    PROVE  SessionsInv'
<1>. DEFINE u == job[h].target
            new == S!Session(lastId + 1, 1)
            kept == S!Unexpired(S!Sessions(h))
            filtered == kept # S!Sessions(h)
            w == IF filtered THEN S!SetAll(Append(kept, new)) ELSE S!Push(new)
            e == Append(IF filtered THEN S!Unexpired(opened[u]) ELSE opened[u], new)
            s == filtered /\ S!Outdated(h)
            now == accounts[u].sessions
<1>1. CASE S!Throws(h)
  BY <1>1, ThrowsKeepsSessions
<1>2. CASE /\ S!Whole(kept) /\ lastId' = lastId + 1 /\ S!SaveSessions(h, w, e, s, S!Same)
           /\ S!Done(h) /\ S!SessionsOnly
  <2>1. job[h].at = "login" /\ SoundJob(h) /\ lastId \in Nat
    BY DEF S!login, SessionsInv
  <2>2. /\ u \in Staff /\ Listed(S!Sessions(h), lastId) /\ Listed(now, lastId)
        /\ u \notin stale => opened[u] = now /\ S!Whole(now) /\ Apart(now)
    BY <2>1 DEF SessionsInv, SoundJob, SoundAccount, S!Sessions
  <2>3. Listed(kept, lastId) /\ (Apart(S!Sessions(h)) => Apart(kept))
    BY <2>1, <2>2, PickedFew DEF S!Unexpired
  <2>4. SaveFits(h, w, e, s)
    <3>1. CASE filtered
      <4>1. S!Saved(now, w) = Append(kept, new)
        BY <3>1 DEF S!Saved, S!SetAll
      <4>2. u \notin stale /\ ~s => S!Sessions(h) = now /\ e = Append(kept, new) /\ Apart(kept)
        BY <2>2, <2>3, <3>1 DEF S!Outdated
      <4>3. Listed(Append(kept, new), lastId') /\ S!Whole(Append(kept, new)) /\ (Apart(kept) => Apart(Append(kept, new)))
        BY <1>2, <2>1, <2>3, OneMore
      <4>. HIDE DEF kept, new, w, e, s, now
      <4>. QED
        BY <4>1, <4>2, <4>3 DEF SaveFits, now
    <3>2. CASE ~filtered
      <4>1. S!Saved(now, w) = Append(now, new)
        BY <3>2 DEF S!Saved, S!Push
      <4>2. u \notin stale => e = Append(now, new) /\ S!Whole(now) /\ Apart(now)
        BY <2>2, <3>2
      <4>3. Listed(Append(now, new), lastId') /\ (S!Whole(now) => S!Whole(Append(now, new)))
            /\ (Apart(now) => Apart(Append(now, new)))
        BY <1>2, <2>1, <2>2, OneMore
      <4>. HIDE DEF kept, new, w, e, s, now
      <4>. QED
        BY <4>1, <4>2, <4>3 DEF SaveFits, now
    <3>. QED
      BY <3>1, <3>2
  <2>. HIDE DEF w, e, s
  <2>. QED
    BY <1>2, <2>1, <2>4, SaveKeepsSessions
<1>. QED
  BY <1>1, <1>2 DEF S!login

LEMMA RefreshKeepsSessions ==
    ASSUME AccountsInv, SessionsInv, NEW h \in Handlers, S!refresh(h)
    PROVE  SessionsInv'
<1>. DEFINE u == job[h].target
            i == job[h].i
            new == S!Session(S!Mine(h).id, S!Mine(h).tok + 1)
            w == S!SetAt(i, new)
            e == [j \in DOMAIN opened[u] |-> IF opened[u][j].id = new.id THEN new ELSE opened[u][j]]
            s == S!MovedOn(h)
            now == accounts[u].sessions
<1>1. /\ S!SaveSessions(h, w, e, s, S!Same) /\ S!Done(h) /\ S!SessionsOnly /\ lastId' = lastId
      /\ job[h].at = "refresh"
  BY DEF S!refresh
<1>2. SoundJob(h) /\ lastId \in Nat
  BY DEF SessionsInv
<1>3. /\ u \in Staff /\ Listed(S!Sessions(h), lastId) /\ Listed(now, lastId) /\ i \in DOMAIN S!Sessions(h)
      /\ u \notin stale => opened[u] = now /\ S!Whole(now) /\ Apart(now)
  BY <1>1, <1>2 DEF SessionsInv, SoundJob, SoundAccount, S!Sessions
<1>4. i \in Nat \ {0} /\ S!Mine(h) \in SessionStates
  BY <1>3 DEF Listed, S!Mine
<1>5. new \in SessionStates /\ S!Mine(h).tok + 1 \in Nat
  BY <1>4, SessionRecord
<1>6. S!Saved(now, w) = S!Placed(now, i, new)
  BY DEF S!Saved, S!SetAt
<1>7. Listed(S!Placed(now, i, new), lastId')
  <2>. HIDE DEF new, now, i
  <2>. QED
    BY <1>1, <1>2, <1>3, <1>4, <1>5, PlacedListed
<1>8. ASSUME u \notin stale, ~s
      PROVE  e = S!Placed(now, i, new) /\ S!Whole(S!Placed(now, i, new)) /\ Apart(S!Placed(now, i, new))
  <2>1. i <= Len(now) /\ now[i].id = S!Mine(h).id
    <3>1. ~(i > Len(now)) /\ now[i].id = S!Mine(h).id
      BY <1>8 DEF S!MovedOn
    <3>2. Len(now) \in Nat
      BY <1>3 DEF Listed
    <3>. HIDE DEF now, i
    <3>. QED
      BY <1>4, <3>1, <3>2
  <2>2. i \in DOMAIN now
    BY <1>3, <1>4, <2>1 DEF Listed
  <2>3. new = S!Session(now[i].id, S!Mine(h).tok + 1)
    BY <2>1
  <2>4. e = [j \in DOMAIN now |-> IF now[j].id = new.id THEN new ELSE now[j]]
    BY <1>3, <1>8
  <2>. HIDE DEF new, now, i, e
  <2>. QED
    BY <1>2, <1>3, <1>5, <1>8, <2>2, <2>3, <2>4, RotatedInPlace
<1>9. SaveFits(h, w, e, s)
  <2>. HIDE DEF new, i, e, s, w
  <2>. QED
    BY <1>6, <1>7, <1>8 DEF SaveFits
<1>. HIDE DEF w, e, s
<1>. QED
  BY <1>1, <1>9, SaveKeepsSessions

LEMMA DropKeepsSessions ==
    ASSUME AccountsInv, SessionsInv, NEW h \in Handlers, S!DropSession(h),
           job[h].at \in {"refresh", "logout", "lapsed"}
    PROVE  SessionsInv'
<1>. DEFINE u == job[h].target
            kept == S!Without(S!Sessions(h), S!Mine(h).id)
            w == S!SetAll(kept)
            e == S!Without(opened[u], S!Mine(h).id)
            s == S!Outdated(h)
            now == accounts[u].sessions
<1>1. CASE S!Throws(h)
  BY <1>1, ThrowsKeepsSessions
<1>2. CASE /\ S!Whole(kept) /\ S!SaveSessions(h, w, e, s, S!Same)
           /\ S!Done(h) /\ lastId' = lastId /\ S!SessionsOnly
  <2>1. SoundJob(h) /\ lastId \in Nat
    BY DEF SessionsInv
  <2>2. /\ u \in Staff /\ Listed(S!Sessions(h), lastId)
        /\ u \notin stale => opened[u] = now /\ Apart(now)
    BY <2>1 DEF SessionsInv, SoundJob, SoundAccount, S!Sessions
  <2>3. Listed(kept, lastId) /\ (Apart(S!Sessions(h)) => Apart(kept))
    BY <2>1, <2>2, PickedFew DEF S!Without
  <2>4. S!Saved(now, w) = kept
    BY DEF S!Saved, S!SetAll
  <2>5. u \notin stale /\ ~s => S!Sessions(h) = now /\ e = kept
    BY <2>2 DEF S!Outdated
  <2>6. SaveFits(h, w, e, s)
    <3>. HIDE DEF kept, w, e, s
    <3>. QED
      BY <1>2, <2>2, <2>3, <2>4, <2>5 DEF SaveFits
  <2>. HIDE DEF w, e, s
  <2>. QED
    BY <1>2, <2>6, SaveKeepsSessions
<1>. QED
  BY <1>1, <1>2 DEF S!DropSession

\* Ending all sessions of the copy.
LEMMA ClearedFits ==
    ASSUME SessionsInv, NEW h \in Handlers, job[h].at \notin {"idle", "create"}, lastId' = lastId,
           NEW s, S!Sessions(h) = <<>> /\ S!Outdated(h) => s
    PROVE  SaveFits(h, S!Cleared(job[h].copy), <<>>, s)
<1>. DEFINE u == job[h].target
            now == accounts[u].sessions
            w == S!Cleared(job[h].copy)
<1>1. u \in Staff /\ Listed(now, lastId) /\ lastId \in Nat
  BY DEF SessionsInv, SoundJob, SoundAccount
<1>2. CASE S!Sessions(h) = <<>>
  <2>1. S!Saved(now, w) = now
    BY <1>2 DEF S!Saved, S!Cleared, S!NoWrite, S!Sessions
  <2>2. ~s => now = <<>>
    BY <1>2 DEF S!Outdated
  <2>. HIDE DEF now, w
  <2>. QED
    BY <1>1, <2>1, <2>2, NoSessions DEF SaveFits, now, w
<1>3. CASE S!Sessions(h) # <<>>
  <2>1. S!Saved(now, w) = <<>>
    BY <1>3 DEF S!Saved, S!Cleared, S!SetAll, S!Sessions
  <2>. HIDE DEF now, w
  <2>. QED
    BY <1>1, <2>1, NoSessions DEF SaveFits, now, w
<1>. QED
  BY <1>2, <1>3

LEMMA ClearKeepsSessions ==
    ASSUME AccountsInv, SessionsInv, NEW h \in Handlers, S!ClearSensitiveUserState(h)
    PROVE  SessionsInv'
<1>. DEFINE v == job[h].target
            now == accounts[v].sessions
            w == S!Cleared(job[h].copy)
            s == S!Sessions(h) = <<>> /\ S!Outdated(h)
            a == [accounts[v] EXCEPT !.reset = FALSE]
            b == [a EXCEPT !.sessions = S!Saved(now, w)]
<1>1. /\ S!Done(h) /\ lastId' = lastId /\ UNCHANGED <<requests, ops, assigned>>
      /\ job[h].at \in {"reset", "change"}
  BY DEF S!ClearSensitiveUserState, S!SaveSessions, S!SessionsOnly
<1>2. v \in Staff /\ SoundAccount(v) /\ Shaped(accounts[v])
  BY <1>1 DEF SessionsInv, SoundJob, AccountsInv
<1>3. \/ UNCHANGED <<accounts, opened, stale>>
      \/ /\ accounts' = [accounts EXCEPT ![v] = b] /\ opened' = [opened EXCEPT ![v] = <<>>]
         /\ stale' = IF s THEN stale \cup {v} ELSE stale
  BY DEF S!ClearSensitiveUserState, S!SaveSessions
<1>4. Shaped(a) /\ a.role = accounts[v].role /\ a.access = accounts[v].access /\ a.state = accounts[v].state
  BY <1>2, WithReset
<1>. HIDE DEF a
<1>5. b.role = a.role /\ b.access = a.access /\ b.state = a.state /\ b.sessions = S!Saved(now, w)
  BY <1>4, WithSessions
<1>6. SaveFits(h, w, <<>>, s)
  BY <1>1, ClearedFits
<1>7. b.role \in S!Roles /\ b.access \in Accesses \cup {None} /\ b.state = accounts[v].state
  BY <1>2, <1>4, <1>5 DEF SoundAccount
<1>8. job[h].at \notin {"idle", "create"}
  BY <1>1
<1>. HIDE DEF b, w, s
<1>. QED
  BY <1>1, <1>3, <1>5, <1>6, <1>7, <1>8, WriteKeepsSessions

\* An account whose sessions stay as they are.
LEMMA SameSessionsSound ==
    ASSUME AccountsInv, SessionsInv, NEW v, NEW b, accounts' = [accounts EXCEPT ![v] = b],
           UNCHANGED <<opened, stale, lastId>>,
           v \in Staff => /\ b.role \in S!Roles /\ b.access \in Accesses \cup {None}
                          /\ b.state \in {"live", "deleted", "purged"} /\ b.sessions = accounts[v].sessions
    PROVE  /\ \A u \in Staff : SoundAccount(u)'
           /\ \A u \in Staff : accounts[u].state # "absent" => accounts'[u].state # "absent"
<1>1. \A u \in Staff : accounts'[u] = IF u = v THEN b ELSE accounts[u]
  BY OneAccount DEF AccountsInv
<1>2. ASSUME NEW u \in Staff
      PROVE  SoundAccount(u)'
  <2>1. SoundAccount(u)
    BY DEF SessionsInv
  <2>2. accounts'[u] = accounts[u] \/ (u = v /\ accounts'[u] = b)
    BY <1>1
  <2>. QED
    BY <2>1, <2>2 DEF SoundAccount
<1>. QED
  BY <1>1, <1>2

\* A new token to reset, a new account, another state: sessions stay.
LEMMA StatesKeepSessions ==
    ASSUME AccountsInv, SessionsInv, NEW h \in Handlers,
           \/ S!forgotPassword(h) \/ S!SoftDelete(h) \/ S!RestoreUser(h) \/ S!RemoveUser(h)
           \/ \E role \in S!Roles, access \in Accesses : S!CreateUser(h, role, access)
    PROVE  SessionsInv'
<1>. DEFINE v == job[h].target
<1>1. /\ S!Done(h) /\ UNCHANGED <<assigned, lastId, requests, ops, opened, stale>> /\ job[h].at # "idle"
  BY DEF S!forgotPassword, S!SoftDelete, S!RestoreUser, S!RemoveUser, S!CreateUser, S!historyVars
<1>2. v \in Staff /\ SoundAccount(v) /\ Shaped(accounts[v]) /\ (job[h].at # "create" => accounts[v].state # "absent")
  BY <1>1 DEF SessionsInv, SoundJob, AccountsInv
<1>3. JobsKept(h) /\ SoundJob(h)'
  BY <1>1, DoneKeepsJobs, NoJobSound
<1>4. ASSUME NEW b, accounts' = [accounts EXCEPT ![v] = b],
             b.role \in S!Roles, b.access \in Accesses \cup {None},
             b.state \in {"live", "deleted", "purged"}, b.sessions = accounts[v].sessions
      PROVE  SessionsInv'
  <2>1. /\ \A u \in Staff : SoundAccount(u)'
        /\ \A u \in Staff : accounts[u].state # "absent" => accounts'[u].state # "absent"
    <3>. HIDE DEF v
    <3>. QED
      BY <1>1, <1>4, SameSessionsSound
  <2>. QED
    BY <1>1, <1>3, <2>1, HandlerKeepsSessions DEF SessionsInv
<1>5. CASE S!forgotPassword(h)
  <2>. DEFINE b == [accounts[v] EXCEPT !.reset = TRUE]
  <2>1. accounts' = [accounts EXCEPT ![v] = b] /\ job[h].at = "forgot"
    BY <1>5 DEF S!forgotPassword
  <2>2. b.role = accounts[v].role /\ b.access = accounts[v].access /\ b.state = accounts[v].state
        /\ b.sessions = accounts[v].sessions
    BY <1>2, WithReset
  <2>. HIDE DEF b
  <2>. QED
    BY <1>2, <1>4, <2>1, <2>2 DEF SoundAccount
<1>6. CASE S!SoftDelete(h) \/ S!RestoreUser(h) \/ S!RemoveUser(h)
  <2>1. PICK x \in {"live", "deleted", "purged"} : accounts' = [accounts EXCEPT ![v].state = x]
    BY <1>6 DEF S!SoftDelete, S!RestoreUser, S!RemoveUser
  <2>. DEFINE b == [accounts[v] EXCEPT !.state = x]
  <2>2. accounts' = [accounts EXCEPT ![v] = b]
    BY <2>1
  <2>3. b.role = accounts[v].role /\ b.access = accounts[v].access /\ b.state = x
        /\ b.sessions = accounts[v].sessions
    BY <1>2, WithState
  <2>. HIDE DEF b
  <2>. QED
    BY <1>2, <1>4, <2>2, <2>3 DEF SoundAccount
<1>7. ASSUME NEW role \in S!Roles, NEW access \in Accesses, S!CreateUser(h, role, access)
      PROVE  SessionsInv'
  <2>1. CASE accounts[v].state = "absent"
    <3>. DEFINE b == S!Account(role, access, <<>>)
    <3>1. accounts' = [accounts EXCEPT ![v] = b]
      BY <1>7, <2>1 DEF S!CreateUser
    <3>2. b.role = role /\ b.access = access /\ b.state = "live" /\ b.sessions = <<>>
      BY DEF S!Account
    <3>3. accounts[v].sessions = <<>>
      BY <1>2, <2>1 DEF SoundAccount
    <3>. HIDE DEF b
    <3>. QED
      BY <1>4, <3>1, <3>2, <3>3
  <2>2. CASE accounts[v].state # "absent"
    <3>1. accounts' = [accounts EXCEPT ![v] = accounts[v]]
      BY <1>7, <2>2 DEF S!CreateUser, AccountsInv
    <3>. QED
      BY <1>2, <1>4, <2>2, <3>1 DEF SoundAccount
  <2>. QED
    BY <2>1, <2>2
<1>. QED
  BY <1>5, <1>6, <1>7

LEMMA TouchKeepsSessions ==
    ASSUME AccountsInv, SessionsInv, NEW h \in Handlers, S!TouchSession(h)
    PROVE  SessionsInv'
<1>. DEFINE u == job[h].target
            i == job[h].i
            now == accounts[u].sessions
            next == IF job[h].op \in S!AdminOps THEN "target" ELSE job[h].op
<1>1. CASE S!Throws(h)
  BY <1>1, ThrowsKeepsSessions
<1>2. CASE ~S!Throws(h)
  <2>1. /\ job[h].at = "touch" /\ S!Goto(h, next)
        /\ UNCHANGED <<assigned, lastId, requests, ops, opened>>
        /\ \/ accounts' = accounts /\ stale' = stale
           \/ accounts' = [accounts EXCEPT ![u].sessions = S!Placed(now, i, S!Gap)] /\ stale' = stale \cup {u}
    BY <1>2 DEF S!TouchSession
  <2>2. /\ SoundJob(h) /\ u \in Staff /\ SoundAccount(u) /\ Shaped(accounts[u]) /\ lastId \in Nat
        /\ accounts[u].state # "absent" /\ i \in Nat \ {0} /\ job[h].op \in S!OwnOps \cup S!AdminOps
    BY <2>1 DEF SessionsInv, SoundJob, AccountsInv
  <2>3. /\ JobsKept(h) /\ job'[h].at = next /\ job'[h].op = job[h].op /\ job'[h].target = u
        /\ job'[h].copy = job[h].copy
    BY <2>1, GotoKeepsJobs
  <2>4. (next = "target" /\ job[h].op \in S!AdminOps) \/ next \in S!OwnOps
    BY <2>2
  <2>5. /\ (\A x \in Staff : SoundAccount(x)') /\ opened' = [x \in Staff |-> opened'[x]]
        /\ \A x \in Staff : accounts[x].state # "absent" => accounts'[x].state # "absent"
    <3>1. CASE accounts' = accounts /\ stale' = stale
      BY <2>1, <3>1, AccountsRestSound DEF SessionsInv
    <3>2. CASE accounts' = [accounts EXCEPT ![u].sessions = S!Placed(now, i, S!Gap)] /\ stale' = stale \cup {u}
      <4>. DEFINE b == [accounts[u] EXCEPT !.sessions = S!Placed(now, i, S!Gap)]
      <4>1. accounts' = [accounts EXCEPT ![u] = b]
        BY <3>2
      <4>2. b.role = accounts[u].role /\ b.access = accounts[u].access /\ b.state = accounts[u].state
            /\ b.sessions = S!Placed(now, i, S!Gap)
        BY <2>2, WithSessions
      <4>3. Listed(S!Placed(now, i, S!Gap), lastId)
        BY <2>2, PlacedListed, SessionRecord DEF SoundAccount
      <4>4. opened' = [opened EXCEPT ![u] = opened[u]] /\ u \in stale' /\ stale \subseteq stale'
        BY <2>1, <3>2 DEF SessionsInv
      <4>5. /\ b.role \in S!Roles /\ b.access \in Accesses \cup {None}
            /\ b.state \in {"absent", "live", "deleted", "purged"} /\ b.state # "absent" /\ Listed(b.sessions, lastId')
        BY <2>1, <2>2, <4>2, <4>3 DEF SoundAccount
      <4>. HIDE DEF b, now, i
      <4>6. (\A x \in Staff : SoundAccount(x)') /\ opened' = [x \in Staff |-> opened'[x]]
        <5>. HIDE DEF u
        <5>. QED
          BY <2>1, <2>2, <4>1, <4>4, <4>5, OneAccountStaysSound DEF SessionsInv, AccountsInv
      <4>7. \A x \in Staff : accounts'[x] = IF x = u THEN b ELSE accounts[x]
        BY <4>1, OneAccount DEF AccountsInv
      <4>. QED
        BY <4>5, <4>6, <4>7
    <3>. QED
      BY <2>1, <3>1, <3>2
  <2>6. SoundJob(h)'
    <3>1. accounts'[u].state # "absent"
      BY <2>2, <2>5
    <3>2. next \notin {"idle", "create", "refresh", "logout", "lapsed", "touch", "saveUpdate"}
      BY <2>4 DEF S!OwnOps
    <3>3. next = "target" => job[h].op \in S!AdminOps
      BY <2>4 DEF S!OwnOps
    <3>4. Listed(job[h].copy.sessions, lastId')
      BY <2>1, <2>2 DEF SoundJob
    <3>. HIDE DEF next, u
    <3>. QED
      BY <2>2, <2>3, <3>1, <3>2, <3>3, <3>4 DEF SoundJob
  <2>. QED
    BY <2>1, <2>3, <2>5, <2>6, HandlerKeepsSessions
<1>. QED
  BY <1>1, <1>2

LEMMA SessionStepsKeepSessions ==
    ASSUME AccountsInv, SessionsInv, NEW h \in Handlers, SessionSteps(h)
    PROVE  SessionsInv'
<1>1. CASE S!login(h) \/ S!refresh(h)
  BY <1>1, LoginKeepsSessions, RefreshKeepsSessions
<1>2. CASE S!RefuseRefresh(h) \/ S!RefuseAccess(h) \/ S!logout(h)
  BY <1>2, DropKeepsSessions DEF S!RefuseRefresh, S!RefuseAccess, S!logout
<1>3. CASE S!TripOverNull(h) \/ S!updateOwnProfile(h) \/ S!Refuse(h)
  BY <1>3, ThrowsKeepsSessions DEF S!TripOverNull, S!updateOwnProfile, S!Refuse
<1>4. CASE S!forgotPassword(h)
  BY <1>4, StatesKeepSessions
<1>5. CASE S!ClearSensitiveUserState(h) \/ S!TouchSession(h)
  BY <1>5, ClearKeepsSessions, TouchKeepsSessions
<1>. QED
  BY <1>1, <1>2, <1>3, <1>4, <1>5 DEF SessionSteps

LEMMA UpdateKeepsSessions ==
    ASSUME AccountsInv, SessionsInv, NEW h \in Handlers, S!SaveUpdate(h)
    PROVE  SessionsInv'
<1>. DEFINE v == job[h].target
            copy == job[h].copy
            now == accounts[v]
            role == S!Asked(job[h].role, copy.role)
            access == S!Asked(job[h].access, copy.access)
            forceLogout == job[h].access # None \/ role # copy.role
            permissions == IF forceLogout THEN S!ComputePermissions(access, role) ELSE copy.permissions
            newRole == IF role # copy.role THEN role ELSE now.role
            newAccess == IF access # copy.access THEN access ELSE now.access
            newPermissions == IF permissions # copy.permissions THEN permissions ELSE now.permissions
            w == IF forceLogout THEN S!Cleared(copy) ELSE S!NoWrite
            e == IF forceLogout THEN <<>> ELSE opened[v]
            s == forceLogout /\ S!Sessions(h) = <<>> /\ S!Outdated(h)
            b == WithRights(now, newRole, newAccess, newPermissions, S!Saved(now.sessions, w))
<1>1. /\ S!Done(h) /\ lastId' = lastId /\ UNCHANGED <<requests, ops, assigned>> /\ job[h].at = "saveUpdate"
  BY DEF S!SaveUpdate, S!SaveFields, S!SaveSessions
<1>2. /\ SoundJob(h) /\ v \in Staff /\ SoundAccount(v) /\ Shaped(now)
      /\ job[h].role \in S!Roles \cup {None} /\ job[h].access \in Accesses \cup {None}
  BY <1>1 DEF SessionsInv, SoundJob, AccountsInv
<1>3. \/ UNCHANGED <<accounts, opened, stale>>
      \/ /\ accounts' = [accounts EXCEPT ![v] = b] /\ opened' = [opened EXCEPT ![v] = e]
         /\ stale' = IF s THEN stale \cup {v} ELSE stale
  <2>1. w.kind # "at"
    BY DEF S!Cleared, S!SetAll, S!NoWrite
  <2>2. accounts' = [accounts EXCEPT ![v] =
            [[now EXCEPT !.role = newRole, !.access = newAccess, !.permissions = newPermissions]
                EXCEPT !.sessions = S!Saved(now.sessions, w)]]
    BY <2>1 DEF S!SaveUpdate, S!SaveFields, S!SaveSessions
  <2>3. accounts' = [accounts EXCEPT ![v] = b]
    BY <2>2 DEF WithRights
  <2>4. opened' = [opened EXCEPT ![v] = e]
    BY <2>1 DEF S!SaveUpdate, S!SaveFields, S!SaveSessions
  <2>5. stale' = IF s THEN stale \cup {v} ELSE stale
    BY <2>1 DEF S!SaveUpdate, S!SaveFields, S!SaveSessions
  <2>. QED
    BY <2>3, <2>4, <2>5
<1>4. b.role = newRole /\ b.access = newAccess /\ b.state = now.state /\ b.sessions = S!Saved(now.sessions, w)
  <2>1. Shaped(now)
    BY <1>2
  <2>. HIDE DEF newRole, newAccess, newPermissions, now, w
  <2>. QED
    BY <2>1, ShapeWithRights
<1>5. newRole \in S!Roles /\ newAccess \in Accesses \cup {None}
  BY <1>2 DEF S!Asked, SoundAccount
<1>6. SaveFits(h, w, e, s)
  <2>1. CASE forceLogout
    <3>1. w = S!Cleared(copy) /\ e = <<>> /\ (S!Sessions(h) = <<>> /\ S!Outdated(h) => s)
      BY <2>1
    <3>2. job[h].at \notin {"idle", "create"}
      BY <1>1
    <3>. HIDE DEF w, e, s
    <3>. QED
      BY <1>1, <3>1, <3>2, ClearedFits
  <2>2. CASE ~forceLogout
    <3>1. S!Saved(now.sessions, w) = now.sessions /\ e = opened[v]
      BY <2>2 DEF S!Saved, S!NoWrite
    <3>. HIDE DEF w, e, s
    <3>. QED
      BY <1>1, <1>2, <3>1 DEF SaveFits, SoundAccount
  <2>. QED
    BY <2>1, <2>2
<1>7. job[h].at \notin {"idle", "create"}
  BY <1>1
<1>. HIDE DEF b, w, e, s, newRole, newAccess
<1>. QED
  BY <1>1, <1>3, <1>4, <1>5, <1>6, <1>7, WriteKeepsSessions

LEMMA BeginKeepsSessions ==
    ASSUME AccountsInv, SessionsInv, NEW h \in Handlers, NEW op \in S!Operations, NEW u \in Staff,
           \/ S!BeginOpen(h, op, u)
           \/ \E i \in DOMAIN accounts[u].sessions : S!BeginSession(h, op, u, i) \/ S!Authenticate(h, op, u, i)
    PROVE  SessionsInv'
<1>1. /\ UNCHANGED <<accounts, assigned, opened, stale, lastId, ops>>
      /\ requests < MaxRequests /\ requests' = requests + 1 /\ S!Live(u)
  BY DEF S!BeginOpen, S!BeginSession, S!Authenticate, S!Request, S!storeVars, S!historyVars
<1>2. PICK step, n :
        /\ job' = [job EXCEPT ![h] = StartedJob(op, step, u, n)]
        /\ \/ step \in {"login", "forgot", "reset"}
           \/ n \in DOMAIN accounts[u].sessions /\ step \in {"refresh", "logout", "lapsed"}
           \/ /\ n \in DOMAIN accounts[u].sessions /\ op \in S!OwnOps \cup S!AdminOps
              /\ step \in {"touch", IF op \in S!AdminOps THEN "target" ELSE op}
  <2>1. CASE S!BeginOpen(h, op, u)
    <3>1. op \in {"login", "forgot", "reset"} /\ job' = [job EXCEPT ![h] = StartedJob(op, op, u, 0)]
      BY <2>1 DEF S!BeginOpen, S!Request, StartedJob
    <3>. QED
      BY <3>1
  <2>2. ASSUME NEW i \in DOMAIN accounts[u].sessions, S!BeginSession(h, op, u, i)
        PROVE  op \in {"refresh", "logout"} /\ job' = [job EXCEPT ![h] = StartedJob(op, op, u, i)]
    BY <2>2 DEF S!BeginSession, S!Request, StartedJob
  <2>3. ASSUME NEW i \in DOMAIN accounts[u].sessions, S!Authenticate(h, op, u, i)
        PROVE  /\ op \in S!OwnOps \cup S!AdminOps
               /\ \E step \in {"lapsed", "touch", IF op \in S!AdminOps THEN "target" ELSE op} :
                    job' = [job EXCEPT ![h] = StartedJob(op, step, u, i)]
    BY <2>3 DEF S!Authenticate, StartedJob
  <2>. QED
    BY <2>1, <2>2, <2>3
<1>. DEFINE j == StartedJob(op, step, u, n)
<1>3. ShapedJob(j) /\ j.at = step /\ j.op = op /\ j.target = u /\ j.i = n /\ j.copy = accounts[u]
  BY StartedJobHas
<1>4. job' = [job EXCEPT ![h] = j]
  BY <1>2
<1>. HIDE DEF j
<1>5. JobsKept(h) /\ job'[h] = j
  BY <1>3, <1>4, OneJob DEF AccountsInv, JobsKept
<1>6. SoundJob(h)'
  <2>1. SoundAccount(u) /\ accounts[u].state # "absent"
    BY <1>1 DEF SessionsInv, S!Live
  <2>2. Listed(j.copy.sessions, lastId') /\ accounts'[u].state # "absent"
    BY <1>1, <1>3, <2>1 DEF SoundAccount
  <2>3. \A k \in DOMAIN accounts[u].sessions : k \in Nat \ {0}
    BY <2>1 DEF SoundAccount, Listed
  <2>4. step \in S!OwnOps => step \in {"me", "change"}
    BY DEF S!OwnOps
  <2>. QED
    BY <1>2, <1>3, <1>5, <2>2, <2>3, <2>4 DEF SoundJob
<1>7. lastId \in Nat /\ lastId' = lastId
  BY <1>1 DEF SessionsInv
<1>8. \A g \in Handlers : SoundJob(g)'
  BY <1>1, <1>5, <1>6, <1>7, OthersStaySound DEF SessionsInv
<1>9. \A x \in Staff : SoundAccount(x)'
  BY <1>1, <1>7, AccountsRestSound DEF SessionsInv
<1>10. requests' \in 0 .. MaxRequests
  BY <1>1, StaffAssumption DEF SessionsInv
<1>. QED
  BY <1>1, <1>7, <1>8, <1>9, <1>10 DEF SessionsInv

LEMMA GuardsKeepSessions ==
    ASSUME AccountsInv, SessionsInv, NEW h \in Handlers,
           \/ \E u \in Staff : S!FindTarget(h, u)
           \/ \E role \in S!Roles \cup {None}, access \in Accesses \cup {None} : S!UpdateUser(h, role, access)
           \/ \E force \in BOOLEAN : S!CountOwners(h, force)
           \/ S!CheckEvents(h) \/ S!PurgeUser(h)
    PROVE  SessionsInv'
<1>1. /\ UNCHANGED <<accounts, opened, stale, lastId, requests, ops>> /\ assigned' \subseteq assigned
      /\ job[h].at # "idle" /\ job[h].at # "create"
  BY DEF S!FindTarget, S!UpdateUser, S!CountOwners, S!CheckEvents, S!PurgeUser, S!ReadOnly, S!storeVars, S!historyVars
<1>2. SoundJob(h) /\ ShapedJob(job[h]) /\ lastId \in Nat
  BY DEF SessionsInv, AccountsInv
<1>3. ASSUME NEW u \in Staff, S!FindTarget(h, u)
      PROVE  JobsKept(h) /\ SoundJob(h)'
  <2>. DEFINE k1 == [job[h] EXCEPT !.at = job[h].op]
              k2 == [k1 EXCEPT !.target = u]
              k == [k2 EXCEPT !.copy = accounts[u]]
  <2>1. /\ job' = [job EXCEPT ![h] = k] /\ job[h].op \in S!AdminOps
        /\ job[h].op # "create" => accounts[u].state # "absent"
    <3>1. job[h].op \in S!AdminOps
      BY <1>2, <1>3 DEF S!FindTarget, SoundJob
    <3>2. job[h].op # "create" => accounts[u].state \in {"deleted", "live"}
      BY <1>3 DEF S!FindTarget, S!Live
    <3>. QED
      BY <1>3, <3>1, <3>2 DEF S!FindTarget
  <2>2. ShapedJob(k) /\ k.at = job[h].op /\ k.op = job[h].op /\ k.target = u /\ k.copy = accounts[u]
    <3>1. ShapedJob(k1) /\ k1.at = job[h].op /\ k1.op = job[h].op
      BY <1>2, JobWithAt
    <3>. HIDE DEF k1
    <3>2. ShapedJob(k2) /\ k2.at = job[h].op /\ k2.op = job[h].op /\ k2.target = u
      BY <3>1, JobWithTarget
    <3>. HIDE DEF k2
    <3>. QED
      BY <3>2, JobWithCopy
  <2>. HIDE DEF k
  <2>3. JobsKept(h) /\ job'[h] = k
    BY <2>1, <2>2, OneJob DEF AccountsInv, JobsKept
  <2>4. Listed(k.copy.sessions, lastId')
    BY <1>1, <2>2 DEF SessionsInv, SoundAccount
  <2>5. k.at \notin {"refresh", "logout", "lapsed", "touch", "target", "saveUpdate"}
    BY <2>1, <2>2 DEF S!AdminOps
  <2>. QED
    BY <1>1, <2>1, <2>2, <2>3, <2>4, <2>5 DEF SoundJob
<1>4. ASSUME NEW role \in S!Roles \cup {None}, NEW access \in Accesses \cup {None}, S!UpdateUser(h, role, access)
      PROVE  JobsKept(h) /\ SoundJob(h)'
  <2>. DEFINE k1 == [job[h] EXCEPT !.at = "saveUpdate"]
              k2 == [k1 EXCEPT !.role = role]
              k == [k2 EXCEPT !.access = access]
  <2>1. job' = [job EXCEPT ![h] = k]
    BY <1>4 DEF S!UpdateUser
  <2>2. /\ ShapedJob(k) /\ k.at = "saveUpdate" /\ k.target = job[h].target /\ k.copy = job[h].copy
        /\ k.role = role /\ k.access = access
    <3>1. ShapedJob(k1) /\ k1.at = "saveUpdate" /\ k1.target = job[h].target /\ k1.copy = job[h].copy
      BY <1>2, JobWithAt
    <3>. HIDE DEF k1
    <3>2. ShapedJob(k2) /\ k2.at = "saveUpdate" /\ k2.target = job[h].target /\ k2.copy = job[h].copy /\ k2.role = role
      BY <3>1, JobWithRole
    <3>. HIDE DEF k2
    <3>. QED
      BY <3>2, JobWithAccess
  <2>. HIDE DEF k
  <2>3. JobsKept(h) /\ job'[h] = k
    BY <2>1, <2>2, OneJob DEF AccountsInv, JobsKept
  <2>. QED
    BY <1>1, <1>2, <2>2, <2>3 DEF SoundJob
<1>5. ASSUME NEW step \in {"events", "softDelete", "remove"}, JobsKept(h), job'[h].at = step,
             job'[h].target = job[h].target, job'[h].copy = job[h].copy
      PROVE  SoundJob(h)'
  BY <1>1, <1>2, <1>5 DEF SoundJob
<1>6. ASSUME NEW force \in BOOLEAN, S!CountOwners(h, force)
      PROVE  JobsKept(h) /\ SoundJob(h)'
  <2>. DEFINE k1 == [job[h] EXCEPT !.at = "events"]
              k == [k1 EXCEPT !.force = force]
  <2>1. job' = [job EXCEPT ![h] = k]
    BY <1>6 DEF S!CountOwners
  <2>2. ShapedJob(k) /\ k.at = "events" /\ k.target = job[h].target /\ k.copy = job[h].copy
    <3>1. ShapedJob(k1) /\ k1.at = "events" /\ k1.target = job[h].target /\ k1.copy = job[h].copy
      BY <1>2, JobWithAt
    <3>. HIDE DEF k1
    <3>. QED
      BY <3>1, JobWithForce
  <2>. HIDE DEF k
  <2>3. JobsKept(h) /\ job'[h] = k
    BY <2>1, <2>2, OneJob DEF AccountsInv, JobsKept
  <2>. QED
    BY <1>5, <2>2, <2>3
<1>7. ASSUME S!CheckEvents(h) \/ S!PurgeUser(h)
      PROVE  JobsKept(h) /\ SoundJob(h)'
  <2>1. S!Goto(h, "softDelete") \/ S!Goto(h, "remove")
    BY <1>7 DEF S!CheckEvents, S!PurgeUser
  <2>. QED
    BY <1>5, <2>1, GotoKeepsJobs
<1>8. JobsKept(h) /\ SoundJob(h)'
  BY <1>3, <1>4, <1>6, <1>7
<1>9. \A x \in Staff : SoundAccount(x)'
  BY <1>1, <1>2, AccountsRestSound DEF SessionsInv
<1>. QED
  BY <1>1, <1>8, <1>9, HandlerKeepsSessions DEF SessionsInv

-----------------------------------------------------------------------------
LEMMA SessionsFirst ==
    Init /\ part = "staff" => SessionsInv
<1>. SUFFICES ASSUME Init, part = "staff" PROVE SessionsInv
  OBVIOUS
<1>1. PICK start \in Starts :
        /\ accounts = start.accounts /\ assigned = start.assigned /\ ops = start.ops
        /\ opened = [u \in Staff |-> start.accounts[u].sessions]
  BY DEF Init, S!Init
<1>2. job = [h \in Handlers |-> S!NoJob] /\ stale = {} /\ lastId = 4 /\ requests = 0
  BY DEF Init, S!Init
<1>3. accounts \in [Staff -> [role : S!Roles, access : Accesses \cup {None},
                              permissions : (Accesses \cup {None}) \X S!Roles,
                              sessions : Seq([id : 1 .. 4, tok : Nat]), reset : BOOLEAN,
                              state : {"absent", "live", "deleted", "purged"}]]
  BY <1>1, StaffAssumption
<1>4. /\ \A u \in Staff : /\ Apart(accounts[u].sessions)
                          /\ accounts[u].state = "absent" => accounts[u].sessions = <<>>
      /\ assigned \subseteq Staff /\ ops \subseteq S!Operations /\ MaxRequests \in Nat
  BY <1>1, StaffAssumption DEF Apart
<1>5. ASSUME NEW u \in Staff
      PROVE  SoundAccount(u)
  <2>. DEFINE ss == accounts[u].sessions
  <2>1. ss \in Seq([id : 1 .. 4, tok : Nat])
    BY <1>3
  <2>. HIDE DEF ss
  <2>2. \A i \in DOMAIN ss : ss[i] \in [id : 1 .. 4, tok : Nat]
    <3>1. \A t : ss \in Seq(t) => \A i \in DOMAIN ss : ss[i] \in t
      OBVIOUS
    <3>. QED
      BY <2>1, <3>1, Zenon
  <2>3. [id : 1 .. 4, tok : Nat] \subseteq SessionStates
    BY DEF SessionStates
  <2>4. ss \in Seq(SessionStates)
    BY <2>1, <2>3, SeqMonotonic
  <2>5. Listed(ss, 4) /\ S!Whole(ss)
    BY <2>2, <2>4 DEF Listed, S!Whole
  <2>. QED
    BY <1>1, <1>2, <1>3, <1>4, <2>5 DEF SoundAccount, ss
<1>6. \A h \in Handlers : SoundJob(h)
  BY <1>2, NoJobFits DEF SoundJob
<1>. QED
  BY <1>1, <1>2, <1>4, <1>5, <1>6 DEF SessionsInv

LEMMA SessionsRest ==
    ASSUME SessionsInv, UNCHANGED <<accounts, assigned, job, lastId, requests, ops, opened, stale>>
    PROVE  SessionsInv'
BY DEF SessionsInv, SoundAccount, SoundJob, Listed, Apart, S!Whole

LEMMA SessionsNext ==
    ASSUME AccountsInv, SessionsInv, S!Next
    PROVE  SessionsInv'
<1>1. ASSUME NEW h \in Handlers, S!Step(h)
      PROVE  SessionsInv'
  <2>1. CASE SessionSteps(h)
    BY <2>1, SessionStepsKeepSessions
  <2>2. CASE \/ \E u \in Staff : S!FindTarget(h, u)
             \/ \E role \in S!Roles \cup {None}, access \in Accesses \cup {None} : S!UpdateUser(h, role, access)
             \/ \E force \in BOOLEAN : S!CountOwners(h, force)
             \/ S!CheckEvents(h) \/ S!PurgeUser(h)
    BY <2>2, GuardsKeepSessions
  <2>3. CASE \/ S!SoftDelete(h) \/ S!RestoreUser(h) \/ S!RemoveUser(h)
             \/ \E role \in S!Roles, access \in Accesses : S!CreateUser(h, role, access)
    BY <2>3, StatesKeepSessions
  <2>4. CASE S!SaveUpdate(h)
    BY <2>4, UpdateKeepsSessions
  <2>. QED
    BY <1>1, <2>1, <2>2, <2>3, <2>4 DEF S!Step, SessionSteps
<1>2. ASSUME NEW h \in Handlers, NEW op \in S!Operations, NEW u \in Staff,
             \/ S!BeginOpen(h, op, u)
             \/ \E i \in DOMAIN accounts[u].sessions : S!BeginSession(h, op, u, i) \/ S!Authenticate(h, op, u, i)
      PROVE  SessionsInv'
  BY <1>2, BeginKeepsSessions
<1>3. ASSUME NEW u \in Staff, NEW i \in DOMAIN accounts[u].sessions, S!Expire(u, i)
      PROVE  SessionsInv'
  <2>1. UNCHANGED <<accounts, assigned, job, lastId, requests, ops, opened, stale>>
    BY <1>3 DEF S!Expire, S!storeVars, S!historyVars
  <2>. QED
    BY <2>1, SessionsRest
<1>. QED
  BY <1>1, <1>2, <1>3 DEF S!Next

\* Only an update of an account writes isActive, of the account it is for.
LEMMA ActiveNext ==
    ASSUME SessionsInv, disabled \subseteq Staff, S!Next
    PROVE  disabled' \subseteq Staff
<1>1. ASSUME NEW h \in Handlers, S!SaveUpdate(h)
      PROVE  disabled' \subseteq Staff
  <2>1. job[h].at = "saveUpdate" /\ SoundJob(h)
    BY <1>1 DEF S!SaveUpdate, SessionsInv
  <2>2. disabled' \in {disabled, disabled \cup {job[h].target}, disabled \ {job[h].target}}
    BY <1>1 DEF S!SaveUpdate, S!SaveFields
  <2>. QED
    BY <2>1, <2>2 DEF SoundJob
<1>2. ASSUME NEW h \in Handlers, S!Step(h), ~S!SaveUpdate(h)
      PROVE  disabled' = disabled
  <2>. USE DEF S!Throws, S!ReadOnly, S!SessionsOnly, S!storeVars, S!DropSession
  <2>1. CASE S!login(h) \/ S!refresh(h)
    BY <2>1 DEF S!login, S!refresh
  <2>2. CASE S!RefuseRefresh(h) \/ S!RefuseAccess(h) \/ S!logout(h) \/ S!TripOverNull(h) \/ S!Refuse(h)
    BY <2>2 DEF S!RefuseRefresh, S!RefuseAccess, S!logout, S!TripOverNull, S!Refuse
  <2>3. CASE S!forgotPassword(h) \/ S!ClearSensitiveUserState(h) \/ S!updateOwnProfile(h)
    BY <2>3 DEF S!forgotPassword, S!ClearSensitiveUserState, S!updateOwnProfile
  <2>4. CASE S!TouchSession(h)
    BY <2>4 DEF S!TouchSession
  <2>5. CASE \/ \E u \in Staff : S!FindTarget(h, u)
             \/ \E role \in S!Roles, access \in Accesses : S!CreateUser(h, role, access)
             \/ \E role \in S!Roles \cup {None}, access \in Accesses \cup {None} : S!UpdateUser(h, role, access)
             \/ \E force \in BOOLEAN : S!CountOwners(h, force)
    BY <2>5 DEF S!FindTarget, S!CreateUser, S!UpdateUser, S!CountOwners
  <2>6. CASE S!CheckEvents(h) \/ S!SoftDelete(h) \/ S!RestoreUser(h) \/ S!PurgeUser(h) \/ S!RemoveUser(h)
    BY <2>6 DEF S!CheckEvents, S!SoftDelete, S!RestoreUser, S!PurgeUser, S!RemoveUser
  <2>. HIDE DEF S!Throws, S!ReadOnly, S!SessionsOnly, S!storeVars, S!DropSession
  <2>. QED
    BY <1>2, <2>1, <2>2, <2>3, <2>4, <2>5, <2>6 DEF S!Step
<1>3. ASSUME NEW h \in Handlers, NEW op \in S!Operations, NEW u \in Staff,
             \/ S!BeginOpen(h, op, u)
             \/ \E i \in DOMAIN accounts[u].sessions : S!BeginSession(h, op, u, i) \/ S!Authenticate(h, op, u, i)
      PROVE  disabled' = disabled
  BY <1>3 DEF S!BeginOpen, S!BeginSession, S!Authenticate, S!Request, S!storeVars
<1>4. ASSUME NEW u \in Staff, NEW i \in DOMAIN accounts[u].sessions, S!Expire(u, i)
      PROVE  disabled' = disabled
  BY <1>4 DEF S!Expire, S!storeVars
<1>. QED
  BY <1>1, <1>2, <1>3, <1>4 DEF S!Next

LEMMA SessionsMean ==
    ASSUME SessionsInv, disabled \subseteq Staff
    PROVE  S!SessionsAreExplained
<1>1. ASSUME NEW u \in Staff, NEW i \in DOMAIN accounts[u].sessions
      PROVE  accounts[u].sessions[i].id \in 0 .. lastId
  <2>1. Listed(accounts[u].sessions, lastId) /\ lastId \in Nat
    BY DEF SessionsInv, SoundAccount
  <2>. HIDE DEF Listed
  <2>2. accounts[u].sessions[i].id \in Nat /\ accounts[u].sessions[i].id <= lastId
    BY <2>1, SessionRecord DEF Listed
  <2>. QED
    BY <2>1, <2>2
<1>2. S!TypeOK
  BY <1>1 DEF SessionsInv, SoundAccount, S!TypeOK
<1>. QED
  BY <1>2 DEF SessionsInv, SoundAccount, S!SessionsAreExplained

\* The sessions of an account are those that were opened and not ended, each
\* whole and with its last token, but for accounts written from a copy out of
\* date: for any staff, any number of requests, any sessions of the starts
\* (StaffAccounts).
THEOREM SessionsStayExplained == Spec => []SessionsAreExplained
<1>. DEFINE Kept == part = "staff" => RolesInv /\ SessionsInv /\ disabled \subseteq Staff
<1>1. Init => Kept
  BY RolesFirst, SessionsFirst DEF Init, S!Init
<1>2. Kept /\ [Next]_<<part, staffVars, customerVars, cacheVars, gateVars, seedVars>> => Kept'
  <2>. SUFFICES ASSUME Kept, [Next]_<<part, staffVars, customerVars, cacheVars, gateVars, seedVars>>
                PROVE  Kept'
    OBVIOUS
  <2>1. CASE part = "staff" /\ S!Next /\ part' = part
    <3>1. RolesInv /\ SessionsInv /\ AccountsInv /\ disabled \subseteq Staff
      BY <2>1 DEF RolesInv
    <3>. QED
      BY <2>1, <3>1, RolesNext, SessionsNext, ActiveNext
  <2>2. CASE part' = part /\ UNCHANGED staffVars
    BY <2>2, RolesRest, SessionsRest DEF staffVars
  <2>3. CASE part # "staff" /\ part' = part
    BY <2>3
  <2>. QED
    BY <2>1, <2>2, <2>3 DEF Next
<1>3. Kept => SessionsAreExplained
  BY SessionsMean DEF SessionsAreExplained
<1>. QED
  BY <1>1, <1>2, <1>3, PTL DEF Spec

-----------------------------------------------------------------------------
(* The sign-ins of customers.  A request that cleared the sessions of its   *)
(* customer finds none when it makes its own, unless another is between     *)
(* the two calls as well; whoever set a password is still to clear them.    *)
(* A token that signed in is answered, or about to be, and neither state is *)
(* one a verification begins from.  A code that was used is neither in the  *)
(* cache nor with a request that read it.                                   *)

\* The steps of a request: which, what it is, and what follows.
Routes == {
    <<"login", 1, "find", "clear">>, <<"login", 2, "clear", "open">>, <<"login", 3, "open", "idle">>,
    <<"logout", 1, "drop", "idle">>,
    <<"zaloMiniAppLogin", 1, "zalo", "clear">>, <<"zaloMiniAppLogin", 2, "clear", "open">>,
    <<"zaloMiniAppLogin", 3, "open", "idle">>,
    <<"register", 1, "register", "find">>, <<"register", 2, "find", "send">>, <<"register", 3, "send", "idle">>,
    <<"sendOtp", 1, "find", "send">>, <<"sendOtp", 2, "send", "idle">>,
    <<"verifyOtp", 1, "code", "find">>, <<"verifyOtp", 2, "find", "activate">>,
    <<"verifyOtp", 3, "activate", "clear">>, <<"verifyOtp", 4, "clear", "open">>, <<"verifyOtp", 5, "open", "idle">>,
    <<"googleLogin", 1, "google", "clear">>, <<"googleLogin", 2, "clear", "open">>,
    <<"googleLogin", 3, "open", "save">>, <<"googleLogin", 4, "save", "idle">>,
    <<"changePassword", 1, "own", "password">>, <<"changePassword", 2, "password", "clear">>,
    <<"changePassword", 3, "clear", "idle">>,
    <<"deleteAccount", 1, "own", "deactivate">>, <<"deleteAccount", 2, "deactivate", "clear">>,
    <<"deleteAccount", 3, "clear", "idle">>,
    <<"forgotPassword", 1, "find", "send">>, <<"forgotPassword", 2, "send", "idle">>,
    <<"forgotPasswordVerifyOtp", 1, "code", "token">>, <<"forgotPasswordVerifyOtp", 2, "token", "idle">>,
    <<"resetPassword", 1, "code", "find">>, <<"resetPassword", 2, "find", "password">>,
    <<"resetPassword", 3, "password", "clear">>, <<"resetPassword", 4, "clear", "idle">>,
    <<"scanQr", 1, "seen", "scan">>, <<"scanQr", 2, "scan", "idle">>,
    <<"getQrStatus", 1, "seen", "take">>, <<"getQrStatus", 2, "take", "idle">>,
    <<"verifyQr", 1, "seen", "zalo">>, <<"verifyQr", 2, "zalo", "clear">>, <<"verifyQr", 3, "clear", "open">>,
    <<"verifyQr", 4, "open", "qr">>, <<"verifyQr", 5, "qr", "idle">> }

\* A call is of a step of the program.
Within(name) ==
    IF name = "zalo" THEN {"zalo", "phone", "link", "insert", "checked"}
    ELSE IF name = "code" THEN {"code", "right", "wrong"} ELSE {name}
WithCustomer == {"own", "link", "checked", "clear", "open", "save", "activate", "deactivate", "password"}
ByCode == {"right", "wrong"}
Statuses == {"unissued", "none", "PENDING", "SCANNED", "AUTHENTICATED", "ACCOUNT_INACTIVE"}
Calls == {"idle", "find", "clear", "open", "drop", "zalo", "phone", "link", "insert", "checked", "register", "send",
          "code", "right", "wrong", "activate", "google", "save", "own", "password", "deactivate", "token", "seen",
          "scan", "take", "qr"}
Requests == {"login", "logout", "zaloMiniAppLogin", "register", "sendOtp", "verifyOtp", "googleLogin",
             "changePassword", "deleteAccount", "forgotPassword", "forgotPasswordVerifyOtp", "resetPassword",
             "scanQr", "getQrStatus", "verifyQr"}
Jobs == [op : Requests \cup {"none"}, step : Nat, at : Calls, email : Emails \cup {None}, zalo : Zalos \cup {None},
         phone : Phones \cup {None}, token : Tokens \cup {None}, c : Nat, session : Nat, pw : Nat,
         code : [code : Nat, attempts : Nat], status : Statuses \cup {"active", "inactive", None}]
CustomerRecords == [email : Emails \cup {None}, zalo : Zalos \cup {None}, phone : Phones \cup {None},
                    pw : Nat, active : BOOLEAN, saved : BOOLEAN]
CodeKeys == C!Kinds \X Emails

StoreTypes ==
    /\ customers \in Seq(CustomerRecords) /\ lastCode \in Nat
    /\ \A c \in DOMAIN customers : customers[c].pw <= lastCode
    /\ \A s \in sessions : s.customer \in DOMAIN customers /\ s.id \in 1 .. lastCode
CodeTypes ==
    /\ codes \in [CodeKeys -> [code : Nat, attempts : 0 .. MaxAttempts]]
    /\ sent \in [CodeKeys -> Nat] /\ proved \in [CodeKeys -> [code : Nat, times : Nat]]
    /\ \A k \in CodeKeys : codes[k].code <= lastCode /\ proved[k].code <= lastCode
SignTypes ==
    /\ StoreTypes /\ CodeTypes
    /\ qr \in [Tokens -> Statuses] /\ customerJob \in [Handlers -> Jobs] /\ signedIn \in [Tokens -> Nat]

\* A request is at a call of its program and holds what the call needs.
OnRoute(j) == \E name, next \in Calls : <<j.op, j.step, name, next>> \in Routes /\ j.at \in Within(name)
Holds(j) ==
    /\ j.op \in C!ByEmail => j.email \in Emails
    /\ j.op \in C!ByToken \cup {"verifyQr"} => j.token \in Tokens
    /\ j.at = "scan" => j.status \notin {"unissued", "none", "AUTHENTICATED"}
RequestFits(h) ==
    customerJob[h].at # "idle" =>
        /\ OnRoute(customerJob[h]) /\ Holds(customerJob[h])
        /\ customerJob[h].at \in WithCustomer => customerJob[h].c \in DOMAIN customers
        /\ customerJob[h].at \in ByCode =>
               customerJob[h].code.code \in 1 .. lastCode /\ customerJob[h].code.attempts < MaxAttempts

\* A customer about to get a session has none, or one that is counted as crowded.
OneRow(c) ==
    \/ c \in crowded
    \/ /\ \A s, t \in C!RowsOf(c) : s = t
       /\ \A h \in Handlers : customerJob[h].at = "open" /\ customerJob[h].c = c => C!RowsOf(c) = {}

\* A token is verified by one request, and signs in at its end.
Past(t) == {g \in Handlers : customerJob[g].op = "verifyQr" /\ customerJob[g].token = t /\ customerJob[g].at # "seen"}
TokenFits(t) ==
    \/ t \in raced
    \/ /\ \A g, h \in Past(t) : g = h
       /\ signedIn[t] <= 1
       /\ signedIn[t] > 0 => qr[t] \in {"AUTHENTICATED", "none"} \/ \E g \in Past(t) : customerJob[g].at = "qr"
       /\ \A g \in Past(t) : customerJob[g].at # "qr" => signedIn[t] = 0

\* Neither the cache nor a request holds a code that was used.
CodeFits(k) ==
    \/ k \in raced
    \/ /\ codes[k].code \in {0, sent[k]} /\ proved[k].times <= 1
       /\ codes[k].code # 0 => codes[k].code # proved[k].code
       /\ \A h \in Handlers : customerJob[h].at \in ByCode /\ C!Key(h) = k => customerJob[h].code.code # proved[k].code

SignInv ==
    /\ SignTypes /\ (\A h \in Handlers : RequestFits(h)) /\ (\A c : OneRow(c)) /\ C!OldSessionsEnd
    /\ (\A t \in Tokens : TokenFits(t)) /\ (\A k \in CodeKeys : CodeFits(k))

-----------------------------------------------------------------------------
LEMMA RouteSteps ==
    ASSUME NEW op, NEW n, NEW name, NEW next, <<op, n, name, next>> \in Routes
    PROVE  /\ op \in Requests /\ n \in 1 .. Len(C!Program[op]) /\ name = C!Program[op][n]
           /\ name \in Calls \ {"idle"} /\ next \in Calls
           /\ IF n = Len(C!Program[op]) THEN next = "idle" ELSE next # "idle" /\ next = C!Program[op][n + 1]
<1>1. CASE op = "login"
  <2>1. C!Program[op] = C!Program.login
    BY <1>1
  <2>. QED
    BY <1>1, <2>1 DEF Routes, C!Program, Requests, Calls
<1>2. CASE op = "logout"
  <2>1. C!Program[op] = C!Program.logout
    BY <1>2
  <2>. QED
    BY <1>2, <2>1 DEF Routes, C!Program, Requests, Calls
<1>3. CASE op = "zaloMiniAppLogin"
  <2>1. C!Program[op] = C!Program.zaloMiniAppLogin
    BY <1>3
  <2>. QED
    BY <1>3, <2>1 DEF Routes, C!Program, Requests, Calls
<1>4. CASE op = "register"
  <2>1. C!Program[op] = C!Program.register
    BY <1>4
  <2>. QED
    BY <1>4, <2>1 DEF Routes, C!Program, Requests, Calls
<1>5. CASE op = "sendOtp"
  <2>1. C!Program[op] = C!Program.sendOtp
    BY <1>5
  <2>. QED
    BY <1>5, <2>1 DEF Routes, C!Program, Requests, Calls
<1>6. CASE op = "verifyOtp"
  <2>1. C!Program[op] = C!Program.verifyOtp
    BY <1>6
  <2>. QED
    BY <1>6, <2>1 DEF Routes, C!Program, Requests, Calls
<1>7. CASE op = "googleLogin"
  <2>1. C!Program[op] = C!Program.googleLogin
    BY <1>7
  <2>. QED
    BY <1>7, <2>1 DEF Routes, C!Program, Requests, Calls
<1>8. CASE op = "changePassword"
  <2>1. C!Program[op] = C!Program.changePassword
    BY <1>8
  <2>. QED
    BY <1>8, <2>1 DEF Routes, C!Program, Requests, Calls
<1>9. CASE op = "deleteAccount"
  <2>1. C!Program[op] = C!Program.deleteAccount
    BY <1>9
  <2>. QED
    BY <1>9, <2>1 DEF Routes, C!Program, Requests, Calls
<1>10. CASE op = "forgotPassword"
  <2>1. C!Program[op] = C!Program.forgotPassword
    BY <1>10
  <2>. QED
    BY <1>10, <2>1 DEF Routes, C!Program, Requests, Calls
<1>11. CASE op = "forgotPasswordVerifyOtp"
  <2>1. C!Program[op] = C!Program.forgotPasswordVerifyOtp
    BY <1>11
  <2>. QED
    BY <1>11, <2>1 DEF Routes, C!Program, Requests, Calls
<1>12. CASE op = "resetPassword"
  <2>1. C!Program[op] = C!Program.resetPassword
    BY <1>12
  <2>. QED
    BY <1>12, <2>1 DEF Routes, C!Program, Requests, Calls
<1>13. CASE op = "scanQr"
  <2>1. C!Program[op] = C!Program.scanQr
    BY <1>13
  <2>. QED
    BY <1>13, <2>1 DEF Routes, C!Program, Requests, Calls
<1>14. CASE op = "getQrStatus"
  <2>1. C!Program[op] = C!Program.getQrStatus
    BY <1>14
  <2>. QED
    BY <1>14, <2>1 DEF Routes, C!Program, Requests, Calls
<1>15. CASE op = "verifyQr"
  <2>1. C!Program[op] = C!Program.verifyQr
    BY <1>15
  <2>. QED
    BY <1>15, <2>1 DEF Routes, C!Program, Requests, Calls
<1>. QED
  BY <1>1, <1>2, <1>3, <1>4, <1>5, <1>6, <1>7, <1>8, <1>9, <1>10, <1>11, <1>12, <1>13, <1>14, <1>15 DEF Routes

LEMMA RoutesGoOn ==
    ASSUME NEW op, NEW n, NEW name, NEW next, <<op, n, name, next>> \in Routes, next # "idle"
    PROVE  \E last \in Calls : <<op, n + 1, next, last>> \in Routes
BY DEF Routes, Calls

LEMMA NoRequest == C!NoJob \in Jobs /\ C!NoJob.at = "idle" /\ C!NoJob.op = "none" /\ C!NoJob.code.code = 0
BY DEF C!NoJob, C!Job, C!NoCode, Jobs, Calls

\* On to the next call.
LEMMA JobMoves ==
    ASSUME customerJob \in [Handlers -> Jobs], NEW h \in Handlers, NEW now \in Jobs, NEW name, NEW next,
           <<now.op, now.step, name, next>> \in Routes,
           C!Then(h, now)
    PROVE  /\ customerJob' \in [Handlers -> Jobs] /\ \A g \in Handlers \ {h} : customerJob'[g] = customerJob[g]
           /\ customerJob'[h].at = next
           /\ next = "idle" => customerJob'[h] = C!NoJob
           /\ next # "idle" => /\ customerJob'[h].op = now.op /\ customerJob'[h].step = now.step + 1
                               /\ customerJob'[h].email = now.email /\ customerJob'[h].token = now.token
                               /\ customerJob'[h].c = now.c /\ customerJob'[h].status = now.status
                               /\ customerJob'[h].code = now.code
<1>. DEFINE on == [now EXCEPT !.step = @ + 1]
            new == [on EXCEPT !.at = next]
<1>1. next \in Calls /\ IF now.step = Len(C!Program[now.op]) THEN next = "idle"
                        ELSE next # "idle" /\ next = C!Program[now.op][now.step + 1]
  BY RouteSteps
<1>2. /\ on \in Jobs /\ on.op = now.op /\ on.step = now.step + 1 /\ on.email = now.email
      /\ on.token = now.token /\ on.c = now.c /\ on.status = now.status /\ on.code = now.code
  BY DEF Jobs
<1>3. C!After(now) = IF next = "idle" THEN C!NoJob ELSE new
  BY <1>1, <1>2 DEF C!After
<1>. HIDE DEF on
<1>4. new \in Jobs
  BY <1>1, <1>2 DEF Jobs
<1>5. /\ new.at = next /\ new.op = now.op /\ new.step = now.step + 1 /\ new.email = now.email
      /\ new.token = now.token /\ new.c = now.c /\ new.status = now.status /\ new.code = now.code
  BY <1>2 DEF Jobs
<1>. HIDE DEF new
<1>. QED
  BY <1>3, <1>4, <1>5, NoRequest DEF C!Then

LEMMA NextFits ==
    ASSUME customerJob \in [Handlers -> Jobs], NEW h \in Handlers, NEW now \in Jobs, NEW name, NEW next,
           <<now.op, now.step, name, next>> \in Routes,
           C!Then(h, now),
           Holds(now), next = "scan" => now.status \notin {"unissued", "none", "AUTHENTICATED"},
           next \in WithCustomer => now.c \in DOMAIN customers'
    PROVE  RequestFits(h)'
<1>1. /\ customerJob'[h].at = next
      /\ next # "idle" => /\ customerJob'[h].op = now.op /\ customerJob'[h].step = now.step + 1
                          /\ customerJob'[h].email = now.email /\ customerJob'[h].token = now.token
                          /\ customerJob'[h].c = now.c /\ customerJob'[h].status = now.status
  BY JobMoves
<1>. SUFFICES ASSUME next # "idle"
              PROVE  RequestFits(h)'
  BY <1>1 DEF RequestFits
<1>2. OnRoute(customerJob[h])'
  <2>1. PICK last \in Calls : <<now.op, now.step + 1, next, last>> \in Routes
    BY RoutesGoOn
  <2>2. next \in Calls /\ next \in Within(next)
    BY RouteSteps DEF Within
  <2>. QED
    BY <1>1, <2>1, <2>2 DEF OnRoute
<1>3. Holds(customerJob[h])'
  BY <1>1 DEF Holds
<1>4. next \notin ByCode
  BY DEF Routes, ByCode
<1>. QED
  BY <1>1, <1>2, <1>3, <1>4 DEF RequestFits

\* Nobody else's request changes, and what it needs stays.
LEMMA OthersFit ==
    ASSUME \A g \in Handlers : RequestFits(g), NEW h, \A g \in Handlers \ {h} : customerJob'[g] = customerJob[g],
           DOMAIN customers \subseteq DOMAIN customers', lastCode \in Nat, lastCode' \in Nat, lastCode <= lastCode',
           h \in Handlers => RequestFits(h)'
    PROVE  \A g \in Handlers : RequestFits(g)'
<1>. SUFFICES ASSUME NEW g \in Handlers \ {h}
              PROVE  RequestFits(g)'
  OBVIOUS
<1>1. customerJob'[g] = customerJob[g] /\ RequestFits(g)
  OBVIOUS
<1>2. \A x \in 1 .. lastCode : x \in 1 .. lastCode'
  OBVIOUS
<1>. QED
  BY <1>1, <1>2 DEF RequestFits, OnRoute, Holds

\* Sessions go, and the one who moved is not about to make one.
LEMMA RowsStay ==
    ASSUME \A c : OneRow(c), NEW h, \A g \in Handlers \ {h} : customerJob'[g] = customerJob[g],
           sessions' \subseteq sessions, crowded \subseteq crowded', h \in Handlers => customerJob'[h].at # "open"
    PROVE  \A c : OneRow(c)'
<1>. SUFFICES ASSUME NEW c
              PROVE  OneRow(c)'
  OBVIOUS
<1>1. C!RowsOf(c)' \subseteq C!RowsOf(c) /\ OneRow(c)
  BY DEF C!RowsOf
<1>. QED
  BY <1>1 DEF OneRow

\* Passwords stay, and the one who moved was not ending old sessions.
LEMMA OldStay ==
    ASSUME C!OldSessionsEnd, NEW h, \A g \in Handlers \ {h} : customerJob'[g] = customerJob[g],
           sessions' \subseteq sessions, \A s \in sessions : s.customer \in DOMAIN customers,
           \A c \in DOMAIN customers : customers'[c].pw = customers[c].pw,
           late \subseteq late', cutOff \subseteq cutOff',
           h \in Handlers /\ customerJob[h].at = "clear" /\ customerJob[h].op \in C!PasswordOps =>
               customerJob[h].c \in cutOff'
    PROVE  C!OldSessionsEnd'
<1>. SUFFICES ASSUME NEW s \in sessions'
              PROVE  (\/ s.pw = customers[s.customer].pw
                      \/ s.id \in late \/ s.customer \in cutOff
                      \/ \E g \in Handlers : /\ customerJob[g].op \in C!PasswordOps /\ customerJob[g].at = "clear"
                                             /\ customerJob[g].c = s.customer)'
  BY DEF C!OldSessionsEnd
<1>1. s \in sessions
  OBVIOUS
<1>2. \/ s.pw = customers[s.customer].pw
      \/ s.id \in late \/ s.customer \in cutOff
      \/ \E g \in Handlers : /\ customerJob[g].op \in C!PasswordOps /\ customerJob[g].at = "clear"
                             /\ customerJob[g].c = s.customer
  BY <1>1 DEF C!OldSessionsEnd
<1>. QED
  BY <1>1, <1>2 DEF C!PasswordOps

\* A status stays or expires, and the one who moved does not begin to verify.
LEMMA TokenStays ==
    ASSUME NEW t, TokenFits(t), NEW h, \A g \in Handlers \ {h} : customerJob'[g] = customerJob[g],
           signedIn'[t] = signedIn[t], raced \subseteq raced', qr'[t] \in {qr[t], "none"},
           h \in Past(t) /\ customerJob[h].at = "qr" => t \in raced',
           h \in Past(t)' => h \in Past(t) /\ customerJob'[h].at # "qr"
    PROVE  TokenFits(t)'
<1>. SUFFICES ASSUME t \notin raced'
              PROVE  TokenFits(t)'
  BY DEF TokenFits
<1>1. TokenFits(t) /\ t \notin raced
  OBVIOUS
<1>2. Past(t)' \subseteq Past(t) /\ \A g \in Past(t) \ {h} : g \in Past(t)'
  BY DEF Past
<1>3. \A g \in Past(t) : g # h => customerJob'[g] = customerJob[g]
  BY DEF Past
<1>. QED
  BY <1>1, <1>2, <1>3 DEF TokenFits

LEMMA TokensStay ==
    ASSUME \A t \in Tokens : TokenFits(t), NEW h, \A g \in Handlers \ {h} : customerJob'[g] = customerJob[g],
           UNCHANGED signedIn, raced \subseteq raced', \A t \in Tokens : qr'[t] \in {qr[t], "none"},
           \A t : h \in Past(t) /\ customerJob[h].at = "qr" => t \in raced',
           \A t : h \in Past(t)' => h \in Past(t) /\ customerJob'[h].at # "qr"
    PROVE  \A t \in Tokens : TokenFits(t)'
BY TokenStays

\* Codes stay, and the one who moved does not read one.
LEMMA CodesStay ==
    ASSUME \A k \in CodeKeys : CodeFits(k), NEW h, \A g \in Handlers \ {h} : customerJob'[g] = customerJob[g],
           UNCHANGED <<codes, sent, proved>>, raced \subseteq raced', h \in Handlers => customerJob'[h].at \notin ByCode
    PROVE  \A k \in CodeKeys : CodeFits(k)'
<1>. SUFFICES ASSUME NEW k \in CodeKeys, k \notin raced'
              PROVE  CodeFits(k)'
  BY DEF CodeFits
<1>1. CodeFits(k) /\ k \notin raced
  OBVIOUS
<1>2. \A g \in Handlers \ {h} : C!Key(g)' = C!Key(g)
  BY DEF C!Key, C!KindOf
<1>. QED
  BY <1>1, <1>2 DEF CodeFits

\* Steps that touch no session, code or token.
LEMMA QuietKeeps ==
    ASSUME SignInv, NEW h, customerJob' \in [Handlers -> Jobs],
           \A g \in Handlers \ {h} : customerJob'[g] = customerJob[g], h \in Handlers => RequestFits(h)',
           customers' \in Seq(CustomerRecords), DOMAIN customers \subseteq DOMAIN customers',
           \A c \in DOMAIN customers : customers'[c].pw = customers[c].pw,
           \A c \in DOMAIN customers' : customers'[c].pw <= lastCode',
           lastCode' \in Nat, lastCode <= lastCode',
           UNCHANGED <<codes, sent, proved, signedIn>>,
           sessions' \subseteq sessions, crowded \subseteq crowded', late \subseteq late', cutOff \subseteq cutOff', raced \subseteq raced',
           qr' \in [Tokens -> Statuses], \A t \in Tokens : qr'[t] \in {qr[t], "none"},
           h \in Handlers => customerJob'[h].at # "open" /\ customerJob'[h].at \notin ByCode,
           h \in Handlers /\ customerJob[h].at = "clear" /\ customerJob[h].op \in C!PasswordOps =>
               customerJob[h].c \in cutOff',
           \A t : h \in Past(t) /\ customerJob[h].at = "qr" => t \in raced',
           \A t : h \in Past(t)' => h \in Past(t) /\ customerJob'[h].at # "qr"
    PROVE  SignInv'
<1>1. SignTypes /\ StoreTypes /\ CodeTypes
  BY DEF SignInv, SignTypes
<1>2. StoreTypes'
  BY <1>1 DEF StoreTypes
<1>3. CodeTypes'
  BY <1>1 DEF StoreTypes, CodeTypes
<1>4. SignTypes'
  BY <1>1, <1>2, <1>3 DEF SignTypes
<1>5. \A g \in Handlers : RequestFits(g)'
  BY <1>1, OthersFit DEF SignInv, StoreTypes
<1>6. \A c : OneRow(c)'
  BY RowsStay DEF SignInv
<1>7. C!OldSessionsEnd'
  BY <1>1, OldStay DEF SignInv, StoreTypes
<1>8. \A t \in Tokens : TokenFits(t)'
  BY TokensStay DEF SignInv
<1>9. \A k \in CodeKeys : CodeFits(k)'
  BY CodesStay DEF SignInv
<1>. QED
  BY <1>4, <1>5, <1>6, <1>7, <1>8, <1>9 DEF SignInv

\* The step that a call belongs to.
Stage(at) == IF at \in Within("zalo") THEN "zalo" ELSE IF at \in Within("code") THEN "code" ELSE at

LEMMA StepAt ==
    ASSUME NEW j, OnRoute(j)
    PROVE  \E next \in Calls : <<j.op, j.step, Stage(j.at), next>> \in Routes
<1>1. PICK name \in Calls, next \in Calls : <<j.op, j.step, name, next>> \in Routes /\ j.at \in Within(name)
  BY DEF OnRoute
<1>2. name \notin {"phone", "link", "insert", "checked", "right", "wrong"}
  BY <1>1 DEF Routes
<1>3. name = Stage(j.at)
  BY <1>1, <1>2 DEF Stage, Within
<1>. QED
  BY <1>1, <1>3

LEMMA Facts ==
    ASSUME SignInv, NEW h \in Handlers
    PROVE  /\ customerJob \in [Handlers -> Jobs] /\ customerJob[h] \in Jobs
           /\ customers \in Seq(CustomerRecords) /\ lastCode \in Nat
           /\ \A c \in DOMAIN customers : customers[c].pw <= lastCode
           /\ qr \in [Tokens -> Statuses]
           /\ customerJob[h].at # "idle" =>
                /\ OnRoute(customerJob[h]) /\ Holds(customerJob[h])
                /\ customerJob[h].at \in WithCustomer => customerJob[h].c \in DOMAIN customers
BY DEF SignInv, SignTypes, StoreTypes, RequestFits

CustomersGrow ==
    /\ customers' \in Seq(CustomerRecords) /\ DOMAIN customers \subseteq DOMAIN customers'
    /\ \A c \in DOMAIN customers : customers'[c].pw = customers[c].pw
    /\ \A c \in DOMAIN customers' : customers'[c].pw <= lastCode'
    /\ lastCode' \in Nat /\ lastCode <= lastCode'
OthersRest == UNCHANGED <<codes, qr, sent, proved, signedIn, crowded, late, raced>> /\ sessions' \subseteq sessions

\* A request goes on to its next step.
LEMMA GoesOn ==
    ASSUME SignInv, NEW h \in Handlers, customerJob[h].at # "idle",
           Stage(customerJob[h].at) \notin {"seen", "qr", "clear", "open"},
           NEW now \in Jobs, Holds(now), now.op = customerJob[h].op, now.step = customerJob[h].step,
           now.token = customerJob[h].token, C!Then(h, now),
           \A next : <<now.op, now.step, Stage(customerJob[h].at), next>> \in Routes /\ next \in WithCustomer =>
               now.c \in DOMAIN customers',
           CustomersGrow, OthersRest, UNCHANGED cutOff
    PROVE  SignInv'
<1>1. PICK next \in Calls : <<now.op, now.step, Stage(customerJob[h].at), next>> \in Routes
  BY Facts, StepAt
<1>2. next \notin {"open", "qr", "scan"} /\ next \notin ByCode
  BY <1>1 DEF Routes, ByCode
<1>3. customerJob \in [Handlers -> Jobs]
  BY Facts
<1>4. /\ customerJob' \in [Handlers -> Jobs] /\ \A g \in Handlers \ {h} : customerJob'[g] = customerJob[g]
      /\ customerJob'[h].at = next
      /\ next = "idle" => customerJob'[h] = C!NoJob
      /\ next # "idle" => customerJob'[h].op = now.op /\ customerJob'[h].token = now.token
  BY <1>1, <1>3, JobMoves
<1>5. RequestFits(h)'
  BY <1>1, <1>2, <1>3, NextFits
<1>6. customerJob[h].at \notin {"clear", "qr", "seen"}
  BY DEF Stage, Within
<1>7. \A t : h \in Past(t)' => h \in Past(t)
  BY <1>4, <1>6, NoRequest DEF Past
<1>8. qr' \in [Tokens -> Statuses] /\ \A t \in Tokens : qr'[t] \in {qr[t], "none"}
  BY Facts DEF OthersRest
<1>. QED
  BY <1>2, <1>4, <1>5, <1>6, <1>7, <1>8, QuietKeeps DEF CustomersGrow, OthersRest

\* A request makes another call of its step.
LEMMA StaysWithin ==
    ASSUME SignInv, NEW h \in Handlers, customerJob[h].at \in Within("zalo"),
           NEW at \in {"phone", "link", "insert", "checked"}, NEW c \in Nat, C!Goto(h, at, c),
           at \in WithCustomer => c \in DOMAIN customers',
           CustomersGrow, OthersRest, UNCHANGED cutOff
    PROVE  SignInv'
<1>. DEFINE on == [customerJob[h] EXCEPT !.c = c]
            new == [on EXCEPT !.at = at]
<1>1. customerJob \in [Handlers -> Jobs] /\ customerJob[h] \in Jobs /\ customerJob[h].at # "idle"
  BY Facts DEF Within
<1>2. on \in Jobs /\ on.op = customerJob[h].op /\ on.step = customerJob[h].step /\ on.email = customerJob[h].email
      /\ on.token = customerJob[h].token /\ on.c = c
  BY <1>1 DEF Jobs
<1>3. customerJob' = [customerJob EXCEPT ![h] = new]
  BY DEF C!Goto
<1>. HIDE DEF on
<1>4. at \in Calls
  BY DEF Calls
<1>5. /\ new \in Jobs /\ new.at = at /\ new.op = customerJob[h].op /\ new.step = customerJob[h].step
      /\ new.email = customerJob[h].email /\ new.token = customerJob[h].token /\ new.c = c
  BY <1>2, <1>4 DEF Jobs
<1>. HIDE DEF new
<1>6. /\ customerJob' \in [Handlers -> Jobs] /\ customerJob'[h] = new
      /\ \A g \in Handlers \ {h} : customerJob'[g] = customerJob[g]
  BY <1>1, <1>3, <1>5
<1>7. RequestFits(h)'
  <2>1. PICK next \in Calls : <<new.op, new.step, "zalo", next>> \in Routes
    BY <1>1, <1>5, Facts, StepAt DEF Stage
  <2>2. at \in Within("zalo") /\ "zalo" \in Calls
    BY DEF Within, Calls
  <2>3. OnRoute(new)
    BY <1>5, <2>1, <2>2 DEF OnRoute
  <2>4. Holds(new)
    BY <1>1, <1>5, Facts DEF Holds
  <2>5. at \notin ByCode
    BY DEF ByCode
  <2>. QED
    BY <1>5, <1>6, <2>3, <2>4, <2>5 DEF RequestFits, OnRoute, Holds
<1>8. customerJob[h].at \notin {"clear", "qr", "seen"} /\ at \notin {"open", "qr"} /\ at \notin ByCode
  BY DEF Within, ByCode
<1>9. \A t : h \in Past(t)' => h \in Past(t)
  BY <1>5, <1>6, <1>8 DEF Past
<1>10. qr' \in [Tokens -> Statuses] /\ \A t \in Tokens : qr'[t] \in {qr[t], "none"}
  BY Facts DEF OthersRest
<1>. QED
  BY <1>5, <1>6, <1>7, <1>8, <1>9, <1>10, QuietKeeps DEF CustomersGrow, OthersRest

\* A request ends early, and nothing else changes.
LEMMA Ends ==
    ASSUME SignInv, NEW h \in Handlers, C!Stop(h), UNCHANGED <<customers, lastCode, codes, qr, sent, proved, signedIn>>,
           sessions' \subseteq sessions, crowded \subseteq crowded', late \subseteq late', cutOff \subseteq cutOff', raced \subseteq raced',
           customerJob[h].at = "clear" /\ customerJob[h].op \in C!PasswordOps => customerJob[h].c \in cutOff',
           customerJob[h].at = "qr" => customerJob[h].token \in raced'
    PROVE  SignInv'
<1>1. /\ customerJob' \in [Handlers -> Jobs] /\ \A g \in Handlers \ {h} : customerJob'[g] = customerJob[g]
      /\ customerJob'[h].at = "idle" /\ customerJob'[h].op = "none"
  BY Facts, NoRequest DEF C!Stop
<1>2. RequestFits(h)' /\ \A t : ~(h \in Past(t)')
  BY <1>1 DEF RequestFits, Past
<1>3. \A t : h \in Past(t) /\ customerJob[h].at = "qr" => t \in raced'
  BY DEF Past
<1>4. "idle" \notin ByCode
  BY DEF ByCode
<1>. QED
  BY <1>1, <1>2, <1>3, <1>4, Facts, QuietKeeps
\* Customers stay, are added, or have a field other than the password written.
LEMMA CustomersAre ==
    ASSUME SignInv
    PROVE  \A c \in DOMAIN customers : c \in Nat /\ customers[c] \in CustomerRecords
<1>1. customers \in Seq(CustomerRecords)
  BY Facts DEF SignInv, SignTypes, StoreTypes
<1>2. DOMAIN customers = 1 .. Len(customers) /\ Len(customers) \in Nat
  BY <1>1
<1>. QED
  BY <1>1, <1>2

LEMMA CustomersKept ==
    ASSUME SignInv, UNCHANGED <<customers, lastCode>>
    PROVE  CustomersGrow
BY Facts, NoRequest DEF CustomersGrow, SignInv, SignTypes, StoreTypes

LEMMA CustomerAdded ==
    ASSUME SignInv, NEW new \in CustomerRecords, customers' = Append(customers, new),
           lastCode' \in Nat, lastCode <= lastCode', new.pw <= lastCode'
    PROVE  CustomersGrow /\ Len(customers) + 1 \in DOMAIN customers' /\ Len(customers) + 1 \in Nat
<1>1. customers \in Seq(CustomerRecords) /\ lastCode \in Nat /\ \A c \in DOMAIN customers : customers[c].pw <= lastCode
  BY DEF SignInv, SignTypes, StoreTypes
<1>. DEFINE n == Len(customers)
<1>2. /\ customers' \in Seq(CustomerRecords) /\ n \in Nat /\ DOMAIN customers = 1 .. n /\ DOMAIN customers' = 1 .. n + 1
      /\ \A c \in 1 .. n : customers'[c] = customers[c]
      /\ customers'[n + 1] = new
  BY <1>1
<1>3. \A c \in DOMAIN customers : customers[c].pw \in Nat
  BY CustomersAre DEF CustomerRecords
<1>4. \A c \in DOMAIN customers' : customers'[c].pw <= lastCode'
  <2>. SUFFICES ASSUME NEW c \in 1 .. n + 1
                PROVE  customers'[c].pw <= lastCode'
    BY <1>2
  <2>1. CASE c = n + 1
    BY <1>2, <2>1
  <2>2. CASE c \in 1 .. n
    BY <1>1, <1>2, <1>3, <2>2
  <2>. QED
    BY <1>2, <2>1, <2>2
<1>. HIDE DEF n
<1>5. DOMAIN customers \subseteq DOMAIN customers' /\ n + 1 \in DOMAIN customers'
  BY <1>2
<1>6. \A c \in DOMAIN customers : customers'[c].pw = customers[c].pw
  BY <1>2
<1>. QED
  BY <1>2, <1>4, <1>5, <1>6 DEF CustomersGrow, n

Written(c, new) == customers' = [customers EXCEPT ![c] = new]
LEMMA CustomerWritten ==
    ASSUME SignInv, NEW c \in DOMAIN customers, NEW new \in CustomerRecords, Written(c, new),
           new.pw = customers[c].pw, lastCode' = lastCode
    PROVE  CustomersGrow
<1>1. customers \in Seq(CustomerRecords) /\ lastCode \in Nat /\ \A d \in DOMAIN customers : customers[d].pw <= lastCode
  BY DEF SignInv, SignTypes, StoreTypes
<1>2. DOMAIN customers = 1 .. Len(customers) /\ Len(customers) \in Nat
  BY <1>1
<1>3. DOMAIN customers' = DOMAIN customers /\ customers'[c] = new /\ \A d \in DOMAIN customers \ {c} : customers'[d] = customers[d]
  BY DEF Written
<1>4. customers' \in Seq(CustomerRecords)
  BY <1>1 DEF Written
<1>. QED
  BY <1>1, <1>3, <1>4 DEF CustomersGrow

\* The steps that find a customer.
LEMMA FindByEmailKeeps ==
    ASSUME SignInv, NEW h \in Handlers, C!FindByEmail(h)
    PROVE  SignInv'
<1>. DEFINE j == customerJob[h]
<1>1. j.at = "find" /\ Stage(j.at) = "find" /\ UNCHANGED <<customers, lastCode>> /\ OthersRest /\ UNCHANGED cutOff
  BY Zenon DEF C!FindByEmail, C!ReadOnly, C!Fails, C!storeVars, C!historyVars, Stage, Within, OthersRest
<1>2. CASE C!Fails(h)
  BY <1>2, <1>1, Ends DEF C!Fails, OthersRest
<1>3. ASSUME NEW c \in C!WithEmail(j.email),
             C!Then(h, [j EXCEPT !.c = c, !.pw = customers[c].pw,
                             !.status = IF customers[c].active THEN "active" ELSE "inactive"])
      PROVE  SignInv'
  <2>. DEFINE now == [j EXCEPT !.c = c, !.pw = customers[c].pw,
                             !.status = IF customers[c].active THEN "active" ELSE "inactive"]
  <2>1. /\ j \in Jobs /\ Holds(j) /\ customers \in Seq(CustomerRecords) /\ c \in DOMAIN customers
    BY <1>1, <1>3, Facts DEF C!WithEmail, C!Saved
  <2>2. c \in Nat /\ customers[c].pw \in Nat
    BY <2>1, CustomersAre DEF CustomerRecords
  <2>. DEFINE status == IF customers[c].active THEN "active" ELSE "inactive"
              pw == customers[c].pw
  <2>3. now \in Jobs /\ now.op = j.op /\ now.step = j.step /\ now.token = j.token /\ now.email = j.email
        /\ now.c = c /\ now.at = j.at
    <3>1. status \in {"active", "inactive"} /\ pw \in Nat
      BY <2>2
    <3>2. now = [j EXCEPT !.c = c, !.pw = pw, !.status = status]
      OBVIOUS
    <3>. HIDE DEF now, status, pw
    <3>3. now \in Jobs
      BY <2>1, <2>2, <3>1, <3>2 DEF Jobs
    <3>4. now.op = j.op /\ now.step = j.step /\ now.token = j.token /\ now.email = j.email
      BY <2>1, <3>2 DEF Jobs
    <3>5. now.c = c /\ now.at = j.at
      BY <2>1, <3>2 DEF Jobs
    <3>. QED
      BY <3>3, <3>4, <3>5
  <2>4. Holds(now)
    BY <1>1, <2>1, <2>3 DEF Holds
  <2>5. C!Then(h, now)
    BY <1>3
  <2>. HIDE DEF now
  <2>6. CustomersGrow
    BY <1>1, CustomersKept
  <2>. QED
    BY <1>1, <2>1, <2>3, <2>4, <2>5, <2>6, GoesOn
<1>. QED
  BY <1>2, <1>3 DEF C!FindByEmail

LEMMA FindOwnKeeps ==
    ASSUME SignInv, NEW h \in Handlers, C!FindOwn(h)
    PROVE  SignInv'
<1>. DEFINE j == customerJob[h]
<1>1. j.at = "own" /\ Stage(j.at) = "own" /\ UNCHANGED <<customers, lastCode>> /\ OthersRest /\ UNCHANGED cutOff
  BY Zenon DEF C!FindOwn, C!ReadOnly, C!Fails, C!storeVars, C!historyVars, Stage, Within, OthersRest
<1>2. CASE C!Fails(h)
  BY <1>2, <1>1, Ends DEF C!Fails, OthersRest
<1>3. CASE C!Then(h, j)
  <2>1. j \in Jobs /\ Holds(j) /\ j.c \in DOMAIN customers
    BY <1>1, Facts DEF WithCustomer
  <2>2. CustomersGrow
    BY <1>1, CustomersKept
  <2>. QED
    BY <1>1, <1>3, <2>1, <2>2, GoesOn
<1>. QED
  BY <1>2, <1>3 DEF C!FindOwn, C!Proceed

LEMMA RegisterKeeps ==
    ASSUME SignInv, NEW h \in Handlers, C!Register(h)
    PROVE  SignInv'
<1>. DEFINE j == customerJob[h]
            new == C!Customer(j.email, None, None, lastCode + 1, FALSE)
<1>1. j.at = "register" /\ Stage(j.at) = "register" /\ OthersRest /\ UNCHANGED cutOff
  BY Zenon DEF C!Register, C!ReadOnly, C!Fails, C!storeVars, C!historyVars, Stage, Within, OthersRest
<1>2. CASE C!Fails(h)
  <2>1. UNCHANGED <<customers, lastCode>>
    BY <1>2 DEF C!Fails, C!ReadOnly, C!storeVars
  <2>. QED
    BY <1>2, <1>1, <2>1, Ends DEF C!Fails, OthersRest
<1>3. CASE /\ lastCode' = lastCode + 1 /\ customers' = Append(customers, new)
           /\ C!Then(h, j)
  <2>1. j \in Jobs /\ Holds(j) /\ lastCode \in Nat
    BY <1>1, Facts
  <2>2. new \in CustomerRecords /\ new.pw = lastCode + 1
    BY <2>1 DEF Jobs, CustomerRecords, C!Customer
  <2>. HIDE DEF new
  <2>3. CustomersGrow
    BY <1>3, <2>1, <2>2, CustomerAdded
  <2>4. \A next : <<j.op, j.step, "register", next>> \in Routes => next \notin WithCustomer
    BY DEF Routes, WithCustomer
  <2>. QED
    BY <1>1, <1>3, <2>1, <2>3, <2>4, GoesOn
<1>. QED
  BY <1>2, <1>3 DEF C!Register, C!Proceed

LEMMA FindByZaloKeeps ==
    ASSUME SignInv, NEW h \in Handlers, C!FindByZalo(h)
    PROVE  SignInv'
<1>. DEFINE j == customerJob[h]
<1>1. j.at = "zalo" /\ j.at \in Within("zalo") /\ OthersRest /\ UNCHANGED <<lastCode, cutOff>>
  BY Zenon DEF C!FindByZalo, C!Keep, C!historyVars, Within, OthersRest
<1>2. ASSUME NEW c \in C!OneOf(C!WithZalo(j.zalo)), c # 0, C!Goto(h, "checked", c),
             customers' = IF j.op = "zaloMiniAppLogin" /\ j.phone # None
                          THEN [customers EXCEPT ![c].phone = j.phone] ELSE customers
      PROVE  SignInv'
  <2>1. c \in DOMAIN customers /\ c \in Nat /\ customers[c] \in CustomerRecords /\ j \in Jobs
    BY <1>2, Facts, CustomersAre DEF C!OneOf, C!WithZalo, C!Saved
  <2>2. CASE UNCHANGED customers
    <3>1. CustomersGrow
      BY <1>1, <2>2, CustomersKept
    <3>. QED
      BY <1>1, <1>2, <2>1, <2>2, <3>1, StaysWithin
  <2>3. CASE customers' = [customers EXCEPT ![c].phone = j.phone]
    <3>. DEFINE new == [customers[c] EXCEPT !.phone = j.phone]
    <3>1. new \in CustomerRecords /\ new.pw = customers[c].pw
      BY <2>1 DEF CustomerRecords, Jobs
    <3>2. Written(c, new)
      BY <2>3 DEF Written
    <3>. HIDE DEF new
    <3>3. CustomersGrow
      BY <1>1, <2>1, <3>1, <3>2, CustomerWritten
    <3>4. c \in DOMAIN customers'
      BY <2>1, <3>3 DEF CustomersGrow
    <3>. QED
      BY <1>1, <1>2, <2>1, <3>3, <3>4, StaysWithin
  <2>. QED
    BY <1>2, <2>2, <2>3
<1>3. CASE C!Goto(h, "phone", 0) /\ UNCHANGED customers
  <2>1. CustomersGrow
    BY <1>1, <1>3, CustomersKept
  <2>2. "phone" \notin WithCustomer
    BY DEF WithCustomer
  <2>. QED
    BY <1>1, <1>3, <2>1, <2>2, StaysWithin
<1>. QED
  BY <1>2, <1>3 DEF C!FindByZalo

LEMMA FindByPhoneKeeps ==
    ASSUME SignInv, NEW h \in Handlers, C!FindByPhone(h)
    PROVE  SignInv'
<1>. DEFINE j == customerJob[h]
<1>1. j.at = "phone" /\ j.at \in Within("zalo") /\ OthersRest /\ UNCHANGED <<customers, lastCode, cutOff>>
  BY Zenon DEF C!FindByPhone, C!ReadOnly, C!storeVars, C!historyVars, Within, OthersRest
<1>2. PICK c \in C!OneOf(C!WithPhone(j.phone)) : C!Goto(h, IF c = 0 THEN "insert" ELSE "link", c)
  BY DEF C!FindByPhone
<1>3. CustomersGrow
  BY <1>1, CustomersKept
<1>4. c # 0 => c \in DOMAIN customers /\ c \in Nat
  BY CustomersAre DEF C!OneOf, C!WithPhone, C!Saved
<1>5. CASE c = 0
  <2>1. "insert" \notin WithCustomer /\ C!Goto(h, "insert", 0)
    BY <1>2, <1>5 DEF WithCustomer
  <2>. QED
    BY <1>1, <1>3, <2>1, StaysWithin
<1>6. CASE c # 0
  <2>1. C!Goto(h, "link", c)
    BY <1>2, <1>6
  <2>. QED
    BY <1>1, <1>3, <1>4, <1>6, <2>1, StaysWithin
<1>. QED
  BY <1>5, <1>6

LEMMA LinkZaloKeeps ==
    ASSUME SignInv, NEW h \in Handlers, C!LinkZalo(h)
    PROVE  SignInv'
<1>. DEFINE j == customerJob[h]
<1>1. j.at = "link" /\ j.at \in Within("zalo") /\ OthersRest /\ UNCHANGED <<lastCode, cutOff>>
  BY Zenon DEF C!LinkZalo, C!Keep, C!Fails, C!ReadOnly, C!storeVars, C!historyVars, Within, OthersRest
<1>2. CASE C!Fails(h)
  <2>1. UNCHANGED customers
    BY <1>2 DEF C!Fails, C!ReadOnly, C!storeVars
  <2>. QED
    BY <1>2, <1>1, <2>1, Ends DEF C!Fails, OthersRest
<1>3. CASE customers' = [customers EXCEPT ![j.c].zalo = j.zalo] /\ C!Goto(h, "checked", j.c)
  <2>. DEFINE c == j.c
              new == [customers[c] EXCEPT !.zalo = j.zalo]
  <2>1. c \in DOMAIN customers /\ c \in Nat /\ customers[c] \in CustomerRecords /\ j \in Jobs
    BY <1>1, Facts, CustomersAre DEF WithCustomer
  <2>2. new \in CustomerRecords /\ new.pw = customers[c].pw
    BY <2>1 DEF CustomerRecords, Jobs
  <2>3. Written(c, new)
    BY <1>3 DEF Written
  <2>. HIDE DEF new
  <2>4. CustomersGrow
    BY <1>1, <2>1, <2>2, <2>3, CustomerWritten
  <2>5. c \in DOMAIN customers'
    BY <2>1, <2>4 DEF CustomersGrow
  <2>. QED
    BY <1>1, <1>3, <2>1, <2>4, <2>5, StaysWithin
<1>. QED
  BY <1>2, <1>3 DEF C!LinkZalo

LEMMA InsertZaloKeeps ==
    ASSUME SignInv, NEW h \in Handlers, C!InsertZalo(h)
    PROVE  SignInv'
<1>. DEFINE j == customerJob[h]
            new == C!Customer(None, j.zalo, j.phone, 0, TRUE)
<1>1. j.at = "insert" /\ j.at \in Within("zalo") /\ OthersRest /\ UNCHANGED <<lastCode, cutOff>>
  BY Zenon DEF C!InsertZalo, C!Keep, C!Fails, C!ReadOnly, C!storeVars, C!historyVars, Within, OthersRest
<1>2. CASE C!Fails(h)
  <2>1. UNCHANGED customers
    BY <1>2 DEF C!Fails, C!ReadOnly, C!storeVars
  <2>. QED
    BY <1>2, <1>1, <2>1, Ends DEF C!Fails, OthersRest
<1>3. CASE customers' = Append(customers, new) /\ C!Goto(h, "checked", Len(customers) + 1)
  <2>1. j \in Jobs /\ lastCode \in Nat
    BY Facts
  <2>2. new \in CustomerRecords /\ new.pw = 0
    BY <2>1 DEF Jobs, CustomerRecords, C!Customer
  <2>. HIDE DEF new
  <2>3. CustomersGrow /\ Len(customers) + 1 \in DOMAIN customers' /\ Len(customers) + 1 \in Nat
    BY <1>1, <1>3, <2>1, <2>2, CustomerAdded
  <2>. QED
    BY <1>1, <1>3, <2>3, StaysWithin
<1>. QED
  BY <1>2, <1>3 DEF C!InsertZalo

LEMMA FindByGoogleKeeps ==
    ASSUME SignInv, NEW h \in Handlers, C!FindByGoogle(h)
    PROVE  SignInv'
<1>. DEFINE j == customerJob[h]
<1>1. j.at = "google" /\ Stage(j.at) = "google" /\ OthersRest /\ UNCHANGED <<lastCode, cutOff>>
  BY Zenon DEF C!FindByGoogle, C!Keep, C!historyVars, Stage, Within, OthersRest
<1>2. j \in Jobs /\ Holds(j) /\ lastCode \in Nat
  BY <1>1, Facts
<1>3. ASSUME NEW c \in Nat, C!Then(h, [j EXCEPT !.c = c]), CustomersGrow, c \in DOMAIN customers'
      PROVE  SignInv'
  <2>. DEFINE now == [j EXCEPT !.c = c]
  <2>1. /\ now \in Jobs /\ now.op = j.op /\ now.step = j.step /\ now.token = j.token /\ now.email = j.email
        /\ now.c = c /\ now.at = j.at
    BY <1>2 DEF Jobs
  <2>2. Holds(now)
    BY <1>1, <1>2, <2>1 DEF Holds
  <2>3. C!Then(h, now)
    BY <1>3
  <2>. HIDE DEF now
  <2>. QED
    BY <1>1, <1>3, <2>1, <2>2, <2>3, GoesOn
<1>4. ASSUME NEW c \in C!WithEmail(j.email), UNCHANGED customers,
             IF customers[c].active THEN C!Then(h, [j EXCEPT !.c = c]) ELSE C!Stop(h)
      PROVE  SignInv'
  <2>1. c \in DOMAIN customers /\ c \in Nat
    BY CustomersAre DEF C!WithEmail, C!Saved
  <2>2. CASE C!Stop(h)
    BY <1>1, <1>4, <2>2, Ends DEF OthersRest
  <2>3. CASE C!Then(h, [j EXCEPT !.c = c])
    <3>1. CustomersGrow
      BY <1>1, <1>4, CustomersKept
    <3>. QED
      BY <1>3, <1>4, <2>1, <2>3, <3>1
  <2>. QED
    BY <1>4, <2>2, <2>3
<1>5. CASE /\ customers' = Append(customers, [C!Customer(j.email, None, None, 0, TRUE) EXCEPT !.saved = FALSE])
           /\ C!Then(h, [j EXCEPT !.c = Len(customers) + 1])
  <2>. DEFINE new == [C!Customer(j.email, None, None, 0, TRUE) EXCEPT !.saved = FALSE]
  <2>1. new \in CustomerRecords /\ new.pw = 0
    BY <1>2 DEF Jobs, CustomerRecords, C!Customer
  <2>. HIDE DEF new
  <2>2. customers' = Append(customers, new)
    BY <1>5 DEF new
  <2>3. CustomersGrow /\ Len(customers) + 1 \in DOMAIN customers' /\ Len(customers) + 1 \in Nat
    BY <1>1, <1>2, <2>1, <2>2, CustomerAdded
  <2>. QED
    BY <1>3, <1>5, <2>3
<1>. QED
  BY <1>4, <1>5 DEF C!FindByGoogle

\* The steps that write a field of the customer, or end one session.
LEMMA WritesKeep ==
    ASSUME SignInv, NEW h \in Handlers, customerJob[h].at \in WithCustomer \ {"clear", "open", "checked", "link"},
           OthersRest, UNCHANGED <<lastCode, cutOff>>, C!Then(h, customerJob[h]),
           \/ UNCHANGED customers
           \/ \E new \in CustomerRecords : new.pw = customers[customerJob[h].c].pw /\ Written(customerJob[h].c, new)
    PROVE  SignInv'
<1>. DEFINE j == customerJob[h]
<1>1. j \in Jobs /\ Holds(j) /\ j.c \in DOMAIN customers /\ j.at # "idle"
  BY Facts DEF WithCustomer
<1>2. Stage(j.at) \notin {"seen", "qr", "clear", "open"}
  BY DEF Stage, Within, WithCustomer
<1>3. CustomersGrow
  BY <1>1, CustomersKept, CustomerWritten
<1>4. j.c \in DOMAIN customers'
  BY <1>1, <1>3 DEF CustomersGrow
<1>. QED
  BY <1>1, <1>2, <1>3, <1>4, GoesOn

LEMMA SaveGoogleKeeps ==
    ASSUME SignInv, NEW h \in Handlers, C!SaveGoogle(h)
    PROVE  SignInv'
<1>. DEFINE j == customerJob[h]
            new == [customers[j.c] EXCEPT !.saved = TRUE]
<1>1. j.at = "save" /\ OthersRest /\ UNCHANGED <<lastCode, cutOff>> /\ C!Then(h, j)
  BY Zenon DEF C!SaveGoogle, C!Keep, C!Proceed, C!historyVars, OthersRest
<1>2. j.at \in WithCustomer \ {"clear", "open", "checked", "link"}
  BY <1>1 DEF WithCustomer
<1>3. customers[j.c] \in CustomerRecords
  BY <1>1, Facts, CustomersAre DEF WithCustomer
<1>4. new \in CustomerRecords /\ new.pw = customers[j.c].pw
  BY <1>3 DEF CustomerRecords
<1>5. UNCHANGED customers \/ Written(j.c, new)
  BY DEF C!SaveGoogle, Written
<1>. HIDE DEF new
<1>. QED
  BY <1>1, <1>2, <1>4, <1>5, WritesKeep

LEMMA SetActiveKeeps ==
    ASSUME SignInv, NEW h \in Handlers, C!SetActive(h)
    PROVE  SignInv'
<1>. DEFINE j == customerJob[h]
            active == j.at = "activate"
            new == [customers[j.c] EXCEPT !.active = active]
<1>1. j.at \in {"activate", "deactivate"} /\ OthersRest /\ UNCHANGED <<lastCode, cutOff>> /\ C!Then(h, j)
  BY Zenon DEF C!SetActive, C!Keep, C!Proceed, C!historyVars, OthersRest
<1>2. j.at \in WithCustomer \ {"clear", "open", "checked", "link"}
  BY <1>1 DEF WithCustomer
<1>3. customers[j.c] \in CustomerRecords
  BY <1>2, Facts, CustomersAre DEF WithCustomer
<1>4. new \in CustomerRecords /\ new.pw = customers[j.c].pw
  BY <1>3 DEF CustomerRecords
<1>5. UNCHANGED customers \/ Written(j.c, new)
  BY Zenon DEF C!SetActive, Written
<1>. HIDE DEF new
<1>. QED
  BY <1>1, <1>2, <1>4, <1>5, WritesKeep

LEMMA DropSessionKeeps ==
    ASSUME SignInv, NEW h \in Handlers, C!DropSession(h)
    PROVE  SignInv'
<1>. DEFINE j == customerJob[h]
<1>1. /\ j.at = "drop" /\ Stage(j.at) = "drop" /\ UNCHANGED <<customers, lastCode, cutOff>> /\ C!Then(h, j)
      /\ UNCHANGED <<codes, qr, sent, proved, signedIn, crowded, late, raced>>
      /\ sessions' = {s \in sessions : s.id # j.session}
  BY Zenon DEF C!DropSession, C!Keep, C!Proceed, C!historyVars, Stage, Within
<1>2. OthersRest
  BY <1>1 DEF OthersRest
<1>3. j \in Jobs /\ Holds(j)
  BY <1>1, Facts
<1>4. CustomersGrow
  BY <1>1, CustomersKept
<1>5. \A next : <<j.op, j.step, "drop", next>> \in Routes => next \notin WithCustomer
  BY DEF Routes, WithCustomer
<1>. QED
  BY <1>1, <1>2, <1>3, <1>4, <1>5, GoesOn

\* A step about the tokens.
LEMMA TokenSteps ==
    ASSUME SignInv, NEW h, customerJob' \in [Handlers -> Jobs],
           \A g \in Handlers \ {h} : customerJob'[g] = customerJob[g], h \in Handlers => RequestFits(h)',
           UNCHANGED <<customers, sessions, codes, lastCode, sent, proved, signedIn, crowded, late, cutOff>>,
           raced \subseteq raced', qr' \in [Tokens -> Statuses],
           h \in Handlers => /\ customerJob'[h].at # "open" /\ customerJob'[h].at \notin ByCode
                             /\ customerJob[h].at # "clear",
           \A t \in Tokens : TokenFits(t)'
    PROVE  SignInv'
<1>1. SignTypes /\ StoreTypes /\ CodeTypes
  BY DEF SignInv, SignTypes
<1>2. StoreTypes' /\ CodeTypes'
  BY <1>1 DEF StoreTypes, CodeTypes
<1>3. SignTypes'
  BY <1>1, <1>2 DEF SignTypes
<1>4. \A g \in Handlers : RequestFits(g)'
  BY <1>1, OthersFit DEF SignInv, StoreTypes
<1>5. \A c : OneRow(c)'
  BY RowsStay DEF SignInv
<1>6. C!OldSessionsEnd'
  BY <1>1, OldStay DEF SignInv, StoreTypes
<1>7. \A k \in CodeKeys : CodeFits(k)'
  BY CodesStay DEF SignInv
<1>. QED
  BY <1>3, <1>4, <1>5, <1>6, <1>7 DEF SignInv

Put(t, status) == qr' = [qr EXCEPT ![t] = status]

LEMMA CheckActiveKeeps ==
    ASSUME SignInv, NEW h \in Handlers, C!CheckActive(h)
    PROVE  SignInv'
<1>. DEFINE j == customerJob[h]
            u == j.token
<1>1. /\ j.at = "checked" /\ Stage(j.at) = "zalo"
      /\ UNCHANGED <<customers, sessions, codes, lastCode, sent, proved, signedIn, crowded, late, raced, cutOff>>
  BY Zenon DEF C!CheckActive, C!Keep, C!historyVars, Stage, Within
<1>2. j \in Jobs /\ Holds(j) /\ OnRoute(j) /\ j.c \in DOMAIN customers /\ customerJob \in [Handlers -> Jobs]
      /\ qr \in [Tokens -> Statuses]
  BY <1>1, Facts DEF WithCustomer
<1>3. CASE C!Then(h, j) /\ UNCHANGED qr
  <2>1. OthersRest
    BY <1>1, <1>3 DEF OthersRest
  <2>2. CustomersGrow
    BY <1>1, CustomersKept
  <2>. QED
    BY <1>1, <1>2, <1>3, <2>1, <2>2, GoesOn
<1>4. CASE C!Stop(h) /\ UNCHANGED qr
  BY <1>1, <1>4, Ends
<1>5. CASE C!Stop(h) /\ j.op = "verifyQr" /\ Put(u, "ACCOUNT_INACTIVE")
  <2>1. u \in Tokens
    BY <1>2, <1>5 DEF Holds
  <2>2. /\ customerJob' \in [Handlers -> Jobs] /\ \A g \in Handlers \ {h} : customerJob'[g] = customerJob[g]
        /\ customerJob'[h].at = "idle" /\ customerJob'[h].op = "none"
    BY <1>2, <1>5, NoRequest DEF C!Stop
  <2>3. RequestFits(h)' /\ \A t : ~(h \in Past(t)')
    BY <2>2 DEF RequestFits, Past
  <2>4. /\ qr' \in [Tokens -> Statuses] /\ qr'[u] = "ACCOUNT_INACTIVE"
        /\ \A t \in Tokens \ {u} : qr'[t] = qr[t]
    BY <1>2, <1>5, <2>1 DEF Put, Statuses
  <2>5. ASSUME NEW t \in Tokens
        PROVE  TokenFits(t)'
    <3>1. TokenFits(t)
      BY DEF SignInv
    <3>2. CASE t # u
      BY <1>1, <2>2, <2>3, <2>4, <3>1, <3>2, TokenStays
    <3>3. CASE t = u
      <4>1. h \in Past(t)
        BY <1>1, <1>5, <3>3 DEF Past
      <4>2. t \notin raced => signedIn[t] = 0 /\ \A g \in Past(t) : g = h
        BY <1>1, <3>1, <4>1 DEF TokenFits
      <4>3. Past(t)' \subseteq Past(t) \ {h}
        BY <2>2, <2>3 DEF Past
      <4>. QED
        BY <1>1, <4>2, <4>3 DEF TokenFits
    <3>. QED
      BY <3>2, <3>3
  <2>6. "idle" \notin ByCode
    BY DEF ByCode
  <2>. QED
    BY <1>1, <2>2, <2>3, <2>4, <2>5, <2>6, TokenSteps
<1>. QED
  BY <1>3, <1>4, <1>5 DEF C!CheckActive, C!Proceed, Put

LEMMA AnswerQrKeeps ==
    ASSUME SignInv, NEW h \in Handlers, C!AnswerQr(h)
    PROVE  SignInv'
<1>. DEFINE j == customerJob[h]
            u == j.token
<1>1. /\ j.at = "qr" /\ Stage(j.at) = "qr" /\ Put(u, "AUTHENTICATED") /\ C!Then(h, j)
      /\ UNCHANGED <<customers, sessions, codes, lastCode, sent, proved, signedIn, crowded, late, raced, cutOff>>
  BY Zenon DEF C!AnswerQr, C!Keep, C!Proceed, C!historyVars, Stage, Within, Put
<1>2. j \in Jobs /\ Holds(j) /\ OnRoute(j) /\ customerJob \in [Handlers -> Jobs] /\ qr \in [Tokens -> Statuses]
  BY <1>1, Facts
<1>3. PICK next \in Calls : <<j.op, j.step, "qr", next>> \in Routes
  BY <1>1, <1>2, StepAt
<1>4. j.op = "verifyQr" /\ next = "idle"
  BY <1>3 DEF Routes
<1>5. u \in Tokens
  BY <1>2, <1>4 DEF Holds
<1>6. /\ customerJob' \in [Handlers -> Jobs] /\ \A g \in Handlers \ {h} : customerJob'[g] = customerJob[g]
      /\ customerJob'[h].at = "idle" /\ customerJob'[h].op = "none"
  BY <1>1, <1>2, <1>3, <1>4, JobMoves, NoRequest
<1>7. RequestFits(h)' /\ \A t : ~(h \in Past(t)')
  BY <1>6 DEF RequestFits, Past
<1>8. /\ qr' \in [Tokens -> Statuses] /\ qr'[u] = "AUTHENTICATED" /\ \A t \in Tokens \ {u} : qr'[t] = qr[t]
  BY <1>1, <1>2, <1>5 DEF Put, Statuses
<1>9. ASSUME NEW t \in Tokens
      PROVE  TokenFits(t)'
  <2>1. TokenFits(t)
    BY DEF SignInv
  <2>2. CASE t # u
    <3>1. h \notin Past(t)
      BY <2>2 DEF Past
    <3>. QED
      BY <1>1, <1>6, <1>7, <1>8, <2>1, <2>2, <3>1, TokenStays
  <2>3. CASE t = u
    <3>1. h \in Past(t)
      BY <1>1, <1>4, <2>3 DEF Past
    <3>2. t \notin raced => signedIn[t] <= 1 /\ \A g \in Past(t) : g = h
      BY <2>1, <3>1 DEF TokenFits
    <3>3. Past(t)' \subseteq Past(t) \ {h}
      BY <1>6, <1>7 DEF Past
    <3>. QED
      BY <1>1, <1>8, <2>3, <3>2, <3>3 DEF TokenFits
  <2>. QED
    BY <2>2, <2>3
<1>10. "idle" \notin ByCode
  BY DEF ByCode
<1>. QED
  BY <1>1, <1>6, <1>7, <1>8, <1>9, <1>10, TokenSteps

LEMMA ReadQrKeeps ==
    ASSUME SignInv, NEW h \in Handlers, C!ReadQr(h)
    PROVE  SignInv'
<1>. DEFINE j == customerJob[h]
            u == j.token
            now == [j EXCEPT !.status = qr[u]]
            usable == C!Usable(j.op, qr[u])
<1>1. /\ j.at = "seen" /\ Stage(j.at) = "seen"
      /\ UNCHANGED <<customers, sessions, codes, qr, lastCode, sent, proved, signedIn, crowded, late, cutOff>>
      /\ IF usable THEN C!Then(h, now) ELSE C!Stop(h)
      /\ raced' = IF j.op \in {"verifyQr", "scanQr"} /\ usable /\ C!Verifying(u) THEN raced \cup {u} ELSE raced
  BY Zenon DEF C!ReadQr, C!storeVars, Stage, Within
<1>2. j \in Jobs /\ Holds(j) /\ OnRoute(j) /\ customerJob \in [Handlers -> Jobs] /\ qr \in [Tokens -> Statuses]
  BY <1>1, Facts
<1>3. raced \subseteq raced'
  BY <1>1
<1>4. CASE ~usable
  BY <1>1, <1>4, Ends
<1>5. CASE usable
  <2>1. PICK next \in Calls : <<j.op, j.step, "seen", next>> \in Routes
    BY <1>1, <1>2, StepAt
  <2>2. /\ j.op \in C!ByToken \cup {"verifyQr"} /\ next \notin WithCustomer \cup ByCode \cup {"idle", "open", "qr", "seen"}
        /\ next = "scan" => j.op = "scanQr"
    BY <2>1 DEF Routes, C!ByToken, WithCustomer, ByCode
  <2>3. u \in Tokens
    BY <1>2, <2>2 DEF Holds
  <2>4. /\ now \in Jobs /\ now.op = j.op /\ now.step = j.step /\ now.token = u /\ now.email = j.email /\ now.at = j.at
        /\ now.status = qr[u]
    BY <1>2, <2>3 DEF Jobs
  <2>5. C!Then(h, now)
    BY <1>1, <1>5
  <2>6. next = "scan" => now.status \notin {"unissued", "none", "AUTHENTICATED"}
    BY <1>5, <2>2, <2>4 DEF C!Usable
  <2>7. Holds(now)
    BY <1>1, <1>2, <2>4 DEF Holds
  <2>. HIDE DEF now
  <2>8. /\ customerJob' \in [Handlers -> Jobs] /\ \A g \in Handlers \ {h} : customerJob'[g] = customerJob[g]
        /\ customerJob'[h].at = next /\ customerJob'[h].op = j.op /\ customerJob'[h].token = u
    BY <1>2, <2>1, <2>2, <2>4, <2>5, JobMoves
  <2>9. RequestFits(h)'
    BY <1>2, <2>1, <2>2, <2>4, <2>5, <2>6, <2>7, NextFits
  <2>10. ASSUME NEW t \in Tokens
         PROVE  TokenFits(t)'
    <3>1. TokenFits(t) /\ h \notin Past(t)
      BY <1>1 DEF SignInv, Past
    <3>2. CASE ~(h \in Past(t)')
      BY <1>1, <1>3, <2>8, <3>1, <3>2, TokenStays
    <3>3. CASE h \in Past(t)'
      <4>1. j.op = "verifyQr" /\ t = u
        BY <2>8, <3>3 DEF Past
      <4>. SUFFICES ASSUME t \notin raced'
                    PROVE  TokenFits(t)'
        BY DEF TokenFits
      <4>2. qr[t] = "SCANNED"
        BY <1>5, <4>1 DEF C!Usable
      <4>3. Past(t) = {}
        BY <1>1, <1>5, <4>1 DEF C!Verifying, Past
      <4>4. signedIn[t] = 0
        <5>1. signedIn[t] \in Nat
          BY DEF SignInv, SignTypes
        <5>. QED
          BY <1>3, <3>1, <4>2, <4>3, <5>1 DEF TokenFits
      <4>5. Past(t)' \subseteq {h}
        BY <2>8, <4>3 DEF Past
      <4>. QED
        BY <1>1, <4>4, <4>5 DEF TokenFits
    <3>. QED
      BY <3>2, <3>3
  <2>11. qr' \in [Tokens -> Statuses]
    BY <1>1, <1>2
  <2>. QED
    BY <1>1, <1>3, <2>2, <2>8, <2>9, <2>10, <2>11, TokenSteps
<1>. QED
  BY <1>4, <1>5

LEMMA ScanQrKeeps ==
    ASSUME SignInv, NEW h \in Handlers, C!ScanQr(h)
    PROVE  SignInv'
<1>. DEFINE j == customerJob[h]
            u == j.token
<1>1. /\ j.at = "scan" /\ Stage(j.at) = "scan" /\ Put(u, "SCANNED") /\ C!Then(h, j)
      /\ UNCHANGED <<customers, sessions, codes, lastCode, sent, proved, signedIn, crowded, late, cutOff>>
      /\ raced' = IF qr[u] # j.status \/ C!Verifying(u) THEN raced \cup {u} ELSE raced
  BY Zenon DEF C!ScanQr, C!Proceed, Stage, Within, Put
<1>2. j \in Jobs /\ Holds(j) /\ OnRoute(j) /\ customerJob \in [Handlers -> Jobs] /\ qr \in [Tokens -> Statuses]
  BY <1>1, Facts
<1>3. PICK next \in Calls : <<j.op, j.step, "scan", next>> \in Routes
  BY <1>1, <1>2, StepAt
<1>4. j.op = "scanQr" /\ next = "idle"
  BY <1>3 DEF Routes
<1>5. u \in Tokens
  BY <1>2, <1>4 DEF Holds, C!ByToken
<1>6. /\ customerJob' \in [Handlers -> Jobs] /\ \A g \in Handlers \ {h} : customerJob'[g] = customerJob[g]
      /\ customerJob'[h].at = "idle" /\ customerJob'[h].op = "none"
  BY <1>1, <1>2, <1>3, <1>4, JobMoves, NoRequest
<1>7. RequestFits(h)' /\ \A t : h \notin Past(t) /\ ~(h \in Past(t)')
  BY <1>4, <1>6 DEF RequestFits, Past
<1>8. /\ qr' \in [Tokens -> Statuses] /\ qr'[u] = "SCANNED" /\ \A t \in Tokens \ {u} : qr'[t] = qr[t]
  BY <1>1, <1>2, <1>5 DEF Put, Statuses
<1>9. raced \subseteq raced'
  BY <1>1
<1>10. ASSUME NEW t \in Tokens
       PROVE  TokenFits(t)'
  <2>1. TokenFits(t)
    BY DEF SignInv
  <2>2. CASE t # u
    BY <1>1, <1>6, <1>7, <1>8, <1>9, <2>1, <2>2, TokenStays
  <2>3. CASE t = u
    <3>. SUFFICES ASSUME t \notin raced'
                  PROVE  TokenFits(t)'
      BY DEF TokenFits
    <3>1. qr[t] \notin {"unissued", "none", "AUTHENTICATED"} /\ Past(t) = {}
      BY <1>1, <1>2, <2>3 DEF Holds, C!Verifying, Past
    <3>2. signedIn[t] = 0
      <4>1. signedIn[t] \in Nat
        BY DEF SignInv, SignTypes
      <4>. QED
        BY <1>9, <2>1, <3>1, <4>1 DEF TokenFits
    <3>3. Past(t)' = {}
      BY <1>6, <1>7, <3>1 DEF Past
    <3>. QED
      BY <1>1, <3>2, <3>3 DEF TokenFits
  <2>. QED
    BY <2>2, <2>3
<1>11. "idle" \notin ByCode
  BY DEF ByCode
<1>. QED
  BY <1>1, <1>6, <1>7, <1>8, <1>9, <1>10, <1>11, TokenSteps

LEMMA TakeQrKeeps ==
    ASSUME SignInv, NEW h \in Handlers, C!TakeQr(h)
    PROVE  SignInv'
<1>. DEFINE j == customerJob[h]
            u == j.token
<1>1. /\ j.at = "take" /\ Stage(j.at) = "take" /\ C!Then(h, j)
      /\ UNCHANGED <<customers, sessions, codes, lastCode, sent, proved, signedIn, crowded, late, raced, cutOff>>
      /\ Put(u, "none") \/ UNCHANGED qr
  BY DEF C!TakeQr, C!Proceed, C!Keep, C!historyVars, Stage, Within, Put
<1>2. j \in Jobs /\ Holds(j) /\ OnRoute(j) /\ customerJob \in [Handlers -> Jobs] /\ qr \in [Tokens -> Statuses]
  BY <1>1, Facts
<1>3. PICK next \in Calls : <<j.op, j.step, "take", next>> \in Routes
  BY <1>1, <1>2, StepAt
<1>4. j.op = "getQrStatus" /\ next = "idle"
  BY <1>3 DEF Routes
<1>5. u \in Tokens
  BY <1>2, <1>4 DEF Holds, C!ByToken
<1>6. /\ customerJob' \in [Handlers -> Jobs] /\ \A g \in Handlers \ {h} : customerJob'[g] = customerJob[g]
      /\ customerJob'[h].at = "idle" /\ customerJob'[h].op = "none"
  BY <1>1, <1>2, <1>3, <1>4, JobMoves, NoRequest
<1>7. RequestFits(h)' /\ \A t : h \notin Past(t) /\ ~(h \in Past(t)')
  BY <1>4, <1>6 DEF RequestFits, Past
<1>8. qr' \in [Tokens -> Statuses] /\ \A t \in Tokens : qr'[t] \in {qr[t], "none"}
  BY <1>1, <1>2, <1>5 DEF Put, Statuses
<1>9. \A t \in Tokens : TokenFits(t)'
  BY <1>1, <1>6, <1>7, <1>8, TokensStay DEF SignInv
<1>10. "idle" \notin ByCode
  BY DEF ByCode
<1>. QED
  BY <1>1, <1>6, <1>7, <1>8, <1>9, <1>10, TokenSteps

LEMMA GenerateQrKeeps ==
    ASSUME SignInv, NEW u \in Tokens, C!GenerateQr(u)
    PROVE  SignInv'
<1>1. /\ qr[u] = "unissued" /\ Put(u, "PENDING") /\ UNCHANGED customerJob
      /\ UNCHANGED <<customers, sessions, codes, lastCode, sent, proved, signedIn, crowded, late, raced, cutOff>>
  BY DEF C!GenerateQr, C!Keep, C!historyVars, Put
<1>2. customerJob \in [Handlers -> Jobs] /\ qr \in [Tokens -> Statuses]
  BY DEF SignInv, SignTypes
<1>3. /\ qr' \in [Tokens -> Statuses] /\ qr'[u] = "PENDING" /\ \A t \in Tokens \ {u} : qr'[t] = qr[t]
  BY <1>1, <1>2 DEF Put, Statuses
<1>4. PICK h : h \notin Handlers
  BY NoSetContainsEverything
<1>5. ASSUME NEW t \in Tokens
      PROVE  TokenFits(t)'
  <2>1. TokenFits(t) /\ Past(t)' = Past(t)
    BY <1>1 DEF SignInv, Past
  <2>2. CASE t # u
    BY <1>1, <1>3, <2>1, <2>2 DEF TokenFits
  <2>3. CASE t = u
    BY <1>1, <1>3, <2>1, <2>3 DEF TokenFits
  <2>. QED
    BY <2>2, <2>3
<1>. QED
  BY <1>1, <1>2, <1>3, <1>4, <1>5, TokenSteps

\* The key of a code is left or loses its code.
LEMMA CodeStays ==
    ASSUME NEW k, CodeFits(k), NEW h, \A g \in Handlers \ {h} : customerJob'[g] = customerJob[g],
           codes'[k] = codes[k] \/ codes'[k].code = 0, sent'[k] = sent[k], proved'[k] = proved[k],
           raced \subseteq raced',
           h \in Handlers /\ customerJob'[h].at \in ByCode /\ C!Key(h)' = k =>
               customerJob'[h].code.code # proved[k].code
    PROVE  CodeFits(k)'
<1>. SUFFICES ASSUME k \notin raced'
              PROVE  CodeFits(k)'
  BY DEF CodeFits
<1>1. CodeFits(k) /\ k \notin raced
  OBVIOUS
<1>2. \A g \in Handlers \ {h} : C!Key(g)' = C!Key(g)
  BY DEF C!Key, C!KindOf
<1>. QED
  BY <1>1, <1>2 DEF CodeFits

\* A step about the codes.
LEMMA CodeSteps ==
    ASSUME SignInv, NEW h, customerJob' \in [Handlers -> Jobs],
           \A g \in Handlers \ {h} : customerJob'[g] = customerJob[g], h \in Handlers => RequestFits(h)',
           UNCHANGED <<customers, sessions, qr, signedIn, crowded, late, cutOff>>,
           raced \subseteq raced', lastCode' \in Nat, lastCode <= lastCode',
           CodeTypes',
           h \in Handlers => /\ customerJob'[h].at # "open" /\ customerJob[h].at \notin {"clear", "qr", "seen"}
                             /\ customerJob'[h].at # "qr"
                             /\ customerJob'[h].op \in {customerJob[h].op, "none"}
                             /\ customerJob'[h].op = customerJob[h].op => customerJob'[h].token = customerJob[h].token,
           \A k \in CodeKeys : CodeFits(k)'
    PROVE  SignInv'
<1>1. SignTypes /\ StoreTypes /\ CodeTypes
  BY DEF SignInv, SignTypes
<1>2. StoreTypes'
  <2>1. \A c \in DOMAIN customers : customers[c].pw \in Nat
    BY CustomersAre DEF CustomerRecords
  <2>. QED
    BY <1>1, <2>1 DEF StoreTypes
<1>3. SignTypes'
  BY <1>1, <1>2 DEF SignTypes
<1>4. \A g \in Handlers : RequestFits(g)'
  BY <1>1, OthersFit DEF SignInv, StoreTypes
<1>5. \A c : OneRow(c)'
  BY RowsStay DEF SignInv
<1>6. C!OldSessionsEnd'
  BY <1>1, OldStay DEF SignInv, StoreTypes
<1>7. \A t : h \in Past(t)' => h \in Past(t)
  BY DEF Past
<1>8. \A t \in Tokens : TokenFits(t)'
  BY <1>1, <1>7, TokensStay DEF SignInv, Past
<1>. QED
  BY <1>3, <1>4, <1>5, <1>6, <1>8 DEF SignInv

SentAnew(k) ==
    /\ codes' = [codes EXCEPT ![k] = [code |-> lastCode + 1, attempts |-> 0]]
    /\ sent' = [sent EXCEPT ![k] = lastCode + 1]
    /\ lastCode' = lastCode + 1

LEMMA NewCodeKeeps ==
    ASSUME SignInv, NEW h \in Handlers, customerJob[h].at \in {"send", "token"}, NEW k \in CodeKeys, SentAnew(k),
           C!Then(h, customerJob[h]),
           UNCHANGED <<customers, sessions, qr, proved, signedIn, late, crowded, raced, cutOff>>
    PROVE  SignInv'
<1>. DEFINE j == customerJob[h]
<1>1. j \in Jobs /\ Holds(j) /\ OnRoute(j) /\ customerJob \in [Handlers -> Jobs] /\ lastCode \in Nat
  BY Facts
<1>2. Stage(j.at) \in {"send", "token"}
  BY DEF Stage, Within
<1>3. PICK next \in Calls : <<j.op, j.step, Stage(j.at), next>> \in Routes
  BY <1>1, StepAt
<1>4. next = "idle" /\ j.op \in Requests
  <2>1. next = "idle"
    BY <1>2, <1>3 DEF Routes
  <2>. QED
    BY <1>3, <2>1, RouteSteps
<1>5. /\ customerJob' \in [Handlers -> Jobs] /\ \A g \in Handlers \ {h} : customerJob'[g] = customerJob[g]
      /\ customerJob'[h].at = "idle" /\ customerJob'[h].op = "none"
  BY <1>1, <1>3, <1>4, JobMoves, NoRequest
<1>6. RequestFits(h)' /\ j.op # "none" /\ "idle" \notin ByCode
  BY <1>4, <1>5 DEF RequestFits, Requests, ByCode
<1>7. MaxAttempts \in Nat /\ CodeTypes /\ CodeTypes'
  <2>1. MaxAttempts \in Nat /\ CodeTypes
    BY CustomerAssumption DEF SignInv, SignTypes
  <2>2. codes'[k] = [code |-> lastCode + 1, attempts |-> 0] /\ \A x \in CodeKeys \ {k} : codes'[x] = codes[x]
    BY <2>1 DEF SentAnew, CodeTypes
  <2>3. codes' \in [CodeKeys -> [code : Nat, attempts : 0 .. MaxAttempts]] /\ sent' \in [CodeKeys -> Nat]
    BY <1>1, <2>1 DEF SentAnew, CodeTypes
  <2>4. \A x \in CodeKeys : codes'[x].code <= lastCode' /\ proved'[x].code <= lastCode'
    BY <1>1, <2>1, <2>2 DEF SentAnew, CodeTypes
  <2>. QED
    BY <2>1, <2>3, <2>4 DEF CodeTypes
<1>8. ASSUME NEW x \in CodeKeys
      PROVE  CodeFits(x)'
  <2>1. CodeFits(x)
    BY DEF SignInv
  <2>2. CASE x # k
    <3>1. codes'[x] = codes[x] /\ sent'[x] = sent[x]
      BY <1>7, <2>2 DEF SentAnew, CodeTypes
    <3>. QED
      BY <1>5, <1>6, <2>1, <3>1, CodeStays
  <2>3. CASE x = k
    <3>1. codes'[x].code = lastCode + 1 /\ sent'[x] = lastCode + 1
      BY <1>7, <2>3 DEF SentAnew, CodeTypes
    <3>2. proved[x].code \in Nat /\ proved[x].code <= lastCode
      BY <1>7 DEF CodeTypes
    <3>3. \A g \in Handlers \ {h} : C!Key(g)' = C!Key(g)
      BY <1>5 DEF C!Key, C!KindOf
    <3>4. x \in raced \/ (proved[x].times <= 1 /\ \A g \in Handlers : customerJob[g].at \in ByCode /\ C!Key(g) = x =>
                              customerJob[g].code.code # proved[x].code)
      BY <2>1 DEF CodeFits
    <3>. QED
      BY <1>1, <1>5, <1>6, <3>1, <3>2, <3>3, <3>4 DEF CodeFits
  <2>. QED
    BY <2>2, <2>3
<1>. QED
  BY <1>1, <1>5, <1>6, <1>7, <1>8, CodeSteps DEF SentAnew

LEMMA KeyIs ==
    ASSUME NEW h, customerJob[h].email \in Emails
    PROVE  C!Key(h) \in CodeKeys /\ <<"reset", customerJob[h].email>> \in CodeKeys
BY DEF C!Key, C!KindOf, CodeKeys, C!Kinds

LEMMA SendCodeKeeps ==
    ASSUME SignInv, NEW h \in Handlers, C!SendCode(h)
    PROVE  SignInv'
<1>1. /\ customerJob[h].at = "send" /\ C!Then(h, customerJob[h]) /\ SentAnew(C!Key(h))
      /\ UNCHANGED <<customers, sessions, qr, proved, signedIn, late, crowded, raced, cutOff>>
  BY Zenon DEF C!SendCode, C!Proceed, SentAnew
<1>2. customerJob[h].email \in Emails
  <2>1. Stage("send") = "send"
    BY DEF Stage, Within
  <2>2. PICK next \in Calls : <<customerJob[h].op, customerJob[h].step, "send", next>> \in Routes
    BY <1>1, <2>1, Facts, StepAt
  <2>3. customerJob[h].op \in C!ByEmail
    BY <2>2 DEF Routes, C!ByEmail
  <2>. QED
    BY <1>1, <2>3, Facts DEF Holds
<1>. QED
  BY <1>1, <1>2, KeyIs, NewCodeKeeps

LEMMA GiveResetTokenKeeps ==
    ASSUME SignInv, NEW h \in Handlers, C!GiveResetToken(h)
    PROVE  SignInv'
<1>1. /\ customerJob[h].at = "token" /\ C!Then(h, customerJob[h]) /\ SentAnew(<<"reset", customerJob[h].email>>)
      /\ UNCHANGED <<customers, sessions, qr, proved, signedIn, late, crowded, raced, cutOff>>
  BY Zenon DEF C!GiveResetToken, C!Proceed, SentAnew
<1>2. customerJob[h].email \in Emails
  <2>1. Stage("token") = "token"
    BY DEF Stage, Within
  <2>2. PICK next \in Calls : <<customerJob[h].op, customerJob[h].step, "token", next>> \in Routes
    BY <1>1, <2>1, Facts, StepAt
  <2>3. customerJob[h].op \in C!ByEmail
    BY <2>2 DEF Routes, C!ByEmail
  <2>. QED
    BY <1>1, <2>3, Facts DEF Holds
<1>. QED
  BY <1>1, <1>2, KeyIs, NewCodeKeeps

\* Who checks a code holds its key.
LEMMA CodeFacts ==
    ASSUME SignInv, NEW h \in Handlers, customerJob[h].at \in {"code", "right", "wrong"}
    PROVE  /\ customerJob[h].op \in {"verifyOtp", "forgotPasswordVerifyOtp", "resetPassword"}
           /\ customerJob[h].email \in Emails /\ C!Key(h) \in CodeKeys
           /\ \E next \in Calls : <<customerJob[h].op, customerJob[h].step, "code", next>> \in Routes
           /\ customerJob[h].at # "code" =>
                /\ customerJob[h].code \in [code : Nat, attempts : Nat]
                /\ customerJob[h].code.code \in 1 .. lastCode /\ customerJob[h].code.attempts < MaxAttempts
<1>1. Stage(customerJob[h].at) = "code" /\ customerJob[h].at # "idle"
  BY DEF Stage, Within
<1>2. PICK next \in Calls : <<customerJob[h].op, customerJob[h].step, "code", next>> \in Routes
  BY <1>1, Facts, StepAt
<1>3. customerJob[h].op \in {"verifyOtp", "forgotPasswordVerifyOtp", "resetPassword"}
  BY <1>2 DEF Routes
<1>4. customerJob[h].email \in Emails
  BY <1>1, <1>3, Facts DEF Holds, C!ByEmail
<1>5. customerJob[h].at # "code" =>
                /\ customerJob[h].code \in [code : Nat, attempts : Nat]
                /\ customerJob[h].code.code \in 1 .. lastCode /\ customerJob[h].code.attempts < MaxAttempts
  BY Facts DEF SignInv, RequestFits, ByCode, Jobs
<1>. QED
  BY <1>2, <1>3, <1>4, <1>5, KeyIs

\* The request that checks a code ends.
LEMMA CodeEnds ==
    ASSUME SignInv, NEW h \in Handlers, customerJob[h].at \in {"code", "right", "wrong"}, C!Stop(h),
           UNCHANGED <<customers, sessions, qr, lastCode, signedIn, late, crowded, cutOff>>,
           raced \subseteq raced', CodeTypes', \A k \in CodeKeys : CodeFits(k)'
    PROVE  SignInv'
<1>1. /\ customerJob' \in [Handlers -> Jobs] /\ \A g \in Handlers \ {h} : customerJob'[g] = customerJob[g]
      /\ customerJob'[h].at = "idle" /\ customerJob'[h].op = "none"
  BY Facts, NoRequest DEF C!Stop
<1>2. RequestFits(h)' /\ customerJob[h].op # "none"
  BY <1>1, CodeFacts DEF RequestFits
<1>3. lastCode \in Nat
  BY Facts
<1>. QED
  BY <1>1, <1>2, <1>3, CodeSteps

LEMMA CodesTyped ==
    ASSUME SignInv
    PROVE  /\ codes \in [CodeKeys -> [code : Nat, attempts : 0 .. MaxAttempts]] /\ MaxAttempts \in Nat /\ lastCode \in Nat
           /\ sent \in [CodeKeys -> Nat] /\ proved \in [CodeKeys -> [code : Nat, times : Nat]]
           /\ \A k \in CodeKeys : codes[k].code <= lastCode /\ proved[k].code <= lastCode
           /\ C!NoCode \in [code : Nat, attempts : 0 .. MaxAttempts] /\ C!NoCode.code = 0
BY CustomerAssumption DEF SignInv, SignTypes, StoreTypes, CodeTypes, C!NoCode

\* An entry is removed.
CodeRemoved(k) == codes' = [codes EXCEPT ![k] = C!NoCode]
LEMMA RemovedCode ==
    ASSUME SignInv, NEW k \in CodeKeys, CodeRemoved(k), UNCHANGED <<lastCode, sent, proved>>
    PROVE  CodeTypes' /\ \A x \in CodeKeys : codes'[x] = codes[x] \/ codes'[x].code = 0
<1>1. codes' \in [CodeKeys -> [code : Nat, attempts : 0 .. MaxAttempts]]
  BY CodesTyped DEF CodeRemoved
<1>2. \A x \in CodeKeys : codes'[x] = IF x = k THEN C!NoCode ELSE codes[x]
  BY CodesTyped DEF CodeRemoved
<1>3. \A x \in CodeKeys : codes'[x].code <= lastCode
  BY <1>2, CodesTyped
<1>. QED
  BY <1>1, <1>2, <1>3, CodesTyped DEF CodeTypes

LEMMA ReadCodeKeeps ==
    ASSUME SignInv, NEW h \in Handlers, C!ReadCode(h)
    PROVE  SignInv'
<1>. DEFINE j == customerJob[h]
            cached == codes[C!Key(h)]
<1>1. /\ j.at = "code"
      /\ UNCHANGED <<customers, sessions, qr, lastCode, sent, proved, signedIn, crowded, late, raced, cutOff>>
  BY Zenon DEF C!ReadCode, C!Keep, C!historyVars
<1>2. j \in Jobs /\ Holds(j) /\ customerJob \in [Handlers -> Jobs]
  BY <1>1, Facts
<1>3. CASE C!Stop(h) /\ UNCHANGED codes
  BY <1>1, <1>3, Ends
<1>4. CASE C!Stop(h) /\ CodeRemoved(C!Key(h))
  <2>1. CodeTypes' /\ \A x \in CodeKeys : codes'[x] = codes[x] \/ codes'[x].code = 0
    BY <1>1, <1>4, CodeFacts, RemovedCode
  <2>2. \A g \in Handlers \ {h} : customerJob'[g] = customerJob[g]
    BY <1>2, <1>4 DEF C!Stop
  <2>3. customerJob'[h].at \notin ByCode
    BY <1>2, <1>4, NoRequest DEF C!Stop, ByCode
  <2>4. \A k \in CodeKeys : CodeFits(k)'
    BY <1>1, <2>1, <2>2, <2>3, CodeStays DEF SignInv
  <2>. QED
    BY <1>1, <1>4, <2>1, <2>4, CodeEnds
<1>5. ASSUME cached.code # 0, ~(cached.attempts >= MaxAttempts), UNCHANGED codes, NEW at \in {"right", "wrong"},
             customerJob' = [customerJob EXCEPT ![h] = LET now == [@ EXCEPT !.code = cached]
                                                       IN  [now EXCEPT !.at = at]]
      PROVE  SignInv'
  <2>. DEFINE on == [j EXCEPT !.code = cached]
              new == [on EXCEPT !.at = at]
  <2>1. C!Key(h) \in CodeKeys /\ cached \in [code : Nat, attempts : 0 .. MaxAttempts] /\ cached.code <= lastCode
    BY <1>1, CodeFacts, CodesTyped
  <2>2. cached \in [code : Nat, attempts : Nat] /\ cached.code \in 1 .. lastCode /\ cached.attempts < MaxAttempts
    BY <1>5, <2>1, CodesTyped
  <2>. HIDE DEF cached
  <2>3. /\ on \in Jobs /\ on.op = j.op /\ on.step = j.step /\ on.email = j.email
        /\ on.token = j.token /\ on.code = cached
    BY <1>2, <2>2 DEF Jobs
  <2>4. customerJob' = [customerJob EXCEPT ![h] = new]
    BY <1>5
  <2>. HIDE DEF on
  <2>5. at \in Calls
    BY DEF Calls
  <2>6. /\ new \in Jobs /\ new.at = at /\ new.op = j.op /\ new.step = j.step /\ new.email = j.email
        /\ new.token = j.token /\ new.code = cached
    BY <2>3, <2>5 DEF Jobs
  <2>. HIDE DEF new
  <2>7. /\ customerJob' \in [Handlers -> Jobs] /\ customerJob'[h] = new
        /\ \A g \in Handlers \ {h} : customerJob'[g] = customerJob[g]
    BY <1>2, <2>4, <2>6
  <2>8. RequestFits(h)'
    <3>1. PICK next \in Calls : <<new.op, new.step, "code", next>> \in Routes
      BY <1>1, <2>6, CodeFacts
    <3>2. at \in Within("code") /\ "code" \in Calls /\ at # "scan" /\ at \notin WithCustomer
      BY DEF Within, Calls, WithCustomer
    <3>3. OnRoute(new)
      BY <2>6, <3>1, <3>2 DEF OnRoute
    <3>4. Holds(new)
      BY <1>2, <2>6, <3>2 DEF Holds
    <3>. QED
      BY <1>1, <2>2, <2>6, <2>7, <3>2, <3>3, <3>4 DEF RequestFits, OnRoute, Holds
  <2>9. C!Key(h)' = C!Key(h)
    BY <2>6, <2>7 DEF C!Key, C!KindOf
  <2>10. CodeTypes'
    BY <1>1, <1>5 DEF SignInv, SignTypes, CodeTypes
  <2>11. ASSUME NEW k \in CodeKeys
         PROVE  CodeFits(k)'
    <3>1. CodeFits(k)
      BY DEF SignInv
    <3>2. CASE k = C!Key(h)
      <4>1. k \in raced \/ cached.code # proved[k].code
        BY <1>5, <3>1, <3>2 DEF CodeFits, cached
      <4>2. k \in raced => CodeFits(k)'
        BY <1>1 DEF CodeFits
      <4>. QED
        BY <1>1, <1>5, <2>6, <2>7, <3>1, <4>1, <4>2, CodeStays
    <3>3. CASE k # C!Key(h)
      BY <1>1, <1>5, <2>7, <2>9, <3>1, <3>3, CodeStays
    <3>. QED
      BY <3>2, <3>3
  <2>. QED
    BY <1>1, <1>2, <1>5, <2>6, <2>7, <2>8, <2>10, <2>11, CodesTyped, CodeSteps
<1>. QED
  BY <1>1, <1>3, <1>4, <1>5 DEF C!ReadCode, CodeRemoved

LEMMA UseCodeKeeps ==
    ASSUME SignInv, NEW h \in Handlers, C!UseCode(h)
    PROVE  SignInv'
<1>. DEFINE j == customerJob[h]
            k == C!Key(h)
            code == j.code.code
<1>1. /\ j.at = "right" /\ CodeRemoved(k) /\ C!Then(h, j)
      /\ UNCHANGED <<customers, sessions, qr, lastCode, sent, signedIn, late, crowded, cutOff>>
  BY Zenon DEF C!UseCode, C!Proved, C!Proves, C!Proceed, CodeRemoved
<1>2. /\ proved' = [proved EXCEPT ![k] = [code |-> code, times |-> IF @.code = code THEN @.times + 1 ELSE 1]]
      /\ raced' = IF C!Holding(code) # {h} THEN raced \cup {k} ELSE raced
  BY DEF C!UseCode, C!Proved, C!Proves
<1>3. j \in Jobs /\ Holds(j) /\ customerJob \in [Handlers -> Jobs] /\ raced \subseteq raced'
  BY <1>1, <1>2, Facts
<1>4. k \in CodeKeys /\ code \in 1 .. lastCode
  BY <1>1, CodeFacts
<1>5. PICK next \in Calls : <<j.op, j.step, "code", next>> \in Routes
  BY <1>1, CodeFacts
<1>6. /\ next \notin ByCode \cup WithCustomer \cup {"idle", "scan", "open", "qr"}
      /\ Stage(j.at) = "code"
  BY <1>1, <1>5 DEF Routes, ByCode, WithCustomer, Stage, Within
<1>7. /\ customerJob' \in [Handlers -> Jobs] /\ \A g \in Handlers \ {h} : customerJob'[g] = customerJob[g]
      /\ customerJob'[h].at = next /\ customerJob'[h].op = j.op /\ customerJob'[h].token = j.token
  BY <1>1, <1>3, <1>5, <1>6, JobMoves
<1>8. RequestFits(h)'
  BY <1>1, <1>3, <1>5, <1>6, NextFits
<1>9. /\ proved' \in [CodeKeys -> [code : Nat, times : Nat]] /\ \A x \in CodeKeys \ {k} : proved'[x] = proved[x]
      /\ proved'[k].code = code /\ (code # proved[k].code => proved'[k].times = 1)
  <2>1. code \in Nat /\ proved \in [CodeKeys -> [code : Nat, times : Nat]]
    BY <1>4, CodesTyped
  <2>. DEFINE was == proved[k]
              new == [code |-> code, times |-> IF was.code = code THEN was.times + 1 ELSE 1]
  <2>2. was \in [code : Nat, times : Nat]
    BY <1>4, <2>1
  <2>3. proved' = [proved EXCEPT ![k] = new]
    BY <1>2
  <2>. HIDE DEF code
  <2>4. new \in [code : Nat, times : Nat] /\ new.code = code /\ (code # was.code => new.times = 1)
    BY <2>1, <2>2
  <2>. HIDE DEF new
  <2>. QED
    BY <1>4, <2>1, <2>3, <2>4
<1>10. /\ codes' \in [CodeKeys -> [code : Nat, attempts : 0 .. MaxAttempts]]
       /\ \A x \in CodeKeys : codes'[x] = IF x = k THEN C!NoCode ELSE codes[x]
  BY <1>1, CodesTyped DEF CodeRemoved
<1>11. CodeTypes'
  <2>1. \A x \in CodeKeys : codes'[x].code <= lastCode /\ proved'[x].code <= lastCode
    BY <1>4, <1>9, <1>10, CodesTyped
  <2>. QED
    BY <1>1, <1>9, <1>10, <2>1, CodesTyped DEF CodeTypes
<1>12. ASSUME NEW x \in CodeKeys
       PROVE  CodeFits(x)'
  <2>1. CodeFits(x)
    BY DEF SignInv
  <2>2. CASE x # k
    BY <1>1, <1>3, <1>6, <1>7, <1>9, <1>10, <2>1, <2>2, CodeStays
  <2>3. CASE x = k
    <3>. SUFFICES ASSUME x \notin raced'
                  PROVE  CodeFits(x)'
      BY DEF CodeFits
    <3>1. x \notin raced /\ C!Holding(code) = {h}
      BY <1>2, <1>3, <2>3
    <3>2. code # proved[x].code
      BY <1>1, <2>1, <2>3, <3>1 DEF CodeFits, ByCode
    <3>3. proved'[x].code = code /\ proved'[x].times = 1 /\ codes'[x].code = 0
      BY <1>9, <1>10, <2>3, <3>2, CodesTyped
    <3>4. \A g \in Handlers : customerJob'[g].at \in ByCode => customerJob'[g].code.code # code
      BY <1>6, <1>7, <3>1 DEF C!Holding, ByCode
    <3>. HIDE DEF code
    <3>. QED
      BY <3>3, <3>4 DEF CodeFits
  <2>. QED
    BY <2>2, <2>3
<1>. QED
  BY <1>1, <1>3, <1>6, <1>7, <1>8, <1>11, <1>12, CodesTyped, CodeSteps

LEMMA CountAttemptKeeps ==
    ASSUME SignInv, NEW h \in Handlers, C!CountAttempt(h)
    PROVE  SignInv'
<1>. DEFINE j == customerJob[h]
            k == C!Key(h)
            new == IF j.op = "resetPassword" THEN C!NoCode ELSE [j.code EXCEPT !.attempts = @ + 1]
<1>1. /\ j.at = "wrong" /\ C!Stop(h) /\ codes' = [codes EXCEPT ![k] = new]
      /\ raced' = IF codes[k] # j.code THEN raced \cup {k} ELSE raced
      /\ UNCHANGED <<customers, sessions, qr, lastCode, sent, proved, signedIn, late, crowded, cutOff>>
  BY DEF C!CountAttempt
<1>2. /\ j \in Jobs /\ customerJob \in [Handlers -> Jobs] /\ raced \subseteq raced' /\ k \in CodeKeys
      /\ j.code \in [code : Nat, attempts : Nat] /\ j.code.code \in 1 .. lastCode /\ j.code.attempts < MaxAttempts
  BY <1>1, Facts, CodeFacts
<1>3. /\ new \in [code : Nat, attempts : 0 .. MaxAttempts] /\ new.code <= lastCode
      /\ new.code = 0 \/ new.code = j.code.code
  BY <1>2, CodesTyped
<1>4. /\ \A g \in Handlers \ {h} : customerJob'[g] = customerJob[g]
      /\ customerJob'[h].at = "idle" /\ "idle" \notin ByCode
  BY <1>1, <1>2, NoRequest DEF C!Stop, ByCode
<1>. HIDE DEF new
<1>5. /\ codes' \in [CodeKeys -> [code : Nat, attempts : 0 .. MaxAttempts]]
      /\ \A x \in CodeKeys : codes'[x] = IF x = k THEN new ELSE codes[x]
  BY <1>1, <1>2, <1>3, CodesTyped
<1>6. CodeTypes'
  <2>1. \A x \in CodeKeys : codes'[x].code <= lastCode
    BY <1>3, <1>5, CodesTyped
  <2>. QED
    BY <1>1, <1>5, <2>1, CodesTyped DEF CodeTypes
<1>7. ASSUME NEW x \in CodeKeys
      PROVE  CodeFits(x)'
  <2>1. CodeFits(x)
    BY DEF SignInv
  <2>2. CASE x # k
    BY <1>1, <1>2, <1>4, <1>5, <2>1, <2>2, CodeStays
  <2>3. CASE x = k /\ new.code = 0
    BY <1>1, <1>2, <1>4, <1>5, <2>1, <2>3, CodeStays
  <2>4. CASE x = k /\ new.code = j.code.code
    <3>. SUFFICES ASSUME x \notin raced'
                  PROVE  CodeFits(x)'
      BY DEF CodeFits
    <3>1. x \notin raced /\ codes[x] = j.code
      BY <1>1, <1>2, <2>4
    <3>2. codes'[x].code = codes[x].code
      BY <1>2, <1>5, <2>4, <3>1
    <3>3. \A g \in Handlers \ {h} : C!Key(g)' = C!Key(g)
      BY <1>4 DEF C!Key, C!KindOf
    <3>. QED
      BY <1>1, <1>4, <2>1, <3>1, <3>2, <3>3 DEF CodeFits
  <2>. QED
    BY <1>3, <2>2, <2>3, <2>4
<1>. QED
  BY <1>1, <1>2, <1>6, <1>7, CodeEnds

LEMMA CacheExpiresKeeps ==
    ASSUME SignInv, C!CacheExpires
    PROVE  SignInv'
<1>1. UNCHANGED <<customers, sessions, customerJob, lastCode, sent, proved, signedIn, late, crowded, raced, cutOff>>
  BY DEF C!CacheExpires, C!historyVars
<1>2. PICK h : h \notin Handlers
  BY NoSetContainsEverything
<1>3. customerJob \in [Handlers -> Jobs] /\ qr \in [Tokens -> Statuses] /\ lastCode \in Nat
  BY DEF SignInv, SignTypes, StoreTypes
<1>4. ASSUME NEW k \in DOMAIN codes, CodeRemoved(k), UNCHANGED qr
      PROVE  SignInv'
  <2>1. k \in CodeKeys
    BY CodesTyped
  <2>2. CodeTypes' /\ \A x \in CodeKeys : codes'[x] = codes[x] \/ codes'[x].code = 0
    BY <1>1, <1>4, <2>1, RemovedCode
  <2>3. \A x \in CodeKeys : CodeFits(x)'
    BY <1>1, <1>2, <2>2, CodeStays DEF SignInv
  <2>. QED
    BY <1>1, <1>2, <1>3, <1>4, <2>2, <2>3, CodeSteps
<1>5. ASSUME NEW u \in Tokens, Put(u, "none"), UNCHANGED codes
      PROVE  SignInv'
  <2>1. qr' \in [Tokens -> Statuses] /\ \A t \in Tokens : qr'[t] \in {qr[t], "none"}
    BY <1>3, <1>5 DEF Put, Statuses
  <2>2. \A t \in Tokens : TokenFits(t)'
    BY <1>1, <1>2, <2>1, TokensStay DEF SignInv, Past
  <2>. QED
    BY <1>1, <1>2, <1>3, <1>5, <2>1, <2>2, TokenSteps
<1>. QED
  BY <1>4, <1>5 DEF C!CacheExpires, CodeRemoved, Put

LEMMA SetPasswordKeeps ==
    ASSUME SignInv, NEW h \in Handlers, C!SetPassword(h)
    PROVE  SignInv'
<1>. DEFINE j == customerJob[h]
            c == j.c
            new == [customers[c] EXCEPT !.pw = lastCode + 1]
<1>1. /\ j.at = "password" /\ C!Then(h, j) /\ lastCode' = lastCode + 1
      /\ customers' = [customers EXCEPT ![c].pw = lastCode + 1]
      /\ UNCHANGED <<sessions, codes, qr, sent, proved, signedIn, late, crowded, raced, cutOff>>
  BY Zenon DEF C!SetPassword, C!Proceed, C!historyVars
<1>2. /\ j \in Jobs /\ Holds(j) /\ OnRoute(j) /\ customerJob \in [Handlers -> Jobs] /\ lastCode \in Nat
      /\ c \in DOMAIN customers /\ Stage(j.at) = "password"
  BY <1>1, Facts DEF WithCustomer, Stage, Within
<1>3. PICK next \in Calls : <<j.op, j.step, "password", next>> \in Routes
  BY <1>1, <1>2, StepAt
<1>4. next = "clear" /\ j.op \in C!PasswordOps /\ j.op # "verifyQr"
  BY <1>3 DEF Routes, C!PasswordOps
<1>5. /\ customerJob' \in [Handlers -> Jobs] /\ \A g \in Handlers \ {h} : customerJob'[g] = customerJob[g]
      /\ customerJob'[h].at = "clear" /\ customerJob'[h].op = j.op /\ customerJob'[h].c = c
  BY <1>1, <1>2, <1>3, <1>4, JobMoves
<1>6. /\ customers \in Seq(CustomerRecords) /\ \A d \in DOMAIN customers : customers[d].pw <= lastCode /\ customers[d].pw \in Nat
  BY Facts, CustomersAre DEF CustomerRecords
<1>7. new \in CustomerRecords /\ new.pw = lastCode + 1
  BY <1>2, CustomersAre DEF CustomerRecords
<1>8. Written(c, new)
  BY <1>1 DEF Written
<1>. HIDE DEF new, c
<1>9. /\ DOMAIN customers' = DOMAIN customers /\ customers'[c] = new /\ customers' \in Seq(CustomerRecords)
      /\ \A d \in DOMAIN customers \ {c} : customers'[d] = customers[d]
  BY <1>2, <1>6, <1>7, <1>8 DEF Written
<1>10. RequestFits(h)'
  BY <1>1, <1>2, <1>3, <1>4, <1>9, NextFits DEF c
<1>11. SignTypes'
  <2>1. \A d \in DOMAIN customers' : customers'[d].pw <= lastCode'
    <3>. SUFFICES ASSUME NEW d \in DOMAIN customers
                  PROVE  customers'[d].pw <= lastCode'
      BY <1>9
    <3>1. CASE d = c
      <4>1. customers'[d].pw = lastCode + 1
        BY <1>7, <1>9, <3>1
      <4>. QED
        BY <1>1, <1>2, <4>1
    <3>2. CASE d # c
      BY <1>1, <1>2, <1>6, <1>9, <3>2
    <3>. QED
      BY <3>1, <3>2
  <2>2. StoreTypes /\ CodeTypes
    BY DEF SignInv, SignTypes
  <2>3. StoreTypes'
    BY <1>1, <1>2, <1>9, <2>1, <2>2 DEF StoreTypes
  <2>4. CodeTypes'
    BY <1>1, <1>2, <2>2 DEF CodeTypes
  <2>. QED
    BY <1>1, <1>5, <2>3, <2>4 DEF SignInv, SignTypes
<1>12. \A g \in Handlers : RequestFits(g)'
  <2>1. lastCode' \in Nat /\ lastCode <= lastCode' /\ DOMAIN customers \subseteq DOMAIN customers'
    BY <1>1, <1>2, <1>9
  <2>. QED
    BY <1>2, <1>5, <1>10, <2>1, OthersFit DEF SignInv
<1>13. \A d : OneRow(d)'
  BY <1>1, <1>5, RowsStay DEF SignInv
<1>14. C!OldSessionsEnd'
  <2>. SUFFICES ASSUME NEW s \in sessions'
                PROVE  (\/ s.pw = customers[s.customer].pw
                        \/ s.id \in late \/ s.customer \in cutOff
                        \/ \E g \in Handlers : /\ customerJob[g].op \in C!PasswordOps /\ customerJob[g].at = "clear"
                                               /\ customerJob[g].c = s.customer)'
    BY DEF C!OldSessionsEnd
  <2>1. s \in sessions /\ s.customer \in DOMAIN customers
    BY <1>1 DEF SignInv, SignTypes, StoreTypes
  <2>2. CASE s.customer = c
    BY <1>4, <1>5, <2>2 DEF C!PasswordOps
  <2>3. CASE s.customer # c
    <3>1. \/ s.pw = customers[s.customer].pw
          \/ s.id \in late \/ s.customer \in cutOff
          \/ \E g \in Handlers \ {h} : /\ customerJob[g].op \in C!PasswordOps /\ customerJob[g].at = "clear"
                                       /\ customerJob[g].c = s.customer
      BY <1>1, <2>1 DEF C!OldSessionsEnd, SignInv
    <3>. QED
      BY <1>1, <1>5, <1>9, <2>1, <2>3, <3>1 DEF C!PasswordOps
  <2>. QED
    BY <2>2, <2>3
<1>15. \A t \in Tokens : TokenFits(t)'
  BY <1>1, <1>4, <1>5, TokensStay DEF SignInv, Past
<1>16. \A k \in CodeKeys : CodeFits(k)'
  BY <1>1, <1>5, CodesStay DEF SignInv, ByCode
<1>. QED
  BY <1>11, <1>12, <1>13, <1>14, <1>15, <1>16 DEF SignInv

LEMMA ClearSessionsKeeps ==
    ASSUME SignInv, NEW h \in Handlers, C!ClearSessions(h)
    PROVE  SignInv'
<1>. DEFINE j == customerJob[h]
            c == j.c
<1>1. /\ j.at = "clear" /\ C!Then(h, j) /\ sessions' = sessions \ C!RowsOf(c)
      /\ UNCHANGED <<customers, codes, qr, lastCode, sent, proved, signedIn, late, crowded, raced, cutOff>>
  BY Zenon DEF C!ClearSessions, C!Proceed, C!Keep, C!historyVars
<1>2. /\ j \in Jobs /\ Holds(j) /\ OnRoute(j) /\ customerJob \in [Handlers -> Jobs] /\ lastCode \in Nat
      /\ c \in DOMAIN customers /\ Stage(j.at) = "clear"
  BY <1>1, Facts DEF WithCustomer, Stage, Within
<1>3. PICK next \in Calls : <<j.op, j.step, "clear", next>> \in Routes
  BY <1>1, <1>2, StepAt
<1>4. next \in {"open", "idle"}
  BY <1>3 DEF Routes
<1>5. /\ customerJob' \in [Handlers -> Jobs] /\ \A g \in Handlers \ {h} : customerJob'[g] = customerJob[g]
      /\ customerJob'[h].at = next
      /\ next = "open" => customerJob'[h].c = c /\ customerJob'[h].op = j.op /\ customerJob'[h].token = j.token
      /\ next = "idle" => customerJob'[h].op = "none"
  BY <1>1, <1>2, <1>3, <1>4, JobMoves, NoRequest
<1>6. RequestFits(h)'
  BY <1>1, <1>2, <1>3, <1>4, NextFits
<1>7. SignTypes'
  <2>1. StoreTypes /\ CodeTypes
    BY DEF SignInv, SignTypes
  <2>2. StoreTypes' /\ CodeTypes'
    BY <1>1, <2>1 DEF StoreTypes, CodeTypes
  <2>. QED
    BY <1>1, <1>5, <2>2 DEF SignInv, SignTypes
<1>8. \A g \in Handlers : RequestFits(g)'
  BY <1>1, <1>2, <1>5, <1>6, OthersFit DEF SignInv
<1>9. ASSUME NEW d
      PROVE  OneRow(d)'
  <2>1. OneRow(d)
    BY DEF SignInv
  <2>2. CASE d = c
    <3>1. C!RowsOf(d)' = {}
      BY <1>1, <2>2 DEF C!RowsOf
    <3>. QED
      BY <3>1 DEF OneRow
  <2>3. CASE d # c
    <3>1. C!RowsOf(d)' \subseteq C!RowsOf(d)
      BY <1>1 DEF C!RowsOf
    <3>2. ~(customerJob'[h].at = "open" /\ customerJob'[h].c = d)
      BY <1>4, <1>5, <2>3
    <3>. QED
      BY <1>1, <1>5, <2>1, <3>1, <3>2 DEF OneRow
  <2>. QED
    BY <2>2, <2>3
<1>10. C!OldSessionsEnd'
  <2>. SUFFICES ASSUME NEW s \in sessions'
                PROVE  (\/ s.pw = customers[s.customer].pw
                        \/ s.id \in late \/ s.customer \in cutOff
                        \/ \E g \in Handlers : /\ customerJob[g].op \in C!PasswordOps /\ customerJob[g].at = "clear"
                                               /\ customerJob[g].c = s.customer)'
    BY DEF C!OldSessionsEnd
  <2>1. s \in sessions /\ s.customer # c
    BY <1>1 DEF C!RowsOf
  <2>2. \/ s.pw = customers[s.customer].pw
        \/ s.id \in late \/ s.customer \in cutOff
        \/ \E g \in Handlers \ {h} : /\ customerJob[g].op \in C!PasswordOps /\ customerJob[g].at = "clear"
                                     /\ customerJob[g].c = s.customer
    BY <2>1 DEF C!OldSessionsEnd, SignInv
  <2>. QED
    BY <1>1, <1>5, <2>2 DEF C!PasswordOps
<1>11. \A t \in Tokens : TokenFits(t)'
  <2>1. \A t : h \in Past(t)' => h \in Past(t)
    BY <1>1, <1>4, <1>5 DEF Past
  <2>. QED
    BY <1>1, <1>4, <1>5, <2>1, TokensStay DEF SignInv
<1>12. \A k \in CodeKeys : CodeFits(k)'
  BY <1>1, <1>4, <1>5, CodesStay DEF SignInv, ByCode
<1>. QED
  BY <1>7, <1>8, <1>9, <1>10, <1>11, <1>12 DEF SignInv

LEMMA OpenSessionKeeps ==
    ASSUME SignInv, NEW h \in Handlers, C!OpenSession(h)
    PROVE  SignInv'
<1>. DEFINE j == customerJob[h]
            c == j.c
            u == j.token
            row == [id |-> lastCode + 1, customer |-> c, pw |-> IF j.op = "login" THEN j.pw ELSE customers[c].pw]
<1>1. /\ j.at = "open" /\ C!Then(h, j) /\ sessions' = sessions \cup {row} /\ lastCode' = lastCode + 1
      /\ crowded' = IF \E g \in Handlers \ {h} : customerJob[g].at = "open" /\ customerJob[g].c = c
                    THEN crowded \cup {c} ELSE crowded
      /\ late' = IF row.pw # customers[c].pw THEN late \cup {row.id} ELSE late
      /\ signedIn' = IF j.op = "verifyQr" THEN [signedIn EXCEPT ![u] = @ + 1] ELSE signedIn
      /\ UNCHANGED <<customers, codes, qr, sent, proved, raced, cutOff>>
  BY DEF C!OpenSession, C!Proceed
<1>2. /\ j \in Jobs /\ Holds(j) /\ OnRoute(j) /\ customerJob \in [Handlers -> Jobs] /\ lastCode \in Nat
      /\ c \in DOMAIN customers /\ Stage(j.at) = "open"
  BY <1>1, Facts DEF WithCustomer, Stage, Within
<1>3. PICK next \in Calls : <<j.op, j.step, "open", next>> \in Routes
  BY <1>1, <1>2, StepAt
<1>4. /\ next \in {"save", "qr", "idle"} /\ (j.op = "verifyQr") = (next = "qr") /\ j.op \notin C!PasswordOps
      /\ next \notin ByCode
  BY <1>3 DEF Routes, C!PasswordOps, ByCode
<1>5. /\ customerJob' \in [Handlers -> Jobs] /\ \A g \in Handlers \ {h} : customerJob'[g] = customerJob[g]
      /\ customerJob'[h].at = next
      /\ next # "idle" => customerJob'[h].op = j.op /\ customerJob'[h].token = u
      /\ next = "idle" => customerJob'[h].op = "none"
  BY <1>1, <1>2, <1>3, JobMoves, NoRequest
<1>6. RequestFits(h)'
  BY <1>1, <1>2, <1>3, <1>4, NextFits
<1>7. row.id = lastCode + 1 /\ row.customer = c /\ (row.pw = customers[c].pw \/ row.id \in late')
      /\ crowded \subseteq crowded' /\ late \subseteq late' /\ lastCode' \in Nat /\ lastCode <= lastCode'
  BY <1>1, <1>2
<1>. HIDE DEF row
<1>8. j.op = "verifyQr" => u \in Tokens
  BY <1>2 DEF Holds
<1>9. signedIn \in [Tokens -> Nat]
  BY DEF SignInv, SignTypes
<1>10. /\ signedIn' \in [Tokens -> Nat]
       /\ \A t \in Tokens : ~(j.op = "verifyQr" /\ t = u) => signedIn'[t] = signedIn[t]
       /\ j.op = "verifyQr" => signedIn'[u] = signedIn[u] + 1
  BY <1>1, <1>8, <1>9
<1>11. SignTypes'
  <2>1. StoreTypes /\ CodeTypes
    BY DEF SignInv, SignTypes
  <2>2. \A d \in DOMAIN customers : customers[d].pw \in Nat
    BY CustomersAre DEF CustomerRecords
  <2>3. StoreTypes'
    BY <1>1, <1>2, <1>7, <2>1, <2>2 DEF StoreTypes
  <2>4. CodeTypes'
    BY <1>1, <1>2, <2>1 DEF CodeTypes
  <2>. QED
    BY <1>1, <1>5, <1>10, <2>3, <2>4 DEF SignInv, SignTypes
<1>12. \A g \in Handlers : RequestFits(g)'
  BY <1>1, <1>2, <1>5, <1>6, <1>7, OthersFit DEF SignInv
<1>13. ASSUME NEW d
       PROVE  OneRow(d)'
  <2>1. OneRow(d)
    BY DEF SignInv
  <2>2. CASE d # c
    <3>1. C!RowsOf(d)' = C!RowsOf(d)
      BY <1>1, <1>7, <2>2 DEF C!RowsOf
    <3>. QED
      BY <1>4, <1>5, <1>7, <2>1, <3>1 DEF OneRow
  <2>3. CASE d = c
    <3>. SUFFICES ASSUME d \notin crowded'
                  PROVE  OneRow(d)'
      BY DEF OneRow
    <3>1. d \notin crowded /\ \A g \in Handlers \ {h} : ~(customerJob[g].at = "open" /\ customerJob[g].c = c)
      BY <1>1, <2>3
    <3>2. C!RowsOf(d) = {}
      BY <1>1, <2>1, <2>3, <3>1 DEF OneRow
    <3>3. C!RowsOf(d)' \subseteq {row}
      BY <1>1, <3>2 DEF C!RowsOf
    <3>4. \A g \in Handlers : ~(customerJob'[g].at = "open" /\ customerJob'[g].c = c)
      BY <1>4, <1>5, <3>1
    <3>. QED
      BY <2>3, <3>3, <3>4 DEF OneRow
  <2>. QED
    BY <2>2, <2>3
<1>14. C!OldSessionsEnd'
  <2>. SUFFICES ASSUME NEW s \in sessions'
                PROVE  (\/ s.pw = customers[s.customer].pw
                        \/ s.id \in late \/ s.customer \in cutOff
                        \/ \E g \in Handlers : /\ customerJob[g].op \in C!PasswordOps /\ customerJob[g].at = "clear"
                                               /\ customerJob[g].c = s.customer)'
    BY DEF C!OldSessionsEnd
  <2>1. CASE s = row
    BY <1>1, <1>7, <2>1
  <2>2. CASE s \in sessions
    <3>1. \/ s.pw = customers[s.customer].pw
          \/ s.id \in late \/ s.customer \in cutOff
          \/ \E g \in Handlers \ {h} : /\ customerJob[g].op \in C!PasswordOps /\ customerJob[g].at = "clear"
                                       /\ customerJob[g].c = s.customer
      BY <1>1, <2>2 DEF C!OldSessionsEnd, SignInv
    <3>. QED
      BY <1>1, <1>5, <1>7, <3>1 DEF C!PasswordOps
  <2>. QED
    BY <1>1, <2>1, <2>2
<1>15. ASSUME NEW t \in Tokens
       PROVE  TokenFits(t)'
  <2>1. TokenFits(t)
    BY DEF SignInv
  <2>2. CASE j.op = "verifyQr" /\ t = u
    <3>. SUFFICES ASSUME t \notin raced'
                  PROVE  TokenFits(t)'
      BY DEF TokenFits
    <3>1. h \in Past(t) /\ t \notin raced
      BY <1>1, <2>2 DEF Past
    <3>2. signedIn[t] = 0 /\ \A g \in Past(t) : g = h
      BY <1>1, <2>1, <3>1 DEF TokenFits
    <3>3. customerJob'[h].at = "qr" /\ h \in Past(t)' /\ Past(t)' \subseteq {h}
      BY <1>4, <1>5, <2>2, <3>2 DEF Past
    <3>4. signedIn'[t] = 1
      BY <1>10, <2>2, <3>2
    <3>. QED
      BY <3>3, <3>4 DEF TokenFits
  <2>3. CASE ~(j.op = "verifyQr" /\ t = u)
    <3>1. h \notin Past(t) /\ ~(h \in Past(t)')
      BY <1>4, <1>5, <2>3 DEF Past
    <3>. QED
      BY <1>1, <1>5, <1>10, <2>1, <2>3, <3>1, TokenStays
  <2>. QED
    BY <2>2, <2>3
<1>16. \A k \in CodeKeys : CodeFits(k)'
  BY <1>1, <1>4, <1>5, CodesStay DEF SignInv
<1>. QED
  BY <1>11, <1>12, <1>13, <1>14, <1>15, <1>16 DEF SignInv

LEMMA CustomerCrashKeeps ==
    ASSUME SignInv, NEW h \in Handlers, C!Crash(h)
    PROVE  SignInv'
<1>1. /\ C!Stop(h) /\ UNCHANGED <<customers, sessions, codes, qr, lastCode, sent, proved, signedIn, late, crowded>>
      /\ cutOff' = IF customerJob[h].at = "clear" /\ customerJob[h].op \in C!PasswordOps
                   THEN cutOff \cup {customerJob[h].c} ELSE cutOff
      /\ raced' = IF customerJob[h].at = "qr" THEN raced \cup {customerJob[h].token} ELSE raced
  BY DEF C!Crash, C!storeVars
<1>. QED
  BY <1>1, Ends

\* A write of the cache is lost.
LEMMA LoseAnswerKeeps ==
    ASSUME SignInv, NEW h \in Handlers, C!LoseAnswer(h)
    PROVE  SignInv'
<1>1. /\ C!Stop(h) /\ UNCHANGED <<customers, sessions, codes, qr, lastCode, sent, proved, signedIn, late, crowded, cutOff>>
      /\ raced' = IF customerJob[h].at = "qr" THEN raced \cup {customerJob[h].token} ELSE raced
      /\ customerJob[h].at # "clear"
  BY DEF C!LoseAnswer, C!CacheFails
<1>. QED
  BY <1>1, Ends

LEMMA LoseCodeKeeps ==
    ASSUME SignInv, NEW h \in Handlers, C!LoseCode(h)
    PROVE  SignInv'
<1>. DEFINE j == customerJob[h]
<1>1. PICK k : /\ k = IF j.at = "token" THEN <<"reset", j.email>> ELSE C!Key(h)
               /\ sent' = [sent EXCEPT ![k] = lastCode + 1] /\ raced' = raced \cup {k}
  BY DEF C!LoseCode
<1>2. /\ j.at \in {"send", "token"} /\ C!Then(h, j) /\ lastCode' = lastCode + 1
      /\ UNCHANGED <<customers, sessions, codes, qr, proved, signedIn, late, crowded, cutOff>>
  BY DEF C!LoseCode, C!CacheFails, C!Proceed
<1>3. j \in Jobs /\ Holds(j) /\ OnRoute(j) /\ customerJob \in [Handlers -> Jobs] /\ lastCode \in Nat
  BY <1>2, Facts
<1>4. Stage(j.at) \in {"send", "token"}
  BY <1>2 DEF Stage, Within
<1>5. PICK next \in Calls : <<j.op, j.step, Stage(j.at), next>> \in Routes
  BY <1>3, StepAt
<1>6. next = "idle" /\ j.op \in C!ByEmail /\ j.op # "none"
  BY <1>4, <1>5 DEF Routes, C!ByEmail
<1>7. /\ customerJob' \in [Handlers -> Jobs] /\ \A g \in Handlers \ {h} : customerJob'[g] = customerJob[g]
      /\ customerJob'[h].at = "idle" /\ customerJob'[h].op = "none"
  BY <1>2, <1>3, <1>5, <1>6, JobMoves, NoRequest
<1>8. RequestFits(h)' /\ "idle" \notin ByCode
  BY <1>7 DEF RequestFits, ByCode
<1>9. k \in CodeKeys
  BY <1>1, <1>3, <1>6, KeyIs DEF Holds
<1>10. sent' \in [CodeKeys -> Nat] /\ \A x \in CodeKeys \ {k} : sent'[x] = sent[x]
  BY <1>1, <1>3, <1>9, CodesTyped
<1>11. CodeTypes'
  <2>1. \A x \in CodeKeys : codes[x].code <= lastCode' /\ proved[x].code <= lastCode'
    <3>1. \A x \in CodeKeys : /\ codes[x].code \in Nat /\ codes[x].code <= lastCode
                               /\ proved[x].code \in Nat /\ proved[x].code <= lastCode
      BY CodesTyped
    <3>. QED
      BY <1>2, <1>3, <3>1
  <2>. QED
    BY <1>2, <1>10, <2>1, CodesTyped DEF CodeTypes
<1>12. ASSUME NEW x \in CodeKeys
       PROVE  CodeFits(x)'
  <2>1. CodeFits(x)
    BY DEF SignInv
  <2>2. CASE x # k
    BY <1>1, <1>2, <1>7, <1>8, <1>10, <2>1, <2>2, CodeStays
  <2>3. CASE x = k
    BY <1>1, <2>3 DEF CodeFits
  <2>. QED
    BY <2>2, <2>3
<1>. QED
  BY <1>1, <1>2, <1>3, <1>6, <1>7, <1>8, <1>11, <1>12, CodeSteps

LEMMA KeepUsedCodeKeeps ==
    ASSUME SignInv, NEW h \in Handlers, C!KeepUsedCode(h)
    PROVE  SignInv'
<1>. DEFINE j == customerJob[h]
            k == C!Key(h)
            code == j.code.code
            new == [code |-> code, times |-> IF proved[k].code = code THEN proved[k].times + 1 ELSE 1]
<1>1. /\ j.at = "right" /\ C!Then(h, j)
      /\ UNCHANGED <<customers, sessions, codes, qr, lastCode, sent, signedIn, late, crowded, cutOff>>
      /\ raced' = raced \cup {k}
  BY Zenon DEF C!KeepUsedCode, C!CacheFails, C!Proves, C!Proceed
<1>2. proved' = [proved EXCEPT ![k] = new]
  BY DEF C!KeepUsedCode, C!Proves
<1>3. j \in Jobs /\ Holds(j) /\ customerJob \in [Handlers -> Jobs]
  BY <1>1, Facts
<1>4. k \in CodeKeys /\ code \in 1 .. lastCode
  BY <1>1, CodeFacts
<1>5. PICK next \in Calls : <<j.op, j.step, "code", next>> \in Routes
  BY <1>1, CodeFacts
<1>6. next \notin ByCode \cup WithCustomer \cup {"idle", "scan", "open", "qr"} /\ Stage(j.at) = "code"
  BY <1>1, <1>5 DEF Routes, ByCode, WithCustomer, Stage, Within
<1>7. /\ customerJob' \in [Handlers -> Jobs] /\ \A g \in Handlers \ {h} : customerJob'[g] = customerJob[g]
      /\ customerJob'[h].at = next /\ customerJob'[h].op = j.op /\ customerJob'[h].token = j.token
  BY <1>1, <1>3, <1>5, <1>6, JobMoves
<1>8. RequestFits(h)'
  BY <1>1, <1>3, <1>5, <1>6, NextFits
<1>9. new \in [code : Nat, times : Nat] /\ new.code = code
  <2>1. proved[k] \in [code : Nat, times : Nat] /\ code \in Nat
    BY <1>4, CodesTyped
  <2>. HIDE DEF code
  <2>. QED
    BY <2>1
<1>. HIDE DEF new
<1>10. /\ proved' \in [CodeKeys -> [code : Nat, times : Nat]] /\ \A x \in CodeKeys \ {k} : proved'[x] = proved[x]
       /\ proved'[k].code = code
  BY <1>2, <1>4, <1>9, CodesTyped
<1>11. CodeTypes'
  <2>1. \A x \in CodeKeys : codes[x].code <= lastCode /\ proved'[x].code <= lastCode
    BY <1>4, <1>10, CodesTyped
  <2>. QED
    BY <1>1, <1>10, <2>1, CodesTyped DEF CodeTypes
<1>12. ASSUME NEW x \in CodeKeys
       PROVE  CodeFits(x)'
  <2>1. CodeFits(x)
    BY DEF SignInv
  <2>2. CASE x # k
    BY <1>1, <1>6, <1>7, <1>10, <2>1, <2>2, CodeStays
  <2>3. CASE x = k
    BY <1>1, <2>3 DEF CodeFits
  <2>. QED
    BY <2>2, <2>3
<1>. QED
  BY <1>1, <1>3, <1>6, <1>7, <1>8, <1>11, <1>12, CodesTyped, CodeSteps

\* A request begins at the first step of its program.
LEMMA FirstSteps ==
    ASSUME NEW op \in Requests
    PROVE  \E next \in Calls : <<op, 1, C!Program[op][1], next>> \in Routes
<1>1. \E name, next \in Calls : <<op, 1, name, next>> \in Routes
  BY DEF Requests, Calls, Routes
<1>. QED
  BY <1>1, RouteSteps

LEMMA BeginKeeps ==
    ASSUME SignInv, NEW h \in Handlers, NEW op \in Requests, NEW email \in Emails \cup {None},
           NEW zalo \in Zalos \cup {None}, NEW phone \in Phones \cup {None}, NEW token \in Tokens \cup {None},
           NEW c \in Nat, NEW session \in Nat, C!Begin(h, op, email, zalo, phone, token, c, session),
           op \in C!ByEmail => email \in Emails,
           op \in C!ByToken \cup {"verifyQr"} => token \in Tokens,
           op \in C!ByAccount => c \in DOMAIN customers
    PROVE  SignInv'
<1>. DEFINE at == C!Program[op][1]
            new == C!Job(op, at, email, zalo, phone, token, c, session)
<1>1. /\ customerJob[h].at = "idle" /\ customerJob' = [customerJob EXCEPT ![h] = new]
      /\ UNCHANGED <<customers, sessions, codes, qr, lastCode, sent, proved, signedIn, late, crowded, raced, cutOff>>
  BY DEF C!Begin, C!Idle, C!storeVars, C!historyVars
<1>2. PICK next \in Calls : <<op, 1, at, next>> \in Routes
  BY FirstSteps
<1>3. /\ at \in Calls \ {"idle"} /\ at \notin ByCode \cup {"open", "scan", "qr"}
      /\ at \in WithCustomer => op \in C!ByAccount
      /\ op = "verifyQr" => at = "seen"
  <2>1. at \in Calls \ {"idle"}
    BY <1>2, RouteSteps
  <2>. HIDE DEF at
  <2>. QED
    BY <1>2, <2>1 DEF Routes, ByCode, WithCustomer, C!ByAccount
<1>. HIDE DEF at
<1>4. /\ new \in Jobs /\ new.op = op /\ new.at = at /\ new.step = 1 /\ new.email = email /\ new.token = token /\ new.c = c
  BY <1>3 DEF C!Job, Jobs, C!NoCode
<1>. HIDE DEF new
<1>5. customerJob \in [Handlers -> Jobs]
  BY Facts
<1>6. /\ customerJob' \in [Handlers -> Jobs] /\ customerJob'[h] = new
      /\ \A g \in Handlers \ {h} : customerJob'[g] = customerJob[g]
  BY <1>1, <1>4, <1>5
<1>7. RequestFits(h)'
  <2>1. at \in Within(at) /\ at \in Calls
    BY <1>3 DEF Within
  <2>2. OnRoute(new)
    BY <1>2, <1>4, <2>1 DEF OnRoute
  <2>3. Holds(new)
    BY <1>3, <1>4 DEF Holds
  <2>. QED
    BY <1>1, <1>3, <1>4, <1>6, <2>2, <2>3 DEF RequestFits, OnRoute, Holds
<1>8. CustomersGrow
  BY <1>1, CustomersKept
<1>9. \A t : ~(h \in Past(t)')
  BY <1>3, <1>4, <1>6 DEF Past
<1>10. qr' \in [Tokens -> Statuses] /\ \A t \in Tokens : qr'[t] \in {qr[t], "none"}
  BY <1>1, Facts
<1>11. \A t : ~(h \in Past(t) /\ customerJob[h].at = "qr")
  BY <1>1
<1>. QED
  BY <1>1, <1>3, <1>4, <1>6, <1>7, <1>8, <1>9, <1>10, <1>11, QuietKeeps DEF CustomersGrow

LEMMA CustomerRequestKeeps ==
    ASSUME SignInv, NEW h \in Handlers, C!Request(h)
    PROVE  SignInv'
<1>1. \A s \in sessions : s.customer \in DOMAIN customers /\ s.customer \in Nat /\ s.id \in Nat
  <2>1. lastCode \in Nat /\ \A s \in sessions : s.customer \in DOMAIN customers /\ s.id \in 1 .. lastCode
    BY DEF SignInv, SignTypes, StoreTypes
  <2>. QED
    BY <2>1, CustomersAre
<1>2. CASE \E op \in C!ByEmail, e \in Emails : C!Begin(h, op, e, None, None, None, 0, 0)
  <2>1. PICK op \in C!ByEmail, e \in Emails : C!Begin(h, op, e, None, None, None, 0, 0)
    BY <1>2
  <2>2. op \in Requests /\ op \notin C!ByToken \cup {"verifyQr"} /\ op \notin C!ByAccount
    BY DEF C!ByEmail, Requests, C!ByToken, C!ByAccount
  <2>. QED
    BY <2>1, <2>2, BeginKeeps
<1>3. CASE \E op \in C!ByZalo, z \in Zalos, p \in Phones \cup {None}, t \in Tokens :
               C!Begin(h, op, None, z, p, t, 0, 0)
  <2>1. PICK op \in C!ByZalo, z \in Zalos, p \in Phones \cup {None}, t \in Tokens :
               C!Begin(h, op, None, z, p, t, 0, 0)
    BY <1>3
  <2>2. op \in Requests /\ op \notin C!ByEmail /\ op \notin C!ByAccount
    BY DEF C!ByZalo, Requests, C!ByEmail, C!ByAccount
  <2>. QED
    BY <2>1, <2>2, BeginKeeps
<1>4. CASE \E op \in C!ByToken, t \in Tokens : C!Begin(h, op, None, None, None, t, 0, 0)
  <2>1. PICK op \in C!ByToken, t \in Tokens : C!Begin(h, op, None, None, None, t, 0, 0)
    BY <1>4
  <2>2. op \in Requests /\ op \notin C!ByEmail /\ op \notin C!ByAccount
    BY DEF C!ByToken, Requests, C!ByEmail, C!ByAccount
  <2>. QED
    BY <2>1, <2>2, BeginKeeps
<1>5. CASE \E op \in C!ByAccount : \E s \in sessions :
               s.customer \in C!Saved /\ C!Begin(h, op, None, None, None, None, s.customer, 0)
  <2>1. PICK op \in C!ByAccount : \E s \in sessions :
               s.customer \in C!Saved /\ C!Begin(h, op, None, None, None, None, s.customer, 0)
    BY <1>5
  <2>2. PICK s \in sessions : C!Begin(h, op, None, None, None, None, s.customer, 0)
    BY <2>1
  <2>3. op \in Requests /\ op \notin C!ByEmail /\ op \notin C!ByToken \cup {"verifyQr"}
    BY DEF C!ByToken, Requests, C!ByEmail, C!ByAccount
  <2>. QED
    BY <1>1, <2>2, <2>3, BeginKeeps
<1>6. CASE \E s \in sessions : C!Begin(h, "logout", None, None, None, None, 0, s.id)
  <2>1. PICK s \in sessions : C!Begin(h, "logout", None, None, None, None, 0, s.id)
    BY <1>6
  <2>2. /\ "logout" \in Requests /\ "logout" \notin C!ByEmail /\ "logout" \notin C!ByToken \cup {"verifyQr"}
        /\ "logout" \notin C!ByAccount
    BY DEF C!ByToken, Requests, C!ByEmail, C!ByAccount
  <2>. QED
    BY <1>1, <2>1, <2>2, BeginKeeps
<1>. QED
  BY <1>2, <1>3, <1>4, <1>5, <1>6 DEF C!Request

LEMMA SignInsNext ==
    ASSUME SignInv, C!Next
    PROVE  SignInv'
<1>1. ASSUME NEW h \in Handlers, C!Step(h)
      PROVE  SignInv'
  BY <1>1, FindByEmailKeeps, FindOwnKeeps, RegisterKeeps, FindByZaloKeeps, FindByPhoneKeeps, LinkZaloKeeps,
     InsertZaloKeeps, CheckActiveKeeps, FindByGoogleKeeps, SaveGoogleKeeps, ClearSessionsKeeps, OpenSessionKeeps,
     DropSessionKeeps, SetPasswordKeeps, SetActiveKeeps, SendCodeKeeps, ReadCodeKeeps, UseCodeKeeps,
     CountAttemptKeeps, GiveResetTokenKeeps, AnswerQrKeeps, ReadQrKeeps, ScanQrKeeps, TakeQrKeeps,
     KeepUsedCodeKeeps, LoseCodeKeeps, LoseAnswerKeeps DEF C!Step
<1>. QED
  BY <1>1, CustomerRequestKeeps, CustomerCrashKeeps, CacheExpiresKeeps, GenerateQrKeeps DEF C!Next

LEMMA SignInsRest ==
    ASSUME SignInv, UNCHANGED customerVars
    PROVE  SignInv'
<1>1. UNCHANGED <<customers, sessions, codes, qr, customerJob, lastCode, sent, proved, signedIn, late, crowded, raced, cutOff>>
  BY DEF customerVars
<1>2. PICK h : h \notin Handlers
  BY NoSetContainsEverything
<1>3. customerJob \in [Handlers -> Jobs] /\ qr \in [Tokens -> Statuses]
  BY DEF SignInv, SignTypes
<1>4. \A t \in Tokens : TokenFits(t)'
  BY <1>1, <1>2, TokensStay DEF SignInv, Past
<1>. QED
  BY <1>1, <1>2, <1>3, <1>4, TokenSteps

LEMMA SignInsFirst == Init => SignInv
<1>. SUFFICES ASSUME Init
              PROVE  SignInv
  OBVIOUS
<1>1. PICK start \in CustomerStarts :
        /\ customers = start.customers /\ lastCode = Len(start.customers)
        /\ sessions = {[id |-> c, customer |-> c, pw |-> customers[c].pw] : c \in DOMAIN customers}
  BY DEF Init, C!Init
<1>2. /\ codes = [k \in CodeKeys |-> C!NoCode] /\ qr = [t \in Tokens |-> "unissued"]
      /\ customerJob = [h \in Handlers |-> C!NoJob]
      /\ sent = [k \in CodeKeys |-> 0] /\ proved = [k \in CodeKeys |-> [code |-> 0, times |-> 0]]
      /\ signedIn = [t \in Tokens |-> 0]
  BY DEF Init, C!Init, CodeKeys
<1>3. /\ customers \in Seq(CustomerRecords) /\ \A c \in DOMAIN customers : customers[c].pw <= lastCode
  BY <1>1, CustomerAssumption DEF CustomerRecords
<1>4. /\ lastCode \in Nat /\ DOMAIN customers = 1 .. lastCode
  BY <1>1, <1>3
<1>5. \A s \in sessions : /\ s.customer \in DOMAIN customers /\ s.id \in 1 .. lastCode
                          /\ s.pw = customers[s.customer].pw
  BY <1>1, <1>4
<1>6. \A h \in Handlers : customerJob[h] \in Jobs /\ customerJob[h].at = "idle" /\ customerJob[h].op = "none"
  BY <1>2, NoRequest
<1>7. SignTypes
  <2>1. StoreTypes
    BY <1>3, <1>4, <1>5 DEF StoreTypes
  <2>2. MaxAttempts \in Nat /\ C!NoCode \in [code : Nat, attempts : 0 .. MaxAttempts] /\ C!NoCode.code = 0
    BY CustomerAssumption DEF C!NoCode
  <2>3. CodeTypes
    BY <1>2, <1>4, <2>2 DEF CodeTypes
  <2>4. qr \in [Tokens -> Statuses] /\ customerJob \in [Handlers -> Jobs] /\ signedIn \in [Tokens -> Nat]
    BY <1>2, NoRequest DEF Statuses
  <2>. QED
    BY <2>1, <2>3, <2>4 DEF SignTypes
<1>8. \A h \in Handlers : RequestFits(h)
  BY <1>6 DEF RequestFits
<1>9. \A c : OneRow(c)
  BY <1>1, <1>6 DEF OneRow, C!RowsOf
<1>10. C!OldSessionsEnd
  BY <1>5 DEF C!OldSessionsEnd
<1>11. \A t \in Tokens : TokenFits(t)
  BY <1>2, <1>6 DEF TokenFits, Past
<1>12. \A k \in CodeKeys : CodeFits(k)
  BY <1>2, <1>6 DEF CodeFits, C!NoCode, ByCode
<1>. QED
  BY <1>7, <1>8, <1>9, <1>10, <1>11, <1>12 DEF SignInv

\* CustomerSessions has a copy of FiniteSets.
LEMMA SameCount ==
    ASSUME NEW s
    PROVE  C!Cardinality(s) = Cardinality(s)
BY DEF C!Cardinality, Cardinality, C!IsFiniteSet, IsFiniteSet

\* What the invariant says of sign-ins and of proofs.
LEMMA SignInsMean == SignInv => C!OneSession /\ C!OldSessionsEnd
<1>. SUFFICES ASSUME SignInv
              PROVE  C!OneSession
  BY DEF SignInv
<1>1. C!TypeOK
  <2>1. \A c \in DOMAIN customers :
          /\ customers[c].email \in Emails \cup {None} /\ customers[c].zalo \in Zalos \cup {None}
          /\ customers[c].pw \in 0 .. lastCode
    <3>. SUFFICES ASSUME NEW c \in DOMAIN customers
                  PROVE  /\ customers[c].email \in Emails \cup {None} /\ customers[c].zalo \in Zalos \cup {None}
                         /\ customers[c].pw \in 0 .. lastCode
      OBVIOUS
    <3>1. customers[c] \in CustomerRecords /\ customers[c].pw <= lastCode /\ lastCode \in Nat
      BY CustomersAre DEF SignInv, SignTypes, StoreTypes
    <3>. QED
      BY <3>1 DEF CustomerRecords
  <2>2. \A s \in sessions : s.customer \in DOMAIN customers /\ s.id \in 1 .. lastCode
    BY DEF SignInv, SignTypes, StoreTypes
  <2>3. \A k \in DOMAIN codes : codes[k].attempts \in 0 .. MaxAttempts
    BY CodesTyped
  <2>4. \A t \in Tokens : qr[t] \in Statuses
    BY DEF SignInv, SignTypes
  <2>. QED
    BY <2>1, <2>2, <2>3, <2>4 DEF C!TypeOK, Statuses
<1>2. ASSUME NEW c \in DOMAIN customers, c \notin crowded
      PROVE  Cardinality(C!RowsOf(c)) <= 1
  <2>1. \A s, t \in C!RowsOf(c) : s = t
    BY <1>2 DEF SignInv, OneRow
  <2>2. CASE C!RowsOf(c) = {}
    BY <2>2, FS_EmptySet
  <2>3. ASSUME NEW s \in C!RowsOf(c)
        PROVE  Cardinality(C!RowsOf(c)) <= 1
    <3>1. C!RowsOf(c) = {s}
      BY <2>1
    <3>. QED
      BY <3>1, FS_Singleton
  <2>. QED
    BY <2>2, <2>3
<1>3. \A c \in DOMAIN customers : C!Cardinality(C!RowsOf(c)) <= 1 \/ c \in crowded
  BY <1>2, SameCount
<1>. QED
  BY <1>1, <1>3 DEF C!OneSession

LEMMA ProofsMean == SignInv => C!QrSignsInOnce /\ C!CodesProveOnce
<1>. SUFFICES ASSUME SignInv
              PROVE  C!QrSignsInOnce /\ C!CodesProveOnce
  OBVIOUS
<1>1. DOMAIN codes = CodeKeys
  BY CodesTyped
<1>. QED
  BY <1>1 DEF SignInv, TokenFits, CodeFits, C!QrSignsInOnce, C!CodesProveOnce

LEMMA SignInsKept == Spec => [](part = "customers" => SignInv)
<1>. DEFINE Kept == part = "customers" => SignInv
<1>1. Init => Kept
  BY SignInsFirst
<1>2. Kept /\ [Next]_<<part, staffVars, customerVars, cacheVars, gateVars, seedVars>> => Kept'
  <2>. SUFFICES ASSUME Kept, [Next]_<<part, staffVars, customerVars, cacheVars, gateVars, seedVars>>
                PROVE  Kept'
    OBVIOUS
  <2>1. CASE part = "customers" /\ C!Next /\ part' = part
    BY <2>1, SignInsNext
  <2>2. CASE part' = part /\ UNCHANGED customerVars
    BY <2>2, SignInsRest
  <2>3. CASE part # "customers" /\ part' = part
    BY <2>3
  <2>. QED
    BY <2>1, <2>2, <2>3 DEF Next
<1>. QED
  BY <1>1, <1>2, PTL DEF Spec

\* In every behaviour of the customers' sign-ins, a customer has one session
\* unless two of them overlapped, and none from before a new password stays
\* (the deleteMany and create of botvnAuth.service.js).
THEOREM CustomersStaySignedInOnce == Spec => []CustomersSignInOnce
<1>1. (part = "customers" => SignInv) => CustomersSignInOnce
  BY SignInsMean DEF CustomersSignInOnce
<1>. QED
  BY <1>1, SignInsKept, PTL

\* In every behaviour of the customers' sign-ins, a QR token signs in once
\* and a code proves its e-mail once, unless two requests overlapped at it, a
\* request died before its answer, or the cache lost a write of it.
THEOREM ProofsStayUsedOnce == Spec => []ProofsAreUsedOnce
<1>1. (part = "customers" => SignInv) => ProofsAreUsedOnce
  BY ProofsMean DEF ProofsAreUsedOnce
<1>. QED
  BY <1>1, SignInsKept, PTL

===============================================================================
