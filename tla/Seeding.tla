-------------------------------- MODULE Seeding --------------------------------
(***************************************************************************)
(* Ids and the scripts that fill the database.  An id is a prefix and the  *)
(* number of a counter that is raised in one call (core/utils/id).  The    *)
(* reset, the seed of a development database and the initialisation of a   *)
(* production one write documents with fixed ids and set the counters.     *)
(* They are not transactions: they may stop anywhere, run twice at a time, *)
(* and run while the server creates documents.                             *)
(* Four collections stand for all: users (whose counter every script       *)
(* sets), departments (whose counter the reset forgets), task types (which *)
(* the reset keeps, without their counter) and, with fixed ids and without *)
(* a counter, the parts of the system funnel.  The types of programmes and *)
(* the programmes that refer to them are a fifth pair, with one seed each. *)
(***************************************************************************)
EXTENDS Integers, Sequences, FiniteSets

CONSTANTS
    Scripts, Clients,
    SeedStarts,         \* bound: [programs, ids, counters, ops, runs, requests] of the
                        \* behaviours: how often scripts and requests are started
    LastId,             \* bound: the highest number given
    Absent

VARIABLES
    ids,            \* collection -> the numbers it has
    counters,       \* collection -> the last number given, or Absent
    scripts,        \* script -> its program, its next step and what it saw, or Absent
    clients,        \* request -> [of, id] it is about to insert, or Absent
    programs, seedOps, runsLeft, requestsLeft,
    given,          \* collection -> all numbers the counter gave (history)
    twice,          \* numbers it gave again (history)
    brokenOff,      \* collections left behind by a script that stopped (history)
    outrun,         \* collections seeded below a counter that was there (history)
    wasReset        \* (history)

seedVars == <<ids, counters, scripts, clients, programs, seedOps, runsLeft, requestsLeft,
              given, twice, brokenOff, outrun, wasReset>>

Numbered == {"users", "departments", "types"}
Collections == Numbered \cup {"funnel", "kinds", "programmes"}
Count(c) == IF counters[c] = Absent THEN 0 ELSE counters[c]
InUse(c) == ids[c] \cup {clients[k].id : k \in {l \in Clients : clients[l] # Absent /\ clients[l].of = c}}
Covered(c) == \A i \in InUse(c) : i <= Count(c)

\* The seeded programme is of the seeded kind.
Standing == 1 \in ids["programmes"] => 1 \in ids["kinds"]

-----------------------------------------------------------------------------
\* The scripts, as sequences of steps.

Do(op, of) == [op |-> op, of |-> of]
Size(c) == IF c \in {"users", "funnel"} THEN 2 ELSE 1
\* (mutated form: the number the next one is to get, off by one)
OneLess(c) == Size(c) - 1
FirstCount(c) == Size(c)

\* The parts of the funnel (seedSystemFunnel): what refers to a part after it.
ResetSteps ==
    <<Do("drop", "departments"), Do("drop", "users"), Do("dropCounters", "users"), Do("drop", "funnel"),
      Do("drop", "kinds"), Do("drop", "programmes"), Do("counter", "users"), Do("insert", "departments"),
      Do("insert", "users"), Do("part1", "funnel"), Do("part2", "funnel"), Do("insert", "kinds"),
      Do("insert", "programmes")>>
\* seedMeta, with people of its own who may be there under another e-mail
MetaSteps ==
    <<Do("drop", "kinds"), Do("drop", "programmes"), Do("insert", "kinds"), Do("people", "programmes"),
      Do("insert", "programmes")>>
SeedSteps ==
    <<Do("ifEmpty", "departments"), Do("missing", "users"), Do("ifNoCounter", "users"),
      Do("ifNoCounter", "departments"), Do("part1", "funnel"), Do("part2", "funnel"),
      Do("ifEmpty", "types"), Do("ifNoCounter", "types"), Do("ifEmpty", "kinds"), Do("ifEmpty", "programmes")>>
InitSteps ==
    <<Do("ifNoCounter", "users"), Do("account1", "users"), Do("account2", "users"),
      Do("part1", "funnel"), Do("part2", "funnel")>>
StepsOf(program) ==
    CASE program = "reset" -> ResetSteps [] program = "seed" -> SeedSteps [] program = "init" -> InitSteps
      [] program = "meta" -> MetaSteps

SeedInit ==
    \E start \in SeedStarts :
        /\ programs = start.programs /\ seedOps = start.ops /\ ids = start.ids /\ counters = start.counters
        /\ scripts = [s \in Scripts |-> Absent] /\ clients = [k \in Clients |-> Absent] /\ runsLeft = start.runs /\ requestsLeft = start.requests
        /\ given = [c \in Collections |-> 1 .. Count(c)]
        /\ twice = {} /\ brokenOff = {} /\ outrun = {} /\ wasReset = FALSE

\* What clears collections is run by hand on a development database, and alone
\* (an assumption of the model); the others may overlap.
Alone == {"reset", "meta"}
Clearing(t) == scripts[t] # Absent /\ scripts[t].program \in Alone
StartScript(s) ==
    /\ scripts[s] = Absent /\ \A t \in Scripts : ~Clearing(t)
    /\ runsLeft > 0 /\ runsLeft' = runsLeft - 1
    /\ \E program \in programs :
          /\ program \in Alone => \A t \in Scripts : scripts[t] = Absent
          /\ scripts' = [scripts EXCEPT ![s] = [program |-> program, next |-> 1, saw |-> Absent]]
          /\ wasReset' = (wasReset \/ program = "reset")
    /\ UNCHANGED <<ids, counters, clients, programs, seedOps, requestsLeft, given, twice, brokenOff, outrun>>

Step(s) == StepsOf(scripts[s].program)[scripts[s].next]
At(s, op) == scripts[s] # Absent /\ Step(s).op = op
After(s, steps) ==
    LET program == scripts[s].program
        next == scripts[s].next + steps
    IN  IF next > Len(StepsOf(program)) THEN Absent ELSE [program |-> program, next |-> next, saw |-> Absent]
Advance(s) == scripts' = [scripts EXCEPT ![s] = After(s, 1)]
Kept == UNCHANGED <<clients, programs, seedOps, runsLeft, requestsLeft, given, twice, wasReset>>

\* An error ends the script; so does a crash.
Stop(s) ==
    /\ scripts' = [scripts EXCEPT ![s] = Absent]
    /\ brokenOff' = brokenOff \cup {c \in Numbered : ~Covered(c)}
                            \cup (IF Standing THEN {} ELSE {"programmes"})
    /\ UNCHANGED <<ids, counters, outrun>> /\ Kept
Crash(s) == "crash" \in seedOps /\ scripts[s] # Absent /\ Stop(s)

\* dropAll: what cannot be cleared stays, and the script goes on.
Drop(s) ==
    /\ At(s, "drop")
    /\ ids' = [ids EXCEPT ![Step(s).of] = {}] \/ ("fail" \in seedOps /\ ids' = ids)
    /\ Advance(s) /\ UNCHANGED <<counters, brokenOff, outrun>> /\ Kept
DropCounters(s) ==
    /\ At(s, "dropCounters") /\ Advance(s)
    /\ counters' = [c \in Collections |-> Absent] /\ brokenOff' = brokenOff \cup {c \in Numbered : InUse(c) # {}}
    /\ UNCHANGED <<ids, outrun>> /\ Kept

\* Numbers that are there are refused by the unique index, and end the script.
InsertAll(s, c, new) ==
    IF new \cap ids[c] # {} THEN Stop(s)
    ELSE /\ ids' = [ids EXCEPT ![c] = @ \cup new] /\ Advance(s)
         /\ outrun' = IF \/ counters[c] # Absent /\ \E i \in new : i > counters[c]
                         \/ c = "programmes" /\ ids["kinds"] # {} /\ 1 \notin ids["kinds"]
                      THEN outrun \cup {c} ELSE outrun
         /\ UNCHANGED <<counters, brokenOff>> /\ Kept
NewCounter(s, c) ==
    IF counters[c] # Absent THEN Stop(s)
    ELSE /\ counters' = [counters EXCEPT ![c] = FirstCount(c)] /\ Advance(s)
         /\ UNCHANGED <<ids, brokenOff, outrun>> /\ Kept
Insert(s) == At(s, "insert") /\ InsertAll(s, Step(s).of, 1 .. Size(Step(s).of))
Counter(s) == At(s, "counter") /\ NewCounter(s, Step(s).of)

\* What depends on the state is read first and written in a later call.
Saw(c, op) ==
    CASE op = "ifNoCounter" -> counters[c] # Absent
      [] op = "part1" -> 1 \in ids[c]
      [] op = "part2" -> 2 \in ids[c]
      [] OTHER -> ids[c]
Reads == {"ifEmpty", "missing", "ifNoCounter", "part1", "part2"}
Read(s) ==
    /\ scripts[s] # Absent /\ Step(s).op \in Reads /\ scripts[s].saw = Absent
    /\ scripts' = [scripts EXCEPT ![s].saw = [is |-> Saw(Step(s).of, Step(s).op)]]
    /\ UNCHANGED <<ids, counters, brokenOff, outrun>> /\ Kept
Skip(s) == Advance(s) /\ UNCHANGED <<ids, counters, brokenOff, outrun>> /\ Kept
Skipped(s) == /\ scripts' = [scripts EXCEPT ![s] = After(s, 2)]
              /\ UNCHANGED <<ids, counters, brokenOff, outrun>> /\ Kept
Answered(s, op) == At(s, op) /\ scripts[s].saw # Absent

\* seedCollection; the task type's counter is set only if it was made.
IfEmpty(s) ==
    /\ Answered(s, "ifEmpty")
    /\ LET c == Step(s).of IN
          IF scripts[s].saw.is = {} THEN InsertAll(s, c, 1 .. Size(c))
          ELSE IF c = "types" THEN Skipped(s) ELSE Skip(s)
\* seedUsers: those whose number is missing.
InsertMissing(s) ==
    /\ Answered(s, "missing")
    /\ LET new == (1 .. Size("users")) \ scripts[s].saw.is IN
          IF new = {} THEN Skip(s) ELSE InsertAll(s, "users", new)
CounterIfMissing(s) ==
    /\ Answered(s, "ifNoCounter")
    /\ IF scripts[s].saw.is THEN Skip(s) ELSE NewCounter(s, Step(s).of)
PartOfFunnel(s) ==
    \E i \in 1..2 :
        /\ Answered(s, <<"part1", "part2">>[i])
        /\ IF scripts[s].saw.is THEN Skip(s) ELSE InsertAll(s, "funnel", {i})
\* seedOwner and seedAdmin look for the e-mail; the account may be there under
\* another number, and the number with another e-mail.
Account(s) ==
    \E i \in 1..2 :
        /\ At(s, <<"account1", "account2">>[i])
        /\ \/ ids["users"] # {} /\ Skip(s)
           \/ InsertAll(s, "users", {i})

People(s) == At(s, "people") /\ (Skip(s) \/ Stop(s))

-----------------------------------------------------------------------------
\* The server

\* generateMonotonicId: $inc with upsert.
Generate(k) ==
    /\ requestsLeft > 0 /\ requestsLeft' = requestsLeft - 1 /\ clients[k] = Absent
    /\ \E c \in Numbered :
          LET id == Count(c) + 1 IN
          /\ id <= LastId /\ counters' = [counters EXCEPT ![c] = id]
          /\ clients' = [clients EXCEPT ![k] = [of |-> c, id |-> id]]
          /\ given' = [given EXCEPT ![c] = @ \cup {id}]
          /\ twice' = IF id \in given[c] THEN twice \cup {c} ELSE twice
          /\ outrun' = IF \E i \in InUse(c) : i > id THEN outrun \cup {c} ELSE outrun
    /\ UNCHANGED <<ids, scripts, programs, seedOps, runsLeft, brokenOff, wasReset>>
\* A number that is there is refused.
Create(k) ==
    /\ clients[k] # Absent
    /\ ids' = [ids EXCEPT ![clients[k].of] = @ \cup {clients[k].id}]
    /\ clients' = [clients EXCEPT ![k] = Absent]
    /\ UNCHANGED <<counters, scripts, programs, seedOps, runsLeft, requestsLeft, given, twice, brokenOff, outrun, wasReset>>
Delete(i) ==
    /\ requestsLeft > 0 /\ requestsLeft' = requestsLeft - 1 /\ i \in ids["types"] /\ ids' = [ids EXCEPT !["types"] = @ \ {i}]
    /\ UNCHANGED <<counters, scripts, clients, programs, seedOps, runsLeft, given, twice, brokenOff, outrun, wasReset>>

SeedNext ==
    \/ \E s \in Scripts :
          \/ StartScript(s) \/ Crash(s) \/ Drop(s) \/ DropCounters(s) \/ Insert(s) \/ Counter(s) \/ Read(s)
          \/ IfEmpty(s) \/ InsertMissing(s) \/ CounterIfMissing(s) \/ PartOfFunnel(s) \/ Account(s)
          \/ People(s)
    \/ \E k \in Clients : Generate(k) \/ Create(k)
    \/ \E i \in 1..LastId : Delete(i)

-----------------------------------------------------------------------------
\* Properties

\* A counter covers the numbers in use, so that creations succeed, unless a
\* script stopped half-way (or is still at it), documents were seeded beside a
\* counter that was there already, or the reset took the counter away.
Underway(c) ==
    \E s \in Scripts :
        scripts[s] # Absent /\ LET steps == StepsOf(scripts[s].program)
                              IN  \E i \in scripts[s].next .. Len(steps) : steps[i].of = c
CountersCoverIds ==
    \A c \in Numbered :
        Covered(c) \/ Underway(c) \/ c \in brokenOff \cup outrun \/ (wasReset /\ c = "departments")
\* Only a reset lets a counter give a number again, deleted or not.
IdsAreNotReused == twice # {} => wasReset
\* The parts of the funnel come after those they refer to.
\* And a seeded programme has its kind, if the kinds were not other ones.
FunnelStands == 2 \in ids["funnel"] => 1 \in ids["funnel"]
ProgrammesStand == Standing \/ Underway("programmes") \/ "programmes" \in brokenOff \cup outrun
SeedsAddUp == CountersCoverIds /\ IdsAreNotReused /\ FunnelStands /\ ProgrammesStand
=============================================================================
