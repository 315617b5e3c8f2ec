----------------------------- MODULE ServerProofs -----------------------------
(***************************************************************************)
(* What TLAPS proves of the scripts that fill the database, of the memory  *)
(* of the bank's calls (the parts of System that SystemProofs leaves), and *)
(* of the licence codes (ZCode).  The three share nothing.                 *)
(***************************************************************************)
EXTENDS ZCode, System, Sums, SequenceTheorems, FiniteSetTheorems, TLAPS

-----------------------------------------------------------------------------
(* The scripts, step by step. *)

Programs == {"reset", "meta", "seed", "init"}
Last(p) == IF p = "reset" THEN 13 ELSE IF p = "seed" THEN 10 ELSE 5

\* The steps with their place in the program.
Steps == {
    <<"reset", 1, "drop", "departments">>, <<"reset", 2, "drop", "users">>, <<"reset", 3, "dropCounters", "users">>,
    <<"reset", 4, "drop", "funnel">>, <<"reset", 5, "drop", "kinds">>, <<"reset", 6, "drop", "programmes">>,
    <<"reset", 7, "counter", "users">>, <<"reset", 8, "insert", "departments">>, <<"reset", 9, "insert", "users">>,
    <<"reset", 10, "part1", "funnel">>, <<"reset", 11, "part2", "funnel">>, <<"reset", 12, "insert", "kinds">>,
    <<"reset", 13, "insert", "programmes">>,
    <<"meta", 1, "drop", "kinds">>, <<"meta", 2, "drop", "programmes">>, <<"meta", 3, "insert", "kinds">>,
    <<"meta", 4, "people", "programmes">>, <<"meta", 5, "insert", "programmes">>,
    <<"seed", 1, "ifEmpty", "departments">>, <<"seed", 2, "missing", "users">>, <<"seed", 3, "ifNoCounter", "users">>,
    <<"seed", 4, "ifNoCounter", "departments">>, <<"seed", 5, "part1", "funnel">>, <<"seed", 6, "part2", "funnel">>,
    <<"seed", 7, "ifEmpty", "types">>, <<"seed", 8, "ifNoCounter", "types">>, <<"seed", 9, "ifEmpty", "kinds">>,
    <<"seed", 10, "ifEmpty", "programmes">>,
    <<"init", 1, "ifNoCounter", "users">>, <<"init", 2, "account1", "users">>, <<"init", 3, "account2", "users">>,
    <<"init", 4, "part1", "funnel">>, <<"init", 5, "part2", "funnel">> }

LEMMA StepsOfPrograms ==
    ASSUME NEW p \in Programs
    PROVE  /\ Len(D!StepsOf(p)) = Last(p)
           /\ \A n \in 1 .. Last(p) : <<p, n, D!StepsOf(p)[n].op, D!StepsOf(p)[n].of>> \in Steps
<1>1. CASE p = "reset"
  <2>1. D!StepsOf(p) = D!ResetSteps
    BY <1>1 DEF D!StepsOf
  <2>2. Len(D!ResetSteps) = 13 /\ Last(p) = 13
    BY <1>1 DEF D!ResetSteps, Last
  <2>. SUFFICES ASSUME NEW n \in 1 .. 13
                PROVE  <<p, n, D!ResetSteps[n].op, D!ResetSteps[n].of>> \in Steps
    BY <2>1, <2>2
  <2>3. n \in {1, 2, 3, 4, 5, 6, 7, 8, 9, 10, 11, 12, 13}
    OBVIOUS
  <2>. QED
    BY <1>1, <2>3 DEF D!ResetSteps, D!Do, Steps
<1>2. CASE p = "seed"
  <2>1. D!StepsOf(p) = D!SeedSteps
    BY <1>2 DEF D!StepsOf
  <2>2. Len(D!SeedSteps) = 10 /\ Last(p) = 10
    BY <1>2 DEF D!SeedSteps, Last
  <2>. SUFFICES ASSUME NEW n \in 1 .. 10
                PROVE  <<p, n, D!SeedSteps[n].op, D!SeedSteps[n].of>> \in Steps
    BY <2>1, <2>2
  <2>3. n \in {1, 2, 3, 4, 5, 6, 7, 8, 9, 10}
    OBVIOUS
  <2>. QED
    BY <1>2, <2>3 DEF D!SeedSteps, D!Do, Steps
<1>3. CASE p = "init"
  <2>1. D!StepsOf(p) = D!InitSteps
    BY <1>3 DEF D!StepsOf
  <2>2. Len(D!InitSteps) = 5 /\ Last(p) = 5
    BY <1>3 DEF D!InitSteps, Last
  <2>. SUFFICES ASSUME NEW n \in 1 .. 5
                PROVE  <<p, n, D!InitSteps[n].op, D!InitSteps[n].of>> \in Steps
    BY <2>1, <2>2
  <2>. QED
    BY <1>3 DEF D!InitSteps, D!Do, Steps
<1>4. CASE p = "meta"
  <2>1. D!StepsOf(p) = D!MetaSteps
    BY <1>4 DEF D!StepsOf
  <2>2. Len(D!MetaSteps) = 5 /\ Last(p) = 5
    BY <1>4 DEF D!MetaSteps, Last
  <2>. SUFFICES ASSUME NEW n \in 1 .. 5
                PROVE  <<p, n, D!MetaSteps[n].op, D!MetaSteps[n].of>> \in Steps
    BY <2>1, <2>2
  <2>. QED
    BY <1>4 DEF D!MetaSteps, D!Do, Steps
<1>. QED
  BY <1>1, <1>2, <1>3, <1>4 DEF Programs

-----------------------------------------------------------------------------
Places == [program : Programs, next : Nat, saw : {Absent} \cup [is : BOOLEAN \cup SUBSET Nat]]

SeedTypes ==
    /\ ids \in [D!Collections -> SUBSET (Nat \ {0})]
    /\ counters \in [D!Collections -> Nat \cup {Absent}]
    /\ clients \in [Clients -> [of : D!Numbered, id : Nat \ {0}] \cup {Absent}]
    /\ scripts \in [Scripts -> Places \cup {Absent}]
    /\ \A s \in Scripts : scripts[s] # Absent => scripts[s].next \in 1 .. Last(scripts[s].program)
    /\ given \in [D!Collections -> SUBSET Nat]
    /\ programs \subseteq Programs

\* What a script that has come so far may rely on.
FitsAt(p, n, saw) ==
    /\ p = "reset" => wasReset
    /\ p = "reset" /\ n >= 8 => counters["users"] # Absent
    /\ p = "init" /\ n >= 2 => counters["users"] # Absent
    /\ \A c \in D!Numbered : <<p, n, "ifNoCounter", c>> \in Steps /\ saw # Absent /\ saw.is => counters[c] # Absent
    /\ <<p, n, "part2", "funnel">> \in Steps => 1 \in ids["funnel"]
    /\ <<p, n, "part1", "funnel">> \in Steps /\ saw # Absent /\ saw.is => 1 \in ids["funnel"]
    /\ p = "reset" /\ n >= 13 => 1 \in ids["kinds"]
    /\ p = "meta" /\ n >= 4 => 1 \in ids["kinds"]
    /\ p = "seed" /\ n >= 10 => ids["kinds"] # {}
    /\ p = "seed" /\ n = 9 /\ saw # Absent /\ saw.is # {} => ids["kinds"] # {}
ScriptFits(s) == scripts[s] # Absent => FitsAt(scripts[s].program, scripts[s].next, scripts[s].saw)

\* What is cleared is cleared alone.
AloneFits == \A s, t \in Scripts : D!Clearing(s) /\ scripts[t] # Absent => s = t

\* s has yet to make the counter of numbers it has inserted or seen.
OwingAt(p, n, c) ==
    /\ p = "seed"
    /\ (c = "departments" /\ n \in 2 .. 4) \/ (c = "users" /\ n = 3) \/ (c = "types" /\ n = 8)
Owing(s, c) == scripts[s] # Absent /\ OwingAt(scripts[s].program, scripts[s].next, c)
CountersFit(c) ==
    /\ counters[c] # Absent => D!Covered(c) \/ c \in brokenOff \cup outrun
    /\ counters[c] = Absent => D!InUse(c) \subseteq 1 .. D!Size(c) \/ c \in brokenOff
    /\ counters[c] = Absent /\ D!InUse(c) # {} =>
            \/ \E s \in Scripts : Owing(s, c)
            \/ c \in brokenOff \cup outrun \/ (wasReset /\ c = "departments")

GivenFits == ~wasReset => twice = {} /\ \A c \in D!Numbered : given[c] \subseteq 1 .. D!Count(c)

\* s has cleared the kinds and will insert the programmes again.
Clears(s) ==
    /\ scripts[s] # Absent
    /\ \/ scripts[s].program = "reset" /\ scripts[s].next >= 6
       \/ scripts[s].program = "meta" /\ scripts[s].next >= 2
ProgrammesFit == D!Standing \/ (\E s \in Scripts : Clears(s)) \/ "programmes" \in brokenOff \cup outrun

SeedInv ==
    /\ SeedTypes /\ AloneFits /\ (\A s \in Scripts : ScriptFits(s)) /\ GivenFits
    /\ (\A c \in D!Numbered : CountersFit(c)) /\ D!FunnelStands /\ ProgrammesFit

LEMMA InUseMeans ==
    /\ \A c, i : i \in D!InUse(c)
                  <=> i \in ids[c] \/ \E k \in Clients : clients[k] # Absent /\ clients[k].of = c /\ clients[k].id = i
    /\ (\A c, i : i \in D!InUse(c)
                  <=> i \in ids[c] \/ \E k \in Clients : clients[k] # Absent /\ clients[k].of = c /\ clients[k].id = i)'
BY DEF D!InUse

\* Nothing but the script itself changes.
LEMMA ScriptMoves ==
    ASSUME SeedTypes, NEW s \in Scripts, scripts[s] # Absent, NEW n \in {1, 2},
           scripts' = [scripts EXCEPT ![s] = D!After(s, n)]
    PROVE  /\ scripts' \in [Scripts -> Places \cup {Absent}]
           /\ \A t \in Scripts \ {s} : scripts'[t] = scripts[t]
           /\ \A t \in Scripts : scripts'[t] # Absent => scripts'[t].next \in 1 .. Last(scripts'[t].program)
           /\ scripts[s].program \in Programs
           /\ IF scripts[s].next + n > Last(scripts[s].program) THEN scripts'[s] = Absent
              ELSE /\ scripts'[s] # Absent /\ scripts'[s].program = scripts[s].program
                   /\ scripts'[s].next = scripts[s].next + n /\ scripts'[s].saw = Absent
<1>. DEFINE p == scripts[s].program
            k == scripts[s].next + n
            new == [program |-> p, next |-> k, saw |-> Absent]
<1>1. p \in Programs /\ scripts[s].next \in Nat /\ scripts[s].next >= 1
  BY DEF SeedTypes, Places
<1>2. Len(D!StepsOf(p)) = Last(p)
  BY <1>1, StepsOfPrograms
<1>3. D!After(s, n) = IF k > Last(p) THEN Absent ELSE new
  BY <1>2 DEF D!After
<1>4. new \in Places /\ new # Absent
  <2>. HIDE DEF p, k
  <2>0. k \in Nat
    BY <1>1 DEF k
  <2>1. new \in Places
    BY <1>1, <2>0 DEF Places
  <2>2. new \in [program : {"reset", "meta", "seed", "init"}, next : Nat, saw : {Absent} \cup [is : BOOLEAN \cup SUBSET Nat]]
    BY <2>1 DEF Places, Programs
  <2>. QED
    BY <2>1, <2>2, SeedAssumption
<1>5. Last(p) \in Nat
  BY DEF Last
<1>6. new.program = p /\ new.next = k /\ new.saw = Absent
  OBVIOUS
<1>. HIDE DEF new
<1>7. scripts' \in [Scripts -> Places \cup {Absent}] /\ \A t \in Scripts \ {s} : scripts'[t] = scripts[t]
  BY <1>3, <1>4 DEF SeedTypes
<1>8. scripts'[s] = IF k > Last(p) THEN Absent ELSE new
  BY <1>3 DEF SeedTypes
<1>9. \A t \in Scripts : scripts'[t] # Absent => scripts'[t].next \in 1 .. Last(scripts'[t].program)
  <2>. SUFFICES ASSUME NEW t \in Scripts, scripts'[t] # Absent
                PROVE  scripts'[t].next \in 1 .. Last(scripts'[t].program)
    OBVIOUS
  <2>1. CASE t = s
    BY <1>1, <1>5, <1>6, <1>8, <2>1
  <2>2. CASE t # s
    BY <1>7, <2>2 DEF SeedTypes
  <2>. QED
    BY <2>1, <2>2
<1>. QED
  BY <1>1, <1>4, <1>6, <1>7, <1>8, <1>9

\* Where a script is.
LEMMA StepOfScript ==
    ASSUME SeedTypes, NEW s \in Scripts, scripts[s] # Absent
    PROVE  /\ <<scripts[s].program, scripts[s].next, D!Step(s).op, D!Step(s).of>> \in Steps
           /\ scripts[s].program \in Programs /\ scripts[s].next \in 1 .. Last(scripts[s].program)
<1>1. scripts[s].program \in Programs /\ scripts[s].next \in 1 .. Last(scripts[s].program)
  BY DEF SeedTypes, Places
<1>. QED
  BY <1>1, StepsOfPrograms DEF D!Step

\* What the other scripts rely on stays.
Grows ==
    /\ wasReset => wasReset'
    /\ \A c \in D!Numbered : counters[c] # Absent => counters'[c] # Absent
    /\ 1 \in ids["funnel"] => 1 \in ids'["funnel"]
    /\ 1 \in ids["kinds"] => 1 \in ids'["kinds"]
    /\ ids["kinds"] # {} => ids'["kinds"] # {}

LEMMA ScriptsFit ==
    ASSUME \A t \in Scripts : ScriptFits(t), NEW s \in Scripts, \A t \in Scripts \ {s} : scripts'[t] = scripts[t],
           Grows \/ (\A t \in Scripts \ {s} : scripts[t] = Absent), ScriptFits(s)'
    PROVE  \A t \in Scripts : ScriptFits(t)'
<1>. SUFFICES ASSUME NEW t \in Scripts \ {s}, scripts[t] # Absent
              PROVE  FitsAt(scripts[t].program, scripts[t].next, scripts[t].saw)'
  BY DEF ScriptFits
<1>. DEFINE p == scripts[t].program
            n == scripts[t].next
            saw == scripts[t].saw
<1>1. FitsAt(p, n, saw) /\ Grows
  BY DEF ScriptFits
<1>2. (scripts[t])' = scripts[t]
  OBVIOUS
<1>. QED
  BY <1>1, <1>2 DEF FitsAt, Grows, D!Numbered

LEMMA AloneStays ==
    ASSUME AloneFits, NEW s \in Scripts, \A t \in Scripts \ {s} : scripts'[t] = scripts[t], scripts[s] # Absent,
           scripts'[s] # Absent => scripts'[s].program = scripts[s].program
    PROVE  AloneFits'
BY DEF AloneFits, D!Clearing, D!Alone

\* The debts and clearings of the others.
LEMMA OthersOwe ==
    ASSUME NEW s \in Scripts, \A t \in Scripts \ {s} : scripts'[t] = scripts[t], NEW t \in Scripts \ {s}
    PROVE  (\A c : Owing(t, c) => Owing(t, c)') /\ (Clears(t) => Clears(t)')
BY DEF Owing, Clears

\* A step that touches no numbers.
LEMMA NumbersRest ==
    ASSUME UNCHANGED <<ids, counters, clients>>
    PROVE  \A c : /\ D!InUse(c)' = D!InUse(c) /\ (D!Covered(c)' <=> D!Covered(c)) /\ D!Count(c)' = D!Count(c)
BY DEF D!InUse, D!Covered, D!Count

LEMMA StartKeeps ==
    ASSUME SeedInv, NEW s \in Scripts, D!StartScript(s)
    PROVE  SeedInv'
<1>1. PICK p \in programs :
        /\ p \in D!Alone => \A t \in Scripts : scripts[t] = Absent
        /\ scripts' = [scripts EXCEPT ![s] = [program |-> p, next |-> 1, saw |-> Absent]]
        /\ wasReset' = (wasReset \/ p = "reset")
  BY DEF D!StartScript
<1>2. /\ scripts[s] = Absent /\ \A t \in Scripts : ~D!Clearing(t)
      /\ UNCHANGED <<ids, counters, clients, programs, given, twice, brokenOff, outrun>>
  BY DEF D!StartScript
<1>. DEFINE new == [program |-> p, next |-> 1, saw |-> Absent]
<1>3. p \in Programs /\ new \in Places /\ new.program = p /\ new.next = 1 /\ new.saw = Absent
  BY DEF SeedInv, SeedTypes, Places
<1>. HIDE DEF new
<1>4. /\ scripts' \in [Scripts -> Places \cup {Absent}] /\ scripts'[s] = new
      /\ \A t \in Scripts \ {s} : scripts'[t] = scripts[t]
  BY <1>1, <1>3 DEF SeedInv, SeedTypes, new
<1>5. SeedTypes'
  <2>1. 1 \in 1 .. Last(p)
    BY DEF Last
  <2>. QED
    BY <1>2, <1>3, <1>4, <2>1 DEF SeedInv, SeedTypes
<1>6. AloneFits'
  BY <1>1, <1>2, <1>3, <1>4 DEF SeedInv, AloneFits, D!Clearing, D!Alone
<1>7. \A t \in Scripts : ScriptFits(t)'
  <2>1. Grows
    BY <1>1, <1>2 DEF Grows
  <2>2. ScriptFits(s)'
    <3>1. <<p, 1, "part2", "funnel">> \notin Steps
      BY DEF Steps
    <3>2. scripts'[s].program = p /\ scripts'[s].next = 1 /\ scripts'[s].saw = Absent
      BY <1>3, <1>4
    <3>3. p = "reset" => wasReset'
      BY <1>1
    <3>4. FitsAt(p, 1, Absent)'
      BY <3>1, <3>3 DEF FitsAt
    <3>. QED
      BY <3>2, <3>4 DEF ScriptFits
  <2>. QED
    BY <1>4, <2>1, <2>2, ScriptsFit DEF SeedInv
<1>8. GivenFits' /\ D!FunnelStands'
  BY <1>1, <1>2, NumbersRest DEF SeedInv, GivenFits, D!FunnelStands
<1>9. \A c \in D!Numbered : CountersFit(c)'
  <2>. SUFFICES ASSUME NEW c \in D!Numbered
                PROVE  CountersFit(c)'
    OBVIOUS
  <2>1. (\E t \in Scripts : Owing(t, c)) => (\E t \in Scripts : Owing(t, c)')
    BY <1>2, <1>4, OthersOwe DEF Owing
  <2>2. CountersFit(c)
    BY DEF SeedInv
  <2>3. D!InUse(c)' = D!InUse(c) /\ (D!Covered(c)' <=> D!Covered(c))
    BY <1>2, NumbersRest
  <2>. QED
    BY <1>1, <1>2, <2>1, <2>2, <2>3 DEF CountersFit, D!Size
<1>10. ProgrammesFit'
  <2>1. (\E t \in Scripts : Clears(t)) => (\E t \in Scripts : Clears(t)')
    BY <1>2, <1>4, OthersOwe DEF Clears
  <2>2. D!Standing' <=> D!Standing
    BY <1>2 DEF D!Standing
  <2>. QED
    BY <1>2, <2>1, <2>2 DEF SeedInv, ProgrammesFit
<1>. QED
  BY <1>5, <1>6, <1>7, <1>8, <1>9, <1>10 DEF SeedInv

\* Stopping anywhere: the numbers are covered, or left behind.
LEMMA StopKeeps ==
    ASSUME SeedInv, NEW s \in Scripts, scripts[s] # Absent, D!Stop(s)
    PROVE  SeedInv'
<1>1. /\ scripts' \in [Scripts -> Places \cup {Absent}] /\ scripts'[s] = Absent
      /\ \A t \in Scripts \ {s} : scripts'[t] = scripts[t]
  BY DEF D!Stop, SeedInv, SeedTypes
<1>2. /\ UNCHANGED <<ids, counters, clients, programs, given, twice, outrun, wasReset>>
      /\ brokenOff' = brokenOff \cup {c \in D!Numbered : ~D!Covered(c)} \cup (IF D!Standing THEN {} ELSE {"programmes"})
  BY DEF D!Stop, D!Kept
<1>3. SeedTypes'
  BY <1>1, <1>2 DEF SeedInv, SeedTypes
<1>4. AloneFits'
  BY <1>1, AloneStays DEF SeedInv
<1>5. \A t \in Scripts : ScriptFits(t)'
  <2>1. Grows
    BY <1>2 DEF Grows
  <2>2. ScriptFits(s)'
    BY <1>1 DEF ScriptFits
  <2>. QED
    BY <1>1, <2>1, <2>2, ScriptsFit DEF SeedInv
<1>6. GivenFits' /\ D!FunnelStands'
  BY <1>2, NumbersRest DEF SeedInv, GivenFits, D!FunnelStands
<1>7. \A c \in D!Numbered : CountersFit(c)'
  <2>. SUFFICES ASSUME NEW c \in D!Numbered
                PROVE  CountersFit(c)'
    OBVIOUS
  <2>1. CountersFit(c) /\ brokenOff \subseteq brokenOff'
    BY <1>2 DEF SeedInv
  <2>2. D!InUse(c)' = D!InUse(c) /\ (D!Covered(c)' <=> D!Covered(c))
    BY <1>2, NumbersRest
  <2>3. ~D!Covered(c) => c \in brokenOff'
    BY <1>2
  <2>4. D!Covered(c) /\ counters[c] = Absent => D!InUse(c) = {}
    <3>. SUFFICES ASSUME D!Covered(c), counters[c] = Absent, NEW i \in D!InUse(c)
                  PROVE  FALSE
      OBVIOUS
    <3>1. i <= 0
      BY DEF D!Covered, D!Count
    <3>2. i \in Nat \ {0}
      BY InUseMeans DEF SeedInv, SeedTypes, D!Numbered, D!Collections
    <3>. QED
      BY <3>1, <3>2
  <2>. QED
    BY <1>2, <2>1, <2>2, <2>3, <2>4 DEF CountersFit, D!Size
<1>8. ProgrammesFit'
  <2>1. D!Standing' <=> D!Standing
    BY <1>2 DEF D!Standing
  <2>. QED
    BY <1>2, <2>1 DEF SeedInv, ProgrammesFit
<1>. QED
  BY <1>3, <1>4, <1>5, <1>6, <1>7, <1>8 DEF SeedInv

\* On to a later step: what remains to be shown of it.
LEMMA MoveKeeps ==
    ASSUME SeedInv, NEW s \in Scripts, scripts[s] # Absent, NEW n \in {1, 2},
           NEW p, NEW k, p = scripts[s].program, k = scripts[s].next + n,
           scripts' = [scripts EXCEPT ![s] = D!After(s, n)],
           UNCHANGED <<clients, programs, given, wasReset>>,
           ids' \in [D!Collections -> SUBSET (Nat \ {0})], counters' \in [D!Collections -> Nat \cup {Absent}],
           Grows \/ p \in D!Alone, k <= Last(p) => FitsAt(p, k, Absent)',
           GivenFits', D!FunnelStands', \A c \in D!Numbered : CountersFit(c)', ProgrammesFit'
    PROVE  SeedInv'
<1>2. /\ scripts' \in [Scripts -> Places \cup {Absent}]
      /\ \A t \in Scripts \ {s} : scripts'[t] = scripts[t]
      /\ \A t \in Scripts : scripts'[t] # Absent => scripts'[t].next \in 1 .. Last(scripts'[t].program)
      /\ IF k > Last(p) THEN scripts'[s] = Absent
         ELSE scripts'[s] # Absent /\ scripts'[s].program = p /\ scripts'[s].next = k /\ scripts'[s].saw = Absent
  BY ScriptMoves DEF SeedInv
<1>3. SeedTypes'
  BY <1>2 DEF SeedInv, SeedTypes
<1>4. AloneFits'
  BY <1>2, AloneStays DEF SeedInv
<1>5. \A t \in Scripts : ScriptFits(t)'
  <2>1. Grows \/ \A t \in Scripts \ {s} : scripts[t] = Absent
    BY DEF SeedInv, AloneFits, D!Clearing
  <2>2. ScriptFits(s)'
    <3>. SUFFICES ASSUME scripts'[s] # Absent
                  PROVE  ScriptFits(s)'
      BY DEF ScriptFits
    <3>1. SeedTypes
      BY DEF SeedInv
    <3>2. p \in Programs /\ scripts[s].next \in 1 .. Last(p)
      BY <3>1, StepOfScript
    <3>3. Last(p) \in Int /\ k \in Int
      BY <3>2 DEF Last
    <3>4. k <= Last(p)
      BY <1>2, <3>3
    <3>5. FitsAt(p, k, Absent)'
      BY <3>4
    <3>6. scripts'[s].program = p /\ scripts'[s].next = k /\ scripts'[s].saw = Absent
      BY <1>2, <3>3, <3>4
    <3>. QED
      BY <3>5, <3>6 DEF ScriptFits
  <2>. QED
    BY <1>2, <2>1, <2>2, ScriptsFit DEF SeedInv
<1>. QED
  BY <1>3, <1>4, <1>5 DEF SeedInv

\* On to a later step, with nothing written.
LEMMA SkipKeeps ==
    ASSUME SeedInv, NEW s \in Scripts, scripts[s] # Absent, NEW n \in {1, 2},
           NEW p, NEW k, p = scripts[s].program, k = scripts[s].next + n,
           scripts' = [scripts EXCEPT ![s] = D!After(s, n)],
           UNCHANGED <<ids, counters, brokenOff, outrun>>, D!Kept,
           k <= Last(p) => FitsAt(p, k, Absent), Clears(s) => k <= Last(p),
           \A c \in D!Numbered : Owing(s, c) => Owing(s, c)' \/ counters[c] # Absent
    PROVE  SeedInv'
<1>1. UNCHANGED <<ids, counters, clients, programs, given, twice, brokenOff, outrun, wasReset>>
  BY DEF D!Kept
<1>2. /\ \A t \in Scripts \ {s} : scripts'[t] = scripts[t]
      /\ IF k > Last(p) THEN scripts'[s] = Absent
         ELSE scripts'[s] # Absent /\ scripts'[s].program = p /\ scripts'[s].next = k /\ scripts'[s].saw = Absent
  BY ScriptMoves DEF SeedInv
<1>3. p \in Programs /\ scripts[s].next \in 1 .. Last(p)
  BY StepOfScript DEF SeedInv
<1>4. Last(p) \in Int /\ k \in Int
  BY <1>3 DEF Last
<1>5. Grows
  BY <1>1 DEF Grows
<1>6. k <= Last(p) => FitsAt(p, k, Absent)'
  BY <1>1 DEF FitsAt
<1>7. GivenFits' /\ D!FunnelStands'
  BY <1>1, NumbersRest DEF SeedInv, GivenFits, D!FunnelStands
<1>8. \A c \in D!Numbered : CountersFit(c)'
  <2>. SUFFICES ASSUME NEW c \in D!Numbered
                PROVE  CountersFit(c)'
    OBVIOUS
  <2>1. CountersFit(c)
    BY DEF SeedInv
  <2>2. D!InUse(c)' = D!InUse(c) /\ (D!Covered(c)' <=> D!Covered(c))
    BY <1>1, NumbersRest
  <2>3. counters[c] = Absent /\ (\E t \in Scripts : Owing(t, c)) => (\E t \in Scripts : Owing(t, c)')
    BY <1>2, OthersOwe
  <2>. QED
    BY <1>1, <2>1, <2>2, <2>3 DEF CountersFit, D!Size
<1>9. ProgrammesFit'
  <2>1. D!Standing' <=> D!Standing
    BY <1>1 DEF D!Standing
  <2>2. Clears(s) => Clears(s)'
    BY <1>2, <1>3, <1>4 DEF Clears
  <2>3. (\E t \in Scripts : Clears(t)) => (\E t \in Scripts : Clears(t)')
    BY <1>2, <2>2, OthersOwe
  <2>. QED
    BY <1>1, <2>1, <2>3 DEF SeedInv, ProgrammesFit
<1>10. ids' \in [D!Collections -> SUBSET (Nat \ {0})] /\ counters' \in [D!Collections -> Nat \cup {Absent}]
  BY <1>1 DEF SeedInv, SeedTypes
<1>. QED
  BY <1>1, <1>5, <1>6, <1>7, <1>8, <1>9, <1>10, MoveKeeps

\* What it takes to insert new numbers of c and go on to k.
Inserted(c, new) == ids' = [ids EXCEPT ![c] = @ \cup new] /\ UNCHANGED <<counters, wasReset>>
InsertFits(s, p, k, c, new) ==
    /\ new \in SUBSET (1 .. D!Size(c))
    /\ c = "funnel" /\ 2 \in new => 1 \in ids["funnel"]
    /\ c = "programmes" => ids["kinds"] # {}
    /\ c # "programmes" /\ Clears(s) => k <= Last(p)
    /\ c \in D!Numbered /\ counters[c] = Absent =>
            (wasReset /\ c = "departments") \/ (k <= Last(p) /\ OwingAt(p, k, c))
    /\ \A d \in D!Numbered \ {c} : Owing(s, d) => (k <= Last(p) /\ OwingAt(p, k, d)) \/ counters[d] # Absent

\* New numbers beside those that are there.
LEMMA InsertKeeps ==
    ASSUME SeedInv, NEW s \in Scripts, scripts[s] # Absent,
           NEW p, NEW k, p = scripts[s].program, k = scripts[s].next + 1,
           NEW c \in D!Collections, NEW new, D!InsertAll(s, c, new), InsertFits(s, p, k, c, new),
           Inserted(c, new) /\ k <= Last(p) => FitsAt(p, k, Absent)'
    PROVE  SeedInv'
<1>1. CASE new \cap ids[c] # {}
  BY <1>1, StopKeeps DEF D!InsertAll
<1>2. CASE new \cap ids[c] = {}
  <2>0. /\ new \in SUBSET (1 .. D!Size(c))
        /\ c = "funnel" /\ 2 \in new => 1 \in ids["funnel"]
        /\ c = "programmes" => ids["kinds"] # {}
        /\ c # "programmes" /\ Clears(s) => k <= Last(p)
        /\ c \in D!Numbered /\ counters[c] = Absent =>
                (wasReset /\ c = "departments") \/ (k <= Last(p) /\ OwingAt(p, k, c))
        /\ \A d \in D!Numbered \ {c} : Owing(s, d) => (k <= Last(p) /\ OwingAt(p, k, d)) \/ counters[d] # Absent
    BY DEF InsertFits
  <2>1. /\ ids' = [ids EXCEPT ![c] = @ \cup new] /\ scripts' = [scripts EXCEPT ![s] = D!After(s, 1)]
        /\ UNCHANGED <<counters, brokenOff, clients, programs, given, twice, wasReset>> /\ outrun \subseteq outrun'
        /\ counters[c] # Absent /\ (\E i \in new : i > counters[c]) => c \in outrun'
        /\ c = "programmes" /\ ids["kinds"] # {} /\ 1 \notin ids["kinds"] => c \in outrun'
    BY <1>2 DEF D!InsertAll, D!Advance, D!Kept
  <2>2. /\ \A t \in Scripts \ {s} : scripts'[t] = scripts[t]
        /\ IF k > Last(p) THEN scripts'[s] = Absent
           ELSE scripts'[s] # Absent /\ scripts'[s].program = p /\ scripts'[s].next = k /\ scripts'[s].saw = Absent
    BY <2>1, ScriptMoves DEF SeedInv
  <2>3. p \in Programs /\ scripts[s].next \in 1 .. Last(p)
    BY StepOfScript DEF SeedInv
  <2>4. Last(p) \in Int /\ k \in Int
    BY <2>3 DEF Last
  <2>5. ids \in [D!Collections -> SUBSET (Nat \ {0})] /\ counters \in [D!Collections -> Nat \cup {Absent}]
    BY DEF SeedInv, SeedTypes
  <2>6. D!Size(c) \in {1, 2}
    BY DEF D!Size
  <2>7. /\ ids' \in [D!Collections -> SUBSET (Nat \ {0})] /\ ids'[c] = ids[c] \cup new
        /\ \A d \in D!Collections \ {c} : ids'[d] = ids[d]
    <3>1. new \subseteq Nat \ {0}
      BY <2>0, <2>6
    <3>2. ids[c] \cup new \in SUBSET (Nat \ {0})
      BY <2>5, <3>1
    <3>. QED
      BY <2>1, <2>5, <3>2
  <2>8. Grows
    BY <2>1, <2>7 DEF Grows, D!Collections
  <2>9. GivenFits'
    BY <2>1 DEF SeedInv, GivenFits, D!Count
  <2>10. D!FunnelStands'
    BY <2>0, <2>7 DEF SeedInv, D!FunnelStands, D!Collections
  <2>11. \A d \in D!Numbered : CountersFit(d)'
    <3>. SUFFICES ASSUME NEW d \in D!Numbered
                  PROVE  CountersFit(d)'
      OBVIOUS
    <3>0. d \in D!Collections
      BY DEF D!Collections
    <3>1. CountersFit(d)
      BY DEF SeedInv
    <3>2. CASE d # c
      <4>1. D!InUse(d)' = D!InUse(d)
        BY <2>1, <2>7, <3>0, <3>2 DEF D!InUse
      <4>2. D!Covered(d)' <=> D!Covered(d)
        BY <2>1, <4>1 DEF D!Covered, D!Count
      <4>3. counters[d] = Absent /\ (\E t \in Scripts : Owing(t, d)) => (\E t \in Scripts : Owing(t, d)')
        BY <2>0, <2>2, <2>4, <3>2, OthersOwe DEF Owing
      <4>. QED
        BY <2>1, <3>1, <4>1, <4>2, <4>3 DEF CountersFit, D!Size
    <3>3. CASE d = c
      <4>1. D!InUse(c)' = D!InUse(c) \cup new
        BY <2>1, <2>7 DEF D!InUse
      <4>2. CASE counters[c] # Absent
        <5>1. c \in outrun' \/ (D!Covered(c) => D!Covered(c)')
          <6>. SUFFICES ASSUME c \notin outrun', D!Covered(c), NEW i \in D!InUse(c) \cup new
                        PROVE  i <= counters[c]
            BY <2>1, <4>1, <4>2 DEF D!Covered, D!Count
          <6>1. CASE i \in D!InUse(c)
            BY <4>2, <6>1 DEF D!Covered, D!Count
          <6>2. CASE i \in new
            BY <2>0, <2>1, <2>5, <2>6, <4>2, <6>2
          <6>. QED
            BY <6>1, <6>2
        <5>. QED
          BY <2>1, <3>1, <3>3, <4>2, <5>1 DEF CountersFit
      <4>3. CASE counters[c] = Absent
        <5>1. (wasReset /\ c = "departments") \/ Owing(s, c)'
          BY <2>0, <2>2, <2>4, <3>3, <4>3 DEF Owing
        <5>. QED
          BY <2>0, <2>1, <3>1, <3>3, <4>1, <4>3, <5>1 DEF CountersFit, D!Size
      <4>. QED
        BY <4>2, <4>3
    <3>. QED
      BY <3>2, <3>3
  <2>12. ProgrammesFit'
    <3>1. CASE c = "programmes"
      <4>1. ids'["kinds"] = ids["kinds"]
        BY <2>7, <3>1 DEF D!Collections
      <4>. QED
        BY <2>0, <2>1, <3>1, <4>1 DEF ProgrammesFit, D!Standing
    <3>2. CASE c # "programmes"
      <4>1. ids'["programmes"] = ids["programmes"] /\ ids["kinds"] \subseteq ids'["kinds"]
        BY <2>7, <3>2 DEF D!Collections
      <4>2. Clears(s) => Clears(s)'
        BY <2>0, <2>2, <2>3, <2>4, <3>2 DEF Clears
      <4>3. (\E t \in Scripts : Clears(t)) => (\E t \in Scripts : Clears(t)')
        BY <2>2, <4>2, OthersOwe
      <4>. QED
        BY <2>1, <4>1, <4>3 DEF SeedInv, ProgrammesFit, D!Standing
    <3>. QED
      BY <3>1, <3>2
  <2>13. k <= Last(p) => FitsAt(p, k, Absent)'
    BY <2>1 DEF Inserted
  <2>. QED
    BY <2>1, <2>5, <2>7, <2>8, <2>9, <2>10, <2>11, <2>12, <2>13, MoveKeeps
<1>. QED
  BY <1>1, <1>2

\* A counter that was not there, with the numbers the scripts insert.
LEMMA NewCounterKeeps ==
    ASSUME SeedInv, NEW s \in Scripts, scripts[s] # Absent,
           NEW p, NEW k, p = scripts[s].program, k = scripts[s].next + 1, k <= Last(p),
           NEW c \in D!Numbered, D!NewCounter(s, c),
           UNCHANGED <<ids, wasReset>> /\ counters'[c] # Absent => FitsAt(p, k, Absent)',
           \A d \in D!Numbered \ {c} : Owing(s, d) => OwingAt(p, k, d)
    PROVE  SeedInv'
<1>1. CASE counters[c] # Absent
  BY <1>1, StopKeeps DEF D!NewCounter
<1>2. CASE counters[c] = Absent
  <2>1. /\ counters' = [counters EXCEPT ![c] = D!Size(c)] /\ scripts' = [scripts EXCEPT ![s] = D!After(s, 1)]
        /\ UNCHANGED <<ids, brokenOff, outrun, clients, programs, given, twice, wasReset>>
    BY <1>2 DEF D!NewCounter, D!Advance, D!Kept, D!FirstCount
  <2>2. /\ \A t \in Scripts \ {s} : scripts'[t] = scripts[t]
        /\ IF k > Last(p) THEN scripts'[s] = Absent
           ELSE scripts'[s] # Absent /\ scripts'[s].program = p /\ scripts'[s].next = k /\ scripts'[s].saw = Absent
    BY <2>1, ScriptMoves DEF SeedInv
  <2>3. p \in Programs /\ scripts[s].next \in 1 .. Last(p)
    BY StepOfScript DEF SeedInv
  <2>4. Last(p) \in Int /\ k \in Int
    BY <2>3 DEF Last
  <2>5. ids \in [D!Collections -> SUBSET (Nat \ {0})] /\ counters \in [D!Collections -> Nat \cup {Absent}]
    BY DEF SeedInv, SeedTypes
  <2>6. D!Size(c) \in {1, 2} /\ D!Size(c) # Absent /\ c \in D!Collections
    BY SeedAssumption DEF D!Size, D!Collections
  <2>7. /\ counters' \in [D!Collections -> Nat \cup {Absent}] /\ counters'[c] = D!Size(c)
        /\ \A d \in D!Collections \ {c} : counters'[d] = counters[d]
    BY <2>1, <2>5, <2>6
  <2>8. Grows
    BY <2>1, <2>6, <2>7 DEF Grows, D!Collections
  <2>9. GivenFits'
    <3>. SUFFICES ASSUME ~wasReset
                  PROVE  \A d \in D!Numbered : given[d] \subseteq 1 .. D!Count(d)'
      BY <2>1 DEF SeedInv, GivenFits
    <3>1. \A d \in D!Numbered : given[d] \subseteq 1 .. D!Count(d)
      BY DEF SeedInv, GivenFits
    <3>2. given[c] = {}
      BY <1>2, <3>1 DEF D!Count
    <3>3. \A d \in D!Numbered \ {c} : D!Count(d)' = D!Count(d)
      BY <2>7 DEF D!Count, D!Collections
    <3>. QED
      BY <3>1, <3>2, <3>3
  <2>10. D!FunnelStands'
    BY <2>1 DEF SeedInv, D!FunnelStands
  <2>11. \A d \in D!Numbered : CountersFit(d)'
    <3>. SUFFICES ASSUME NEW d \in D!Numbered
                  PROVE  CountersFit(d)'
      OBVIOUS
    <3>0. d \in D!Collections
      BY DEF D!Collections
    <3>1. CountersFit(d)
      BY DEF SeedInv
    <3>2. D!InUse(d)' = D!InUse(d)
      BY <2>1 DEF D!InUse
    <3>3. CASE d # c
      <4>1. counters'[d] = counters[d]
        BY <2>7, <3>0, <3>3
      <4>2. D!Covered(d)' <=> D!Covered(d)
        BY <3>2, <4>1 DEF D!Covered, D!Count
      <4>3. (\E t \in Scripts : Owing(t, d)) => (\E t \in Scripts : Owing(t, d)')
        BY <2>2, <2>4, <3>3, OthersOwe DEF Owing
      <4>. QED
        BY <2>1, <3>1, <3>2, <4>1, <4>2, <4>3 DEF CountersFit, D!Size
    <3>4. CASE d = c
      <4>1. D!InUse(c) \subseteq 1 .. D!Size(c) => D!Covered(c)'
        BY <2>6, <2>7, <3>2, <3>4 DEF D!Covered, D!Count
      <4>. QED
        BY <1>2, <2>1, <2>6, <2>7, <3>1, <3>4, <4>1 DEF CountersFit
    <3>. QED
      BY <3>3, <3>4
  <2>12. ProgrammesFit'
    <3>1. Clears(s) => Clears(s)'
      BY <2>2, <2>3, <2>4 DEF Clears
    <3>2. (\E t \in Scripts : Clears(t)) => (\E t \in Scripts : Clears(t)')
      BY <2>2, <3>1, OthersOwe
    <3>. QED
      BY <2>1, <3>2 DEF SeedInv, ProgrammesFit, D!Standing
  <2>13. k <= Last(p) => FitsAt(p, k, Absent)'
    BY <2>1, <2>6, <2>7
  <2>. QED
    BY <2>1, <2>5, <2>7, <2>8, <2>9, <2>10, <2>11, <2>12, <2>13, MoveKeeps
<1>. QED
  BY <1>1, <1>2

\* The clearing scripts are alone, and what they clear is no longer in use.
LEMMA DropKeeps ==
    ASSUME SeedInv, NEW s \in Scripts, D!Drop(s)
    PROVE  SeedInv'
<1>. DEFINE c == D!Step(s).of
<1>1. /\ scripts[s] # Absent /\ D!Step(s).op = "drop" /\ scripts' = [scripts EXCEPT ![s] = D!After(s, 1)]
      /\ ids' = [ids EXCEPT ![c] = {}] \/ ids' = ids
      /\ UNCHANGED <<counters, brokenOff, outrun>> /\ D!Kept
  BY DEF D!Drop, D!At, D!Advance
<1>. PICK p, k : p = scripts[s].program /\ k = scripts[s].next + 1
  OBVIOUS
<1>2. /\ <<p, scripts[s].next, "drop", c>> \in Steps
      /\ p \in Programs /\ scripts[s].next \in 1 .. Last(p)
  BY <1>1, StepOfScript DEF SeedInv
<1>3. /\ p \in D!Alone /\ c \in D!Collections /\ k \in 2 .. 7 /\ k <= Last(p)
      /\ p = "meta" => k \in {2, 3}
      /\ c = "kinds" => (p = "reset" /\ k = 6) \/ (p = "meta" /\ k = 2)
  BY <1>2 DEF Steps, D!Alone, D!Collections, D!Numbered, Last
<1>. HIDE DEF c
<1>4. /\ \A t \in Scripts \ {s} : scripts[t] = Absent /\ scripts'[t] = scripts[t]
      /\ scripts'[s] # Absent /\ scripts'[s].program = p /\ scripts'[s].next = k
  <2>1. \A t \in Scripts \ {s} : scripts[t] = Absent
    BY <1>1, <1>3 DEF SeedInv, AloneFits, D!Clearing
  <2>2. /\ \A t \in Scripts \ {s} : scripts'[t] = scripts[t]
        /\ IF k > Last(p) THEN scripts'[s] = Absent
           ELSE scripts'[s] # Absent /\ scripts'[s].program = p /\ scripts'[s].next = k /\ scripts'[s].saw = Absent
    BY <1>1, ScriptMoves DEF SeedInv
  <2>. QED
    BY <1>3, <2>1, <2>2 DEF Last
<1>5. FitsAt(p, k, Absent) /\ (p = "reset" => wasReset)
  <2>1. p = "reset" => wasReset
    BY <1>1 DEF SeedInv, ScriptFits, FitsAt
  <2>2. <<p, k, "part2", "funnel">> \notin Steps
    BY <1>3 DEF Steps, D!Alone
  <2>. QED
    BY <1>3, <2>1, <2>2 DEF FitsAt, D!Alone
<1>6. \A d : ~Owing(s, d)
  BY <1>3 DEF Owing, OwingAt, D!Alone
<1>7. CASE ids' = ids
  BY <1>1, <1>3, <1>5, <1>6, <1>7, SkipKeeps
<1>8. CASE ids' = [ids EXCEPT ![c] = {}]
  <2>1. ids \in [D!Collections -> SUBSET (Nat \ {0})] /\ counters \in [D!Collections -> Nat \cup {Absent}]
    BY DEF SeedInv, SeedTypes
  <2>2. /\ ids' \in [D!Collections -> SUBSET (Nat \ {0})] /\ ids'[c] = {}
        /\ \A d \in D!Collections \ {c} : ids'[d] = ids[d]
    BY <1>3, <1>8, <2>1
  <2>3. UNCHANGED <<clients, programs, given, twice, wasReset, counters, brokenOff, outrun>>
    BY <1>1 DEF D!Kept
  <2>4. GivenFits'
    BY <2>3 DEF SeedInv, GivenFits, D!Count
  <2>5. D!FunnelStands'
    BY <2>2 DEF SeedInv, D!FunnelStands, D!Collections
  <2>6. \A d \in D!Numbered : CountersFit(d)'
    <3>. SUFFICES ASSUME NEW d \in D!Numbered
                  PROVE  CountersFit(d)'
      OBVIOUS
    <3>1. CountersFit(d) /\ d \in D!Collections
      BY DEF SeedInv, D!Collections
    <3>2. D!InUse(d)' \subseteq D!InUse(d)
      BY <2>2, <2>3, <3>1 DEF D!InUse
    <3>3. D!Covered(d) => D!Covered(d)'
      BY <2>3, <3>2 DEF D!Covered, D!Count
    <3>4. ~ \E t \in Scripts : Owing(t, d)
      BY <1>4, <1>6 DEF Owing
    <3>. QED
      BY <2>3, <3>1, <3>2, <3>3, <3>4 DEF CountersFit, D!Size
  <2>7. ProgrammesFit'
    <3>1. Clears(s) => Clears(s)'
      BY <1>1, <1>2, <1>3, <1>4 DEF Clears, Programs
    <3>2. (\E t \in Scripts : Clears(t)) => (\E t \in Scripts : Clears(t)')
      BY <1>4, <3>1 DEF Clears
    <3>3. CASE c = "kinds"
      BY <1>3, <1>4, <3>3 DEF ProgrammesFit, Clears
    <3>4. CASE c = "programmes"
      BY <2>2, <3>4 DEF ProgrammesFit, D!Standing
    <3>5. CASE c \notin {"kinds", "programmes"}
      <4>1. ids'["kinds"] = ids["kinds"] /\ ids'["programmes"] = ids["programmes"]
        BY <2>2, <3>5 DEF D!Collections
      <4>. QED
        BY <2>3, <3>2, <4>1 DEF SeedInv, ProgrammesFit, D!Standing
    <3>. QED
      BY <3>3, <3>4, <3>5
  <2>8. k <= Last(p) => FitsAt(p, k, Absent)'
    <3>1. <<p, k, "part2", "funnel">> \notin Steps
      BY <1>3 DEF Steps, D!Alone
    <3>. QED
      BY <1>3, <1>5, <2>3, <3>1 DEF FitsAt, D!Alone
  <2>. QED
    BY <1>1, <1>3, <2>1, <2>2, <2>3, <2>4, <2>5, <2>6, <2>7, <2>8, MoveKeeps
<1>. QED
  BY <1>1, <1>7, <1>8

\* The reset takes every counter; what is in use is left behind.
LEMMA DropCountersKeeps ==
    ASSUME SeedInv, NEW s \in Scripts, D!DropCounters(s)
    PROVE  SeedInv'
<1>1. /\ scripts[s] # Absent /\ D!Step(s).op = "dropCounters" /\ scripts' = [scripts EXCEPT ![s] = D!After(s, 1)]
      /\ counters' = [c \in D!Collections |-> Absent]
      /\ brokenOff' = brokenOff \cup {c \in D!Numbered : D!InUse(c) # {}}
      /\ UNCHANGED <<ids, outrun>> /\ D!Kept
  BY DEF D!DropCounters, D!At, D!Advance
<1>2. /\ <<scripts[s].program, scripts[s].next, "dropCounters", D!Step(s).of>> \in Steps
      /\ scripts[s].next \in Nat
  BY <1>1, StepOfScript DEF SeedInv
<1>3. scripts[s].program = "reset" /\ scripts[s].next = 3
  BY <1>2 DEF Steps
<1>. PICK p, k : p = scripts[s].program /\ k = scripts[s].next + 1
  OBVIOUS
<1>4. wasReset
  BY <1>1, <1>3 DEF SeedInv, ScriptFits, FitsAt
<1>5. UNCHANGED <<ids, clients, programs, given, twice, outrun, wasReset>>
  BY <1>1 DEF D!Kept
<1>6. FitsAt(p, k, Absent)'
  <2>1. <<p, k, "part2", "funnel">> \notin Steps
    BY <1>3 DEF Steps
  <2>. QED
    BY <1>3, <1>4, <1>5, <2>1 DEF FitsAt
<1>7. GivenFits' /\ D!FunnelStands'
  BY <1>4, <1>5 DEF SeedInv, GivenFits, D!FunnelStands
<1>8. \A c \in D!Numbered : CountersFit(c)'
  <2>. SUFFICES ASSUME NEW c \in D!Numbered
                PROVE  CountersFit(c)'
    OBVIOUS
  <2>1. D!InUse(c)' = D!InUse(c) /\ counters'[c] = Absent
    BY <1>1, <1>5 DEF D!InUse, D!Collections
  <2>2. D!InUse(c) # {} => c \in brokenOff'
    BY <1>1
  <2>. QED
    BY <2>1, <2>2 DEF CountersFit
<1>9. ProgrammesFit'
  <2>1. /\ \A t \in Scripts \ {s} : scripts'[t] = scripts[t]
        /\ IF k > Last(p) THEN scripts'[s] = Absent
           ELSE scripts'[s] # Absent /\ scripts'[s].program = p /\ scripts'[s].next = k /\ scripts'[s].saw = Absent
    BY <1>1, ScriptMoves DEF SeedInv
  <2>2. (\E t \in Scripts : Clears(t)) => (\E t \in Scripts : Clears(t)')
    BY <1>3, <2>1, OthersOwe DEF Clears, Last
  <2>. QED
    BY <1>1, <1>5, <2>2 DEF SeedInv, ProgrammesFit, D!Standing
<1>10. ids' \in [D!Collections -> SUBSET (Nat \ {0})] /\ counters' \in [D!Collections -> Nat \cup {Absent}]
  BY <1>1, <1>5 DEF SeedInv, SeedTypes
<1>. QED
  BY <1>1, <1>3, <1>5, <1>6, <1>7, <1>8, <1>9, <1>10, MoveKeeps DEF D!Alone

\* What is seen is so when it is read.
LEMMA ReadKeeps ==
    ASSUME SeedInv, NEW s \in Scripts, D!Read(s)
    PROVE  SeedInv'
<1>. DEFINE p == scripts[s].program
            n == scripts[s].next
            op == D!Step(s).op
            c == D!Step(s).of
            saw == [is |-> D!Saw(c, op)]
<1>1. /\ scripts[s] # Absent /\ op \in D!Reads /\ scripts[s].saw = Absent
      /\ scripts' = [scripts EXCEPT ![s].saw = saw]
      /\ UNCHANGED <<ids, counters, brokenOff, outrun, clients, programs, given, twice, wasReset>>
  BY DEF D!Read, D!Kept
<1>2. <<p, n, op, c>> \in Steps /\ p \in Programs /\ n \in 1 .. Last(p) /\ scripts[s] \in Places
  BY <1>1, StepOfScript DEF SeedInv, SeedTypes
<1>3. c \in D!Collections
  BY <1>2 DEF Steps, D!Collections, D!Numbered
<1>4. saw \in [is : BOOLEAN \cup SUBSET Nat]
  <2>1. ids[c] \in SUBSET Nat
    BY <1>3 DEF SeedInv, SeedTypes
  <2>2. D!Saw(c, op) \in BOOLEAN \cup SUBSET Nat
    BY <2>1 DEF D!Saw
  <2>. QED
    BY <2>2
<1>. DEFINE new == [scripts[s] EXCEPT !.saw = saw]
<1>. HIDE DEF op, c, saw
<1>5. new \in Places /\ new.program = p /\ new.next = n /\ new.saw = saw /\ new # Absent
  <2>1. new \in Places /\ new.program = p /\ new.next = n /\ new.saw = saw
    BY <1>2, <1>4 DEF Places
  <2>2. new \in [program : {"reset", "meta", "seed", "init"}, next : Nat, saw : {Absent} \cup [is : BOOLEAN \cup SUBSET Nat]]
    BY <2>1 DEF Places, Programs
  <2>. QED
    BY <2>1, <2>2, SeedAssumption
<1>. HIDE DEF new
<1>6. /\ scripts' \in [Scripts -> Places \cup {Absent}] /\ scripts'[s] = new
      /\ \A t \in Scripts \ {s} : scripts'[t] = scripts[t]
  BY <1>1, <1>5 DEF SeedInv, SeedTypes, new
<1>7. SeedTypes'
  BY <1>1, <1>2, <1>5, <1>6 DEF SeedInv, SeedTypes
<1>8. AloneFits'
  BY <1>1, <1>5, <1>6, AloneStays DEF SeedInv
<1>9. \A t \in Scripts : ScriptFits(t)'
  <2>1. Grows
    BY <1>1 DEF Grows
  <2>2. FitsAt(p, n, Absent)
    BY <1>1 DEF SeedInv, ScriptFits
  <2>3. ScriptFits(s)'
    <3>. SUFFICES FitsAt(p, n, saw)
      BY <1>1, <1>5, <1>6 DEF ScriptFits, FitsAt
    <3>1. \A d \in D!Numbered : <<p, n, "ifNoCounter", d>> \in Steps /\ saw.is => counters[d] # Absent
      <4>. SUFFICES ASSUME NEW d \in D!Numbered, <<p, n, "ifNoCounter", d>> \in Steps, saw.is
                    PROVE  counters[d] # Absent
        OBVIOUS
      <4>1. op = "ifNoCounter" /\ c = d
        BY <1>2 DEF Steps
      <4>. QED
        BY <4>1 DEF saw, D!Saw
    <3>2. <<p, n, "part1", "funnel">> \in Steps /\ saw.is => 1 \in ids["funnel"]
      <4>. SUFFICES ASSUME <<p, n, "part1", "funnel">> \in Steps, saw.is
                    PROVE  1 \in ids["funnel"]
        OBVIOUS
      <4>1. op = "part1" /\ c = "funnel"
        BY <1>2 DEF Steps
      <4>. QED
        BY <4>1 DEF saw, D!Saw
    <3>3. p = "seed" /\ n = 9 /\ saw.is # {} => ids["kinds"] # {}
      <4>. SUFFICES ASSUME p = "seed", n = 9, saw.is # {}
                    PROVE  ids["kinds"] # {}
        OBVIOUS
      <4>1. op = "ifEmpty" /\ c = "kinds"
        BY <1>2 DEF Steps
      <4>. QED
        BY <4>1 DEF saw, D!Saw
    <3>. QED
      BY <2>2, <3>1, <3>2, <3>3 DEF FitsAt
  <2>. QED
    BY <1>6, <2>1, <2>3, ScriptsFit DEF SeedInv
<1>10. GivenFits' /\ D!FunnelStands'
  BY <1>1, NumbersRest DEF SeedInv, GivenFits, D!FunnelStands
<1>11. \A d \in D!Numbered : CountersFit(d)'
  <2>. SUFFICES ASSUME NEW d \in D!Numbered
                PROVE  CountersFit(d)'
    OBVIOUS
  <2>1. CountersFit(d)
    BY DEF SeedInv
  <2>2. D!InUse(d)' = D!InUse(d) /\ (D!Covered(d)' <=> D!Covered(d))
    BY <1>1, NumbersRest
  <2>3. Owing(s, d) => Owing(s, d)'
    BY <1>5, <1>6 DEF Owing
  <2>4. (\E t \in Scripts : Owing(t, d)) => (\E t \in Scripts : Owing(t, d)')
    BY <1>6, <2>3, OthersOwe
  <2>. QED
    BY <1>1, <2>1, <2>2, <2>4 DEF CountersFit, D!Size
<1>12. ProgrammesFit'
  <2>1. Clears(s) => Clears(s)'
    BY <1>5, <1>6 DEF Clears
  <2>2. (\E t \in Scripts : Clears(t)) => (\E t \in Scripts : Clears(t)')
    BY <1>6, <2>1, OthersOwe
  <2>. QED
    BY <1>1, <2>2 DEF SeedInv, ProgrammesFit, D!Standing
<1>. QED
  BY <1>7, <1>8, <1>9, <1>10, <1>11, <1>12 DEF SeedInv

\* The steps of the scripts that insert, set a counter or pass.
LEMMA InsertStepKeeps ==
    ASSUME SeedInv, NEW s \in Scripts, D!Insert(s)
    PROVE  SeedInv'
<1>. PICK p, n, k, c : p = scripts[s].program /\ n = scripts[s].next /\ k = scripts[s].next + 1 /\ c = D!Step(s).of
  OBVIOUS
<1>1. scripts[s] # Absent /\ D!Step(s).op = "insert" /\ D!InsertAll(s, c, 1 .. D!Size(c))
  BY DEF D!Insert, D!At
<1>2. <<p, n, "insert", c>> \in Steps /\ p \in Programs /\ n \in 1 .. Last(p)
  BY <1>1, StepOfScript DEF SeedInv
<1>3. <<p, n, c>> \in {<<"reset", 8, "departments">>, <<"reset", 9, "users">>, <<"reset", 12, "kinds">>,
                       <<"reset", 13, "programmes">>, <<"meta", 3, "kinds">>, <<"meta", 5, "programmes">>}
  BY <1>2 DEF Steps
<1>4. c \in D!Collections /\ (c # "programmes" => k <= Last(p)) /\ <<p, k, "part2", "funnel">> \notin Steps
  BY <1>3 DEF D!Collections, D!Numbered, Last, Steps
<1>5. FitsAt(p, n, scripts[s].saw)
  BY <1>1 DEF SeedInv, ScriptFits
<1>6. /\ p = "reset" => wasReset /\ counters["users"] # Absent
      /\ c = "programmes" => ids["kinds"] # {}
  BY <1>3, <1>5 DEF FitsAt
<1>. PICK new : new = 1 .. D!Size(c)
  OBVIOUS
<1>7. Inserted(c, new) /\ k <= Last(p) => FitsAt(p, k, Absent)'
  <2>. SUFFICES ASSUME k <= Last(p), ids' = [ids EXCEPT ![c] = @ \cup new], UNCHANGED <<counters, wasReset>>
                PROVE  FitsAt(p, k, Absent)'
    BY DEF Inserted
  <2>1. c = "kinds" => 1 \in ids'["kinds"]
    BY DEF SeedInv, SeedTypes, D!Size, D!Collections
  <2>2. (p = "reset" /\ k >= 13) \/ (p = "meta" /\ k >= 4) => c = "kinds"
    BY <1>3 DEF Last
  <2>3. p \notin {"seed", "init"}
    BY <1>3
  <2>. QED
    BY <1>4, <1>6, <2>1, <2>2, <2>3 DEF FitsAt
<1>8. c \in D!Numbered /\ counters[c] = Absent => wasReset /\ c = "departments"
  BY <1>3, <1>6 DEF D!Numbered
<1>9. \A d : ~Owing(s, d)
  BY <1>3 DEF Owing, OwingAt
<1>10. InsertFits(s, p, k, c, new)
  BY <1>3, <1>4, <1>6, <1>8, <1>9 DEF InsertFits
<1>. QED
  BY <1>1, <1>4, <1>7, <1>10, InsertKeeps

LEMMA CounterStepKeeps ==
    ASSUME SeedInv, NEW s \in Scripts, D!Counter(s)
    PROVE  SeedInv'
<1>. PICK p, n, k, c : p = scripts[s].program /\ n = scripts[s].next /\ k = scripts[s].next + 1 /\ c = D!Step(s).of
  OBVIOUS
<1>1. scripts[s] # Absent /\ D!Step(s).op = "counter" /\ D!NewCounter(s, c)
  BY DEF D!Counter, D!At
<1>2. <<p, n, "counter", c>> \in Steps
  BY <1>1, StepOfScript DEF SeedInv
<1>3. p = "reset" /\ n = 7 /\ c = "users" /\ k = 8
  BY <1>2 DEF Steps
<1>4. k <= Last(p) /\ <<p, k, "part2", "funnel">> \notin Steps /\ c \in D!Numbered
  BY <1>3 DEF Last, Steps, D!Numbered
<1>5. FitsAt(p, n, scripts[s].saw)
  BY <1>1 DEF SeedInv, ScriptFits
<1>6. UNCHANGED <<ids, wasReset>> /\ counters'[c] # Absent => FitsAt(p, k, Absent)'
  BY <1>3, <1>4, <1>5 DEF FitsAt
<1>7. \A d : ~Owing(s, d)
  BY <1>3 DEF Owing, OwingAt
<1>. QED
  BY <1>1, <1>4, <1>6, <1>7, NewCounterKeeps

LEMMA IfEmptyKeeps ==
    ASSUME SeedInv, NEW s \in Scripts, D!IfEmpty(s)
    PROVE  SeedInv'
<1>. PICK p, n, k, c : p = scripts[s].program /\ n = scripts[s].next /\ k = scripts[s].next + 1 /\ c = D!Step(s).of
  OBVIOUS
<1>1. /\ scripts[s] # Absent /\ D!Step(s).op = "ifEmpty" /\ scripts[s].saw # Absent
      /\ IF scripts[s].saw.is = {} THEN D!InsertAll(s, c, 1 .. D!Size(c))
         ELSE IF c = "types" THEN D!Skipped(s) ELSE D!Skip(s)
  BY DEF D!IfEmpty, D!Answered, D!At
<1>2. <<p, n, "ifEmpty", c>> \in Steps
  BY <1>1, StepOfScript DEF SeedInv
<1>3. /\ p = "seed"
      /\ <<n, c>> \in {<<1, "departments">>, <<7, "types">>, <<9, "kinds">>, <<10, "programmes">>}
  BY <1>2 DEF Steps
<1>4. c \in D!Collections /\ <<p, k, "part2", "funnel">> \notin Steps /\ <<p, n + 2, "part2", "funnel">> \notin Steps
  BY <1>3 DEF D!Collections, D!Numbered, Steps
<1>5. FitsAt(p, n, scripts[s].saw)
  BY <1>1 DEF SeedInv, ScriptFits
<1>6. \A d : ~Owing(s, d)
  BY <1>3 DEF Owing, OwingAt
<1>7. ~Clears(s)
  BY <1>3 DEF Clears
<1>8. CASE scripts[s].saw.is = {}
  <2>. PICK new : new = 1 .. D!Size(c)
    OBVIOUS
  <2>1. Inserted(c, new) /\ k <= Last(p) => FitsAt(p, k, Absent)'
    <3>. SUFFICES ASSUME k <= Last(p), ids' = [ids EXCEPT ![c] = @ \cup new], UNCHANGED <<counters, wasReset>>
                  PROVE  FitsAt(p, k, Absent)'
      BY DEF Inserted
    <3>1. c = "kinds" => 1 \in ids'["kinds"]
      BY DEF SeedInv, SeedTypes, D!Size, D!Collections
    <3>2. k >= 10 => c = "kinds"
      BY <1>3 DEF Last
    <3>. QED
      BY <1>3, <1>4, <3>1, <3>2 DEF FitsAt
  <2>2. c = "programmes" => ids["kinds"] # {}
    BY <1>3, <1>5 DEF FitsAt
  <2>3. c \in D!Numbered => k <= Last(p) /\ OwingAt(p, k, c)
    BY <1>3 DEF D!Numbered, OwingAt, Last
  <2>4. InsertFits(s, p, k, c, new)
    BY <1>3, <1>6, <1>7, <2>2, <2>3 DEF InsertFits
  <2>5. scripts[s] # Absent /\ c \in D!Collections /\ D!InsertAll(s, c, new)
    BY <1>1, <1>4, <1>8
  <2>. QED
    BY <2>1, <2>4, <2>5, InsertKeeps
<1>9. CASE scripts[s].saw.is # {} /\ c = "types"
  <2>1. /\ scripts' = [scripts EXCEPT ![s] = D!After(s, 2)]
        /\ UNCHANGED <<ids, counters, brokenOff, outrun>> /\ D!Kept
    BY <1>1, <1>9 DEF D!Skipped
  <2>2. FitsAt(p, n + 2, Absent)
    BY <1>3, <1>4, <1>9 DEF FitsAt
  <2>. QED
    BY <1>1, <1>6, <1>7, <2>1, <2>2, SkipKeeps
<1>10. CASE scripts[s].saw.is # {} /\ c # "types"
  <2>1. /\ scripts' = [scripts EXCEPT ![s] = D!After(s, 1)]
        /\ UNCHANGED <<ids, counters, brokenOff, outrun>> /\ D!Kept
    BY <1>1, <1>10 DEF D!Skip, D!Advance
  <2>2. k <= Last(p) => FitsAt(p, k, Absent)
    BY <1>1, <1>3, <1>4, <1>5, <1>10 DEF FitsAt, Last
  <2>. QED
    BY <1>1, <1>6, <1>7, <2>1, <2>2, SkipKeeps
<1>. QED
  BY <1>8, <1>9, <1>10

LEMMA InsertMissingKeeps ==
    ASSUME SeedInv, NEW s \in Scripts, D!InsertMissing(s)
    PROVE  SeedInv'
<1>. PICK p, n, k : p = scripts[s].program /\ n = scripts[s].next /\ k = scripts[s].next + 1
  OBVIOUS
<1>. PICK new : new = (1 .. D!Size("users")) \ scripts[s].saw.is
  OBVIOUS
<1>1. /\ scripts[s] # Absent /\ D!Step(s).op = "missing"
      /\ D!Skip(s) \/ D!InsertAll(s, "users", new)
  BY DEF D!InsertMissing, D!Answered, D!At
<1>2. <<p, n, "missing", D!Step(s).of>> \in Steps
  BY <1>1, StepOfScript DEF SeedInv
<1>3. p = "seed" /\ n = 2 /\ k = 3
  BY <1>2 DEF Steps
<1>4. k <= Last(p) /\ <<p, k, "part2", "funnel">> \notin Steps
  BY <1>3 DEF Last, Steps
<1>5. ~Clears(s) /\ \A d : Owing(s, d) => OwingAt(p, k, d)
  BY <1>3 DEF Clears, Owing, OwingAt
<1>6. CASE D!Skip(s)
  <2>1. /\ scripts' = [scripts EXCEPT ![s] = D!After(s, 1)]
        /\ UNCHANGED <<ids, counters, brokenOff, outrun>> /\ D!Kept
    BY <1>6 DEF D!Skip, D!Advance
  <2>2. FitsAt(p, k, Absent)
    BY <1>3, <1>4 DEF FitsAt
  <2>3. scripts'[s] # Absent /\ scripts'[s].program = p /\ scripts'[s].next = k
    <3>1. IF k > Last(p) THEN scripts'[s] = Absent
          ELSE scripts'[s] # Absent /\ scripts'[s].program = p /\ scripts'[s].next = k /\ scripts'[s].saw = Absent
      BY <1>1, <2>1, ScriptMoves DEF SeedInv
    <3>. QED
      BY <1>3, <3>1 DEF Last
  <2>4. \A d : Owing(s, d) => Owing(s, d)'
    BY <1>5, <2>3 DEF Owing
  <2>. QED
    BY <1>1, <1>4, <1>5, <2>1, <2>2, <2>4, SkipKeeps
<1>7. CASE D!InsertAll(s, "users", new)
  <2>1. Inserted("users", new) => FitsAt(p, k, Absent)'
    BY <1>3, <1>4 DEF FitsAt, Inserted
  <2>2. "users" \in D!Collections /\ InsertFits(s, p, k, "users", new)
    BY <1>3, <1>4, <1>5 DEF D!Collections, D!Numbered, OwingAt, InsertFits
  <2>. QED
    BY <1>1, <1>7, <2>1, <2>2, InsertKeeps
<1>. QED
  BY <1>1, <1>6, <1>7

LEMMA CounterIfMissingKeeps ==
    ASSUME SeedInv, NEW s \in Scripts, D!CounterIfMissing(s)
    PROVE  SeedInv'
<1>. PICK p, n, k, c : p = scripts[s].program /\ n = scripts[s].next /\ k = scripts[s].next + 1 /\ c = D!Step(s).of
  OBVIOUS
<1>1. /\ scripts[s] # Absent /\ D!Step(s).op = "ifNoCounter" /\ scripts[s].saw # Absent
      /\ IF scripts[s].saw.is THEN D!Skip(s) ELSE D!NewCounter(s, c)
  BY DEF D!CounterIfMissing, D!Answered, D!At
<1>2. <<p, n, "ifNoCounter", c>> \in Steps
  BY <1>1, StepOfScript DEF SeedInv
<1>3. <<p, n, c>> \in {<<"seed", 3, "users">>, <<"seed", 4, "departments">>, <<"seed", 8, "types">>, <<"init", 1, "users">>}
  BY <1>2 DEF Steps
<1>4. k <= Last(p) /\ <<p, k, "part2", "funnel">> \notin Steps /\ c \in D!Numbered
  BY <1>3 DEF Last, Steps, D!Numbered
<1>5. FitsAt(p, n, scripts[s].saw)
  BY <1>1 DEF SeedInv, ScriptFits
<1>6. ~Clears(s) /\ \A d \in D!Numbered \ {c} : Owing(s, d) => OwingAt(p, k, d)
  BY <1>3 DEF Clears, Owing, OwingAt
<1>7. CASE scripts[s].saw.is
  <2>1. /\ scripts' = [scripts EXCEPT ![s] = D!After(s, 1)]
        /\ UNCHANGED <<ids, counters, brokenOff, outrun>> /\ D!Kept
    BY <1>1, <1>7 DEF D!Skip, D!Advance
  <2>2. counters[c] # Absent
    BY <1>1, <1>2, <1>4, <1>5, <1>7 DEF FitsAt
  <2>3. FitsAt(p, k, Absent)
    BY <1>3, <1>4, <2>2 DEF FitsAt
  <2>4. scripts'[s] # Absent /\ scripts'[s].program = p /\ scripts'[s].next = k
    <3>1. IF k > Last(p) THEN scripts'[s] = Absent
          ELSE scripts'[s] # Absent /\ scripts'[s].program = p /\ scripts'[s].next = k /\ scripts'[s].saw = Absent
      BY <1>1, <2>1, ScriptMoves DEF SeedInv
    <3>. QED
      BY <1>3, <3>1 DEF Last
  <2>5. \A d \in D!Numbered : Owing(s, d) => Owing(s, d)' \/ counters[d] # Absent
    BY <1>6, <2>2, <2>4 DEF Owing
  <2>. QED
    BY <1>1, <1>4, <1>6, <2>1, <2>3, <2>5, SkipKeeps
<1>8. CASE ~scripts[s].saw.is
  <2>1. UNCHANGED <<ids, wasReset>> /\ counters'[c] # Absent => FitsAt(p, k, Absent)'
    BY <1>3, <1>4 DEF FitsAt
  <2>. QED
    BY <1>1, <1>4, <1>6, <1>8, <2>1, NewCounterKeeps
<1>. QED
  BY <1>7, <1>8

LEMMA PartOfFunnelKeeps ==
    ASSUME SeedInv, NEW s \in Scripts, D!PartOfFunnel(s)
    PROVE  SeedInv'
<1>. PICK p, n, k : p = scripts[s].program /\ n = scripts[s].next /\ k = scripts[s].next + 1
  OBVIOUS
<1>1. PICK i \in 1 .. 2 :
        /\ scripts[s] # Absent /\ D!Step(s).op = <<"part1", "part2">>[i] /\ scripts[s].saw # Absent
        /\ IF scripts[s].saw.is THEN D!Skip(s) ELSE D!InsertAll(s, "funnel", {i})
  BY DEF D!PartOfFunnel, D!Answered, D!At
<1>2. /\ i = 1 => <<p, n, "part1", D!Step(s).of>> \in Steps
      /\ i = 2 => <<p, n, "part2", D!Step(s).of>> \in Steps
  BY <1>1, StepOfScript DEF SeedInv
<1>3. <<p, n, i>> \in {<<"reset", 10, 1>>, <<"reset", 11, 2>>, <<"seed", 5, 1>>, <<"seed", 6, 2>>,
                       <<"init", 4, 1>>, <<"init", 5, 2>>}
  BY <1>2 DEF Steps
<1>4. <<p, n, IF i = 1 THEN "part1" ELSE "part2", "funnel">> \in Steps
  BY <1>2, <1>3 DEF Steps
<1>5. FitsAt(p, n, scripts[s].saw)
  BY <1>1 DEF SeedInv, ScriptFits
<1>6. /\ p = "reset" => wasReset /\ counters["users"] # Absent
      /\ p = "init" => counters["users"] # Absent
      /\ i = 2 \/ scripts[s].saw.is => 1 \in ids["funnel"]
  BY <1>1, <1>3, <1>4, <1>5 DEF FitsAt
<1>7. (\A d : ~Owing(s, d)) /\ (Clears(s) => k <= Last(p))
  BY <1>3 DEF Owing, OwingAt, Clears, Last
<1>8. ~(p = "reset" /\ k >= 13) /\ p # "meta" /\ ~(p = "seed" /\ k >= 9)
  BY <1>3
<1>9. CASE scripts[s].saw.is
  <2>1. /\ scripts' = [scripts EXCEPT ![s] = D!After(s, 1)]
        /\ UNCHANGED <<ids, counters, brokenOff, outrun>> /\ D!Kept
    BY <1>1, <1>9 DEF D!Skip, D!Advance
  <2>2. FitsAt(p, k, Absent)
    BY <1>3, <1>6, <1>8, <1>9 DEF FitsAt
  <2>. QED
    BY <1>1, <1>7, <2>1, <2>2, SkipKeeps
<1>10. CASE ~scripts[s].saw.is
  <2>1. Inserted("funnel", {i}) => FitsAt(p, k, Absent)'
    <3>. SUFFICES ASSUME ids' = [ids EXCEPT !["funnel"] = @ \cup {i}], UNCHANGED <<counters, wasReset>>
                  PROVE  FitsAt(p, k, Absent)'
      BY DEF Inserted
    <3>1. 1 \in ids'["funnel"]
      BY <1>6 DEF SeedInv, SeedTypes, D!Collections
    <3>. QED
      BY <1>3, <1>6, <1>8, <3>1 DEF FitsAt
  <2>2. "funnel" \in D!Collections /\ InsertFits(s, p, k, "funnel", {i})
    BY <1>6, <1>7 DEF D!Collections, D!Numbered, D!Size, InsertFits
  <2>. QED
    BY <1>1, <1>10, <2>1, <2>2, InsertKeeps
<1>. QED
  BY <1>9, <1>10

LEMMA AccountKeeps ==
    ASSUME SeedInv, NEW s \in Scripts, D!Account(s)
    PROVE  SeedInv'
<1>. PICK p, n, k : p = scripts[s].program /\ n = scripts[s].next /\ k = scripts[s].next + 1
  OBVIOUS
<1>1. PICK i \in 1 .. 2 :
        /\ scripts[s] # Absent /\ D!Step(s).op = <<"account1", "account2">>[i]
        /\ D!Skip(s) \/ D!InsertAll(s, "users", {i})
  BY DEF D!Account, D!At
<1>2. /\ i = 1 => <<p, n, "account1", D!Step(s).of>> \in Steps
      /\ i = 2 => <<p, n, "account2", D!Step(s).of>> \in Steps
  BY <1>1, StepOfScript DEF SeedInv
<1>3. p = "init" /\ n = 1 + i
  BY <1>2 DEF Steps
<1>4. k <= Last(p) /\ <<p, k, "part2", "funnel">> \notin Steps
  BY <1>3 DEF Last, Steps
<1>5. FitsAt(p, n, scripts[s].saw)
  BY <1>1 DEF SeedInv, ScriptFits
<1>6. counters["users"] # Absent
  BY <1>3, <1>5 DEF FitsAt
<1>7. (\A d : ~Owing(s, d)) /\ ~Clears(s)
  BY <1>3 DEF Owing, OwingAt, Clears
<1>8. CASE D!Skip(s)
  <2>1. /\ scripts' = [scripts EXCEPT ![s] = D!After(s, 1)]
        /\ UNCHANGED <<ids, counters, brokenOff, outrun>> /\ D!Kept
    BY <1>8 DEF D!Skip, D!Advance
  <2>2. FitsAt(p, k, Absent)
    BY <1>3, <1>4, <1>6 DEF FitsAt
  <2>. QED
    BY <1>1, <1>7, <2>1, <2>2, SkipKeeps
<1>9. CASE D!InsertAll(s, "users", {i})
  <2>1. Inserted("users", {i}) => FitsAt(p, k, Absent)'
    BY <1>3, <1>4, <1>6 DEF FitsAt, Inserted
  <2>2. "users" \in D!Collections /\ InsertFits(s, p, k, "users", {i})
    BY <1>6, <1>7 DEF D!Collections, D!Numbered, D!Size, InsertFits
  <2>. QED
    BY <1>1, <1>9, <2>1, <2>2, InsertKeeps
<1>. QED
  BY <1>1, <1>8, <1>9

LEMMA PeopleKeeps ==
    ASSUME SeedInv, NEW s \in Scripts, D!People(s)
    PROVE  SeedInv'
<1>. PICK p, n, k : p = scripts[s].program /\ n = scripts[s].next /\ k = scripts[s].next + 1
  OBVIOUS
<1>1. scripts[s] # Absent /\ D!Step(s).op = "people" /\ (D!Skip(s) \/ D!Stop(s))
  BY DEF D!People, D!At
<1>2. <<p, n, "people", D!Step(s).of>> \in Steps
  BY <1>1, StepOfScript DEF SeedInv
<1>3. p = "meta" /\ n = 4
  BY <1>2 DEF Steps
<1>4. k <= Last(p) /\ <<p, k, "part2", "funnel">> \notin Steps
  BY <1>3 DEF Last, Steps
<1>5. FitsAt(p, n, scripts[s].saw)
  BY <1>1 DEF SeedInv, ScriptFits
<1>6. FitsAt(p, k, Absent)
  BY <1>3, <1>4, <1>5 DEF FitsAt
<1>7. \A d : ~Owing(s, d)
  BY <1>3 DEF Owing, OwingAt
<1>8. CASE D!Skip(s)
  BY <1>1, <1>4, <1>6, <1>7, <1>8, SkipKeeps DEF D!Skip, D!Advance
<1>. QED
  BY <1>1, <1>8, StopKeeps

\* What the server does beside the scripts.
LEMMA ServerKeeps ==
    ASSUME SeedInv, UNCHANGED <<scripts, brokenOff, wasReset>>, outrun \subseteq outrun', SeedTypes', Grows,
           GivenFits', D!FunnelStands', ids'["kinds"] = ids["kinds"], ids'["programmes"] = ids["programmes"],
           \A c \in D!Numbered :
               IF counters'[c] = Absent THEN counters[c] = Absent /\ D!InUse(c)' \subseteq D!InUse(c)
               ELSE D!Covered(c)' \/ c \in brokenOff \cup outrun'
    PROVE  SeedInv'
<1>1. AloneFits'
  BY DEF SeedInv, AloneFits, D!Clearing
<1>2. \A t \in Scripts : ScriptFits(t)'
  <2>. SUFFICES ASSUME NEW t \in Scripts
                PROVE  ScriptFits(t)'
    OBVIOUS
  <2>1. ScriptFits(t) /\ scripts' = scripts
    BY DEF SeedInv
  <2>. QED
    BY <2>1 DEF ScriptFits, FitsAt, Grows, D!Numbered
<1>3. \A c \in D!Numbered : CountersFit(c)'
  <2>. SUFFICES ASSUME NEW c \in D!Numbered
                PROVE  CountersFit(c)'
    OBVIOUS
  <2>1. CountersFit(c)
    BY DEF SeedInv
  <2>2. (\E t \in Scripts : Owing(t, c)) => (\E t \in Scripts : Owing(t, c)')
    BY DEF Owing
  <2>. QED
    BY <2>1, <2>2 DEF CountersFit, D!Size
<1>4. ProgrammesFit'
  <2>1. (\E t \in Scripts : Clears(t)) => (\E t \in Scripts : Clears(t)')
    BY DEF Clears
  <2>. QED
    BY <2>1 DEF SeedInv, ProgrammesFit, D!Standing
<1>. QED
  BY <1>1, <1>2, <1>3, <1>4 DEF SeedInv

LEMMA GenerateKeeps ==
    ASSUME SeedInv, NEW k \in Clients, D!Generate(k)
    PROVE  SeedInv'
<1>1. clients[k] = Absent /\ UNCHANGED <<ids, scripts, programs, brokenOff, wasReset>>
  BY DEF D!Generate
<1>2. PICK c, id :
        /\ c \in D!Numbered /\ id = D!Count(c) + 1 /\ counters' = [counters EXCEPT ![c] = id]
        /\ clients' = [clients EXCEPT ![k] = [of |-> c, id |-> id]]
        /\ given' = [given EXCEPT ![c] = @ \cup {id}]
        /\ twice' = IF id \in given[c] THEN twice \cup {c} ELSE twice
        /\ outrun' = IF \E i \in D!InUse(c) : i > id THEN outrun \cup {c} ELSE outrun
  BY DEF D!Generate
<1>3. /\ ids \in [D!Collections -> SUBSET (Nat \ {0})] /\ counters \in [D!Collections -> Nat \cup {Absent}]
      /\ clients \in [Clients -> [of : D!Numbered, id : Nat \ {0}] \cup {Absent}]
      /\ given \in [D!Collections -> SUBSET Nat]
  BY DEF SeedInv, SeedTypes
<1>4. c \in D!Collections /\ D!Count(c) \in Nat
  BY <1>2, <1>3 DEF D!Collections, D!Count
<1>5. id \in Nat \ {0} /\ id # Absent
  BY <1>2, <1>4, SeedAssumption
<1>6. /\ counters' \in [D!Collections -> Nat \cup {Absent}] /\ counters'[c] = id
      /\ \A d \in D!Collections \ {c} : counters'[d] = counters[d]
  BY <1>2, <1>3, <1>4, <1>5
<1>7. /\ clients' \in [Clients -> [of : D!Numbered, id : Nat \ {0}] \cup {Absent}]
      /\ clients'[k] = [of |-> c, id |-> id] /\ \A l \in Clients \ {k} : clients'[l] = clients[l]
  BY <1>2, <1>3, <1>5
<1>8. /\ given' \in [D!Collections -> SUBSET Nat] /\ given'[c] = given[c] \cup {id}
      /\ \A d \in D!Collections \ {c} : given'[d] = given[d]
  BY <1>2, <1>3, <1>4, <1>5
<1>9. D!Count(c)' = id /\ \A d \in D!Numbered \ {c} : D!Count(d)' = D!Count(d)
  BY <1>5, <1>6 DEF D!Count, D!Collections
<1>10. SeedTypes'
  BY <1>1, <1>6, <1>7, <1>8 DEF SeedInv, SeedTypes
<1>11. Grows
  <2>1. \A d \in D!Numbered : counters[d] # Absent => counters'[d] # Absent
    BY <1>5, <1>6 DEF D!Collections
  <2>. QED
    BY <1>1, <2>1 DEF Grows
<1>12. GivenFits'
  <2>. SUFFICES ASSUME ~wasReset
                PROVE  twice' = {} /\ \A d \in D!Numbered : given'[d] \subseteq 1 .. D!Count(d)'
    BY <1>1 DEF GivenFits
  <2>1. twice = {} /\ \A d \in D!Numbered : given[d] \subseteq 1 .. D!Count(d)
    BY DEF SeedInv, GivenFits
  <2>2. id \notin given[c]
    BY <1>2, <1>4, <2>1
  <2>3. given'[c] \subseteq 1 .. D!Count(c)'
    BY <1>2, <1>4, <1>8, <1>9, <2>1
  <2>4. \A d \in D!Numbered \ {c} : given'[d] \subseteq 1 .. D!Count(d)'
    BY <1>8, <1>9, <2>1 DEF D!Collections
  <2>. QED
    BY <1>2, <2>1, <2>2, <2>3, <2>4
<1>13. \A d \in D!Numbered :
           IF counters'[d] = Absent THEN counters[d] = Absent /\ D!InUse(d)' \subseteq D!InUse(d)
           ELSE D!Covered(d)' \/ d \in brokenOff \cup outrun'
  <2>. SUFFICES ASSUME NEW d \in D!Numbered
                PROVE  IF counters'[d] = Absent THEN counters[d] = Absent /\ D!InUse(d)' \subseteq D!InUse(d)
                       ELSE D!Covered(d)' \/ d \in brokenOff \cup outrun'
    OBVIOUS
  <2>0. d \in D!Collections /\ CountersFit(d)
    BY DEF SeedInv, D!Collections
  <2>1. CASE d # c
    <3>1. D!InUse(d)' \subseteq D!InUse(d)
      BY <1>1, <1>7, <2>1, InUseMeans
    <3>2. counters'[d] = counters[d] /\ D!Count(d)' = D!Count(d)
      BY <1>6, <1>9, <2>0, <2>1
    <3>3. D!Covered(d) => D!Covered(d)'
      BY <3>1, <3>2 DEF D!Covered
    <3>. QED
      BY <1>2, <2>0, <3>1, <3>2, <3>3 DEF CountersFit
  <2>2. CASE d = c
    <3>1. D!InUse(c)' \subseteq D!InUse(c) \cup {id}
      BY <1>1, <1>7, InUseMeans
    <3>2. (\A i \in D!InUse(c) : i <= id) => D!Covered(c)'
      BY <1>5, <1>9, <3>1 DEF D!Covered
    <3>3. \A i \in D!InUse(c) : i \in Nat
      BY <1>3, <1>4, InUseMeans
    <3>4. (\A i \in D!InUse(c) : i <= id) \/ c \in outrun'
      BY <1>2, <1>5, <3>3
    <3>. QED
      BY <1>5, <1>6, <2>2, <3>2, <3>4
  <2>. QED
    BY <2>1, <2>2
<1>14. D!FunnelStands'
  BY <1>1 DEF SeedInv, D!FunnelStands
<1>. QED
  BY <1>1, <1>2, <1>10, <1>11, <1>12, <1>13, <1>14, ServerKeeps

LEMMA CreateKeeps ==
    ASSUME SeedInv, NEW k \in Clients, D!Create(k)
    PROVE  SeedInv'
<1>. PICK c, id : c = clients[k].of /\ id = clients[k].id
  OBVIOUS
<1>1. /\ clients[k] # Absent /\ ids' = [ids EXCEPT ![c] = @ \cup {id}]
      /\ clients' = [clients EXCEPT ![k] = Absent]
      /\ UNCHANGED <<counters, scripts, programs, given, twice, brokenOff, outrun, wasReset>>
  BY DEF D!Create
<1>2. /\ ids \in [D!Collections -> SUBSET (Nat \ {0})]
      /\ clients \in [Clients -> [of : D!Numbered, id : Nat \ {0}] \cup {Absent}]
  BY DEF SeedInv, SeedTypes
<1>3. c \in D!Numbered /\ c \in D!Collections /\ id \in Nat \ {0}
  BY <1>1, <1>2 DEF D!Collections
<1>4. /\ ids' \in [D!Collections -> SUBSET (Nat \ {0})] /\ ids'[c] = ids[c] \cup {id}
      /\ \A d \in D!Collections \ {c} : ids'[d] = ids[d]
  BY <1>1, <1>2, <1>3
<1>5. /\ clients' \in [Clients -> [of : D!Numbered, id : Nat \ {0}] \cup {Absent}]
      /\ clients'[k] = Absent /\ \A l \in Clients \ {k} : clients'[l] = clients[l]
  BY <1>1, <1>2
<1>6. \A d \in D!Numbered : D!InUse(d)' \subseteq D!InUse(d)
  BY <1>1, <1>4, <1>5, InUseMeans DEF D!Collections
<1>7. \A d \in D!Numbered : D!Covered(d) => D!Covered(d)'
  BY <1>1, <1>6 DEF D!Covered, D!Count
<1>8. /\ ids'["kinds"] = ids["kinds"] /\ ids'["programmes"] = ids["programmes"] /\ ids'["funnel"] = ids["funnel"]
  BY <1>3, <1>4 DEF D!Numbered, D!Collections
<1>9. SeedTypes'
  BY <1>1, <1>4, <1>5 DEF SeedInv, SeedTypes
<1>10. Grows
  BY <1>1, <1>8 DEF Grows
<1>11. GivenFits' /\ D!FunnelStands'
  BY <1>1, <1>8 DEF SeedInv, GivenFits, D!Count, D!FunnelStands
<1>12. \A d \in D!Numbered : CountersFit(d)
  BY DEF SeedInv
<1>. QED
  BY <1>1, <1>6, <1>7, <1>8, <1>9, <1>10, <1>11, <1>12, ServerKeeps DEF CountersFit

LEMMA DeleteKeeps ==
    ASSUME SeedInv, NEW i, D!Delete(i)
    PROVE  SeedInv'
<1>1. /\ ids' = [ids EXCEPT !["types"] = @ \ {i}]
      /\ UNCHANGED <<counters, clients, scripts, programs, given, twice, brokenOff, outrun, wasReset>>
  BY DEF D!Delete
<1>2. ids \in [D!Collections -> SUBSET (Nat \ {0})] /\ "types" \in D!Collections
  BY DEF SeedInv, SeedTypes, D!Collections, D!Numbered
<1>3. /\ ids' \in [D!Collections -> SUBSET (Nat \ {0})] /\ ids'["types"] \subseteq ids["types"]
      /\ \A d \in D!Collections \ {"types"} : ids'[d] = ids[d]
  BY <1>1, <1>2
<1>4. \A d \in D!Numbered : D!InUse(d)' \subseteq D!InUse(d)
  BY <1>1, <1>3, InUseMeans DEF D!Collections
<1>5. \A d \in D!Numbered : D!Covered(d) => D!Covered(d)'
  BY <1>1, <1>4 DEF D!Covered, D!Count
<1>6. /\ ids'["kinds"] = ids["kinds"] /\ ids'["programmes"] = ids["programmes"] /\ ids'["funnel"] = ids["funnel"]
  BY <1>3 DEF D!Collections, D!Numbered
<1>7. SeedTypes'
  BY <1>1, <1>3 DEF SeedInv, SeedTypes
<1>8. Grows
  BY <1>1, <1>6 DEF Grows
<1>9. GivenFits' /\ D!FunnelStands'
  BY <1>1, <1>6 DEF SeedInv, GivenFits, D!Count, D!FunnelStands
<1>10. \A d \in D!Numbered : CountersFit(d)
  BY DEF SeedInv
<1>. QED
  BY <1>1, <1>4, <1>5, <1>6, <1>7, <1>8, <1>9, <1>10, ServerKeeps DEF CountersFit

LEMMA SeedsFirst == Init => (part = "seeds" => SeedInv)
<1>. SUFFICES ASSUME Init
              PROVE  SeedInv
  OBVIOUS
<1>1. PICK start \in SeedStarts :
        /\ programs = start.programs /\ ids = start.ids /\ counters = start.counters
  BY DEF Init, D!SeedInit
<1>2. /\ scripts = [s \in Scripts |-> Absent] /\ clients = [k \in Clients |-> Absent]
      /\ given = [c \in D!Collections |-> 1 .. D!Count(c)] /\ twice = {}
  BY DEF Init, D!SeedInit
<1>3. /\ ids \in [D!Collections -> SUBSET (Nat \ {0})] /\ counters \in [D!Collections -> Nat \cup {Absent}]
      /\ programs \subseteq Programs /\ D!FunnelStands /\ D!Standing
      /\ \A c \in D!Numbered : \A i \in ids[c] : counters[c] # Absent /\ i <= counters[c]
  BY <1>1, SeedAssumption DEF Programs, D!FunnelStands, D!Standing
<1>4. \A c \in D!Collections : given[c] = 1 .. D!Count(c) /\ given[c] \in SUBSET Nat
  BY <1>2, <1>3 DEF D!Count
<1>5. given \in [D!Collections -> SUBSET Nat]
  BY <1>2, <1>4
<1>6. SeedTypes
  BY <1>2, <1>3, <1>5 DEF SeedTypes
<1>7. AloneFits /\ \A s \in Scripts : ScriptFits(s)
  BY <1>2 DEF AloneFits, D!Clearing, ScriptFits
<1>8. GivenFits
  BY <1>2, <1>4 DEF GivenFits, D!Collections
<1>9. \A c \in D!Numbered : CountersFit(c)
  <2>1. \A c : D!InUse(c) = ids[c]
    BY <1>2 DEF D!InUse
  <2>. QED
    BY <1>3, <2>1 DEF CountersFit, D!Covered, D!Count
<1>. QED
  BY <1>3, <1>6, <1>7, <1>8, <1>9 DEF SeedInv, ProgrammesFit

LEMMA SeedsNext == SeedInv /\ D!SeedNext => SeedInv'
<1>. SUFFICES ASSUME SeedInv, D!SeedNext
              PROVE  SeedInv'
  OBVIOUS
<1>1. CASE \E s \in Scripts : D!StartScript(s) \/ D!Crash(s) \/ D!Drop(s) \/ D!DropCounters(s) \/ D!Read(s)
  BY <1>1, StartKeeps, StopKeeps, DropKeeps, DropCountersKeeps, ReadKeeps DEF D!Crash
<1>2. CASE \E s \in Scripts : \/ D!Insert(s) \/ D!Counter(s) \/ D!IfEmpty(s) \/ D!InsertMissing(s)
                              \/ D!CounterIfMissing(s) \/ D!PartOfFunnel(s) \/ D!Account(s) \/ D!People(s)
  BY <1>2, InsertStepKeeps, CounterStepKeeps, IfEmptyKeeps, InsertMissingKeeps, CounterIfMissingKeeps,
     PartOfFunnelKeeps, AccountKeeps, PeopleKeeps
<1>3. CASE \E k \in Clients : D!Generate(k) \/ D!Create(k)
  BY <1>3, GenerateKeeps, CreateKeeps
<1>4. CASE \E i \in 1 .. LastId : D!Delete(i)
  BY <1>4, DeleteKeeps
<1>. QED
  BY <1>1, <1>2, <1>3, <1>4 DEF D!SeedNext

LEMMA SeedsRest == SeedInv /\ UNCHANGED seedVars => SeedInv'
<1>. SUFFICES ASSUME SeedInv, UNCHANGED seedVars
              PROVE  SeedInv'
  OBVIOUS
<1>1. UNCHANGED <<ids, counters, scripts, clients, programs, given, twice, brokenOff, outrun, wasReset>>
  BY DEF seedVars
<1>2. SeedTypes' /\ Grows
  BY <1>1 DEF SeedInv, SeedTypes, Grows
<1>3. GivenFits' /\ D!FunnelStands'
  BY <1>1, NumbersRest DEF SeedInv, GivenFits, D!FunnelStands
<1>4. \A c \in D!Numbered : CountersFit(c) /\ D!InUse(c)' = D!InUse(c) /\ (D!Covered(c)' <=> D!Covered(c))
  BY <1>1, NumbersRest DEF SeedInv
<1>. QED
  BY <1>1, <1>2, <1>3, <1>4, ServerKeeps DEF CountersFit

\* A debt is a step the script has yet to make.
LEMMA SeedsMean == SeedInv => D!SeedsAddUp
<1>. SUFFICES ASSUME SeedInv
              PROVE  D!SeedsAddUp
  OBVIOUS
<1>1. D!CountersCoverIds
  <2>. SUFFICES ASSUME NEW c \in D!Numbered, ~D!Covered(c), c \notin brokenOff \cup outrun,
                       ~(wasReset /\ c = "departments")
                PROVE  D!Underway(c)
    BY DEF D!CountersCoverIds
  <2>1. D!InUse(c) # {}
    BY DEF D!Covered
  <2>2. PICK s \in Scripts : Owing(s, c)
    BY <2>1 DEF SeedInv, CountersFit
  <2>3. D!StepsOf(scripts[s].program) = D!SeedSteps /\ scripts[s] # Absent
    BY <2>2 DEF Owing, OwingAt, D!StepsOf
  <2>4. PICK i \in {3, 4, 8} : scripts[s].next <= i /\ D!SeedSteps[i].of = c
    BY <2>2 DEF Owing, OwingAt, D!SeedSteps, D!Do
  <2>5. scripts[s].next \in Nat /\ Len(D!SeedSteps) = 10
    BY <2>2 DEF Owing, OwingAt, D!SeedSteps
  <2>6. /\ i \in scripts[s].next .. Len(D!StepsOf(scripts[s].program))
        /\ D!StepsOf(scripts[s].program)[i].of = c
    BY <2>3, <2>4, <2>5
  <2>. QED
    BY <2>3, <2>6 DEF D!Underway
<1>2. D!ProgrammesStand
  <2>. SUFFICES ASSUME ~D!Standing, "programmes" \notin brokenOff \cup outrun
                PROVE  D!Underway("programmes")
    BY DEF D!ProgrammesStand
  <2>1. PICK s \in Scripts : Clears(s)
    BY DEF SeedInv, ProgrammesFit
  <2>2. /\ scripts[s] # Absent /\ scripts[s].program \in {"reset", "meta"}
        /\ scripts[s].next \in 1 .. Last(scripts[s].program)
    BY <2>1 DEF Clears, SeedInv, SeedTypes
  <2>3. Last(scripts[s].program) \in Nat /\ Len(D!StepsOf(scripts[s].program)) = Last(scripts[s].program)
    BY <2>2, StepsOfPrograms DEF Last, Programs
  <2>4. D!StepsOf(scripts[s].program)[Last(scripts[s].program)].of = "programmes"
    BY <2>2 DEF D!StepsOf, D!ResetSteps, D!MetaSteps, D!Do, Last
  <2>. QED
    BY <2>2, <2>3, <2>4 DEF D!Underway
<1>3. D!IdsAreNotReused
  BY DEF SeedInv, GivenFits, D!IdsAreNotReused
<1>. QED
  BY <1>1, <1>2, <1>3 DEF SeedInv, D!SeedsAddUp

\* Counters cover the ids in use, no id is given twice but after a reset, and the
\* seeded documents find what they refer to: for any number of scripts at a time,
\* stopped anywhere, beside any number of requests (Seeding).
THEOREM SeedsStayAddedUp == Spec => []SeedsAddUp
<1>. DEFINE Kept == part = "seeds" => SeedInv
<1>1. Init => Kept
  BY SeedsFirst
<1>2. Kept /\ [Next]_<<part, staffVars, customerVars, cacheVars, gateVars, seedVars>> => Kept'
  <2>. SUFFICES ASSUME Kept, [Next]_<<part, staffVars, customerVars, cacheVars, gateVars, seedVars>>
                PROVE  Kept'
    OBVIOUS
  <2>1. CASE part = "seeds" /\ D!SeedNext /\ part' = part
    BY <2>1, SeedsNext
  <2>2. CASE part' = part /\ UNCHANGED seedVars
    BY <2>2, SeedsRest
  <2>3. CASE part # "seeds" /\ part' = part
    BY <2>3
  <2>. QED
    BY <2>1, <2>2, <2>3 DEF Next
<1>3. Kept => SeedsAddUp
  BY SeedsMean DEF SeedsAddUp
<1>. QED
  BY <1>1, <1>2, <1>3, PTL DEF Spec

-----------------------------------------------------------------------------
(* The memory of the bank's calls.  The last failures that an entry holds   *)
(* are those of its address within the window, so that a block is earned;   *)
(* a forgotten address or id is one the history names.                      *)

\* What the gate keeps, and the history of it.
TrackedEntries == [address : Addresses, failures : Seq(Nat), until : Int \cup {Never}]
AcceptedEntries == [id : RequestIds, at : Nat]
CallStates == [stage : {"checked", "working"}, address : Addresses, id : RequestIds \cup {Never}]
GateTypes ==
    /\ time \in Nat
    /\ tracked \in Seq(TrackedEntries) /\ accepted \in Seq(AcceptedEntries)
    /\ calls \in [Handlers -> CallStates \cup {Never}]
    /\ \A c \in Handlers : calls[c] # Never /\ calls[c].stage = "working" => calls[c].id \in RequestIds
    /\ failedAt \in [Addresses -> Seq(Nat)]
    /\ taken \subseteq RequestIds \X Nat \X Nat

\* s is the end of f.
EndOf(s, f) ==
    /\ Len(s) <= Len(f)
    /\ \A j \in 1 .. Len(s) : s[j] = f[Len(f) - Len(s) + j]
\* Times are in order, and none is yet to come.
Ordered(f, now) ==
    /\ \A i, j \in 1 .. Len(f) : i <= j => f[i] <= f[j]
    /\ \A i \in 1 .. Len(f) : f[i] <= now
\* A block that the failures f earned by the one of the time `at`.
Burst(f, at) ==
    \E j \in 1 .. Len(f) : \E i \in 1 .. Len(f) :
        j = i + Threshold - 1 /\ f[j] - f[i] < Window /\ f[j] = at

OneEach(t) == \A i, j \in 1 .. Len(t) : t[i].address = t[j].address => i = j
\* An entry holds the last failures of its address and was blocked for cause.
EntryFits(e, f) ==
    /\ EndOf(e.failures, f) /\ Len(e.failures) < Threshold
    /\ e.until # Never => Burst(f, e.until - BlockFor)
EntriesFit(t, all) == \A i \in 1 .. Len(t) : EntryFits(t[i], all[t[i].address])
\* What the entries t say of an address a that was never forgotten, before and at
\* its first block: every failure within the window, and the block.
Known(t, f, now, a) ==
    /\ Len(f) < Threshold =>
        \A j \in 1 .. Len(f) : now - f[j] < Window =>
            \E i \in 1 .. Len(t) : t[i].address = a /\ Len(f) - j < Len(t[i].failures)
    /\ Len(f) = Threshold /\ f[Threshold] - f[1] < Window /\ now <= f[Threshold] + BlockFor =>
        \E i \in 1 .. Len(t) : t[i].address = a /\ t[i].until = f[Threshold] + BlockFor
AddressesInv ==
    /\ OneEach(tracked) /\ EntriesFit(tracked, failedAt)
    /\ \A a \in Addresses : Ordered(failedAt[a], time)
    /\ \A a \in Addresses \ forgotten : Known(tracked, failedAt[a], time, a)

LEMMA GateMax ==
    ASSUME NEW n \in Nat, NEW P \in SUBSET (1 .. n)
    PROVE  /\ G!Max({0} \cup P) \in 0 .. n
           /\ \A x \in P : x <= G!Max({0} \cup P)
           /\ G!Max({0} \cup P) = 0 \/ G!Max({0} \cup P) \in P
<1>. DEFINE M == {0} \cup P
<1>1. IsFiniteSet(M)
  <2>1. IsFiniteSet(0 .. n) /\ M \subseteq 0 .. n
    BY FS_Interval
  <2>. QED
    BY <2>1, FS_Subset
<1>. M # {} /\ \A x \in M : x \in 0 .. n
  OBVIOUS
<1>. HIDE DEF M
<1>2. PICK x \in M : \A y \in M : x >= y
  BY <1>1, GreatestElement
<1>3. G!Max(M) \in M /\ \A y \in M : G!Max(M) >= y
  BY <1>2 DEF G!Max
<1>. QED
  BY <1>3 DEF M

\* The failures within the window are the end of those in order.
LEMMA RecentIsTheEnd ==
    ASSUME NEW s \in Seq(Nat), time \in Nat, \A i, j \in 1 .. Len(s) : i <= j => s[i] <= s[j]
    PROVE  /\ G!Recent(s) \in Seq(Nat) /\ EndOf(G!Recent(s), s)
           /\ \A j \in 1 .. Len(G!Recent(s)) : time - G!Recent(s)[j] < Window
           /\ \A j \in 1 .. Len(s) : time - s[j] < Window => Len(s) - j < Len(G!Recent(s))
<1>. DEFINE old == {i \in 1 .. Len(s) : time - s[i] >= Window}
            m == G!Max({0} \cup old)
            r == SubSeq(s, 1 + m, Len(s))
<1>1. Len(s) \in Nat /\ \A i \in 1 .. Len(s) : s[i] \in Nat
  OBVIOUS
<1>2. m \in 0 .. Len(s) /\ (\A x \in old : x <= m) /\ (m = 0 \/ m \in old)
  BY <1>1, GateMax
<1>3. G!Recent(s) = r
  <2>1. DOMAIN s = 1 .. Len(s)
    OBVIOUS
  <2>. QED
    BY <2>1 DEF G!Recent
<1>. HIDE DEF m
<1>4. r \in Seq(Nat) /\ Len(r) = Len(s) - m /\ \A j \in 1 .. Len(s) - m : r[j] = s[m + j]
  BY <1>1, <1>2
<1>. HIDE DEF r
<1>5. EndOf(r, s)
  <2>1. Len(r) <= Len(s) /\ Len(s) - Len(r) = m
    BY <1>1, <1>2, <1>4
  <2>. QED
    BY <2>1, <1>4 DEF EndOf
<1>6. \A j \in 1 .. Len(r) : time - r[j] < Window
  <2>. SUFFICES ASSUME NEW j \in 1 .. Len(r)
                PROVE  time - r[j] < Window
    OBVIOUS
  <2>1. m + j \in 1 .. Len(s) /\ m + j \notin old /\ r[j] = s[m + j]
    <3>1. j \in 1 .. Len(s) - m /\ m \in Nat /\ Len(s) \in Nat
      BY <1>1, <1>2, <1>4
    <3>2. m + j \in 1 .. Len(s) /\ ~(m + j <= m)
      BY <3>1
    <3>3. m + j \notin old
      <4>. HIDE DEF old
      <4>. QED
        BY <1>2, <3>2
    <3>. QED
      BY <1>4, <3>1, <3>2, <3>3
  <2>. QED
    BY <2>1, <1>1, GateAssumption
<1>7. \A j \in 1 .. Len(s) : time - s[j] < Window => Len(s) - j < Len(r)
  <2>. SUFFICES ASSUME NEW j \in 1 .. Len(s), time - s[j] < Window
                PROVE  Len(s) - j < Len(r)
    OBVIOUS
  <2>1. CASE m = 0
    BY <2>1, <1>1, <1>4
  <2>2. CASE m \in old /\ j <= m
    <3>1. m \in 1 .. Len(s) /\ time - s[m] >= Window
      BY <2>2
    <3>2. s[j] <= s[m] /\ s[j] \in Nat /\ s[m] \in Nat /\ Window \in Nat
      BY <3>1, <2>2, <1>1, GateAssumption
    <3>3. \A x, y, w \in Nat : x <= y /\ time - y >= w => ~(time - x < w)
      OBVIOUS
    <3>4. ~(time - s[j] < Window)
      BY <3>1, <3>2, <3>3
    <3>. QED
      BY <3>4
  <2>3. CASE m < j
    BY <2>3, <1>1, <1>2, <1>4
  <2>. QED
    BY <2>1, <2>2, <2>3, <1>1, <1>2
<1>. QED
  BY <1>3, <1>4, <1>5, <1>6, <1>7

LEMMA EndOfEnd ==
    ASSUME NEW r \in Seq(Nat), NEW s \in Seq(Nat), NEW f \in Seq(Nat), EndOf(r, s), EndOf(s, f)
    PROVE  EndOf(r, f)
<1>. SUFFICES ASSUME NEW j \in 1 .. Len(r)
              PROVE  r[j] = f[Len(f) - Len(r) + j]
  BY DEF EndOf
<1>. DEFINE k == Len(s) - Len(r) + j
<1>1. Len(r) \in Nat /\ Len(s) \in Nat /\ Len(f) \in Nat
  OBVIOUS
<1>2. /\ Len(r) <= Len(s)
      /\ \A i \in 1 .. Len(r) : r[i] = s[Len(s) - Len(r) + i]
      /\ \A i \in 1 .. Len(s) : s[i] = f[Len(f) - Len(s) + i]
  BY DEF EndOf
<1>3. k \in 1 .. Len(s) /\ r[j] = s[k]
  BY <1>1, <1>2
<1>4. Len(f) - Len(s) + k = Len(f) - Len(r) + j
  BY <1>1
<1>. HIDE DEF k
<1>. QED
  BY <1>2, <1>3, <1>4

LEMMA EndInOrder ==
    ASSUME NEW s \in Seq(Nat), NEW f \in Seq(Nat), EndOf(s, f), NEW now \in Nat, Ordered(f, now)
    PROVE  \A i, j \in 1 .. Len(s) : i <= j => s[i] <= s[j]
<1>. SUFFICES ASSUME NEW i \in 1 .. Len(s), NEW j \in 1 .. Len(s), i <= j
              PROVE  s[i] <= s[j]
  OBVIOUS
<1>. DEFINE k == Len(f) - Len(s)
<1>0. Len(s) \in Nat /\ Len(f) \in Nat
  OBVIOUS
<1>. Len(s) \in Nat /\ Len(f) \in Nat /\ Len(s) <= Len(f)
  BY <1>0 DEF EndOf
<1>1. k \in Nat /\ s[i] = f[k + i] /\ s[j] = f[k + j]
  BY DEF EndOf
<1>2. k + i \in 1 .. Len(f) /\ k + j \in 1 .. Len(f) /\ k + i <= k + j
  OBVIOUS
<1>. QED
  BY <1>1, <1>2 DEF Ordered

\* An entry less.
LEMMA OneLess ==
    ASSUME NEW T, NEW s \in Seq(T), NEW i \in 1 .. Len(s)
    PROVE  /\ G!Without(s, i) \in Seq(T)
           /\ Len(G!Without(s, i)) = Len(s) - 1
           /\ \A j \in 1 .. Len(s) - 1 : G!Without(s, i)[j] = IF j < i THEN s[j] ELSE s[j + 1]
<1>. DEFINE a == SubSeq(s, 1, i - 1)
            b == SubSeq(s, i + 1, Len(s))
<1>1. a \in Seq(T) /\ Len(a) = i - 1 /\ \A j \in 1 .. i - 1 : a[j] = s[j]
  OBVIOUS
<1>2. b \in Seq(T) /\ Len(b) = Len(s) - i /\ \A j \in 1 .. Len(s) - i : b[j] = s[i + j]
  OBVIOUS
<1>3. G!Without(s, i) = a \o b
  BY DEF G!Without, G!RemoveAt
<1>. HIDE DEF a, b
<1>4. a \o b \in Seq(T) /\ Len(a \o b) = Len(s) - 1
  <2>1. a \o b \in Seq(T)
    BY <1>1, <1>2, ConcatProperties
  <2>2. Len(a \o b) = Len(a) + Len(b)
    BY <1>1, <1>2, ConcatProperties
  <2>. QED
    BY <2>1, <2>2, <1>1, <1>2
<1>5. \A j \in 1 .. Len(s) - 1 : (a \o b)[j] = IF j < i THEN s[j] ELSE s[j + 1]
  <2>. TAKE j \in 1 .. Len(s) - 1
  <2>1. (a \o b)[j] = IF j <= Len(a) THEN a[j] ELSE b[j - Len(a)]
    BY <1>1, <1>2
  <2>2. CASE j < i
    BY <2>1, <2>2, <1>1
  <2>3. CASE j >= i
    <3>1. j - Len(a) \in 1 .. Len(s) - i /\ i + (j - Len(a)) = j + 1
      BY <2>3, <1>1
    <3>. QED
      BY <3>1, <2>1, <2>3, <1>1, <1>2
  <2>. QED
    BY <2>2, <2>3, <1>4
<1>. QED
  BY <1>3, <1>4, <1>5

\* Room is the same entries, or all but the first.
LEMMA RoomLeft ==
    ASSUME NEW T, NEW s \in Seq(T), NEW size \in Nat \ {0}
    PROVE  \/ G!Room(s, size) = s /\ G!Evicted(s, size) = {}
           \/ /\ Len(s) \in Nat \ {0} /\ G!Evicted(s, size) = {s[1]}
              /\ G!Room(s, size) \in Seq(T) /\ Len(G!Room(s, size)) = Len(s) - 1
              /\ \A j \in 1 .. Len(s) - 1 : G!Room(s, size)[j] = s[j + 1]
<1>1. CASE Len(s) >= size
  <2>1. Len(s) \in Nat \ {0} /\ s # <<>>
    BY <1>1
  <2>2. G!Room(s, size) = Tail(s) /\ G!Evicted(s, size) = {s[1]}
    BY <1>1 DEF G!Room, G!Evicted
  <2>. QED
    BY <2>1, <2>2
<1>2. CASE ~(Len(s) >= size)
  BY <1>2 DEF G!Room, G!Evicted
<1>. QED
  BY <1>1, <1>2

LEMMA EntryRecent ==
    ASSUME time \in Nat, NEW e \in TrackedEntries, NEW f \in Seq(Nat), Ordered(f, time), EntryFits(e, f)
    PROVE  /\ G!Recent(e.failures) \in Seq(Nat) /\ EndOf(G!Recent(e.failures), f)
           /\ Len(G!Recent(e.failures)) < Threshold
           /\ \A j \in 1 .. Len(G!Recent(e.failures)) : time - G!Recent(e.failures)[j] < Window
           /\ \A j \in 1 .. Len(f) : time - f[j] < Window /\ Len(f) - j < Len(e.failures) =>
                Len(f) - j < Len(G!Recent(e.failures))
<1>. DEFINE s == e.failures
            r == G!Recent(s)
<1>1. s \in Seq(Nat) /\ EndOf(s, f) /\ Len(s) < Threshold
  BY DEF TrackedEntries, EntryFits
<1>2. \A i, j \in 1 .. Len(s) : i <= j => s[i] <= s[j]
  BY <1>1, EndInOrder
<1>. HIDE DEF s
<1>3. /\ r \in Seq(Nat) /\ EndOf(r, s)
      /\ \A j \in 1 .. Len(r) : time - r[j] < Window
      /\ \A j \in 1 .. Len(s) : time - s[j] < Window => Len(s) - j < Len(r)
  BY <1>1, <1>2, RecentIsTheEnd
<1>. HIDE DEF r
<1>4. EndOf(r, f)
  BY <1>1, <1>3, EndOfEnd
<1>5. Len(r) < Threshold
  BY <1>1, <1>3, GateAssumption DEF EndOf
<1>6. ASSUME NEW j \in 1 .. Len(f), time - f[j] < Window, Len(f) - j < Len(s)
      PROVE  Len(f) - j < Len(r)
  <2>. DEFINE k == Len(s) - (Len(f) - j)
  <2>1. Len(s) \in Nat /\ Len(f) \in Nat
    BY <1>1
  <2>2. k \in 1 .. Len(s) /\ Len(f) - Len(s) + k = j /\ Len(s) - k = Len(f) - j
    BY <2>1, <1>6
  <2>3. s[k] = f[Len(f) - Len(s) + k]
    BY <2>2, <1>1 DEF EndOf
  <2>. HIDE DEF k
  <2>4. s[k] = f[j]
    BY <2>2, <2>3
  <2>. QED
    BY <2>2, <2>4, <1>3, <1>6
<1>. QED
  BY <1>3, <1>4, <1>5, <1>6 DEF r, s

\* A block needs as many failures as the threshold.
LEMMA BurstNeeds ==
    ASSUME NEW f \in Seq(Nat), NEW at, Burst(f, at)
    PROVE  Len(f) >= Threshold /\ (Len(f) = Threshold => f[Threshold] = at)
<1>1. Len(f) \in Nat /\ Threshold \in Nat \ {0}
  BY GateAssumption
<1>2. PICK j \in 1 .. Len(f), i \in 1 .. Len(f) : j = i + Threshold - 1 /\ f[j] = at
  BY DEF Burst
<1>3. Len(f) = Threshold => j = Threshold
  BY <1>1, <1>2
<1>. QED
  BY <1>1, <1>2, <1>3

\* An entry that says nothing any more may go.
LEMMA DropEntryKeeps ==
    ASSUME GateTypes, AddressesInv, NEW i \in 1 .. Len(tracked),
           \/ tracked[i].until # Never /\ time > tracked[i].until
           \/ tracked[i].until = Never /\ G!Recent(tracked[i].failures) = <<>>
    PROVE  LET t == G!Without(tracked, i) IN
           /\ t \in Seq(TrackedEntries) /\ OneEach(t) /\ EntriesFit(t, failedAt)
           /\ \A a \in Addresses \ forgotten : Known(t, failedAt[a], time, a)
<1>. DEFINE t == G!Without(tracked, i)
            n == Len(tracked)
<1>. n \in Nat /\ \A k \in 1 .. n : tracked[k] \in TrackedEntries
  BY DEF GateTypes
<1>1. /\ t \in Seq(TrackedEntries) /\ Len(t) = n - 1
      /\ \A j \in 1 .. n - 1 : t[j] = IF j < i THEN tracked[j] ELSE tracked[j + 1]
  BY OneLess DEF GateTypes
<1>. HIDE DEF t
<1>2. \A j \in 1 .. Len(t) : \E k \in 1 .. n : t[j] = tracked[k]
  BY <1>1
<1>3. \A k \in 1 .. n : k # i => \E j \in 1 .. Len(t) : t[j] = tracked[k]
  <2>. SUFFICES ASSUME NEW k \in 1 .. n, k # i
                PROVE  \E j \in 1 .. Len(t) : t[j] = tracked[k]
    OBVIOUS
  <2>1. CASE k < i
    <3>1. k \in 1 .. n - 1 /\ t[k] = tracked[k]
      BY <2>1, <1>1
    <3>. QED
      BY <3>1, <1>1
  <2>2. CASE k > i
    <3>1. k - 1 \in 1 .. n - 1 /\ t[k - 1] = tracked[k]
      BY <2>2, <1>1
    <3>. QED
      BY <3>1, <1>1
  <2>. QED
    BY <2>1, <2>2
<1>4. OneEach(t)
  <2>. SUFFICES ASSUME NEW j \in 1 .. Len(t), NEW k \in 1 .. Len(t), t[j].address = t[k].address
                PROVE  j = k
    BY DEF OneEach
  <2>. DEFINE u == IF j < i THEN j ELSE j + 1
              v == IF k < i THEN k ELSE k + 1
  <2>1. u \in 1 .. n /\ v \in 1 .. n /\ t[j] = tracked[u] /\ t[k] = tracked[v]
    BY <1>1
  <2>2. u = v
    <3>. HIDE DEF u, v
    <3>. QED
      BY <2>1 DEF AddressesInv, OneEach
  <2>. QED
    BY <2>2, <1>1
<1>5. EntriesFit(t, failedAt)
  BY <1>2 DEF AddressesInv, EntriesFit
<1>6. ASSUME NEW a \in Addresses \ forgotten
      PROVE  Known(t, failedAt[a], time, a)
  <2>. DEFINE f == failedAt[a]
  <2>1. Known(tracked, f, time, a) /\ f \in Seq(Nat) /\ Ordered(f, time) /\ time \in Nat
    BY DEF AddressesInv, GateTypes
  <2>. HIDE DEF f
  <2>2. CASE tracked[i].address # a
    <3>1. \A k \in 1 .. n : tracked[k].address = a => \E j \in 1 .. Len(t) : t[j] = tracked[k]
      BY <2>2, <1>3
    <3>. QED
      BY <3>1, <2>1 DEF Known, f
  <2>3. CASE tracked[i].address = a
    <3>1. \A k \in 1 .. n : tracked[k].address = a => k = i
      BY <2>3 DEF AddressesInv, OneEach
    <3>2. EntryFits(tracked[i], f)
      BY <2>3 DEF AddressesInv, EntriesFit, f
    <3>3. CASE tracked[i].until # Never /\ time > tracked[i].until
      <4>1. Burst(f, tracked[i].until - BlockFor)
        BY <3>2, <3>3 DEF EntryFits
      <4>2. Len(f) >= Threshold /\ (Len(f) = Threshold => f[Threshold] = tracked[i].until - BlockFor)
        BY <4>1, <2>1, BurstNeeds
      <4>3. tracked[i].until \in Int /\ BlockFor \in Int /\ Len(f) \in Nat /\ Threshold \in Nat
        BY <3>3, <2>1, GateAssumption DEF TrackedEntries
      <4>4. Len(f) = Threshold => ~(time <= f[Threshold] + BlockFor)
        BY <4>2, <4>3, <3>3, <2>1
      <4>. QED
        BY <4>2, <4>3, <4>4 DEF Known, f
    <3>4. CASE tracked[i].until = Never /\ G!Recent(tracked[i].failures) = <<>>
      <4>1. ~ \E j \in 1 .. Len(f) : time - f[j] < Window /\ Len(f) - j < Len(tracked[i].failures)
        <5>1. \A j \in 1 .. Len(f) : time - f[j] < Window /\ Len(f) - j < Len(tracked[i].failures) =>
                Len(f) - j < 0
          BY <3>2, <3>4, <2>1, EntryRecent
        <5>. QED
          BY <5>1, <2>1
      <4>2. Len(f) = Threshold => f[Threshold] \in Nat
        BY <2>1, GateAssumption
      <4>3. Len(f) = Threshold => tracked[i].until # f[Threshold] + BlockFor
        BY <4>2, <3>4, GateAssumption
      <4>. QED
        BY <4>1, <4>3, <3>1, <2>1 DEF Known, f
    <3>. QED
      BY <3>3, <3>4
  <2>. QED
    BY <2>2, <2>3
<1>. QED
  BY <1>1, <1>4, <1>5, <1>6 DEF t

\* An entry's failures that are out of the window may go.
LEMMA PruneKeeps ==
    ASSUME GateTypes, AddressesInv, NEW i \in 1 .. Len(tracked)
    PROVE  LET t == [tracked EXCEPT ![i].failures = G!Recent(tracked[i].failures)] IN
           /\ t \in Seq(TrackedEntries) /\ OneEach(t) /\ EntriesFit(t, failedAt)
           /\ \A a \in Addresses \ forgotten : Known(t, failedAt[a], time, a)
<1>. DEFINE r == G!Recent(tracked[i].failures)
            t == [tracked EXCEPT ![i].failures = r]
            n == Len(tracked)
            f == failedAt[tracked[i].address]
<1>. n \in Nat /\ \A k \in 1 .. n : tracked[k] \in TrackedEntries
  BY DEF GateTypes
<1>0. tracked \in Seq(TrackedEntries) /\ tracked[i] \in TrackedEntries
  BY DEF GateTypes
<1>1. f \in Seq(Nat) /\ Ordered(f, time) /\ EntryFits(tracked[i], f) /\ time \in Nat
  BY <1>0 DEF GateTypes, AddressesInv, EntriesFit, TrackedEntries
<1>. HIDE DEF f
<1>2. /\ r \in Seq(Nat) /\ EndOf(r, f) /\ Len(r) < Threshold
      /\ \A j \in 1 .. Len(f) : time - f[j] < Window /\ Len(f) - j < Len(tracked[i].failures) =>
                Len(f) - j < Len(r)
  BY <1>1, <1>0, EntryRecent
<1>. HIDE DEF r
<1>3. [tracked[i] EXCEPT !.failures = r] \in TrackedEntries
  BY <1>0, <1>2 DEF TrackedEntries
<1>4. t \in Seq(TrackedEntries) /\ Len(t) = n
  BY <1>3, <1>0
<1>5. \A k \in 1 .. n : /\ t[k].address = tracked[k].address /\ t[k].until = tracked[k].until
                        /\ t[k].failures = IF k = i THEN r ELSE tracked[k].failures
                        /\ k # i => t[k] = tracked[k]
  BY <1>0 DEF TrackedEntries
<1>. HIDE DEF t
<1>6. OneEach(t)
  BY <1>4, <1>5 DEF AddressesInv, OneEach
<1>7. EntriesFit(t, failedAt)
  <2>. SUFFICES ASSUME NEW k \in 1 .. n
                PROVE  EntryFits(t[k], failedAt[t[k].address])
    BY <1>4 DEF EntriesFit
  <2>1. EntryFits(tracked[k], failedAt[tracked[k].address])
    BY DEF AddressesInv, EntriesFit
  <2>2. CASE k # i
    BY <2>1, <2>2, <1>5
  <2>3. CASE k = i
    BY <2>1, <2>3, <1>2, <1>5 DEF EntryFits, f
  <2>. QED
    BY <2>2, <2>3
<1>8. ASSUME NEW a \in Addresses \ forgotten
      PROVE  Known(t, failedAt[a], time, a)
  <2>1. Known(tracked, failedAt[a], time, a)
    BY DEF AddressesInv
  <2>2. ASSUME NEW j \in 1 .. Len(failedAt[a]), time - failedAt[a][j] < Window,
               NEW k \in 1 .. n, tracked[k].address = a, Len(failedAt[a]) - j < Len(tracked[k].failures)
        PROVE  t[k].address = a /\ Len(failedAt[a]) - j < Len(t[k].failures)
    <3>1. CASE k = i
      BY <3>1, <2>2, <1>2, <1>5 DEF f
    <3>2. CASE k # i
      BY <3>2, <2>2, <1>5
    <3>. QED
      BY <3>1, <3>2
  <2>3. \A k \in 1 .. n : t[k].address = tracked[k].address /\ t[k].until = tracked[k].until
    BY <1>5
  <2>. QED
    BY <2>1, <2>2, <2>3, <1>4 DEF Known
<1>. QED
  BY <1>4, <1>6, <1>7, <1>8 DEF t, r

LEMMA LookKeeps ==
    ASSUME GateTypes, AddressesInv, NEW a \in Addresses
    PROVE  LET t == G!Look(a).tracked IN
           /\ t \in Seq(TrackedEntries) /\ OneEach(t) /\ EntriesFit(t, failedAt)
           /\ \A b \in Addresses \ forgotten : Known(t, failedAt[b], time, b)
<1>. DEFINE i == CHOOSE x \in G!Tracked(a) : TRUE
<1>0. /\ tracked \in Seq(TrackedEntries) /\ OneEach(tracked) /\ EntriesFit(tracked, failedAt)
      /\ \A b \in Addresses \ forgotten : Known(tracked, failedAt[b], time, b)
  BY DEF GateTypes, AddressesInv
<1>1. CASE G!Look(a).tracked = tracked
  BY <1>0, <1>1
<1>2. CASE G!Tracked(a) # {} /\ G!Look(a).tracked # tracked
  <2>1. i \in 1 .. Len(tracked)
    <3>1. i \in G!Tracked(a)
      BY <1>2
    <3>2. DOMAIN tracked = 1 .. Len(tracked)
      BY <1>0
    <3>. QED
      BY <3>1, <3>2 DEF G!Tracked
  <2>2. CASE /\ tracked[i].until # Never /\ time > tracked[i].until
             /\ G!Look(a).tracked = G!Without(tracked, i)
    BY <2>1, <2>2, DropEntryKeeps
  <2>3. CASE /\ tracked[i].until = Never /\ G!Recent(tracked[i].failures) = <<>>
             /\ G!Look(a).tracked = G!Without(tracked, i)
    BY <2>1, <2>3, DropEntryKeeps
  <2>4. CASE /\ tracked[i].until = Never
             /\ G!Look(a).tracked = [tracked EXCEPT ![i].failures = G!Recent(tracked[i].failures)]
    BY <2>1, <2>4, PruneKeeps
  <2>. QED
    BY <1>2, <2>2, <2>3, <2>4 DEF G!Look
<1>3. CASE G!Tracked(a) = {}
  BY <1>1, <1>3 DEF G!Look
<1>. QED
  BY <1>1, <1>2, <1>3

\* The entries that _recordAuthFailure works on, which has one of address a.
NewEntry(a) == [address |-> a, failures |-> <<>>, until |-> Never]
WithEntry(a) == IF G!Tracked(a) # {} THEN tracked ELSE Append(G!Room(tracked, TrackerSize), NewEntry(a))
ForgottenFor(a) ==
    IF G!Tracked(a) = {} THEN forgotten \cup {e.address : e \in G!Evicted(tracked, TrackerSize)} ELSE forgotten

LEMMA NewEntryFits ==
    ASSUME NEW a \in Addresses, NEW f \in Seq(Nat)
    PROVE  NewEntry(a) \in TrackedEntries /\ EntryFits(NewEntry(a), f)
<1>1. NewEntry(a).failures = <<>> /\ NewEntry(a).until = Never /\ NewEntry(a) \in TrackedEntries
  BY DEF NewEntry, TrackedEntries
<1>2. EndOf(<<>>, f)
  BY DEF EndOf
<1>. QED
  BY <1>1, <1>2, GateAssumption DEF EntryFits

LEMMA EntryMade ==
    ASSUME GateTypes, AddressesInv, NEW a \in Addresses
    PROVE  LET t == WithEntry(a) IN
           /\ t \in Seq(TrackedEntries) /\ OneEach(t) /\ EntriesFit(t, failedAt)
           /\ \A b \in Addresses \ ForgottenFor(a) : Known(t, failedAt[b], time, b)
           /\ \E i \in 1 .. Len(t) : t[i].address = a
<1>. DEFINE n == Len(tracked)
            room == G!Room(tracked, TrackerSize)
            t == Append(room, NewEntry(a))
<1>0. /\ tracked \in Seq(TrackedEntries) /\ OneEach(tracked) /\ EntriesFit(tracked, failedAt) /\ n \in Nat
      /\ DOMAIN tracked = 1 .. n /\ \A k \in 1 .. n : tracked[k] \in TrackedEntries
      /\ \A b \in Addresses \ forgotten : Known(tracked, failedAt[b], time, b)
  BY DEF GateTypes, AddressesInv
<1>1. CASE G!Tracked(a) # {}
  <2>1. \E i \in 1 .. n : tracked[i].address = a
    BY <1>0, <1>1 DEF G!Tracked
  <2>. QED
    BY <1>0, <1>1, <2>1 DEF WithEntry, ForgottenFor
<1>2. CASE G!Tracked(a) = {}
  <2>1. \A k \in 1 .. n : tracked[k].address # a
    BY <1>0, <1>2 DEF G!Tracked
  <2>2. /\ room \in Seq(TrackedEntries) /\ Len(room) \in Nat
        /\ \/ room = tracked /\ G!Evicted(tracked, TrackerSize) = {}
           \/ /\ n # 0 /\ G!Evicted(tracked, TrackerSize) = {tracked[1]} /\ Len(room) = n - 1
              /\ \A j \in 1 .. n - 1 : room[j] = tracked[j + 1]
    <3>1. TrackerSize \in Nat \ {0} /\ tracked \in Seq(TrackedEntries)
      BY <1>0, GateAssumption
    <3>2. \/ room = tracked /\ G!Evicted(tracked, TrackerSize) = {}
          \/ /\ n \in Nat \ {0} /\ G!Evicted(tracked, TrackerSize) = {tracked[1]}
             /\ room \in Seq(TrackedEntries) /\ Len(room) = n - 1
             /\ \A j \in 1 .. n - 1 : room[j] = tracked[j + 1]
      BY <3>1, RoomLeft
    <3>. HIDE DEF room
    <3>. QED
      BY <3>1, <3>2
  <2>. DEFINE m == Len(room)
  <2>. HIDE DEF room
  <2>3. \A j \in 1 .. m : \E k \in 1 .. n : room[j] = tracked[k]
    <3>. SUFFICES ASSUME NEW j \in 1 .. m
                  PROVE  \E k \in 1 .. n : room[j] = tracked[k]
      OBVIOUS
    <3>1. CASE room = tracked
      BY <3>1
    <3>2. CASE n # 0 /\ m = n - 1 /\ \A x \in 1 .. n - 1 : room[x] = tracked[x + 1]
      <4>1. j + 1 \in 1 .. n /\ room[j] = tracked[j + 1]
        BY <3>2, <1>0
      <4>. QED
        BY <4>1
    <3>. QED
      BY <2>2, <3>1, <3>2
  <2>4. OneEach(room)
    <3>1. CASE room = tracked
      BY <3>1, <1>0
    <3>2. CASE n # 0 /\ m = n - 1 /\ \A j \in 1 .. n - 1 : room[j] = tracked[j + 1]
      <4>. SUFFICES ASSUME NEW j \in 1 .. m, NEW k \in 1 .. m, room[j].address = room[k].address
                    PROVE  j = k
        BY DEF OneEach
      <4>1. j + 1 \in 1 .. n /\ k + 1 \in 1 .. n /\ tracked[j + 1].address = tracked[k + 1].address
        BY <3>2, <1>0
      <4>2. j + 1 = k + 1
        BY <4>1, <1>0 DEF OneEach
      <4>. QED
        BY <4>2
    <3>. QED
      BY <2>2, <3>1, <3>2
  <2>5. t \in Seq(TrackedEntries) /\ Len(t) = m + 1 /\ t[m + 1] = NewEntry(a) /\ \A j \in 1 .. m : t[j] = room[j]
    <3>1. NewEntry(a) \in TrackedEntries
      BY NewEntryFits DEF GateTypes
    <3>. QED
      BY <3>1, <2>2
  <2>6. NewEntry(a).address = a
    BY DEF NewEntry
  <2>. HIDE DEF t
  <2>7. OneEach(t)
    <3>. SUFFICES ASSUME NEW j \in 1 .. m + 1, NEW k \in 1 .. m + 1, t[j].address = t[k].address
                  PROVE  j = k
      BY <2>5 DEF OneEach
    <3>1. \A x \in 1 .. m : t[x].address # a
      BY <2>1, <2>3, <2>5
    <3>2. CASE j \in 1 .. m /\ k \in 1 .. m
      BY <3>2, <2>4, <2>5 DEF OneEach
    <3>. QED
      BY <3>1, <3>2, <2>2, <2>5, <2>6
  <2>8. EntriesFit(t, failedAt)
    <3>. SUFFICES ASSUME NEW j \in 1 .. m + 1
                  PROVE  EntryFits(t[j], failedAt[t[j].address])
      BY <2>5 DEF EntriesFit
    <3>1. CASE j \in 1 .. m
      BY <3>1, <2>3, <2>5, <1>0 DEF EntriesFit
    <3>2. CASE j = m + 1
      BY <3>2, <2>5, <2>6, NewEntryFits DEF GateTypes
    <3>. QED
      BY <3>1, <3>2, <2>2
  <2>9. ASSUME NEW b \in Addresses \ ForgottenFor(a)
        PROVE  Known(t, failedAt[b], time, b)
    <3>1. b \notin forgotten /\ b \notin {e.address : e \in G!Evicted(tracked, TrackerSize)}
      BY <1>2 DEF ForgottenFor
    <3>2. \A k \in 1 .. n : tracked[k].address = b => \E j \in 1 .. Len(t) : t[j] = tracked[k]
      <4>. SUFFICES ASSUME NEW k \in 1 .. n, tracked[k].address = b
                    PROVE  \E j \in 1 .. m + 1 : t[j] = tracked[k]
        BY <2>5
      <4>1. CASE room = tracked
        <5>1. k \in 1 .. m /\ t[k] = tracked[k]
          BY <4>1, <2>5
        <5>. QED
          BY <5>1, <2>2
      <4>2. CASE /\ n # 0 /\ G!Evicted(tracked, TrackerSize) = {tracked[1]} /\ m = n - 1
                 /\ \A j \in 1 .. n - 1 : room[j] = tracked[j + 1]
        <5>1. k # 1
          BY <4>2, <3>1
        <5>2. k - 1 \in 1 .. m /\ t[k - 1] = tracked[k]
          BY <5>1, <4>2, <2>5, <1>0
        <5>. QED
          BY <5>2, <2>2
      <4>. QED
        BY <4>1, <4>2, <2>2
    <3>3. Known(tracked, failedAt[b], time, b)
      BY <3>1, <1>0
    <3>. QED
      BY <3>2, <3>3 DEF Known
  <2>10. \E i \in 1 .. Len(t) : t[i].address = a
    BY <2>2, <2>5, <2>6
  <2>. QED
    BY <1>2, <2>5, <2>7, <2>8, <2>9, <2>10 DEF WithEntry, t, room
<1>. QED
  BY <1>1, <1>2

\* A failure more, of the times r still in the window of all its times f.
LEMMA FailureMore ==
    ASSUME time \in Nat, NEW f \in Seq(Nat), Ordered(f, time), NEW r \in Seq(Nat), EndOf(r, f),
           Len(r) < Threshold, \A j \in 1 .. Len(r) : time - r[j] < Window
    PROVE  LET f2 == Append(f, time)
               r2 == Append(r, time)
           IN  /\ f2 \in Seq(Nat) /\ Len(f2) = Len(f) + 1 /\ f2[Len(f) + 1] = time
               /\ \A j \in 1 .. Len(f) : f2[j] = f[j]
               /\ Ordered(f2, time)
               /\ r2 \in Seq(Nat) /\ EndOf(r2, f2) /\ Len(r2) = Len(r) + 1
               /\ Len(r2) >= Threshold => Burst(f2, time)
               /\ \A at : Burst(f, at) => Burst(f2, at)
<1>. DEFINE f2 == Append(f, time)
            r2 == Append(r, time)
            n == Len(f)
            m == Len(r)
<1>. n \in Nat /\ m \in Nat /\ m <= n /\ Threshold \in Nat \ {0} /\ Window \in Nat \ {0}
  BY GateAssumption DEF EndOf
<1>1. f2 \in Seq(Nat) /\ Len(f2) = n + 1 /\ f2[n + 1] = time /\ \A j \in 1 .. n : f2[j] = f[j]
  OBVIOUS
<1>2. r2 \in Seq(Nat) /\ Len(r2) = m + 1 /\ r2[m + 1] = time /\ \A j \in 1 .. m : r2[j] = r[j]
  OBVIOUS
<1>. HIDE DEF f2, r2
<1>3. Ordered(f2, time)
  <2>1. ASSUME NEW i \in 1 .. n + 1
        PROVE  f2[i] <= time /\ f2[i] \in Nat
    <3>1. CASE i \in 1 .. n
      <4>1. f[i] <= time
        BY <3>1 DEF Ordered
      <4>2. f[i] \in Nat
        BY <3>1
      <4>3. f2[i] = f[i]
        BY <3>1, <1>1
      <4>. QED
        BY <4>1, <4>2, <4>3
    <3>2. CASE i = n + 1
      BY <3>2, <1>1
    <3>3. i \in 1 .. n \/ i = n + 1
      OBVIOUS
    <3>. QED
      BY <3>1, <3>2, <3>3
  <2>2. ASSUME NEW i \in 1 .. n + 1, NEW j \in 1 .. n + 1, i <= j
        PROVE  f2[i] <= f2[j]
    <3>1. CASE j \in 1 .. n
      <4>1. i \in 1 .. n
        BY <3>1, <2>2
      <4>2. f2[i] = f[i] /\ f2[j] = f[j]
        BY <4>1, <3>1, <1>1
      <4>. QED
        BY <4>1, <4>2, <3>1, <2>2 DEF Ordered
    <3>2. CASE j = n + 1
      BY <3>2, <2>1, <1>1
    <3>. QED
      BY <3>1, <3>2
  <2>. QED
    BY <2>1, <2>2, <1>1 DEF Ordered
<1>4. EndOf(r2, f2)
  <2>. SUFFICES ASSUME NEW j \in 1 .. m + 1
                PROVE  r2[j] = f2[(n + 1) - (m + 1) + j]
    BY <1>1, <1>2 DEF EndOf
  <2>1. CASE j = m + 1
    BY <2>1, <1>1, <1>2
  <2>2. CASE j \in 1 .. m
    <3>1. n - m + j \in 1 .. n /\ r[j] = f[n - m + j] /\ (n + 1) - (m + 1) + j = n - m + j
      BY <2>2 DEF EndOf
    <3>. QED
      BY <3>1, <2>2, <1>1, <1>2
  <2>. QED
    BY <2>1, <2>2
<1>5. ASSUME Len(r2) >= Threshold
      PROVE  Burst(f2, time)
  <2>1. m + 1 = Threshold
    BY <1>2, <1>5
  <2>. DEFINE i == n - m + 1
  <2>2. i \in 1 .. n + 1 /\ n + 1 = i + Threshold - 1
    <3>1. n - m \in 0 .. n /\ m = Threshold - 1
      BY <2>1
    <3>. HIDE DEF n, m
    <3>. QED
      BY <3>1, <2>1
  <2>3. r2[1] = f2[i]
    <3>1. r2[1] = f2[Len(f2) - Len(r2) + 1]
      BY <1>2, <1>4 DEF EndOf
    <3>. QED
      BY <3>1, <1>1, <1>2
  <2>4. time - r2[1] < Window
    <3>1. CASE m = 0
      BY <3>1, <1>2
    <3>2. CASE m # 0
      <4>1. 1 \in 1 .. m
        BY <3>2
      <4>. QED
        BY <4>1, <1>2
    <3>. QED
      BY <3>1, <3>2
  <2>. HIDE DEF i
  <2>5. n + 1 \in 1 .. Len(f2) /\ i \in 1 .. Len(f2) /\ f2[n + 1] - f2[i] < Window
    BY <1>1, <2>2, <2>3, <2>4
  <2>. QED
    BY <1>1, <2>2, <2>5 DEF Burst
<1>6. ASSUME NEW at, Burst(f, at)
      PROVE  Burst(f2, at)
  <2>1. PICK j \in 1 .. n, i \in 1 .. n : j = i + Threshold - 1 /\ f[j] - f[i] < Window /\ f[j] = at
    BY <1>6 DEF Burst
  <2>2. j \in 1 .. Len(f2) /\ i \in 1 .. Len(f2) /\ f2[j] = f[j] /\ f2[i] = f[i]
    BY <1>1
  <2>. QED
    BY <2>1, <2>2 DEF Burst
<1>. QED
  BY <1>1, <1>2, <1>3, <1>4, <1>5, <1>6 DEF f2, r2

\* The entries s with the fields of the i-th one as they are after a failure.
Failed(s, i, failures, until) ==
    [k \in 1 .. Len(s) |-> IF k = i THEN [address |-> s[i].address, failures |-> failures, until |-> until] ELSE s[k]]

LEMMA RecordIs ==
    ASSUME GateTypes, AddressesInv, NEW a \in Addresses
    PROVE  \E i \in 1 .. Len(WithEntry(a)) :
            /\ WithEntry(a)[i].address = a
            /\ LET e == WithEntry(a)[i]
                   failures == Append(G!Recent(e.failures), time)
               IN  G!Record(a) = IF Len(failures) >= Threshold
                                 THEN Failed(WithEntry(a), i, <<>>, time + BlockFor)
                                 ELSE Failed(WithEntry(a), i, failures, e.until)
<1>. DEFINE s == WithEntry(a)
            i == CHOOSE x \in DOMAIN s : s[x].address = a
            e == s[i]
            failures == Append(G!Recent(e.failures), time)
<1>1. s \in Seq(TrackedEntries) /\ \E x \in 1 .. Len(s) : s[x].address = a
  BY EntryMade
<1>2. s = IF G!Tracked(a) # {} THEN tracked
          ELSE Append(G!Room(tracked, TrackerSize), [address |-> a, failures |-> <<>>, until |-> Never])
  BY DEF WithEntry, NewEntry
<1>3. G!Record(a) = IF Len(failures) >= Threshold
                    THEN [s EXCEPT ![i].until = time + BlockFor, ![i].failures = <<>>]
                    ELSE [s EXCEPT ![i].failures = failures]
  BY <1>2 DEF G!Record
<1>. HIDE DEF s
<1>4. i \in 1 .. Len(s) /\ s[i].address = a /\ DOMAIN s = 1 .. Len(s)
  BY <1>1
<1>. HIDE DEF i
<1>5. e \in TrackedEntries
  BY <1>1, <1>4
<1>6. [s EXCEPT ![i].failures = failures] = Failed(s, i, failures, e.until)
  <2>. HIDE DEF failures
  <2>1. [s[i] EXCEPT !.failures = failures] = [address |-> e.address, failures |-> failures, until |-> e.until]
    BY <1>5 DEF TrackedEntries
  <2>. QED
    BY <1>4, <2>1 DEF Failed
<1>7. [s EXCEPT ![i].until = time + BlockFor, ![i].failures = <<>>] = Failed(s, i, <<>>, time + BlockFor)
  <2>. DEFINE w == [s EXCEPT ![i].until = time + BlockFor]
  <2>1. w[i] = [e EXCEPT !.until = time + BlockFor] /\ DOMAIN w = 1 .. Len(s) /\ \A k \in 1 .. Len(s) : k # i => w[k] = s[k]
    BY <1>4
  <2>2. [w[i] EXCEPT !.failures = <<>>] = [address |-> e.address, failures |-> <<>>, until |-> time + BlockFor]
    BY <1>5, <2>1 DEF TrackedEntries
  <2>3. [s EXCEPT ![i].until = time + BlockFor, ![i].failures = <<>>] = [w EXCEPT ![i].failures = <<>>]
    OBVIOUS
  <2>. HIDE DEF w
  <2>4. [w EXCEPT ![i].failures = <<>>] = Failed(s, i, <<>>, time + BlockFor)
    BY <1>4, <2>1, <2>2 DEF Failed
  <2>. QED
    BY <2>3, <2>4
<1>. QED
  BY <1>3, <1>4, <1>6, <1>7 DEF s

LEMMA RecordKeeps ==
    ASSUME GateTypes, AddressesInv, NEW a \in Addresses
    PROVE  LET t == G!Record(a)
               all == [failedAt EXCEPT ![a] = Append(@, time)]
           IN  /\ t \in Seq(TrackedEntries) /\ all \in [Addresses -> Seq(Nat)]
               /\ OneEach(t) /\ EntriesFit(t, all)
               /\ \A b \in Addresses : Ordered(all[b], time)
               /\ \A b \in Addresses \ ForgottenFor(a) : Known(t, all[b], time, b)
<1>. DEFINE s == WithEntry(a)
            f == failedAt[a]
            f2 == Append(f, time)
            all == [failedAt EXCEPT ![a] = Append(@, time)]
            n == Len(f)
<1>1. PICK i \in 1 .. Len(s) :
        /\ s[i].address = a
        /\ LET failures == Append(G!Recent(s[i].failures), time) IN
           G!Record(a) = IF Len(failures) >= Threshold THEN Failed(s, i, <<>>, time + BlockFor)
                         ELSE Failed(s, i, failures, s[i].until)
  BY RecordIs
<1>2. /\ s \in Seq(TrackedEntries) /\ OneEach(s) /\ EntriesFit(s, failedAt)
      /\ \A b \in Addresses \ ForgottenFor(a) : Known(s, failedAt[b], time, b)
  BY EntryMade
<1>. HIDE DEF s
<1>. DEFINE e == s[i]
            r == G!Recent(e.failures)
            failures == Append(r, time)
            blocks == Len(failures) >= Threshold
            kept == IF blocks THEN <<>> ELSE failures
            until == IF blocks THEN time + BlockFor ELSE e.until
            t == Failed(s, i, kept, until)
<1>3. G!Record(a) = t
  BY <1>1
<1>4. /\ f \in Seq(Nat) /\ Ordered(f, time) /\ time \in Nat /\ failedAt \in [Addresses -> Seq(Nat)]
      /\ n \in Nat /\ Threshold \in Nat \ {0} /\ BlockFor \in Nat /\ Never \notin Int
  BY GateAssumption DEF GateTypes, AddressesInv
<1>5. e \in TrackedEntries /\ EntryFits(e, f) /\ e.address = a
  BY <1>1, <1>2 DEF EntriesFit
<1>6. /\ r \in Seq(Nat) /\ EndOf(r, f) /\ Len(r) < Threshold
      /\ \A j \in 1 .. Len(r) : time - r[j] < Window
      /\ \A j \in 1 .. n : time - f[j] < Window /\ n - j < Len(e.failures) => n - j < Len(r)
  BY <1>4, <1>5, EntryRecent
<1>. HIDE DEF r, f
<1>7. /\ f2 \in Seq(Nat) /\ Len(f2) = n + 1 /\ f2[n + 1] = time /\ \A j \in 1 .. n : f2[j] = f[j]
      /\ Ordered(f2, time)
      /\ failures \in Seq(Nat) /\ EndOf(failures, f2) /\ Len(failures) = Len(r) + 1
      /\ blocks => Burst(f2, time)
      /\ \A at : Burst(f, at) => Burst(f2, at)
  BY <1>4, <1>6, FailureMore
<1>8. all \in [Addresses -> Seq(Nat)] /\ all[a] = f2 /\ \A b \in Addresses : b # a => all[b] = failedAt[b]
  BY <1>4, <1>7 DEF f
<1>. HIDE DEF f2, failures, all
<1>9. kept \in Seq(Nat) /\ EndOf(kept, f2) /\ Len(kept) < Threshold /\ until \in Int \cup {Never}
  <2>1. CASE blocks
    BY <2>1, <1>4, <1>7 DEF EndOf
  <2>2. CASE ~blocks
    <3>1. Len(failures) \in Nat /\ e.until \in Int \cup {Never}
      BY <1>5, <1>7 DEF TrackedEntries
    <3>. QED
      BY <2>2, <3>1, <1>4, <1>7
  <2>. QED
    BY <2>1, <2>2
<1>10. until # Never => Burst(f2, until - BlockFor)
  <2>1. CASE blocks
    <3>1. (time + BlockFor) - BlockFor = time
      BY <1>4
    <3>. QED
      BY <2>1, <3>1, <1>7
  <2>2. CASE ~blocks
    BY <2>2, <1>5, <1>7 DEF EntryFits
  <2>. QED
    BY <2>1, <2>2
<1>. HIDE DEF kept, until, blocks
<1>11. /\ t \in Seq(TrackedEntries) /\ Len(t) = Len(s)
       /\ t[i].address = a /\ t[i].failures = kept /\ t[i].until = until
       /\ \A k \in 1 .. Len(s) : t[k].address = s[k].address /\ (k # i => t[k] = s[k])
  <2>1. [address |-> e.address, failures |-> kept, until |-> until] \in TrackedEntries
    BY <1>5, <1>9 DEF TrackedEntries
  <2>2. Len(s) \in Nat /\ \A k \in 1 .. Len(s) : s[k] \in TrackedEntries
    BY <1>2
  <2>. QED
    BY <2>1, <2>2, <1>5 DEF Failed
<1>12. \A k \in 1 .. Len(s) : s[k].address = a => k = i
  BY <1>1, <1>2 DEF OneEach
<1>. HIDE DEF t, e
<1>13. OneEach(t)
  BY <1>2, <1>11 DEF OneEach
<1>14. EntriesFit(t, all)
  <2>. SUFFICES ASSUME NEW k \in 1 .. Len(s)
                PROVE  EntryFits(t[k], all[t[k].address])
    BY <1>11 DEF EntriesFit
  <2>1. CASE k = i
    BY <2>1, <1>8, <1>9, <1>10, <1>11 DEF EntryFits
  <2>2. CASE k # i
    <3>1. s[k] \in TrackedEntries
      BY <1>2
    <3>2. t[k] = s[k] /\ s[k].address # a /\ s[k].address \in Addresses
      BY <2>2, <3>1, <1>11, <1>12 DEF TrackedEntries
    <3>. QED
      BY <3>2, <1>2, <1>8 DEF EntriesFit
  <2>. QED
    BY <2>1, <2>2
<1>15. \A b \in Addresses : Ordered(all[b], time)
  BY <1>7, <1>8 DEF AddressesInv
<1>16. ASSUME NEW b \in Addresses \ ForgottenFor(a)
       PROVE  Known(t, all[b], time, b)
  <2>1. Known(s, failedAt[b], time, b)
    BY <1>2
  <2>2. CASE b # a
    <3>1. \A k \in 1 .. Len(s) : s[k].address = b => t[k] = s[k]
      BY <2>2, <1>1, <1>11
    <3>. QED
      BY <2>1, <2>2, <3>1, <1>8, <1>11 DEF Known
  <2>3. CASE b = a
    <3>1. n < Threshold => \A j \in 1 .. n : time - f[j] < Window => n - j < Len(r)
      <4>. SUFFICES ASSUME n < Threshold, NEW j \in 1 .. n, time - f[j] < Window
                    PROVE  n - j < Len(r)
        OBVIOUS
      <4>1. PICK k \in 1 .. Len(s) : s[k].address = a /\ n - j < Len(s[k].failures)
        BY <2>1, <2>3 DEF Known, f
      <4>. QED
        BY <4>1, <1>6, <1>12 DEF e
    <3>2. ASSUME n + 1 < Threshold, NEW j \in 1 .. n + 1, time - f2[j] < Window
          PROVE  n + 1 - j < Len(kept)
      <4>1. ~blocks
        <5>1. Len(r) <= n /\ Len(r) \in Nat
          BY <1>6 DEF EndOf
        <5>. QED
          BY <5>1, <3>2, <1>4, <1>7 DEF blocks
      <4>2. Len(kept) = Len(r) + 1 /\ Len(r) \in Nat
        BY <4>1, <1>6, <1>7 DEF kept
      <4>3. CASE j = n + 1
        BY <4>2, <4>3, <1>4
      <4>4. CASE j \in 1 .. n
        <5>1. n < Threshold /\ f2[j] = f[j]
          <6>1. n < Threshold
            BY <3>2, <1>4
          <6>. QED
            BY <6>1, <4>4, <1>7
        <5>2. n - j < Len(r)
          BY <5>1, <4>4, <3>1, <3>2
        <5>. QED
          BY <5>2, <4>2, <1>4, <4>4
      <4>. QED
        BY <4>3, <4>4, <1>4
    <3>3. ASSUME n + 1 = Threshold, f2[Threshold] - f2[1] < Window
          PROVE  until = f2[Threshold] + BlockFor
      <4>1. Len(r) \in Nat /\ f2[Threshold] = time
        BY <1>6, <1>7, <3>3
      <4>2. Len(r) + 1 >= Threshold
        <5>1. CASE n = 0
          BY <5>1, <4>1, <3>3
        <5>2. CASE n # 0
          <6>1. 1 \in 1 .. n /\ f2[1] = f[1] /\ n < Threshold
            BY <5>2, <1>4, <1>7, <3>3
          <6>2. n - 1 < Len(r)
            BY <6>1, <4>1, <3>1, <3>3
          <6>. QED
            BY <6>2, <4>1, <1>4, <3>3
        <5>. QED
          BY <5>1, <5>2
      <4>3. blocks
        BY <4>2, <1>7 DEF blocks
      <4>. QED
        BY <4>1, <4>3 DEF until
    <3>4. i \in 1 .. Len(t) /\ t[i].address = b /\ t[i].failures = kept /\ t[i].until = until
      BY <2>3, <1>11
    <3>5. all[b] = f2 /\ Len(f2) = n + 1
      BY <2>3, <1>7, <1>8
    <3>6. \A j \in 1 .. n + 1 : n + 1 < Threshold /\ time - f2[j] < Window =>
            t[i].address = b /\ n + 1 - j < Len(t[i].failures)
      BY <3>2, <3>4
    <3>7. n + 1 = Threshold /\ f2[Threshold] - f2[1] < Window => t[i].until = f2[Threshold] + BlockFor
      BY <3>3, <3>4
    <3>. QED
      BY <3>4, <3>5, <3>6, <3>7 DEF Known
  <2>. QED
    BY <2>2, <2>3
<1>. QED
  BY <1>3, <1>8, <1>11, <1>13, <1>14, <1>15, <1>16 DEF all

\* The ids: an id has one entry, what was taken is numbered, and of an id that was
\* never forgotten and that calls only worked on one at a time, an answer is covered
\* by an entry for as long as it counts, and none counts while a call works on it.
OneEntry(t) == \A i, j \in 1 .. Len(t) : t[i].id = t[j].id => i = j
CountedTaken == IsFiniteSet(taken) /\ \A x \in taken : x[3] < Cardinality(taken)
CoveredBy(t, x) ==
    \/ time - x[2] > KeepFor
    \/ \E i \in 1 .. Len(t) : t[i].id = x[1] /\ t[i].at >= x[2]
Sound(id) == id \notin forgotten /\ id \notin together
WorkFits(c, id) ==
    /\ \A i \in 1 .. Len(accepted) : accepted[i].id # id
    /\ \A x \in taken : x[1] = id => time - x[2] > KeepFor
    /\ \A d \in Handlers : G!Works(d, id) => d = c
IdsInv ==
    /\ OneEntry(accepted) /\ CountedTaken /\ G!TakenOnce
    /\ \A x \in taken : Sound(x[1]) => CoveredBy(accepted, x)
    /\ \A c \in Handlers : \A id \in RequestIds : Sound(id) /\ G!Works(c, id) => WorkFits(c, id)
GateInv == GateTypes /\ AddressesInv /\ IdsInv

LEMMA GateCardinality ==
    ASSUME NEW s
    PROVE  G!Cardinality(s) = Cardinality(s)
BY DEF G!Cardinality, Cardinality, G!IsFiniteSet, IsFiniteSet

\* A call that begins or ends leaves fewer at work.
LEMMA CallKeeps ==
    ASSUME IdsInv, UNCHANGED <<accepted, taken, together, forgotten, time>>,
           \A c \in Handlers : \A id \in RequestIds : G!Works(c, id)' => G!Works(c, id)
    PROVE  IdsInv'
<1>1. OneEntry(accepted)' /\ CountedTaken' /\ G!TakenOnce'
  BY DEF IdsInv, OneEntry, CountedTaken, G!TakenOnce
<1>2. \A x \in taken' : Sound(x[1])' => CoveredBy(accepted, x)'
  BY DEF IdsInv, Sound, CoveredBy
<1>3. \A c \in Handlers : \A id \in RequestIds : Sound(id)' /\ G!Works(c, id)' => WorkFits(c, id)'
  BY DEF IdsInv, Sound, WorkFits
<1>. QED
  BY <1>1, <1>2, <1>3 DEF IdsInv

\* More ids, or addresses, are forgotten.
LEMMA ForgettingKeeps ==
    ASSUME IdsInv, forgotten \subseteq forgotten', UNCHANGED <<accepted, taken, together, time>>,
           \A c \in Handlers : \A id \in RequestIds : G!Works(c, id)' => G!Works(c, id)
    PROVE  IdsInv'
<1>0. \A id : Sound(id)' => Sound(id)
  BY DEF Sound
<1>1. OneEntry(accepted)' /\ CountedTaken' /\ G!TakenOnce'
  BY DEF IdsInv, OneEntry, CountedTaken, G!TakenOnce
<1>2. \A x \in taken' : Sound(x[1])' => CoveredBy(accepted, x)'
  BY <1>0 DEF IdsInv, CoveredBy
<1>3. \A c \in Handlers : \A id \in RequestIds : Sound(id)' /\ G!Works(c, id)' => WorkFits(c, id)'
  BY <1>0 DEF IdsInv, WorkFits
<1>. QED
  BY <1>1, <1>2, <1>3 DEF IdsInv

LEMMA CheckAddressKeeps ==
    ASSUME GateInv, NEW c \in Handlers, NEW a \in Addresses, G!CheckAddress(c, a)
    PROVE  GateInv'
<1>. GateTypes /\ AddressesInv /\ IdsInv
  BY DEF GateInv
<1>1. /\ tracked' = G!Look(a).tracked
      /\ calls' = calls \/ calls' = [calls EXCEPT ![c] = G!Checked(a)]
      /\ accepted' = accepted /\ time' = time /\ failedAt' = failedAt /\ forgotten' = forgotten
      /\ taken' = taken /\ together' = together
  BY DEF G!CheckAddress, G!gateHistory
<1>2. /\ tracked' \in Seq(TrackedEntries) /\ OneEach(tracked') /\ EntriesFit(tracked', failedAt)
      /\ \A b \in Addresses \ forgotten : Known(tracked', failedAt[b], time, b)
  BY <1>1, LookKeeps
<1>3. AddressesInv'
  BY <1>1, <1>2 DEF AddressesInv
<1>4. /\ G!Checked(a) \in CallStates /\ G!Checked(a).stage = "checked"
  BY DEF G!Checked, CallStates
<1>5. calls' \in [Handlers -> CallStates \cup {Never}]
  BY <1>1, <1>4 DEF GateTypes
<1>6. \A d \in Handlers : calls'[d] = calls[d] \/ calls'[d].stage = "checked"
  BY <1>1, <1>4 DEF GateTypes
<1>7. GateTypes'
  BY <1>1, <1>2, <1>5, <1>6 DEF GateTypes
<1>8. IdsInv'
  BY <1>1, <1>6, CallKeeps DEF G!Works
<1>. QED
  BY <1>3, <1>7, <1>8 DEF GateInv

LEMMA UnverifiedKeeps ==
    ASSUME GateInv, NEW c \in Handlers, G!Unverified(c)
    PROVE  GateInv'
<1>. GateTypes /\ AddressesInv /\ IdsInv
  BY DEF GateInv
<1>. DEFINE a == calls[c].address
<1>1. /\ calls[c] # Never
      /\ tracked' = G!Record(a) /\ calls' = [calls EXCEPT ![c] = Never]
      /\ failedAt' = [failedAt EXCEPT ![a] = Append(@, time)]
      /\ forgotten' = ForgottenFor(a)
      /\ accepted' = accepted /\ time' = time /\ taken' = taken /\ together' = together
  BY DEF G!Unverified, ForgottenFor
<1>2. a \in Addresses
  BY <1>1 DEF GateTypes, CallStates
<1>3. /\ tracked' \in Seq(TrackedEntries) /\ failedAt' \in [Addresses -> Seq(Nat)]
      /\ OneEach(tracked') /\ EntriesFit(tracked', failedAt')
      /\ \A b \in Addresses : Ordered(failedAt'[b], time)
      /\ \A b \in Addresses \ forgotten' : Known(tracked', failedAt'[b], time, b)
  BY <1>1, <1>2, RecordKeeps
<1>4. AddressesInv'
  BY <1>1, <1>3 DEF AddressesInv
<1>5. calls' \in [Handlers -> CallStates \cup {Never}] /\ \A d \in Handlers : calls'[d] = calls[d] \/ calls'[d] = Never
  BY <1>1 DEF GateTypes
<1>6. GateTypes'
  BY <1>1, <1>3, <1>5 DEF GateTypes
<1>7. forgotten \subseteq forgotten'
  BY <1>1 DEF ForgottenFor
<1>8. IdsInv'
  BY <1>1, <1>5, <1>7, ForgettingKeeps DEF G!Works
<1>. QED
  BY <1>4, <1>6, <1>8 DEF GateInv

LEMMA TickKeeps ==
    ASSUME GateInv, G!Tick
    PROVE  GateInv'
<1>. GateTypes /\ AddressesInv /\ IdsInv
  BY DEF GateInv
<1>1. /\ time' = time + 1 /\ UNCHANGED <<tracked, accepted, calls, failedAt, forgotten, taken, together>>
  BY DEF G!Tick, G!gateHistory
<1>0. time \in Nat /\ KeepFor \in Nat /\ Window \in Nat /\ BlockFor \in Nat /\ Threshold \in Nat \ {0}
  BY GateAssumption DEF GateTypes
<1>2. GateTypes'
  BY <1>1 DEF GateTypes
<1>3. \A a \in Addresses : failedAt[a] \in Seq(Nat)
  BY DEF GateTypes
<1>4. \A a \in Addresses : Ordered(failedAt[a], time + 1)
  BY <1>0, <1>3 DEF AddressesInv, Ordered
<1>5. ASSUME NEW a \in Addresses \ forgotten
      PROVE  Known(tracked, failedAt[a], time + 1, a)
  <2>. DEFINE f == failedAt[a]
  <2>1. f \in Seq(Nat) /\ Known(tracked, f, time, a)
    BY <1>3 DEF AddressesInv
  <2>. HIDE DEF f
  <2>2. \A j \in 1 .. Len(f) : (time + 1) - f[j] < Window => time - f[j] < Window
    BY <2>1, <1>0
  <2>3. Len(f) = Threshold => f[Threshold] \in Nat
    BY <2>1, <1>0
  <2>. QED
    BY <2>1, <2>2, <2>3, <1>0 DEF Known, f
<1>6. AddressesInv'
  BY <1>1, <1>4, <1>5 DEF AddressesInv
<1>7. \A x \in taken : x[2] \in Nat
  BY DEF GateTypes
<1>8. OneEntry(accepted)' /\ CountedTaken' /\ G!TakenOnce'
  BY <1>1 DEF IdsInv, OneEntry, CountedTaken, G!TakenOnce
<1>9. \A x \in taken' : Sound(x[1])' => CoveredBy(accepted, x)'
  BY <1>0, <1>1, <1>7 DEF IdsInv, CoveredBy, Sound
<1>10. ASSUME NEW c \in Handlers, NEW id \in RequestIds, Sound(id)', G!Works(c, id)'
       PROVE  WorkFits(c, id)'
  <2>1. WorkFits(c, id)
    BY <1>1, <1>10 DEF IdsInv, Sound, G!Works
  <2>2. \A x \in taken : x[1] = id => (time + 1) - x[2] > KeepFor
    BY <2>1, <1>0, <1>7 DEF WorkFits
  <2>. QED
    BY <1>1, <2>1, <2>2 DEF WorkFits, G!Works
<1>. QED
  BY <1>2, <1>6, <1>8, <1>9, <1>10 DEF GateInv, IdsInv

\* The entries without that of an id, of which there is only one.
LEMMA EntryGone ==
    ASSUME GateTypes, OneEntry(accepted), NEW id \in RequestIds
    PROVE  LET t == IF G!Remembered(id) = {} THEN accepted
                    ELSE G!Without(accepted, CHOOSE i \in G!Remembered(id) : TRUE)
           IN  /\ t \in Seq(AcceptedEntries) /\ OneEntry(t)
               /\ \A j \in 1 .. Len(t) : t[j].id # id
               /\ \A k \in 1 .. Len(accepted) : accepted[k].id # id => \E j \in 1 .. Len(t) : t[j] = accepted[k]
               /\ \A j \in 1 .. Len(t) : \E k \in 1 .. Len(accepted) : t[j] = accepted[k]
<1>. DEFINE i == CHOOSE x \in G!Remembered(id) : TRUE
            n == Len(accepted)
            t == G!Without(accepted, i)
<1>0. accepted \in Seq(AcceptedEntries) /\ n \in Nat /\ DOMAIN accepted = 1 .. n
  BY DEF GateTypes
<1>1. CASE G!Remembered(id) = {}
  BY <1>0, <1>1 DEF G!Remembered
<1>2. CASE G!Remembered(id) # {}
  <2>1. i \in 1 .. n /\ accepted[i].id = id
    BY <1>0, <1>2 DEF G!Remembered
  <2>. HIDE DEF i
  <2>2. /\ t \in Seq(AcceptedEntries) /\ Len(t) = n - 1
        /\ \A j \in 1 .. n - 1 : t[j] = IF j < i THEN accepted[j] ELSE accepted[j + 1]
    BY <1>0, <2>1, OneLess
  <2>. HIDE DEF t
  <2>. DEFINE at(j) == IF j < i THEN j ELSE j + 1
  <2>3. \A j \in 1 .. n - 1 : at(j) \in 1 .. n /\ at(j) # i /\ t[j] = accepted[at(j)]
    BY <2>1, <2>2, <1>0
  <2>4. \A j, k \in 1 .. n - 1 : at(j) = at(k) => j = k
    BY <2>1, <1>0
  <2>5. \A k \in 1 .. n : k # i => \E j \in 1 .. n - 1 : at(j) = k
    <3>. SUFFICES ASSUME NEW k \in 1 .. n, k # i
                  PROVE  \E j \in 1 .. n - 1 : at(j) = k
      OBVIOUS
    <3>1. CASE k < i
      <4>1. k \in 1 .. n - 1 /\ at(k) = k
        BY <3>1, <2>1, <1>0
      <4>. QED
        BY <4>1
    <3>2. CASE k > i
      <4>1. k - 1 \in 1 .. n - 1 /\ at(k - 1) = k
        BY <3>2, <2>1, <1>0
      <4>. QED
        BY <4>1
    <3>. QED
      BY <3>1, <3>2, <2>1
  <2>. HIDE DEF at
  <2>6. OneEntry(t)
    BY <2>2, <2>3, <2>4 DEF OneEntry
  <2>7. \A j \in 1 .. Len(t) : t[j].id # id
    BY <2>1, <2>2, <2>3 DEF OneEntry
  <2>8. \A k \in 1 .. n : accepted[k].id # id => \E j \in 1 .. Len(t) : t[j] = accepted[k]
    <3>. SUFFICES ASSUME NEW k \in 1 .. n, accepted[k].id # id
                  PROVE  \E j \in 1 .. Len(t) : t[j] = accepted[k]
      OBVIOUS
    <3>1. PICK j \in 1 .. n - 1 : at(j) = k
      BY <2>1, <2>5
    <3>. QED
      BY <3>1, <2>2, <2>3
  <2>. QED
    BY <1>2, <2>2, <2>3, <2>6, <2>7, <2>8 DEF t, i
<1>. QED
  BY <1>1, <1>2

LEMMA VerifiedKeeps ==
    ASSUME GateInv, NEW c \in Handlers, NEW id \in RequestIds, G!Verified(c, id)
    PROVE  GateInv'
<1>. GateTypes /\ AddressesInv /\ IdsInv
  BY DEF GateInv
<1>1. /\ calls[c] # Never /\ calls[c].stage = "checked"
      /\ UNCHANGED <<tracked, time, failedAt, forgotten, taken>>
      /\ together' = IF ~G!Repeated(id) /\ \E d \in Handlers : G!Works(d, id) THEN together \cup {id} ELSE together
  BY DEF G!Verified
<1>2. AddressesInv'
  BY <1>1 DEF AddressesInv
<1>3. CASE G!Repeated(id)
  <2>1. calls' = [calls EXCEPT ![c] = Never] /\ accepted' = accepted /\ together' = together
    BY <1>1, <1>3 DEF G!Verified
  <2>2. calls' \in [Handlers -> CallStates \cup {Never}] /\ \A d \in Handlers : calls'[d] = calls[d] \/ calls'[d] = Never
    BY <2>1 DEF GateTypes
  <2>3. GateTypes'
    BY <1>1, <2>1, <2>2 DEF GateTypes
  <2>4. IdsInv'
    BY <1>1, <2>1, <2>2, CallKeeps DEF G!Works
  <2>. QED
    BY <1>2, <2>3, <2>4 DEF GateInv
<1>4. CASE ~G!Repeated(id)
  <2>. DEFINE t == IF G!Remembered(id) = {} THEN accepted
                   ELSE G!Without(accepted, CHOOSE i \in G!Remembered(id) : TRUE)
  <2>1. /\ calls' = [calls EXCEPT ![c].stage = "working", ![c].id = id] /\ accepted' = t
    BY <1>1, <1>4 DEF G!Verified
  <2>2. /\ t \in Seq(AcceptedEntries) /\ OneEntry(t)
        /\ \A j \in 1 .. Len(t) : t[j].id # id
        /\ \A k \in 1 .. Len(accepted) : accepted[k].id # id => \E j \in 1 .. Len(t) : t[j] = accepted[k]
        /\ \A j \in 1 .. Len(t) : \E k \in 1 .. Len(accepted) : t[j] = accepted[k]
    BY EntryGone DEF IdsInv
  <2>. HIDE DEF t
  <2>3. /\ calls' \in [Handlers -> CallStates \cup {Never}]
        /\ \A d \in Handlers : d # c => calls'[d] = calls[d]
        /\ calls'[c].stage = "working" /\ calls'[c].id = id
    <3>1. calls[c] \in CallStates
      BY <1>1 DEF GateTypes
    <3>2. [[calls[c] EXCEPT !.stage = "working"] EXCEPT !.id = id] \in CallStates
      BY <3>1 DEF CallStates
    <3>3. calls' = [calls EXCEPT ![c] = [[calls[c] EXCEPT !.stage = "working"] EXCEPT !.id = id]]
      BY <2>1 DEF GateTypes
    <3>. QED
      BY <3>1, <3>2, <3>3 DEF GateTypes, CallStates
  <2>4. GateTypes'
    BY <1>1, <2>1, <2>2, <2>3 DEF GateTypes
  <2>5. \A d \in Handlers : \A k \in RequestIds : G!Works(d, k)' <=> (IF d = c THEN k = id /\ calls'[c] # Never ELSE G!Works(d, k))
    BY <2>3 DEF G!Works
  <2>6. together \subseteq together'
    BY <1>1
  <2>7. \A k : Sound(k)' => Sound(k)
    BY <1>1, <2>6 DEF Sound
  <2>8. CountedTaken' /\ G!TakenOnce'
    BY <1>1, <2>6 DEF IdsInv, CountedTaken, G!TakenOnce
  <2>9. Sound(id)' => \A d \in Handlers : ~G!Works(d, id)
    BY <1>1, <1>4 DEF Sound
  <2>10. \A x \in taken : x[1] = id /\ Sound(id)' => time - x[2] > KeepFor
    <3>. SUFFICES ASSUME NEW x \in taken, x[1] = id, Sound(id)'
                  PROVE  time - x[2] > KeepFor
      OBVIOUS
    <3>1. CoveredBy(accepted, x)
      BY <2>7 DEF IdsInv
    <3>2. ASSUME NEW i \in 1 .. Len(accepted), accepted[i].id = id, accepted[i].at >= x[2]
          PROVE  time - x[2] > KeepFor
      <4>1. accepted[i] \in AcceptedEntries /\ i \in DOMAIN accepted
        BY DEF GateTypes
      <4>2. ~(time - accepted[i].at <= KeepFor)
        BY <1>4, <3>2, <4>1 DEF G!Repeated, G!Remembered
      <4>3. accepted[i].at \in Nat /\ x[2] \in Nat /\ time \in Nat /\ KeepFor \in Nat
        BY <4>1, GateAssumption DEF AcceptedEntries, GateTypes
      <4>. QED
        BY <4>2, <4>3, <3>2
    <3>. QED
      BY <3>1, <3>2 DEF CoveredBy
  <2>11. \A x \in taken' : Sound(x[1])' => CoveredBy(accepted, x)'
    <3>. SUFFICES ASSUME NEW x \in taken, Sound(x[1])'
                  PROVE  CoveredBy(t, x)
      BY <1>1, <2>1 DEF CoveredBy
    <3>1. CASE x[1] = id
      BY <3>1, <2>10 DEF CoveredBy
    <3>2. CASE x[1] # id
      <4>1. CoveredBy(accepted, x)
        BY <2>7 DEF IdsInv
      <4>2. CASE time - x[2] > KeepFor
        BY <4>2 DEF CoveredBy
      <4>3. ASSUME NEW i \in 1 .. Len(accepted), accepted[i].id = x[1], accepted[i].at >= x[2]
            PROVE  CoveredBy(t, x)
        <5>1. \E j \in 1 .. Len(t) : t[j] = accepted[i]
          BY <3>2, <4>3, <2>2
        <5>. QED
          BY <5>1, <4>3 DEF CoveredBy
      <4>. QED
        BY <4>1, <4>2, <4>3 DEF CoveredBy
    <3>. QED
      BY <3>1, <3>2
  <2>12. ASSUME NEW d \in Handlers, NEW k \in RequestIds, Sound(k)', G!Works(d, k)'
         PROVE  WorkFits(d, k)'
    <3>1. CASE d = c
      <4>1. k = id
        BY <2>5, <2>12, <3>1
      <4>2. \A e \in Handlers : G!Works(e, k)' => e = d
        BY <2>5, <2>9, <2>12, <3>1, <4>1
      <4>. QED
        BY <1>1, <2>1, <2>2, <2>10, <2>12, <4>1, <4>2 DEF WorkFits
    <3>2. CASE d # c
      <4>1. G!Works(d, k) /\ Sound(k)
        BY <2>5, <2>7, <2>12, <3>2
      <4>2. WorkFits(d, k)
        BY <4>1 DEF IdsInv
      <4>3. k # id
        BY <2>9, <2>12, <4>1
      <4>4. \A e \in Handlers : G!Works(e, k)' => e = d
        BY <2>5, <4>2, <4>3 DEF WorkFits
      <4>. QED
        BY <1>1, <2>1, <2>2, <4>2, <4>4 DEF WorkFits
    <3>. QED
      BY <3>1, <3>2
  <2>13. OneEntry(accepted)'
    BY <2>1, <2>2 DEF OneEntry
  <2>14. IdsInv'
    BY <2>8, <2>11, <2>12, <2>13 DEF IdsInv
  <2>. QED
    BY <1>2, <2>4, <2>14 DEF GateInv
<1>. QED
  BY <1>3, <1>4

LEMMA RestartKeeps ==
    ASSUME GateInv, G!Restart
    PROVE  GateInv'
<1>. GateTypes /\ AddressesInv /\ IdsInv
  BY DEF GateInv
<1>1. /\ tracked' = <<>> /\ accepted' = <<>> /\ calls' = [c \in Handlers |-> Never]
      /\ forgotten' = Addresses \cup RequestIds
      /\ UNCHANGED <<time, failedAt, taken, together>>
  BY DEF G!Restart
<1>2. GateTypes'
  BY <1>1 DEF GateTypes
<1>3. AddressesInv'
  BY <1>1 DEF AddressesInv, OneEach, EntriesFit
<1>4. \A x \in taken : x[1] \in RequestIds
  BY DEF GateTypes
<1>5. OneEntry(accepted)' /\ CountedTaken'
  BY <1>1 DEF IdsInv, OneEntry, CountedTaken
<1>6. G!TakenOnce'
  BY <1>1, <1>4 DEF G!TakenOnce
<1>7. \A k \in RequestIds : ~Sound(k)'
  BY <1>1 DEF Sound
<1>. QED
  BY <1>1, <1>2, <1>3, <1>4, <1>5, <1>6, <1>7 DEF GateInv, IdsInv

\* An id more: the entries with room for it.
LEMMA EntryAdded ==
    ASSUME GateTypes, OneEntry(accepted), NEW id \in RequestIds, G!Remembered(id) = {}
    PROVE  LET t == Append(G!Room(accepted, StoreSize), [id |-> id, at |-> time]) IN
           /\ t \in Seq(AcceptedEntries) /\ OneEntry(t)
           /\ \E i \in 1 .. Len(t) : t[i] = [id |-> id, at |-> time]
           /\ \A j \in 1 .. Len(t) : t[j].id # id => \E k \in 1 .. Len(accepted) : t[j] = accepted[k]
           /\ \A k \in 1 .. Len(accepted) : accepted[k].id \notin {e.id : e \in G!Evicted(accepted, StoreSize)} =>
                \E j \in 1 .. Len(t) : t[j] = accepted[k]
<1>. DEFINE n == Len(accepted)
            room == G!Room(accepted, StoreSize)
            m == Len(room)
            new == [id |-> id, at |-> time]
            t == Append(room, new)
<1>0. accepted \in Seq(AcceptedEntries) /\ n \in Nat /\ DOMAIN accepted = 1 .. n /\ StoreSize \in Nat \ {0}
  BY GateAssumption DEF GateTypes
<1>1. \A k \in 1 .. n : accepted[k].id # id
  BY <1>0 DEF G!Remembered
<1>2. \/ room = accepted /\ G!Evicted(accepted, StoreSize) = {}
      \/ /\ n \in Nat \ {0} /\ G!Evicted(accepted, StoreSize) = {accepted[1]}
         /\ room \in Seq(AcceptedEntries) /\ m = n - 1
         /\ \A j \in 1 .. n - 1 : room[j] = accepted[j + 1]
  BY <1>0, RoomLeft
<1>3. new \in AcceptedEntries /\ new.id = id
  BY DEF GateTypes, AcceptedEntries
<1>. HIDE DEF room, new
\* d is how many went.
<1>4. PICK d \in {0, 1} :
        /\ m = n - d /\ m \in Nat /\ room \in Seq(AcceptedEntries)
        /\ \A j \in 1 .. m : room[j] = accepted[j + d]
        /\ d = 1 => G!Evicted(accepted, StoreSize) = {accepted[1]}
  <2>1. CASE room = accepted
    <3>1. m = n - 0 /\ m \in Nat /\ room \in Seq(AcceptedEntries)
      BY <2>1, <1>0
    <3>2. \A j \in 1 .. m : room[j] = accepted[j + 0]
      BY <2>1, <1>0
    <3>. WITNESS 0 \in {0, 1}
    <3>. QED
      BY <3>1, <3>2
  <2>2. CASE /\ n \in Nat \ {0} /\ G!Evicted(accepted, StoreSize) = {accepted[1]}
             /\ room \in Seq(AcceptedEntries) /\ m = n - 1
             /\ \A j \in 1 .. n - 1 : room[j] = accepted[j + 1]
    BY <2>2
  <2>. QED
    BY <1>2, <2>1, <2>2
<1>5. t \in Seq(AcceptedEntries) /\ Len(t) = m + 1 /\ t[m + 1] = new /\ \A j \in 1 .. m : t[j] = room[j]
  BY <1>3, <1>4
<1>. HIDE DEF t, m
<1>6. \A j \in 1 .. m : j + d \in 1 .. n /\ t[j] = accepted[j + d]
  BY <1>0, <1>4, <1>5
<1>7. OneEntry(t)
  <2>. SUFFICES ASSUME NEW j \in 1 .. m + 1, NEW k \in 1 .. m + 1, t[j].id = t[k].id
                PROVE  j = k
    BY <1>5 DEF OneEntry
  <2>1. \A x \in 1 .. m : t[x].id # id
    BY <1>1, <1>6
  <2>2. CASE j \in 1 .. m /\ k \in 1 .. m
    <3>1. j + d = k + d
      BY <2>2, <1>6 DEF OneEntry
    <3>. QED
      BY <3>1
  <2>3. t[m + 1].id = id /\ m \in Nat
    BY <1>3, <1>4, <1>5
  <2>4. j \in (1 .. m) \cup {m + 1} /\ k \in (1 .. m) \cup {m + 1}
    BY <2>3
  <2>. QED
    BY <2>1, <2>2, <2>3, <2>4
<1>8. \E i \in 1 .. Len(t) : t[i] = new
  BY <1>4, <1>5
<1>9. ASSUME NEW j \in 1 .. Len(t), t[j].id # id
      PROVE  \E k \in 1 .. n : t[j] = accepted[k]
  <2>1. j \in 1 .. m
    BY <1>3, <1>4, <1>5, <1>9
  <2>. QED
    BY <2>1, <1>6
<1>10. ASSUME NEW k \in 1 .. n, accepted[k].id \notin {e.id : e \in G!Evicted(accepted, StoreSize)}
       PROVE  \E j \in 1 .. Len(t) : t[j] = accepted[k]
  <2>1. d = 1 => k # 1
    BY <1>4, <1>10
  <2>2. k - d \in 1 .. m /\ (k - d) + d = k
    BY <2>1, <1>0, <1>4
  <2>3. t[k - d] = accepted[k]
    BY <2>2, <1>6
  <2>4. k - d \in 1 .. Len(t)
    BY <2>2, <1>4, <1>5
  <2>. QED
    BY <2>3, <2>4
<1>. QED
  BY <1>5, <1>7, <1>8, <1>9, <1>10 DEF t, room, new

LEMMA AnsweredKeeps ==
    ASSUME GateInv, NEW c \in Handlers, NEW well \in BOOLEAN, G!Answered(c, well)
    PROVE  GateInv'
<1>. GateTypes /\ AddressesInv /\ IdsInv
  BY DEF GateInv
<1>. DEFINE id == calls[c].id
            new == well /\ G!Remembered(id) = {}
            t == Append(G!Room(accepted, StoreSize), [id |-> id, at |-> time])
            y == <<id, time, Cardinality(taken)>>
<1>1. /\ calls[c] # Never /\ calls[c].stage = "working" /\ calls' = [calls EXCEPT ![c] = Never]
      /\ accepted' = IF new THEN t ELSE accepted
      /\ forgotten' = IF new THEN forgotten \cup {e.id : e \in G!Evicted(accepted, StoreSize)} ELSE forgotten
      /\ taken' = IF well THEN taken \cup {y} ELSE taken
      /\ UNCHANGED <<tracked, time, failedAt, together>>
  BY GateCardinality DEF G!Answered
<1>2. id \in RequestIds /\ G!Works(c, id)
  BY <1>1 DEF GateTypes, G!Works
<1>3. forgotten \subseteq forgotten'
  BY <1>1
<1>4. AddressesInv'
  BY <1>1, <1>3 DEF AddressesInv
<1>5. CountedTaken /\ Cardinality(taken) \in Nat /\ \A x \in taken : x[2] \in Nat /\ x[3] \in Nat
  BY FS_CardinalityType DEF IdsInv, CountedTaken, GateTypes
<1>6. time \in Nat /\ KeepFor \in Nat
  BY GateAssumption DEF GateTypes
<1>7. new => /\ t \in Seq(AcceptedEntries) /\ OneEntry(t)
             /\ \E i \in 1 .. Len(t) : t[i] = [id |-> id, at |-> time]
             /\ \A j \in 1 .. Len(t) : t[j].id # id => \E k \in 1 .. Len(accepted) : t[j] = accepted[k]
             /\ \A k \in 1 .. Len(accepted) : accepted[k].id \notin {e.id : e \in G!Evicted(accepted, StoreSize)} =>
                    \E j \in 1 .. Len(t) : t[j] = accepted[k]
  BY <1>2, EntryAdded DEF IdsInv
<1>. HIDE DEF t
<1>8. calls' \in [Handlers -> CallStates \cup {Never}] /\ \A d \in Handlers : calls'[d] = IF d = c THEN Never ELSE calls[d]
  BY <1>1 DEF GateTypes
<1>9. accepted' \in Seq(AcceptedEntries) /\ OneEntry(accepted')
  BY <1>1, <1>7 DEF GateTypes, IdsInv
<1>10. y \in RequestIds \X Nat \X Nat /\ y[1] = id /\ y[2] = time /\ y[3] = Cardinality(taken)
  BY <1>2, <1>5, <1>6
<1>. HIDE DEF y
<1>11. GateTypes'
  BY <1>1, <1>8, <1>9, <1>10 DEF GateTypes
<1>12. \A k : Sound(k)' => Sound(k)
  BY <1>1, <1>3 DEF Sound
<1>13. CountedTaken'
  <2>1. CASE well
    <3>1. y \notin taken
      BY <1>5, <1>10 DEF CountedTaken
    <3>2. IsFiniteSet(taken \cup {y}) /\ Cardinality(taken \cup {y}) = Cardinality(taken) + 1
      BY <3>1, <1>5, FS_AddElement DEF CountedTaken
    <3>3. taken' = taken \cup {y} /\ Cardinality(taken') = Cardinality(taken) + 1
      BY <2>1, <3>2, <1>1
    <3>4. \A x \in taken : x[3] < Cardinality(taken) + 1
      BY <1>5 DEF CountedTaken
    <3>5. y[3] < Cardinality(taken) + 1
      BY <1>5, <1>10
    <3>. QED
      BY <3>2, <3>3, <3>4, <3>5 DEF CountedTaken
  <2>2. CASE ~well
    BY <2>2, <1>1, <1>5 DEF CountedTaken
  <2>. QED
    BY <2>1, <2>2
<1>14. Sound(id) => WorkFits(c, id)
  BY <1>2 DEF IdsInv
<1>15. G!TakenOnce'
  <2>. SUFFICES ASSUME NEW u \in taken', NEW v \in taken', u[1] = v[1], u[3] < v[3]
                PROVE  u[1] \in together' \/ u[1] \in forgotten' \/ v[2] - u[2] > KeepFor
    BY DEF G!TakenOnce
  <2>1. CASE u \in taken /\ v \in taken
    <3>1. u[1] \in together \/ u[1] \in forgotten \/ v[2] - u[2] > KeepFor
      BY <2>1 DEF IdsInv, G!TakenOnce
    <3>. QED
      BY <3>1, <1>1, <1>3
  <2>2. CASE u \in taken /\ v = y
    <3>1. Sound(id) => time - u[2] > KeepFor
      BY <2>2, <1>10, <1>14 DEF WorkFits
    <3>. QED
      BY <2>2, <3>1, <1>1, <1>3, <1>10 DEF Sound
  <2>3. u # y
    BY <1>1, <1>5, <1>10 DEF CountedTaken
  <2>. QED
    BY <2>1, <2>2, <2>3, <1>1
<1>16. ASSUME NEW x \in taken', Sound(x[1])'
       PROVE  CoveredBy(accepted, x)'
  <2>1. CASE x = y /\ well
    <3>1. \A i \in 1 .. Len(accepted) : accepted[i].id # id
      BY <2>1, <1>10, <1>12, <1>14, <1>16 DEF WorkFits
    <3>2. DOMAIN accepted = 1 .. Len(accepted)
      BY DEF GateTypes
    <3>3. new
      BY <2>1, <3>1, <3>2 DEF G!Remembered
    <3>4. PICK i \in 1 .. Len(t) : t[i] = [id |-> id, at |-> time]
      BY <3>3, <1>7
    <3>5. t[i].id = id /\ t[i].at >= time
      BY <3>4, <1>6
    <3>. QED
      BY <2>1, <3>3, <3>5, <1>1, <1>10 DEF CoveredBy
  <2>2. CASE x \in taken
    <3>1. CoveredBy(accepted, x)
      BY <2>2, <1>12, <1>16 DEF IdsInv
    <3>2. CASE time - x[2] > KeepFor
      BY <3>2, <1>1 DEF CoveredBy
    <3>3. ASSUME NEW i \in 1 .. Len(accepted), accepted[i].id = x[1], accepted[i].at >= x[2]
          PROVE  CoveredBy(accepted', x)
      <4>1. CASE new
        <5>1. accepted[i].id \notin {e.id : e \in G!Evicted(accepted, StoreSize)}
          BY <4>1, <3>3, <1>1, <1>16 DEF Sound
        <5>2. \E j \in 1 .. Len(t) : t[j] = accepted[i]
          BY <4>1, <5>1, <1>7
        <5>. QED
          BY <4>1, <5>2, <3>3, <1>1 DEF CoveredBy
      <4>2. CASE ~new
        BY <4>2, <3>3, <1>1 DEF CoveredBy
      <4>. QED
        BY <4>1, <4>2
    <3>4. CoveredBy(accepted', x)
      BY <3>1, <3>2, <3>3, <1>1 DEF CoveredBy
    <3>. QED
      BY <3>4, <1>1 DEF CoveredBy
  <2>. QED
    BY <2>1, <2>2, <1>1
<1>17. ASSUME NEW d \in Handlers, NEW k \in RequestIds, Sound(k)', G!Works(d, k)'
       PROVE  WorkFits(d, k)'
  <2>1. d # c /\ G!Works(d, k) /\ Sound(k)
    BY <1>8, <1>12, <1>17 DEF G!Works
  <2>2. WorkFits(d, k)
    BY <2>1 DEF IdsInv
  <2>3. k # id
    BY <2>1, <2>2, <1>2 DEF WorkFits
  <2>4. \A e \in Handlers : G!Works(e, k)' => e = d
    BY <2>2, <1>8 DEF WorkFits, G!Works
  <2>5. \A i \in 1 .. Len(accepted') : accepted'[i].id # k
    BY <2>2, <2>3, <1>1, <1>7 DEF WorkFits
  <2>6. \A x \in taken' : x[1] = k => time - x[2] > KeepFor
    BY <2>2, <2>3, <1>1, <1>10 DEF WorkFits
  <2>. QED
    BY <2>4, <2>5, <2>6, <1>1 DEF WorkFits
<1>. QED
  BY <1>4, <1>9, <1>11, <1>13, <1>15, <1>16, <1>17 DEF GateInv, IdsInv, OneEntry

LEMMA GateNextKeeps ==
    ASSUME GateInv, G!GateNext
    PROVE  GateInv'
BY CheckAddressKeeps, UnverifiedKeeps, VerifiedKeeps, AnsweredKeeps, TickKeeps, RestartKeeps DEF G!GateNext

LEMMA GateRests ==
    ASSUME GateInv, UNCHANGED gateVars
    PROVE  GateInv'
<1>1. UNCHANGED <<tracked, accepted, calls, time, failedAt, forgotten, taken, together>>
  BY DEF gateVars
<1>2. GateTypes' /\ AddressesInv'
  BY <1>1 DEF GateInv, GateTypes, AddressesInv
<1>3. IdsInv'
  BY <1>1, CallKeeps DEF GateInv, G!Works
<1>. QED
  BY <1>2, <1>3 DEF GateInv

LEMMA GateFirst == Init => GateInv
<1>. SUFFICES ASSUME Init
              PROVE  GateInv
  OBVIOUS
<1>1. /\ tracked = <<>> /\ accepted = <<>> /\ calls = [c \in Handlers |-> Never] /\ time = 0
      /\ failedAt = [a \in Addresses |-> <<>>] /\ forgotten = {} /\ taken = {} /\ together = {}
  BY DEF Init, G!GateInit
<1>2. GateTypes
  BY <1>1 DEF GateTypes
<1>3. \A a \in Addresses : Ordered(failedAt[a], time) /\ Known(tracked, failedAt[a], time, a)
  <2>. TAKE a \in Addresses
  <2>1. failedAt[a] = <<>> /\ Len(failedAt[a]) = 0
    BY <1>1
  <2>. QED
    BY <2>1, GateAssumption DEF Ordered, Known
<1>4. AddressesInv
  BY <1>1, <1>3 DEF AddressesInv, OneEach, EntriesFit
<1>5. CountedTaken
  BY <1>1, FS_EmptySet DEF CountedTaken
<1>6. IdsInv
  BY <1>1, <1>5 DEF IdsInv, OneEntry, G!TakenOnce, G!Works
<1>. QED
  BY <1>2, <1>4, <1>6 DEF GateInv

LEMMA GateMeans == GateInv => G!GateRemembers
<1>. SUFFICES ASSUME GateInv
              PROVE  G!GateRemembers
  OBVIOUS
<1>. GateTypes /\ AddressesInv /\ IdsInv
  BY DEF GateInv
<1>1. ASSUME NEW a \in Addresses
      PROVE  /\ G!Look(a).blocked => G!Earned(a)
             /\ Len(failedAt[a]) = Threshold /\ a \notin forgotten /\ G!Earned(a) => G!Look(a).blocked
  <2>. DEFINE f == failedAt[a]
              i == CHOOSE x \in G!Tracked(a) : TRUE
              e == tracked[i]
  <2>1. /\ f \in Seq(Nat) /\ Len(f) \in Nat /\ time \in Nat /\ Threshold \in Nat \ {0} /\ BlockFor \in Nat
        /\ Window \in Nat /\ DOMAIN tracked = 1 .. Len(tracked) /\ Never \notin Int
    BY GateAssumption DEF GateTypes
  <2>2. G!Look(a).blocked <=> G!Tracked(a) # {} /\ e.until # Never /\ ~(time > e.until)
    BY DEF G!Look
  <2>3. G!Tracked(a) # {} => i \in 1 .. Len(tracked) /\ e.address = a /\ e \in TrackedEntries
    BY <2>1 DEF G!Tracked, GateTypes
  <2>. HIDE DEF i
  <2>4. ASSUME G!Tracked(a) # {}, e.until # Never, ~(time > e.until)
        PROVE  G!Earned(a)
    <3>1. Burst(f, e.until - BlockFor)
      BY <2>3, <2>4 DEF AddressesInv, EntriesFit, EntryFits
    <3>2. PICK j \in 1 .. Len(f), k \in 1 .. Len(f) :
            j = k + Threshold - 1 /\ f[j] - f[k] < Window /\ f[j] = e.until - BlockFor
      BY <3>1 DEF Burst
    <3>3. e.until \in Int
      BY <2>3, <2>4 DEF TrackedEntries
    <3>4. k \in 1 .. (Len(f) - Threshold + 1)
      BY <3>2, <2>1
    <3>5. time <= f[j] + BlockFor
      <4>. HIDE DEF f, e
      <4>1. f[j] + BlockFor = e.until
        BY <3>2, <3>3, <2>1
      <4>. QED
        BY <4>1, <3>3, <2>1, <2>4
    <3>. QED
      BY <3>2, <3>4, <3>5 DEF G!Earned
  <2>5. ASSUME Len(f) = Threshold, a \notin forgotten, G!Earned(a)
        PROVE  G!Tracked(a) # {} /\ e.until # Never /\ ~(time > e.until)
    <3>1. f[Threshold] - f[1] < Window /\ time <= f[Threshold] + BlockFor
      <4>1. PICK k \in 1 .. (Len(f) - Threshold + 1) :
              f[k + Threshold - 1] - f[k] < Window /\ time <= f[k + Threshold - 1] + BlockFor
        BY <2>5 DEF G!Earned
      <4>2. k = 1 /\ k + Threshold - 1 = Threshold
        BY <4>1, <2>1, <2>5
      <4>. QED
        BY <4>1, <4>2
    <3>2. Known(tracked, f, time, a)
      BY <2>5 DEF AddressesInv
    <3>3. PICK k \in 1 .. Len(tracked) : tracked[k].address = a /\ tracked[k].until = f[Threshold] + BlockFor
      BY <3>1, <3>2, <2>5 DEF Known
    <3>4. G!Tracked(a) # {}
      BY <3>3, <2>1 DEF G!Tracked
    <3>5. k = i
      BY <3>3, <3>4, <2>3 DEF AddressesInv, OneEach
    <3>6. f[Threshold] \in Nat
      BY <2>1, <2>5
    <3>7. e.until = f[Threshold] + BlockFor
      BY <3>3, <3>5
    <3>. HIDE DEF f, e
    <3>. QED
      BY <3>1, <3>4, <3>6, <3>7, <2>1
  <2>. QED
    BY <2>2, <2>4, <2>5
<1>2. G!BlocksAreEarned
  BY <1>1 DEF G!BlocksAreEarned
<1>. QED
  BY <1>2 DEF G!GateRemembers, IdsInv

\* In every behaviour of the bank's calls, an address is only refused for as many
\* recent failures as the threshold says, is refused when it first reaches it unless
\* its entry was lost, and an answered id is only taken again when it is too old, was
\* lost, or two calls overlapped (the maps of acbWebhookAuth.js).
THEOREM GateStaysHonest == Spec => []GateRemembers
<1>. DEFINE Kept == part = "gate" => GateInv
<1>1. Init => Kept
  BY GateFirst
<1>2. Kept /\ [Next]_<<part, staffVars, customerVars, cacheVars, gateVars, seedVars>> => Kept'
  <2>. SUFFICES ASSUME Kept, [Next]_<<part, staffVars, customerVars, cacheVars, gateVars, seedVars>>
                PROVE  Kept'
    OBVIOUS
  <2>1. CASE part = "gate" /\ G!GateNext /\ part' = part
    BY <2>1, GateNextKeeps
  <2>2. CASE part' = part /\ UNCHANGED gateVars
    BY <2>2, GateRests
  <2>3. CASE part # "gate" /\ part' = part
    BY <2>3
  <2>. QED
    BY <2>1, <2>2, <2>3 DEF Next
<1>3. Kept => GateRemembers
  BY GateMeans DEF GateRemembers
<1>. QED
  BY <1>1, <1>2, <1>3, PTL DEF Spec
-----------------------------------------------------------------------------
(* The licence codes.  A code is handed out once and stays spent, unless an  *)
(* unconditional write to it was on its way: then it is in overtaken.        *)

\* Nobody who read the code before it was spent is about to write to it.
Spent(c) == status[c] = "success" /\ ~Watched(c)

CodeJobs == {j \in [kind : Kinds, codes : SUBSET KeyCodes,
                     target : Status \cup {Nothing}, key : Headers \cup {Nothing}] :
               j.kind = "set" => j.target \in Status}

IInv ==
    /\ CodesTypeOK
    /\ work \in [Requests -> CodeJobs]
    /\ \A c \in KeyCodes \ overtaken : handed[c] <= 1 /\ (handed[c] = 1 => Spent(c))

\* Enough to show IInv for a step that hands nothing out: no code that was
\* handed out gets another status or another watcher.
LEMMA QuietStep ==
    ASSUME IInv, UNCHANGED history,
           status' \in [KeyCodes -> Status \cup {"none"}],
           answers' \in [Headers -> KeyCodes \cup {Nothing}],
           work' \in [Requests -> CodeJobs],
           \A c \in KeyCodes : Spent(c) => Spent(c)'
    PROVE  IInv'
  <1>1. CodesTypeOK'
    BY DEF IInv, CodesTypeOK, CodeJobs, history
  <1>2. ASSUME NEW c \in KeyCodes \ overtaken'
        PROVE  handed'[c] <= 1 /\ (handed'[c] = 1 => Spent(c)')
    BY DEF IInv, history
  <1>. QED BY <1>1, <1>2 DEF IInv

LEMMA StartIInv ==
    ASSUME IInv, NEW h \in Requests, NEW todo \in CodeJobs, Start(h, todo),
           todo.kind \in Unconditional => \A c \in todo.codes : status[c] # "success"
    PROVE  IInv'
  <1>1. work' = [work EXCEPT ![h] = todo] /\ UNCHANGED <<docs, history>>
    BY DEF Start
  <1>2. work' \in [Requests -> CodeJobs]
    BY <1>1 DEF IInv, CodesTypeOK, CodeJobs
  <1>3. ASSUME NEW c \in KeyCodes, Spent(c) PROVE Spent(c)'
    BY <1>1, <1>3 DEF Spent, Watched, docs, IInv, CodesTypeOK
  <1>. QED BY <1>1, <1>2, <1>3, QuietStep DEF docs, IInv, CodesTypeOK

\* Handlers that end, or that lose codes, watch no more than before.
LEMMA FewerWatchers ==
    ASSUME NEW c,
           \A k \in Requests : work'[k].kind \in Unconditional /\ c \in work'[k].codes
             => work[k].kind \in Unconditional /\ c \in work[k].codes
    PROVE  ~Watched(c) => ~Watched(c)'
  BY DEF Watched

LEMMA IdleJob == Idle \in CodeJobs /\ Idle.kind \notin Unconditional
  BY DEF Idle, CodeJobs, Kinds, Unconditional

LEMMA InitIInv == CodesInit => IInv
  <1>. SUFFICES ASSUME CodesInit PROVE IInv
    OBVIOUS
  <1>1. CodesTypeOK
    BY IdleJob DEF CodesInit, CodesTypeOK, CodeJobs
  <1>2. work \in [Requests -> CodeJobs] /\ \A c \in KeyCodes : handed[c] = 0
    BY IdleJob DEF CodesInit
  <1>. QED BY <1>1, <1>2 DEF IInv

LEMMA ReadIInv ==
    ASSUME IInv, NEW h \in Requests,
           \/ \E batch \in SUBSET KeyCodes :
                 \/ ReadCreate(h, batch)
                 \/ \E target \in Settable : ReadStatus(h, batch, target)
           \/ \E c \in KeyCodes : ReadRetry(h, c) \/ ReadDeleteById(h, c)
           \/ \E p \in Partials, k \in Headers \cup {Nothing} : BeginRedeem(h, p, k)
    PROVE  IInv'
  <1>1. ASSUME NEW batch \in SUBSET KeyCodes, ReadCreate(h, batch) PROVE IInv'
    <2>1. Job("insert", batch, Nothing, Nothing) \in CodeJobs
      BY DEF Job, CodeJobs, Kinds
    <2>. QED BY <1>1, <2>1, StartIInv DEF ReadCreate, Job, Unconditional
  <1>2. ASSUME NEW batch \in SUBSET KeyCodes, NEW target \in Settable, ReadStatus(h, batch, target)
        PROVE  IInv'
    <2>1. Job("set", batch, target, Nothing) \in CodeJobs
      BY DEF Job, CodeJobs, Kinds, Settable, Status
    <2>2. \A c \in batch : status[c] # "success"
      BY <1>2 DEF ReadStatus, MaySet, Unspent
    <2>. QED BY <1>2, <2>1, <2>2, StartIInv DEF ReadStatus, Job
  <1>3. ASSUME NEW c \in KeyCodes, ReadRetry(h, c) PROVE IInv'
    <2>1. Job("set", {c}, "available", Nothing) \in CodeJobs
      BY DEF Job, CodeJobs, Kinds, Status
    <2>. QED BY <1>3, <2>1, StartIInv DEF ReadRetry, Job
  <1>4. ASSUME NEW c \in KeyCodes, ReadDeleteById(h, c) PROVE IInv'
    <2>1. Job("delete", {c}, Nothing, Nothing) \in CodeJobs
      BY DEF Job, CodeJobs, Kinds
    <2>. QED BY <1>4, <2>1, StartIInv DEF ReadDeleteById, Unspent, Job
  <1>5. ASSUME NEW p \in Partials, NEW k \in Headers \cup {Nothing}, BeginRedeem(h, p, k)
        PROVE  IInv'
    <2>. DEFINE batch == {c \in KeyCodes : PartialOf[c] = p}
    <2>1. Job("redeem", batch, Nothing, k) \in CodeJobs
      BY DEF Job, CodeJobs, Kinds
    <2>. QED BY <1>5, <2>1, StartIInv DEF BeginRedeem, Job, Unconditional
  <1>. QED BY <1>1, <1>2, <1>3, <1>4, <1>5

LEMMA InsertIInv ==
    ASSUME IInv, NEW h \in Requests, InsertCodes(h)
    PROVE  IInv'
  <1>1. PICK inserted \in SUBSET (work[h].codes \ Stored) :
          status' = [c \in KeyCodes |-> IF c \in inserted THEN "available" ELSE status[c]]
    BY DEF InsertCodes
  <1>2. status' \in [KeyCodes -> Status \cup {"none"}]
    BY <1>1 DEF IInv, CodesTypeOK, Status
  <1>3. work' = [work EXCEPT ![h] = Idle] /\ work' \in [Requests -> CodeJobs]
    BY IdleJob DEF InsertCodes, Done, IInv, CodesTypeOK, CodeJobs
  <1>4. ASSUME NEW c \in KeyCodes, Spent(c) PROVE Spent(c)'
    <2>1. status'[c] = "success"
      BY <1>1, <1>4 DEF Spent, Stored
    <2>2. ~Watched(c)'
      BY <1>3, <1>4, IdleJob, FewerWatchers DEF Spent, IInv, CodesTypeOK
    <2>. QED BY <2>1, <2>2 DEF Spent
  <1>. QED BY <1>2, <1>3, <1>4, QuietStep DEF InsertCodes, IInv, CodesTypeOK

LEMMA WriteIInv ==
    ASSUME IInv, NEW h \in Requests, WriteStatus(h)
    PROVE  IInv'
  <1>1. work[h].kind = "set" /\ work[h].target \in Status
    BY DEF WriteStatus, IInv, CodeJobs
  <1>2. status' = [c \in KeyCodes |-> IF c \in work[h].codes THEN work[h].target ELSE status[c]]
    BY DEF WriteStatus
  <1>3. status' \in [KeyCodes -> Status \cup {"none"}]
    BY <1>1, <1>2 DEF IInv, CodesTypeOK
  <1>4. work' = [work EXCEPT ![h] = Idle] /\ work' \in [Requests -> CodeJobs]
    BY IdleJob DEF WriteStatus, Done, IInv
  <1>5. ASSUME NEW c \in KeyCodes, Spent(c) PROVE Spent(c)'
    <2>1. c \notin work[h].codes
      BY <1>1, <1>5 DEF Spent, Watched, Unconditional
    <2>2. ~Watched(c)'
      BY <1>4, <1>5, IdleJob, FewerWatchers DEF Spent, IInv
    <2>. QED BY <1>2, <1>5, <2>1, <2>2 DEF Spent
  <1>. QED BY <1>3, <1>4, <1>5, QuietStep DEF WriteStatus, IInv, CodesTypeOK

LEMMA MarkIInv ==
    ASSUME IInv, NEW batch \in SUBSET KeyCodes, MarkDuplicates(batch)
    PROVE  IInv'
  <1>1. status' = [c \in KeyCodes |-> IF c \in batch \cap Unspent THEN "error" ELSE status[c]]
    BY DEF MarkDuplicates
  <1>2. status' \in [KeyCodes -> Status \cup {"none"}]
    BY <1>1 DEF IInv, CodesTypeOK, Status
  <1>3. ASSUME NEW c \in KeyCodes, Spent(c) PROVE Spent(c)'
    BY <1>1, <1>3 DEF MarkDuplicates, Spent, Watched, Unspent
  <1>. QED BY <1>2, <1>3, QuietStep DEF MarkDuplicates, IInv, CodesTypeOK

\* A deletion leaves every handler the job it had, with fewer documents.
LEMMA WithoutJobs ==
    ASSUME IInv, NEW gone \in SUBSET KeyCodes
    PROVE  /\ Without(gone) \in [Requests -> CodeJobs]
           /\ \A k \in Requests : /\ Without(gone)[k].kind = work[k].kind
                                   /\ Without(gone)[k].codes \subseteq work[k].codes
  <1>. SUFFICES ASSUME NEW k \in Requests
                PROVE  /\ Without(gone)[k] \in CodeJobs
                       /\ Without(gone)[k].kind = work[k].kind
                       /\ Without(gone)[k].codes \subseteq work[k].codes
    BY DEF Without
  <1>1. work[k] \in CodeJobs
    BY DEF IInv
  <1>2. CASE work[k].kind \in ById
    <2>1. Without(gone)[k] = [work[k] EXCEPT !.codes = @ \ gone]
      BY <1>2 DEF Without
    <2>. QED BY <1>1, <2>1 DEF CodeJobs
  <1>3. CASE work[k].kind \notin ById
    BY <1>1, <1>3 DEF Without
  <1>. QED BY <1>2, <1>3

LEMMA DeleteIInv ==
    ASSUME IInv, NEW gone \in SUBSET KeyCodes, UNCHANGED <<answers, history>>,
           \A c \in gone : ~Spent(c),
           status' = [c \in KeyCodes |-> IF c \in gone THEN "none" ELSE status[c]],
           \/ work' = Without(gone)
           \/ \E h \in Requests : work' = [Without(gone) EXCEPT ![h] = Idle]
    PROVE  IInv'
  <1>1. status' \in [KeyCodes -> Status \cup {"none"}]
    BY DEF IInv, CodesTypeOK
  <1>. DEFINE Fewer(k) == \/ work'[k].kind \notin Unconditional
                          \/ /\ work'[k].kind = work[k].kind
                             /\ work'[k].codes \subseteq work[k].codes
  <1>2. work' \in [Requests -> CodeJobs] /\ \A k \in Requests : Fewer(k)
    <2>1. CASE work' = Without(gone)
      BY <2>1, WithoutJobs
    <2>2. ASSUME NEW h \in Requests, work' = [Without(gone) EXCEPT ![h] = Idle]
          PROVE  work' \in [Requests -> CodeJobs] /\ \A k \in Requests : Fewer(k)
      <3>1. work' \in [Requests -> CodeJobs]
        BY <2>2, WithoutJobs, IdleJob
      <3>2. work'[h].kind \notin Unconditional
        BY <2>2, WithoutJobs, IdleJob
      <3>3. \A k \in Requests \ {h} : work'[k] = Without(gone)[k]
        BY <2>2, WithoutJobs
      <3>. QED BY <3>1, <3>2, <3>3, WithoutJobs
    <2>. QED BY <2>1, <2>2
  <1>3. ASSUME NEW c \in KeyCodes, Spent(c) PROVE Spent(c)'
    <2>1. status'[c] = "success"
      BY <1>3 DEF Spent
    <2>2. ~Watched(c)'
      BY <1>2, <1>3 DEF Spent, Watched
    <2>. QED BY <2>1, <2>2 DEF Spent
  <1>. QED BY <1>1, <1>2, <1>3, QuietStep DEF IInv, CodesTypeOK

LEMMA DeleteByIdIInv ==
    ASSUME IInv, NEW h \in Requests, DeleteById(h)
    PROVE  IInv'
  <1>1. \A c \in work[h].codes : ~Spent(c)
    BY DEF DeleteById, Spent, Watched, Unconditional
  <1>2. work[h].codes \in SUBSET KeyCodes
    BY DEF IInv, CodeJobs
  <1>. QED BY <1>1, <1>2, DeleteIInv DEF DeleteById

LEMMA DeleteCodesIInv ==
    ASSUME IInv, NEW batch \in SUBSET KeyCodes, DeleteCodes(batch)
    PROVE  IInv'
  <1>. DEFINE gone == batch \cap Unspent
  <1>1. gone \in SUBSET KeyCodes /\ \A c \in gone : ~Spent(c)
    BY DEF Unspent, Spent
  <1>2. /\ status' = [c \in KeyCodes |-> IF c \in gone THEN "none" ELSE status[c]]
        /\ work' = Without(gone)
        /\ UNCHANGED <<answers, history>>
    BY DEF DeleteCodes
  <1>. QED BY <1>1, <1>2, DeleteIInv

LEMMA FindIInv ==
    ASSUME IInv, NEW h \in Requests, FindAvailable(h)
    PROVE  IInv'
  <1>. DEFINE found == {c \in work[h].codes : status[c] = "available"}
  <1>1. PICK todo \in {Idle, Job("take", found, Nothing, work[h].key),
                     Job("set", found, "error", Nothing)} :
          work' = [work EXCEPT ![h] = todo]
    BY DEF FindAvailable
  <1>2. found \in SUBSET KeyCodes /\ work[h].key \in Headers \cup {Nothing}
    BY DEF IInv, CodeJobs
  <1>3. todo \in CodeJobs
    BY <1>2, IdleJob DEF Job, CodeJobs, Kinds, Status
  <1>4. todo.kind \in Unconditional => \A c \in todo.codes : status[c] # "success"
    BY IdleJob DEF Job, Unconditional
  <1>5. work' \in [Requests -> CodeJobs] /\ work'[h] = todo
        /\ \A k \in Requests \ {h} : work'[k] = work[k]
    BY <1>1, <1>3 DEF IInv
  <1>6. ASSUME NEW c \in KeyCodes, Spent(c) PROVE Spent(c)'
    BY <1>4, <1>5, <1>6 DEF Spent, Watched, FindAvailable, docs
  <1>. QED BY <1>5, <1>6, QuietStep DEF FindAvailable, docs, IInv, CodesTypeOK

\* The only step that hands a code out: it was available, so never spent
\* before unless overtaken, and it is overtaken if somebody watches it.
LEMMA TakeIInv ==
    ASSUME IInv, NEW h \in Requests, TakeCode(h)
    PROVE  IInv'
  <1>1. PICK c \in Takeable(h) :
          /\ status' = [status EXCEPT ![c] = "success"]
          /\ handed' = [handed EXCEPT ![c] = @ + 1]
          /\ overtaken' = IF Watched(c) THEN overtaken \cup {c} ELSE overtaken
          /\ work' = [work EXCEPT ![h] =
                        IF work[h].key = Nothing THEN Idle ELSE [@ EXCEPT !.kind = "answer"]]
    BY DEF TakeCode
  <1>2. c \in KeyCodes /\ status[c] = "available"
    BY DEF Takeable, IInv, CodeJobs
  <1>3. /\ work' \in [Requests -> CodeJobs]
        /\ work'[h].kind \notin Unconditional
        /\ \A k \in Requests \ {h} : work'[k] = work[k]
    <2>1. [work[h] EXCEPT !.kind = "answer"] \in CodeJobs
      BY DEF IInv, CodeJobs, Kinds
    <2>2. [work[h] EXCEPT !.kind = "answer"].kind \notin Unconditional
      BY DEF IInv, CodeJobs, Unconditional
    <2>. QED BY <1>1, <2>1, <2>2, IdleJob DEF IInv
  <1>4. \A d \in KeyCodes : ~Watched(d) => ~Watched(d)'
    BY <1>3 DEF Watched
  <1>5. status' \in [KeyCodes -> Status \cup {"none"}] /\ handed' \in [KeyCodes -> Nat]
        /\ overtaken' \subseteq KeyCodes /\ answers' = answers
    BY <1>1, <1>2 DEF TakeCode, IInv, CodesTypeOK, Status
  <1>6. ASSUME NEW d \in KeyCodes \ overtaken'
        PROVE  handed'[d] <= 1 /\ (handed'[d] = 1 => Spent(d)')
    <2>1. d \notin overtaken
      BY <1>1
    <2>2. CASE d = c
      <3>1. handed[c] = 0
        <4>1. handed[c] \in Nat /\ handed[c] <= 1 /\ handed[c] # 1
          BY <1>2, <2>1, <2>2 DEF IInv, CodesTypeOK, Spent
        <4>. QED BY <4>1
      <3>2. handed'[c] = 1
        BY <1>1, <1>2, <3>1 DEF IInv, CodesTypeOK
      <3>3. status'[c] = "success" /\ ~Watched(c)
        BY <1>1, <1>2, <2>2 DEF IInv, CodesTypeOK
      <3>. QED BY <2>2, <3>2, <3>3, <1>4, <1>2 DEF Spent
    <2>3. CASE d # c
      <3>1. handed'[d] = handed[d] /\ status'[d] = status[d]
        BY <1>1, <2>3 DEF IInv, CodesTypeOK
      <3>. QED BY <2>1, <3>1, <1>4 DEF IInv, Spent
    <2>. QED BY <2>2, <2>3
  <1>7. CodesTypeOK'
    BY <1>3, <1>5 DEF IInv, CodesTypeOK, CodeJobs
  <1>. QED BY <1>3, <1>6, <1>7 DEF IInv

LEMMA EndIInv ==
    ASSUME IInv, NEW h \in Requests,
           LoseCode(h) \/ \E c \in KeyCodes : SaveAnswer(h, c)
    PROVE  IInv'
  <1>1. work' = [work EXCEPT ![h] = Idle] /\ UNCHANGED <<status, history>>
    BY DEF LoseCode, SaveAnswer, Done, docs
  <1>2. answers' \in [Headers -> KeyCodes \cup {Nothing}]
    <2>1. CASE LoseCode(h)
      BY <2>1 DEF LoseCode, docs, IInv, CodesTypeOK
    <2>2. CASE \E c \in KeyCodes : SaveAnswer(h, c)
      <3>1. PICK c \in KeyCodes : SaveAnswer(h, c)
        BY <2>2
      <3>2. CASE work[h].key \in Headers
        <4>1. KeepFirst(work[h].key, c) \in KeyCodes \cup {Nothing}
          BY <3>2 DEF KeepFirst, IInv, CodesTypeOK
        <4>. QED BY <3>1, <3>2, <4>1 DEF SaveAnswer, IInv, CodesTypeOK
      <3>3. CASE work[h].key \notin Headers
        BY <3>1, <3>3 DEF SaveAnswer, IInv, CodesTypeOK
      <3>. QED BY <3>2, <3>3
    <2>. QED BY <2>1, <2>2
  <1>3. work' \in [Requests -> CodeJobs]
    BY <1>1, IdleJob DEF IInv
  <1>4. ASSUME NEW c \in KeyCodes, Spent(c) PROVE Spent(c)'
    <2>1. ~Watched(c)'
      BY <1>1, <1>4, IdleJob, FewerWatchers DEF Spent, IInv
    <2>. QED BY <1>1, <1>4, <2>1 DEF Spent
  <1>. QED BY <1>1, <1>2, <1>3, <1>4, QuietStep DEF IInv, CodesTypeOK

LEMMA OtherIInv ==
    ASSUME IInv, (\E k \in Headers : ForgetAnswer(k)) \/ CodesCrash \/ UNCHANGED codeVars
    PROVE  IInv'
  <1>1. CASE \E k \in Headers : ForgetAnswer(k)
    <2>1. UNCHANGED <<status, work, history>> /\ answers' \in [Headers -> KeyCodes \cup {Nothing}]
      BY <1>1 DEF ForgetAnswer, IInv, CodesTypeOK
    <2>. QED BY <2>1 DEF IInv, CodesTypeOK, history, Spent, Watched
  <1>2. CASE CodesCrash
    <2>1. work' \in [Requests -> CodeJobs] /\ \A k \in Requests : work'[k] = Idle
      BY <1>2, IdleJob DEF CodesCrash
    <2>2. \A c \in KeyCodes : Spent(c) => Spent(c)'
      BY <1>2, <2>1, IdleJob DEF CodesCrash, docs, Spent, Watched
    <2>. QED BY <1>2, <2>1, <2>2, QuietStep DEF CodesCrash, docs, IInv, CodesTypeOK
  <1>3. CASE UNCHANGED codeVars
    BY <1>3 DEF codeVars, docs, history, IInv, CodesTypeOK, Spent, Watched
  <1>. QED BY <1>1, <1>2, <1>3

LEMMA NextIInv == ASSUME IInv, [CodesNext]_codeVars PROVE IInv'
  <1>1. ASSUME NEW h \in Requests, Administrate(h) PROVE IInv'
    BY <1>1, ReadIInv, InsertIInv, WriteIInv, DeleteByIdIInv DEF Administrate
  <1>2. ASSUME NEW h \in Requests, Redeem(h) PROVE IInv'
    BY <1>2, ReadIInv, FindIInv, TakeIInv, EndIInv DEF Redeem
  <1>3. ASSUME NEW batch \in SUBSET KeyCodes, MarkDuplicates(batch) \/ DeleteCodes(batch)
        PROVE  IInv'
    BY <1>3, MarkIInv, DeleteCodesIInv
  <1>. QED BY <1>1, <1>2, <1>3, OtherIInv DEF CodesNext

LEMMA Invariance == CodesSpec => []IInv
  BY InitIInv, NextIInv, PTL DEF CodesSpec

\* Every variable of the licence codes keeps its type.
THEOREM CodesTypeCorrect == CodesSpec => []CodesTypeOK
  <1>1. IInv => CodesTypeOK
    BY DEF IInv
  <1>. QED BY <1>1, Invariance, PTL

\* A code handed out is spent for good, unless an administrator's write to
\* it was on its way: for any number of codes, requests and administrators.
THEOREM SpentCodesStaySpent == CodesSpec => []SpentStaysSpent
  <1>1. IInv => SpentStaysSpent
    <2>. SUFFICES ASSUME IInv, NEW c \in KeyCodes \ overtaken, handed[c] > 0
                  PROVE  status[c] = "success"
      BY DEF SpentStaysSpent
    <2>1. handed[c] \in Nat /\ handed[c] <= 1
      BY DEF IInv, CodesTypeOK
    <2>2. handed[c] = 1
      BY <2>1
    <2>. QED BY <2>2 DEF IInv, Spent
  <1>. QED BY <1>1, Invariance, PTL

\* No two requests of the shop are handed the same code, with the same
\* exception.
THEOREM CodesHandedOnce == CodesSpec => []HandedOnce
  <1>1. IInv => HandedOnce
    BY DEF IInv, HandedOnce
  <1>. QED BY <1>1, Invariance, PTL

\* The invariant the runs check as one: typed, handed out once, and spent by
\* that, with the same exception.
THEOREM CodesSpentOnce == CodesSpec => []CodesAreSpentOnce
  BY CodesTypeCorrect, SpentCodesStaySpent, CodesHandedOnce, PTL
     DEF CodesAreSpentOnce

LEMMA AnswersStep ==
    ASSUME IInv, [CodesNext]_codeVars, NEW k \in Headers, answers[k] # Nothing
    PROVE  answers'[k] \in {answers[k], Nothing}
  <1>. answers \in [Headers -> KeyCodes \cup {Nothing}]
    BY DEF IInv, CodesTypeOK
  <1>1. CASE \E h \in Requests, c \in KeyCodes : SaveAnswer(h, c)
    <2>1. PICK h \in Requests, c \in KeyCodes : SaveAnswer(h, c)
      BY <1>1
    <2>2. answers' = [answers EXCEPT ![work[h].key] = KeepFirst(work[h].key, c)]
      BY <2>1 DEF SaveAnswer
    <2>3. CASE work[h].key = k
      BY <2>2, <2>3 DEF KeepFirst
    <2>4. CASE work[h].key # k
      BY <2>2, <2>4
    <2>. QED BY <2>3, <2>4
  <1>2. CASE \E j \in Headers : ForgetAnswer(j)
    BY <1>2 DEF ForgetAnswer
  <1>3. CASE UNCHANGED answers
    BY <1>3
  <1>4. \/ \E h \in Requests, c \in KeyCodes : SaveAnswer(h, c)
        \/ \E j \in Headers : ForgetAnswer(j)
        \/ UNCHANGED answers
    <2>1. ASSUME NEW h \in Requests, Administrate(h) PROVE UNCHANGED answers
      BY <2>1 DEF Administrate, ReadCreate, ReadStatus, ReadRetry, ReadDeleteById, InsertCodes,
                  WriteStatus, DeleteById, Start, docs
    <2>2. ASSUME NEW h \in Requests, Redeem(h)
          PROVE  (\E c \in KeyCodes : SaveAnswer(h, c)) \/ UNCHANGED answers
      BY <2>2 DEF Redeem, BeginRedeem, FindAvailable, TakeCode, LoseCode, Start, docs
    <2>3. ASSUME NEW batch, MarkDuplicates(batch) \/ DeleteCodes(batch)
          PROVE  UNCHANGED answers
      BY <2>3 DEF MarkDuplicates, DeleteCodes
    <2>4. CASE CodesCrash \/ UNCHANGED codeVars
      BY <2>4 DEF CodesCrash, codeVars, docs
    <2>. QED BY <2>1, <2>2, <2>3, <2>4 DEF CodesNext
  <1>. QED BY <1>1, <1>2, <1>3, <1>4

\* Whatever requests with the same key save at the same time, the answer that
\* was stored first is the one that is sent again, until it is forgotten.
THEOREM AnswersStayStable == CodesSpec => AnswersAreStable
  <1>1. IInv /\ [CodesNext]_codeVars =>
          [\A k \in Headers : answers[k] # Nothing => answers'[k] \in {answers[k], Nothing}]_codeVars
    BY AnswersStep
  <1>. QED BY <1>1, Invariance, PTL DEF CodesSpec, AnswersAreStable
=============================================================================
