------------------------------ MODULE MCBankLog ------------------------------
(* A small instance of BankLog: one customer, a topup of 2 or 3 and a       *)
(* transfer of 2 that names it: enough for the one, not for the other.      *)
EXTENDS BankLog, TLC

CONSTANTS t1, r1

MCBankAmount == t1 :> 2
MCContent == t1 :> r1
MCAmounts == {2, 3}
Enough == {2}
MCRatios == {<<1, 1>>}
Symmetry == Permutations(Jobs) \cup Permutations(Handlers)

\* While two jobs are under way, the handlers are at work for them only, and no
\* customer document changes under them.
TwoJobsAtMost ==
    /\ \A h \in Handlers : ~stale[h]
    /\ (\A j \in Jobs : ~Idle(j)) =>
          \A h \in Handlers : kind[h] \in {"none", "autoApprove"}
=============================================================================
