--------------------------- MODULE MCActionChain ---------------------------
(* One chain of two steps: a1 leads to a2, a2 closes; a3 may be inserted.   *)
EXTENDS ActionChain, TLC

CONSTANTS a1, a2, a3, r1

MCTemplate ==
    [c \in Chains |->
        << [order |-> 1, action |-> a1,
            branches |-> {[result |-> r1, type |-> "next", next |-> a2]}],
           [order |-> 2, action |-> a2,
            branches |-> {[result |-> r1, type |-> "close", next |-> None]}] >>]
MCNewBranches == {[result |-> r1, type |-> "other", next |-> None]}
Symmetry == Permutations(Handlers)

\* Bound: a chain differs from its template by one inserted step or by one
\* step with other branches.
TemplateBranches(order) ==
    UNION {t.branches : t \in {t \in UNION {Range(MCTemplate[c]) : c \in Chains} : t.order = order}}
Changed(steps) == {i \in DOMAIN steps : steps[i].branches # TemplateBranches(steps[i].order)}
AtMostOneChange(steps) == Cardinality(Changed(steps)) + Len(steps) <= 3
Bound ==
    /\ \A c \in Chains : chains[c] # None => AtMostOneChange(chains[c].steps)
    /\ \A h \in Handlers : work[h].kind = "save" => AtMostOneChange(work[h].write.steps)
=============================================================================
