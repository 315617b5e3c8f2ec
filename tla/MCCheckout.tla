----------------------------- MODULE MCCheckout -----------------------------
(* Two customers, an offline course with one place that costs one credit   *)
(* and a free online one, at most three orders by two concurrent handlers. *)
EXTENDS Checkout, TLC

MCMaxStudents == [k \in Courses |-> IF k \in Offline THEN 1 ELSE 0]
MCPrice == [k \in Courses |-> IF k \in Offline THEN 1 ELSE 0]
MCCarts ==
    LET Item(k, r) == [course |-> k, ref |-> r,
                       method |-> IF k \in Offline THEN "mainCredit" ELSE "free"]
    IN  {{Item(k, r)} : k \in Offline, r \in Refs}
        \cup {{Item(k, "id")} : k \in Courses \ Offline}
        \cup {{Item(k, "id") : k \in Courses}}
MCMaxCredited == "mainCredit" :> 2 @@ "rewardCredit" :> 0 @@ "eduCredit" :> 0
MCPaymentTypes == [k \in Courses |-> {"mainCredit", "rewardCredit"}]

\* The unusual: customers locked, courses withdrawn, closed or deleted,
\* enrollments an administrator changed.  At most one at a time.
Unusual ==
    Cardinality(Customers \ active) + Cardinality(closed)
    + Cardinality({k \in Courses : course[k] # "published"})
    + Cardinality({e \in enrollments : e.status # "ACTIVE"}) + Cardinality(reinstated)
Bound == Unusual <= 1

Symmetry == Permutations(Customers) \cup Permutations(Handlers)
=============================================================================
