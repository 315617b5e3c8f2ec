--------------------------- MODULE MCWebhookIntake ---------------------------
(* What the platform sends in one behaviour, over and over and in any order: *)
(* three messages at most, chosen so that they meet in one document.         *)
EXTENDS WebhookIntake, TLC

Msg(type, delivery, user, biz, order, status) ==
    [type |-> type, delivery |-> delivery, user |-> user, biz |-> biz,
     order |-> order, status |-> status]

CONSTANTS mail, phone, alias, shop, o1, d1, d2

MCScenarios == {
    \* two businesses link one user
    {Msg("biz_moi", d1, mail, alias, None, "expired"),
     Msg("can_nang_cap", d2, mail, shop, None, "expired")},
    \* an order announced, activated and named by a business
    {Msg("order_create", d1, mail, None, o1, "pending"),
     Msg("order_active", None, None, None, o1, "paid"),
     Msg("sap_het_han", d2, None, alias, o1, "active")},
    \* a user registers, logs in and expires
    {Msg("user_moi", d1, mail, None, None, "none"),
     Msg("user_login", None, mail, None, None, "none"),
     Msg("sap_het_han", d2, mail, None, None, "none")},
    \* a user without an e-mail
    {Msg("user_moi", d1, phone, None, None, "none"),
     Msg("biz_moi", d2, phone, alias, None, "active")} }

\* The unusual: a crash or failed call, a retry, a deletion.  One at a time.
Retries == Cardinality({l \in DOMAIN logs : logs[l].retries > 0})
Deletions ==
    IF staff.op # "idle" \/ exposed # {} \/ \E c \in DOMAIN customers : customers[c].state # "live"
    THEN 1 ELSE 0
Bound == faults + Retries + Deletions <= 1

\* Handlers are alike.
Symmetry == Permutations(Handlers)
=============================================================================
