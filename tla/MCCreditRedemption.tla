------------------------- MODULE MCCreditRedemption -------------------------
(* A SINGLE and a SHARED voucher (two uses, one per customer) whose credits *)
(* overlap in MAIN, two customers, one SmaxAi code, one idempotency key.    *)
(* Licence codes share no document with them: a behaviour is either of the  *)
(* credits or of the codes.                                                 *)
EXTENDS CreditRedemption, ZCode, TLC

MCCredits ==
    [v \in Vouchers |->
        [ty \in CreditTypes |->
            IF ty = "MAIN" \/ (ty = "EDU" /\ v \in Shared) THEN 1 ELSE 0]]
MCMaxUses == [v \in Vouchers |-> IF v \in Shared THEN 2 ELSE 1]
MCUsagePerUser == [v \in Vouchers |-> 1]
MCCodeAmount == [x \in Codes |-> 1]

\* The code is explored beside the SHARED voucher only.
Bound ==
    \A x \in Codes, v \in Vouchers \ Shared :
        smax[x].status = "none" \/ voucher[v] = "none"

VARIABLE shop      \* the behaviour is one of the licence codes
CodeInit == Init /\ CodesInit /\ shop \in BOOLEAN
CodeNext ==
    \/ ~shop /\ Next /\ UNCHANGED <<shop, codeVars>>
    \/ shop /\ CodesNext /\ UNCHANGED <<shop, vars>>
CodeSpec == CodeInit /\ [][CodeNext]_<<shop, vars, codeVars>>

\* Licence codes share their partial code, and each of them is revived and
\* handed out again at most once.
AllAlike == [c \in KeyCodes |-> CHOOSE p \in Partials : TRUE]
HandedTwice == \A c \in KeyCodes : handed[c] <= 2

\* Customers and licence codes bear the same names.
Symmetry == Permutations(Customers) \cup Permutations(Requests)
=============================================================================
