----------------------------- MODULE Settlement -----------------------------
(***************************************************************************)
(* What topup requests promise their customers, and all they promise.  A   *)
(* request is opened with the credit it is worth; while it is open it may  *)
(* be paid, which adds that credit and names who approved it, in one step; *)
(* once settled it stays as it is.  There are no handlers, no transactions *)
(* and no crashes here: TopupRequest has them and implements this.         *)
(*                                                                         *)
(* The promise is weaker than "paid once": requests are paid again while   *)
(* handlers that read them earlier are still running, so a request is open *)
(* until the last of those is gone.                                        *)
(***************************************************************************)
EXTENDS Integers, Sequences

CONSTANTS
    Customers, Requests, BankTxs, BankAmount, Admin, None,
    Offers      \* pairs <<a, n>>: n credits for an amount of a

VARIABLES
    phase,      \* request -> "absent", "open" or "settled"
    owner,      \* request -> customer
    amount,     \* request -> the money asked for
    credit,     \* request -> the credit it is worth
    payments,   \* request -> who approved its payments, in order
    balance     \* customer -> credit

vars == <<phase, owner, amount, credit, payments, balance>>

Init ==
    /\ phase = [r \in Requests |-> "absent"]
    /\ owner = [r \in Requests |-> None]
    /\ amount = [r \in Requests |-> 0]
    /\ credit = [r \in Requests |-> 0]
    /\ payments = [r \in Requests |-> <<>>]
    /\ balance = [c \in Customers |-> 0]

Open(r, c, offer) ==
    /\ phase[r] = "absent" /\ offer[2] > 0
    /\ phase' = [phase EXCEPT ![r] = "open"]
    /\ owner' = [owner EXCEPT ![r] = c]
    /\ amount' = [amount EXCEPT ![r] = offer[1]]
    /\ credit' = [credit EXCEPT ![r] = offer[2]]
    /\ UNCHANGED <<payments, balance>>

\* The bank's money covers what it pays for.
Covers(b, r) == b = Admin \/ (b \in BankTxs /\ BankAmount[b] >= amount[r])

\* A payment may be the last thing its request waited for.
Pay(r, b) ==
    /\ phase[r] = "open" /\ Covers(b, r)
    /\ phase' \in {phase, [phase EXCEPT ![r] = "settled"]}
    /\ payments' = [payments EXCEPT ![r] = Append(@, b)]
    /\ balance' = [balance EXCEPT ![owner[r]] = @ + credit[r]]
    /\ UNCHANGED <<owner, amount, credit>>

\* Nobody is left who could pay them.
Settle(rs) ==
    /\ \A r \in rs : phase[r] = "open"
    /\ phase' = [r \in Requests |-> IF r \in rs THEN "settled" ELSE phase[r]]
    /\ UNCHANGED <<owner, amount, credit, payments, balance>>

Next ==
    \/ \E r \in Requests, c \in Customers, offer \in Offers : Open(r, c, offer)
    \/ \E r \in Requests, b \in BankTxs \cup {Admin} : Pay(r, b)
    \/ \E rs \in SUBSET Requests : Settle(rs)

Spec == Init /\ [][Next]_vars
=============================================================================
