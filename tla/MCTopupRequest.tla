--------------------------- MODULE MCTopupRequest ---------------------------
(* A small instance of TopupRequest for TLC: one customer, a topup of 2     *)
(* at the ratio 3/2, a transfer that covers it and one that does not.       *)
EXTENDS TopupRequest, TLC

CONSTANTS t1, t2

MCBankTxs == {t1, t2}
MCBankAmount == t1 :> 2 @@ t2 :> 1
MCAmounts == {2}
MCRatios == {<<3, 2>>}
=============================================================================
