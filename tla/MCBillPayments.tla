--------------------------- MODULE MCBillPayments ---------------------------
(* Small instances of BillPayments for TLC.                                *)
EXTENDS BillPayments, TLC

CONSTANTS b1, b2, x1, x2, r1, r2

OneBill == {b1}
OneBatch == {x1}
TwoRequests == {r1, r2}
MCTotal == [b \in Bills |-> 2]
RequestSymmetry == Permutations(TwoRequests)
=============================================================================
