---------------------------- MODULE MCPurchasing ----------------------------
(* A small instance of Purchasing for TLC.                                 *)
EXTENDS Purchasing, TLC

CONSTANTS o1, b1, r1, r2

MCOrders == {o1}
MCBills == {b1}
MCRequests == {r1, r2}
Symmetry == Permutations(MCRequests)
=============================================================================
