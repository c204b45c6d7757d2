-------------------------- MODULE MCLeaveBalances --------------------------
(* A small instance of LeaveBalances for TLC.                              *)
EXTENDS LeaveBalances, TLC

CONSTANTS annual, comp, b1, b2, b3, l1, l2, r1, r2

MCAccounts == {annual, comp}
MCComp == {comp}
MCQuota == (annual :> 1) @@ (comp :> 0)
MCBalances == {b1, b2, b3}
MCLeaves == {l1, l2}
MCRequests == {r1, r2}
Symmetry == Permutations(MCRequests) \cup Permutations(MCBalances) \cup Permutations(MCLeaves)
=============================================================================
