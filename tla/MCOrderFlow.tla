---------------------------- MODULE MCOrderFlow ----------------------------
(* A small instance of OrderFlow for TLC.                                  *)
EXTENDS OrderFlow, TLC

CONSTANTS q1, q2, o1, o2, d1, d2, r1, r2

MCQuotes == {q1, q2}
MCOrders == {o1, o2}
MCDeliveries == {d1, d2}
MCRequests == {r1, r2}
Symmetry == Permutations(MCRequests) \cup Permutations(MCQuotes) \cup Permutations(MCOrders)
               \cup Permutations(MCDeliveries)
=============================================================================
