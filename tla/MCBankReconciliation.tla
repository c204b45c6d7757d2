------------------------ MODULE MCBankReconciliation ------------------------
(* A small instance of BankReconciliation for TLC: two entries, one of them*)
(* with two lines, and three transactions, two of which fit the same line. *)
EXTENDS BankReconciliation, TLC

CONSTANTS t1, t2, t3, l1, l2, l3, e1, e2, r1, r2

MCTransactions == {t1, t2, t3}
MCLines == {l1, l2, l3}
MCEntries == {e1, e2}
MCEntryOf == (l1 :> e1) @@ (l2 :> e2) @@ (l3 :> e2)
MCFits == {<<t1, l1>>, <<t1, l2>>, <<t2, l1>>, <<t3, l3>>}
MCMatchers == {r1, r2}
MatcherSymmetry == Permutations(MCMatchers)
=============================================================================
