-------------------------- MODULE MCGeneralLedger --------------------------
(* Small instances of GeneralLedger for TLC.                               *)
EXTENDS GeneralLedger, TLC

CONSTANTS cash, sales, r1, r2

\* A sale that is one cent out of balance.
OffByACent == [dr |-> cash, cr |-> sales, debit |-> 2, credit |-> 1,
               currency |-> "USD", period |-> 1]

MCAccounts == {cash, sales}
MCChart == (cash :> [debitNormal |-> TRUE, currency |-> "USD"])
        @@ (sales :> [debitNormal |-> FALSE, currency |-> "USD"])
MCAccountRows == {[debitNormal |-> FALSE, currency |-> "EUR"]}
MCEntries == {OffByACent}
MCRequests == {r1, r2}
=============================================================================
