--------------------------- MODULE MCStockLedger ---------------------------
(* Small instances of StockLedger for TLC.                                 *)
EXTENDS StockLedger, TLC

CONSTANTS main, shop, shelf, bin, counter, r1, r2

MCWarehouses == {main, shop}
MCPlaces == {shelf, bin, counter}
MCWarehouseOf == [p \in MCPlaces |-> IF p = counter THEN shop ELSE main]
\* The first batch lies in two bins, the second in one of them.
MCOpening == [x \in MCPlaces \X Batches |->
                 IF x \in {<<shelf, 1>>, <<bin, 1>>, <<shelf, 2>>} THEN 1 ELSE 0]
\* The later batch expires first.
LaterExpires == [b \in Batches |-> 10 - b]
MCRequests == {r1, r2}
RequestSymmetry == Permutations(MCRequests)
=============================================================================
