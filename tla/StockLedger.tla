---------------------------- MODULE StockLedger ----------------------------
(***************************************************************************)
(* The stock of one product: the balance row of every place and batch, the *)
(* remaining quantity of every batch, and the stock movements, as          *)
(* receiveStock, issueStock, transferStock and adjustStock change them.  A *)
(* place is a bin of a warehouse, or the warehouse outside its bins.       *)
(*                                                                         *)
(* Every operation is a transaction at READ COMMITTED.  It loads what it   *)
(* plans with, then works through lines: a line saves the batch it had     *)
(* loaded (which locks the batch until the commit), reads the balance row  *)
(* and saves it.  transferStock saves no batch.  Saves write absolute      *)
(* numbers that were computed from what had been read.                     *)
(***************************************************************************)
EXTENDS Integers, Sequences, FiniteSets, Sums

CONSTANTS
    Warehouses,
    Places, WarehouseOf,
    Batches,        \* batches of the product, named 1, 2, ... by receivedDate
    Opening,        \* what earlier receipts and transfers have left in each row
    Valuation,      \* valuationMethod of the product,
    Expiry,         \* and the expiryDate of its batches
    AllowNegative,  \* allowNegativeStock of the product
    Quantities,     \* the quantities callers ask for
    Calls,          \* the operations callers use
    Requests,       \* HTTP requests the API may serve at the same time
    MaxCalls        \* bound: the number of transactions that are not rolled back

ASSUME StockAssumption ==
    /\ IsFiniteSet(Places) /\ WarehouseOf \in [Places -> Warehouses]
    /\ Batches \subseteq Nat
    /\ Opening \in [Places \X Batches -> Nat]
    /\ Valuation \in {"FIFO", "LIFO", "WEIGHTED_AVERAGE", "FEFO"}
    /\ Expiry \in [Batches -> Nat]
    /\ AllowNegative \in BOOLEAN
    /\ Quantities \subseteq Nat \ {0}
    /\ Calls \subseteq {"receive", "issue", "transfer", "adjust"}
    /\ MaxCalls \in Nat

Rows == Places \X Batches

VARIABLES
    stock,      \* Inventory.quantity of every row
    remaining,  \* Batch.remainingQuantity
    moved,      \* the sum of the stock movements of every row
    req,        \* the transactions in progress
    calls,      \* transactions that began and were not rolled back
    \* history, read by the properties only
    unlocked,   \* rows read for an update without the lock of their batch
    crossed,    \* batches two transactions had loaded at the same time
    split       \* batches one issue took from two places

history == <<unlocked, crossed, split>>
table == <<stock, remaining, moved>>
vars == <<table, req, calls, history>>

Idle == [pc |-> "idle"]
\* A line: change a row by so much, and its batch too unless it is a transfer.
Lines == [row : Rows, by : Int, batch : BOOLEAN]
Transactions ==
    [pc : {"pick", "batch", "read", "write"},
     line : Lines,              \* the line in progress
     also : SUBSET Lines,       \* the second line of a transfer
     todo : [Rows -> Int],      \* what an issue had found and has not taken from
     left : Int,                \* what an issue still misses
     held : SUBSET Batches,     \* the batches it has in memory,
     loaded : [Batches -> Int], \* with this remaining quantity
     read : Int,                \* the balance in memory
     batches : SUBSET Batches,  \* the batches and the rows it has saved,
     rows : SUBSET Rows,        \* and holds the locks of
     saved : [Batches -> Int],
     stock : [Rows -> Int], moved : [Rows -> Int]]

TypeOK ==
    /\ stock \in [Rows -> Int]
    /\ remaining \in [Batches -> Int]
    /\ moved \in [Rows -> Int]
    /\ req \in [Requests -> {Idle} \cup Transactions]
    /\ calls \in Int
    /\ unlocked \subseteq Rows /\ crossed \subseteq Batches /\ split \subseteq Batches

(* What the rows of f have of batch b in all places. *)
Total(f, b) == Sum([p \in Places |-> f[<<p, b>>]], Places)

(* The rows and the batches exist, with what was received. *)
Init ==
    /\ stock = Opening /\ moved = Opening
    /\ remaining = [b \in Batches |-> Total(Opening, b)]
    /\ req = [r \in Requests |-> Idle]
    /\ calls = 0 /\ unlocked = {} /\ crossed = {} /\ split = {}

----------------------------------------------------------------------------
Nothing(S) == [x \in S |-> 0]

(* Request r begins its transaction with a first line, the batches it has  *)
(* loaded, and what an issue has found and misses.                         *)
Begin(r, pc, line, also, held, todo, left) ==
    /\ req[r] = Idle
    /\ calls < MaxCalls                        \* bound
    /\ calls' = calls + 1
    /\ req' = [req EXCEPT ![r] =
                 [pc |-> pc, line |-> line, also |-> also, todo |-> todo, left |-> left,
                  held |-> held, loaded |-> [b \in Batches |-> IF b \in held THEN remaining[b] ELSE 0],
                  read |-> 0, batches |-> {}, rows |-> {}, saved |-> Nothing(Batches),
                  stock |-> Nothing(Rows), moved |-> Nothing(Rows)]]
    /\ crossed' = crossed \cup {b \in held : \E q \in Requests : req[q] # Idle /\ b \in req[q].held}
    /\ UNCHANGED <<table, unlocked, split>>

Change(x, n) == [row |-> x, by |-> n, batch |-> TRUE]

ReceiveStock(r, x, n) ==
    Begin(r, "batch", Change(x, n), {}, {x[2]}, Nothing(Rows), 0)

(* adjustStock with a shortage (a surplus is a receipt); completeStockCount *)
(* calls it for every difference.                                          *)
AdjustStock(r, x, n) ==
    Begin(r, "batch", Change(x, -n), {}, {x[2]}, Nothing(Rows), 0)

(* issueStock finds the rows of a warehouse with stock, in all its bins,   *)
(* and for each row an object of its own with what remains of the batch.   *)
IssueStock(r, w, n) ==
    LET found == {x \in Rows : WarehouseOf[x[1]] = w /\ stock[x] > 0} IN
    \E x \in found : Begin(r, "pick", Change(x, 0), {}, {y[2] : y \in found},
                           [y \in Rows |-> IF y \in found THEN stock[y] ELSE 0], n)

Enough(x, n) == stock[x] >= n

TransferStock(r, x, to, n) ==
    /\ Enough(x, n)
    /\ Begin(r, "read", [row |-> x, by |-> -n, batch |-> FALSE],
             {[row |-> <<to, x[2]>>, by |-> n, batch |-> FALSE]}, {}, Nothing(Rows), 0)

----------------------------------------------------------------------------
LocksBatch(r, b) == req[r] # Idle /\ b \in req[r].batches
LocksRow(r, x) == req[r] # Idle /\ x \in req[r].rows

\* A mutant of BatchFree: the batch is saved outside the transaction.
BatchFreeAlways(r, b) == TRUE
BatchFree(r, b) == \A p \in Requests \ {r} : ~LocksBatch(p, b)

\* The rows an issue has found and not taken from yet.
Left(q) == {x \in Rows : q.todo[x] > 0}

(* The order of the query of issueStock.  FEFO looks at the expiry first.  *)
(* For LIFO the query orders by batch.receivedDate descending, and then    *)
(* orders by the same key again, ascending: the second order replaces the  *)
(* first.                                                                  *)
Earlier(b, c) ==
    IF Valuation = "FEFO" /\ Expiry[b] # Expiry[c] THEN Expiry[b] < Expiry[c] ELSE b < c

\* A mutant of First: the order of the query is not looked at.
FirstAny(x, S) == TRUE
First(x, S) == \A y \in S : ~Earlier(y[2], x[2])

(* The next row an issue takes from: what it had found there, or what it   *)
(* still misses.                                                           *)
NextRow(r, x) ==
    LET q == req[r]
        take == IF q.todo[x] <= q.left THEN q.todo[x] ELSE q.left IN
    /\ q.pc = "pick" /\ q.left > 0
    /\ x \in Left(q) /\ First(x, Left(q))
    /\ req' = [req EXCEPT ![r] = [q EXCEPT !.pc = "batch", !.left = @ - take, !.todo[x] = 0,
                                           !.line = Change(x, -take)]]
    /\ UNCHANGED <<table, calls, history>>

(* The destination of a transfer. *)
SecondLine(r) ==
    /\ req[r].pc = "pick"
    /\ \E line \in req[r].also :
          req' = [req EXCEPT ![r].pc = "read", ![r].line = line, ![r].also = {}]
    /\ UNCHANGED <<table, calls, history>>

\* A mutant of NewRemaining: the save forgets the change.
NewRemainingSame(loaded, by) == loaded
NewRemaining(loaded, by) == loaded + by

(* manager.save(batch): the number loaded before, changed by the line.  An *)
(* issue saves each row's own copy of the batch, none of which has seen    *)
(* what the others took.                                                   *)
SaveBatch(r) ==
    LET q == req[r]
        b == q.line.row[2] IN
    /\ q.pc = "batch"
    /\ BatchFree(r, b)
    /\ req' = [req EXCEPT ![r] = [q EXCEPT !.pc = "read", !.batches = @ \cup {b},
                                           !.saved[b] = NewRemaining(q.loaded[b], q.line.by)]]
    /\ split' = IF b \in q.batches THEN split \cup {b} ELSE split
    /\ UNCHANGED <<table, calls, unlocked, crossed>>

(* updateInventoryBalance, first half: the row as this transaction sees it. *)
ReadRow(r) ==
    LET q == req[r]
        x == q.line.row IN
    /\ q.pc = "read"
    /\ req' = [req EXCEPT ![r] =
                 [q EXCEPT !.pc = "write", !.read = IF LocksRow(r, x) THEN q.stock[x] ELSE stock[x]]]
    /\ unlocked' = IF LocksBatch(r, x[2]) THEN unlocked ELSE unlocked \cup {x}
    /\ UNCHANGED <<table, calls, crossed, split>>

\* A mutant of Refused: the check of the new quantity is left out.
RefusedNever(v) == FALSE
Refused(v) == v < 0 /\ ~AllowNegative

(* Second half: the check of the new quantity, the save and the movement.  *)
WriteRow(r) ==
    LET q == req[r]
        x == q.line.row
        v == q.read + q.line.by IN
    /\ q.pc = "write"
    /\ ~Refused(v)
    /\ \A p \in Requests \ {r} : ~LocksRow(p, x)
    /\ req' = [req EXCEPT ![r] = [q EXCEPT !.pc = "pick", !.read = 0, !.rows = @ \cup {x},
                                           !.stock[x] = v, !.moved[x] = @ + q.line.by]]
    /\ UNCHANGED <<table, calls, history>>

(* An issue that misses something fails, unless the product may go         *)
(* negative: then it has issued what there was.                            *)
Commit(r) ==
    LET q == req[r] IN
    /\ q.pc = "pick" /\ q.also = {}
    /\ q.left <= 0 \/ (Left(q) = {} /\ AllowNegative)
    /\ stock' = [x \in Rows |-> IF x \in q.rows THEN q.stock[x] ELSE stock[x]]
    /\ remaining' = [b \in Batches |-> IF b \in q.batches THEN q.saved[b] ELSE remaining[b]]
    /\ moved' = [x \in Rows |-> moved[x] + q.moved[x]]
    /\ req' = [req EXCEPT ![r] = Idle]
    /\ UNCHANGED <<calls, history>>

(* A failed check, a deadlock victim or a lost connection: the transaction *)
(* is rolled back.                                                         *)
Rollback(r) ==
    /\ req[r] # Idle
    /\ req' = [req EXCEPT ![r] = Idle]
    /\ calls' = calls - 1
    /\ UNCHANGED <<table, history>>

Next ==
    \E r \in Requests :
        \/ \E x \in Rows : NextRow(r, x)
        \/ SecondLine(r)
        \/ SaveBatch(r) \/ ReadRow(r) \/ WriteRow(r) \/ Commit(r) \/ Rollback(r)
        \/ \E n \in Quantities :
              \/ "receive" \in Calls /\ \E x \in Rows : ReceiveStock(r, x, n)
              \/ "adjust" \in Calls /\ \E x \in Rows : AdjustStock(r, x, n)
              \/ "issue" \in Calls /\ \E w \in Warehouses : IssueStock(r, w, n)
              \/ "transfer" \in Calls /\ \E x \in Rows, to \in Places : TransferStock(r, x, to, n)

Spec == Init /\ [][Next]_vars

----------------------------------------------------------------------------
(* Whatever stale number a transaction saves, no balance row of a product  *)
(* without allowNegativeStock goes below zero.                             *)
NeverNegative == ~AllowNegative => \A x \in Rows : stock[x] >= 0

(* A balance row is the sum of its stock movements as long as every        *)
(* transaction that updated it had locked the batch first: saving the      *)
(* batch before reading the row is what keeps receipts, issues and         *)
(* adjustments from losing each other's updates.                           *)
BatchLockProtects == \A x \in Rows \ unlocked : stock[x] = moved[x]

(* The remaining quantity of a batch is the sum of the movements that      *)
(* change it in all places, unless two transactions had loaded the batch   *)
(* at the same time, or one issue took from two places of it: then its     *)
(* second save forgets what the first one took.                            *)
RemainingIsMoved == \A b \in Batches \ (crossed \cup split) : remaining[b] = Total(moved, b)

(* The request commits: it ends and is not rolled back. *)
Commits(r) == req[r] # Idle /\ req'[r] = Idle /\ calls' = calls

(* A committed issue that took from row x has emptied row y, unless        *)
(* another transaction held the batch of y too or a transfer, which holds  *)
(* none, has touched the row.                                              *)
Emptied(r, x, y) ==
    /\ req[r].moved[x] < 0 /\ WarehouseOf[x[1]] = WarehouseOf[y[1]]
    /\ y[2] \in req[r].held \ crossed
    => stock'[y] <= 0

(* BUSINESS_LOGIC.md: the oldest unconsumed receipts are consumed first,   *)
(* and FEFO takes what expires first.  A committed issue that took from a  *)
(* batch has emptied, in all bins of the warehouse, every batch before it. *)
ConsumesInOrder ==
    [][\A r \in Requests : Commits(r) =>
          \A x \in req[r].rows, y \in Rows \ unlocked :
              Earlier(y[2], x[2]) => Emptied(r, x, y)]_vars
=============================================================================
