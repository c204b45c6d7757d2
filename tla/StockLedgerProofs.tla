------------------------- MODULE StockLedgerProofs -------------------------
(***************************************************************************)
(* Proofs about StockLedger, for any number of places, batches and         *)
(* transactions.                                                           *)
(*                                                                         *)
(* Checked keeps every balance a transaction has written, not only the     *)
(* committed ones, above zero.  Locked says of a row nobody touched        *)
(* without the lock of its batch: only the holder of the lock has read or  *)
(* written it, and what the holder has written differs from the committed  *)
(* balance by the movements it is about to commit.                         *)
(*                                                                         *)
(* Accounted says of a batch no two transactions held at the same time and *)
(* no issue took from two places: its remaining quantity is the sum of its *)
(* movements, and so is what a transaction that holds it is about to save. *)
(* A transfer holds nothing and moves nothing of a batch in or out.        *)
(*                                                                         *)
(* Consuming says where an issue stands with a row of a batch it holds     *)
(* alone: it found nothing there, still has all it found, is emptying the  *)
(* row, has emptied it, or needs nothing after it; only past an emptied    *)
(* row has it gone on to a later batch.                                    *)
(***************************************************************************)
EXTENDS StockLedger, SumsProofs

Checked ==
    ~AllowNegative =>
        /\ \A x \in Rows : stock[x] >= 0
        /\ \A r \in Requests : req[r] # Idle => \A x \in req[r].rows : req[r].stock[x] >= 0

Exclusive ==
    \A r, p \in Requests, b \in Batches : LocksBatch(r, b) /\ LocksBatch(p, b) => r = p

(* The row x in the hands of transaction r. *)
InStep(r, x) ==
    req[r] # Idle =>
        /\ x \in req[r].rows => /\ x[2] \in req[r].batches
                                /\ req[r].stock[x] = stock[x] + req[r].moved[x]
        /\ x \notin req[r].rows => req[r].moved[x] = 0
        /\ req[r].pc = "write" /\ req[r].line.row = x =>
              /\ x[2] \in req[r].batches
              /\ req[r].read = IF x \in req[r].rows THEN req[r].stock[x] ELSE stock[x]

Locked ==
    /\ Exclusive
    /\ BatchLockProtects
    /\ \A r \in Requests, x \in Rows \ unlocked : InStep(r, x)

----------------------------------------------------------------------------
LEMMA RowParts == ASSUME NEW x \in Rows PROVE x[1] \in Places /\ x[2] \in Batches
  BY DEF Rows

LEMMA BusyReq ==
    ASSUME TypeOK, NEW r \in Requests, req[r] # Idle
    PROVE  req[r] \in Transactions
  BY DEF TypeOK

(* A request that is past its idle state.                                  *)
LEMMA PcBusy ==
    ASSUME TypeOK, NEW r \in Requests, req[r].pc \in {"pick", "batch", "read", "write"}
    PROVE  req[r] # Idle /\ req[r] \in Transactions
  BY DEF TypeOK, Idle

LEMMA TransactionNotIdle == ASSUME NEW q \in Transactions PROVE q # Idle
  BY DEF Transactions, Idle

(* The transaction Begin creates.                                          *)
LEMMA BeginStep ==
    ASSUME TypeOK, NEW r \in Requests, NEW pc \in {"pick", "batch", "read"}, NEW line \in Lines,
           NEW also \in SUBSET Lines, NEW held \in SUBSET Batches, NEW todo \in [Rows -> Int],
           NEW left \in Int, Begin(r, pc, line, also, held, todo, left)
    PROVE  /\ TypeOK'
           /\ req[r] = Idle
           /\ \A p \in Requests \ {r} : req'[p] = req[p]
           /\ req'[r].rows = {} /\ req'[r].batches = {} /\ req'[r].pc # "write"
           /\ \A x \in Rows : req'[r].moved[x] = 0
           /\ UNCHANGED <<stock, remaining, moved, unlocked>>
  <1> PICK new : new = [pc |-> pc, line |-> line, also |-> also, todo |-> todo, left |-> left,
                  held |-> held, loaded |-> [b \in Batches |-> IF b \in held THEN remaining[b] ELSE 0],
                  read |-> 0, batches |-> {}, rows |-> {}, saved |-> Nothing(Batches),
                  stock |-> Nothing(Rows), moved |-> Nothing(Rows)]
      OBVIOUS
  <1>1. new \in Transactions
    <2>1. [b \in Batches |-> IF b \in held THEN remaining[b] ELSE 0] \in [Batches -> Int]
          BY DEF TypeOK
    <2>2. Nothing(Rows) \in [Rows -> Int] /\ Nothing(Batches) \in [Batches -> Int]
          BY DEF Nothing
    <2> QED BY <2>1, <2>2 DEF Transactions
  <1>2. req' = [req EXCEPT ![r] = new] BY DEF Begin
  <1>3. new.rows = {} /\ new.batches = {} /\ new.pc # "write" OBVIOUS
  <1>4. \A x \in Rows : new.moved[x] = 0 BY DEF Nothing
  <1>5. req' \in [Requests -> {Idle} \cup Transactions] BY <1>1, <1>2 DEF TypeOK
  <1>6. req'[r] = new /\ \A p \in Requests \ {r} : req'[p] = req[p] BY <1>2 DEF TypeOK
  <1>7. calls' \in Int /\ crossed' \subseteq Batches /\ split' \subseteq Batches
        BY DEF Begin, TypeOK
  <1>8. UNCHANGED <<stock, remaining, moved, unlocked>> BY DEF Begin, table
  <1>9. TypeOK' BY <1>5, <1>7, <1>8 DEF TypeOK
  <1>10. req[r] = Idle BY DEF Begin
  <1>11. req'[r].rows = {} /\ req'[r].batches = {} /\ req'[r].pc # "write"
         BY <1>3, <1>6
  <1>12. \A x \in Rows : req'[r].moved[x] = 0 BY <1>4, <1>6
  <1> QED BY <1>6, <1>8, <1>9, <1>10, <1>11, <1>12

(* Every operation begins that way.                                        *)
Begins(r) ==
    \E pc \in {"pick", "batch", "read"}, line \in Lines, also \in SUBSET Lines,
       held \in SUBSET Batches, todo \in [Rows -> Int], left \in Int :
          Begin(r, pc, line, also, held, todo, left)

(* An operation of Next that begins. *)
Called(r) ==
    \E n \in Quantities :
        \/ \E x \in Rows : ReceiveStock(r, x, n) \/ AdjustStock(r, x, n)
        \/ \E w \in Warehouses : IssueStock(r, w, n)
        \/ \E x \in Rows, to \in Places : TransferStock(r, x, to, n)

LEMMA CallsBegin == ASSUME TypeOK, NEW r \in Requests, Called(r) PROVE Begins(r)
  <1>1. \A n \in Quantities : n \in Int /\ -n \in Int BY StockAssumption
  <1>2. \A x \in Rows, n \in Int : Change(x, n) \in Lines /\ x[2] \in Batches
        BY RowParts DEF Change, Lines
  <1>3. Nothing(Rows) \in [Rows -> Int] BY DEF Nothing
  <1>4. ASSUME NEW n \in Quantities, NEW x \in Rows, ReceiveStock(r, x, n) PROVE Begins(r)
    <2>1. {x[2]} \in SUBSET Batches BY <1>2
    <2>2. Begin(r, "batch", Change(x, n), {}, {x[2]}, Nothing(Rows), 0)
          BY <1>4 DEF ReceiveStock
    <2> QED BY <1>1, <1>2, <1>3, <2>1, <2>2 DEF Begins
  <1>5. ASSUME NEW n \in Quantities, NEW x \in Rows, AdjustStock(r, x, n) PROVE Begins(r)
    <2>1. {x[2]} \in SUBSET Batches BY <1>2
    <2>2. Begin(r, "batch", Change(x, -n), {}, {x[2]}, Nothing(Rows), 0)
          BY <1>5 DEF AdjustStock
    <2> QED BY <1>1, <1>2, <1>3, <2>1, <2>2 DEF Begins
  <1>6. ASSUME NEW n \in Quantities, NEW w \in Warehouses, IssueStock(r, w, n) PROVE Begins(r)
    <2> DEFINE found == {x \in Rows : WarehouseOf[x[1]] = w /\ stock[x] > 0}
               held == {y[2] : y \in found}
               todo == [y \in Rows |-> IF y \in found THEN stock[y] ELSE 0]
    <2>1. todo \in [Rows -> Int] BY DEF TypeOK
    <2>2. held \in SUBSET Batches BY RowParts
    <2>3. PICK x \in found : Begin(r, "pick", Change(x, 0), {}, held, todo, n)
          BY <1>6 DEF IssueStock
    <2>4. Change(x, 0) \in Lines BY <1>2
    <2> HIDE DEF held, todo
    <2> QED BY <1>1, <2>1, <2>2, <2>3, <2>4 DEF Begins
  <1>7. ASSUME NEW n \in Quantities, NEW x \in Rows, NEW to \in Places, TransferStock(r, x, to, n)
        PROVE  Begins(r)
    <2> PICK line : line = [row |-> x, by |-> -n, batch |-> FALSE] OBVIOUS
    <2> PICK second : second = [row |-> <<to, x[2]>>, by |-> n, batch |-> FALSE] OBVIOUS
    <2>1. line \in Lines /\ {second} \in SUBSET Lines BY <1>1, RowParts DEF Lines, Rows
    <2>2. Begin(r, "read", line, {second}, {}, Nothing(Rows), 0) BY <1>7 DEF TransferStock
    <2>3. \E also \in SUBSET Lines : Begin(r, "read", line, also, {}, Nothing(Rows), 0)
          BY <2>1, <2>2
    <2> QED BY <1>3, <2>1, <2>3 DEF Begins
  <1> QED BY <1>4, <1>5, <1>6, <1>7 DEF Called

(* The transaction WriteRow leaves behind.                                 *)
LEMMA Written ==
    ASSUME NEW q \in Transactions, NEW x \in Rows, NEW v \in Int, NEW by \in Int
    PROVE  [q EXCEPT !.pc = "pick", !.read = 0, !.rows = @ \cup {x},
                     !.stock[x] = v, !.moved[x] = @ + by] \in Transactions
  <1> PICK rows : rows = q.rows \cup {x} OBVIOUS
  <1> PICK st : st = [q.stock EXCEPT ![x] = v] OBVIOUS
  <1> PICK mv : mv = [q.moved EXCEPT ![x] = q.moved[x] + by] OBVIOUS
  <1>1. rows \in SUBSET Rows /\ st \in [Rows -> Int] /\ mv \in [Rows -> Int]
        BY DEF Transactions
  <1>2. [q EXCEPT !.pc = "pick"] \in Transactions BY DEF Transactions
  <1>3. ASSUME NEW t \in Transactions PROVE [t EXCEPT !.read = 0] \in Transactions
        BY DEF Transactions
  <1>4. ASSUME NEW t \in Transactions PROVE [t EXCEPT !.rows = rows] \in Transactions
        BY <1>1 DEF Transactions
  <1>5. ASSUME NEW t \in Transactions PROVE [t EXCEPT !.stock = st] \in Transactions
        BY <1>1 DEF Transactions
  <1>6. ASSUME NEW t \in Transactions PROVE [t EXCEPT !.moved = mv] \in Transactions
        BY <1>1 DEF Transactions
  <1>7. [q EXCEPT !.pc = "pick", !.read = 0, !.rows = rows, !.stock = st, !.moved = mv]
          \in Transactions
        BY <1>2, <1>3, <1>4, <1>5, <1>6
  <1>8. [q EXCEPT !.pc = "pick", !.read = 0, !.rows = rows, !.stock = st, !.moved = mv]
          = [q EXCEPT !.pc = "pick", !.read = 0, !.rows = @ \cup {x},
                      !.stock[x] = v, !.moved[x] = @ + by]
        BY DEF Transactions
  <1> QED BY <1>7, <1>8

(* An issue that has taken from a row is still a transaction.              *)
LEMMA Taken ==
    ASSUME NEW q \in Transactions, NEW x \in Rows, NEW take \in Int, NEW line \in Lines
    PROVE  [q EXCEPT !.pc = "batch", !.left = @ - take, !.todo[x] = 0, !.line = line] \in Transactions
  <1>1. q.left - take \in Int /\ [q.todo EXCEPT ![x] = 0] \in [Rows -> Int]
        BY DEF Transactions
  <1>2. \A i \in Int, f \in [Rows -> Int] :
           [q EXCEPT !.pc = "batch", !.left = i, !.todo = f, !.line = line] \in Transactions
        BY DEF Transactions
  <1>3. [q EXCEPT !.pc = "batch", !.left = @ - take, !.todo[x] = 0, !.line = line]
          = [q EXCEPT !.pc = "batch", !.left = q.left - take, !.todo = [q.todo EXCEPT ![x] = 0],
                      !.line = line]
        BY DEF Transactions
  <1> QED BY <1>1, <1>2, <1>3

(* The transaction after SaveBatch.                                        *)
AfterSave(q, b, v) == [q EXCEPT !.pc = "read", !.batches = @ \cup {b}, !.saved[b] = v]

LEMMA SavedBatch ==
    ASSUME NEW q \in Transactions, NEW b \in Batches, NEW v \in Int
    PROVE  LET new == AfterSave(q, b, v) IN
           /\ new \in Transactions
           /\ new.pc = "read" /\ new.saved = [q.saved EXCEPT ![b] = v]
           /\ new.batches = q.batches \cup {b} /\ new.loaded = q.loaded
           /\ new.line = q.line /\ new.also = q.also /\ new.todo = q.todo /\ new.left = q.left
           /\ new.held = q.held /\ new.rows = q.rows /\ new.stock = q.stock /\ new.moved = q.moved
  <1> DEFINE new == AfterSave(q, b, v)
  <1>1. new \in Transactions BY DEF AfterSave, Transactions
  <1>2. /\ new.pc = "read" /\ new.saved = [q.saved EXCEPT ![b] = v]
        /\ new.batches = q.batches \cup {b} /\ new.loaded = q.loaded
        /\ new.line = q.line /\ new.also = q.also /\ new.todo = q.todo /\ new.left = q.left
        /\ new.held = q.held /\ new.rows = q.rows /\ new.stock = q.stock /\ new.moved = q.moved
        BY DEF AfterSave, Transactions
  <1> HIDE DEF new
  <1> QED BY <1>1, <1>2 DEF new

(* The transaction after SecondLine, which updates it field by field.      *)
LEMMA SecondStarted ==
    ASSUME TypeOK, NEW r \in Requests, req[r] \in Transactions, NEW line \in Lines,
           NEW f, f = [req EXCEPT ![r].pc = "read", ![r].line = line, ![r].also = {}]
    PROVE  /\ f = [req EXCEPT ![r] = [req[r] EXCEPT !.pc = "read", !.line = line, !.also = {}]]
           /\ [req[r] EXCEPT !.pc = "read", !.line = line, !.also = {}] \in Transactions
  <1>1. req \in [Requests -> Transactions \cup {Idle}] BY DEF TypeOK
  <1>2. f = [req EXCEPT ![r] = [req[r] EXCEPT !.pc = "read", !.line = line, !.also = {}]]
      BY <1>1
  <1>3. [req[r] EXCEPT !.pc = "read", !.line = line, !.also = {}] \in Transactions
      BY DEF Transactions
  <1> QED BY <1>2, <1>3

(* What SaveBatch does to the transaction.                                 *)
LEMMA SaveBatchFields ==
    ASSUME TypeOK, NEW r \in Requests, SaveBatch(r)
    PROVE  LET q == req[r]
               n == req'[r]
               b == q.line.row[2] IN
           /\ q \in Transactions /\ q # Idle /\ n \in Transactions /\ n # Idle
           /\ q.pc = "batch" /\ n.pc = "read" /\ b \in Batches
           /\ n.saved = [q.saved EXCEPT ![b] = q.loaded[b] + q.line.by]
           /\ n.batches = q.batches \cup {b} /\ n.loaded = q.loaded
           /\ n.line = q.line /\ n.also = q.also /\ n.todo = q.todo /\ n.left = q.left
           /\ n.held = q.held /\ n.rows = q.rows /\ n.stock = q.stock /\ n.moved = q.moved
           /\ \A p \in Requests \ {r} : req'[p] = req[p]
           /\ req' \in [Requests -> {Idle} \cup Transactions]
           /\ UNCHANGED <<stock, remaining, moved, calls, unlocked, crossed>>
           /\ split' = IF b \in q.batches THEN split \cup {b} ELSE split
  <1> DEFINE q == req[r]
             b == q.line.row[2]
             v == q.loaded[b] + q.line.by
             new == AfterSave(q, b, v)
  <1>1. q \in Transactions /\ q # Idle BY PcBusy DEF SaveBatch
  <1>2. b \in Batches /\ q.line.by \in Int BY <1>1, RowParts DEF Transactions, Lines
  <1>3. v \in Int BY <1>1, <1>2 DEF Transactions
  <1>4. req' = [req EXCEPT ![r] = new] BY DEF SaveBatch, NewRemaining, AfterSave
  <1>5. /\ q.pc = "batch" /\ UNCHANGED <<stock, remaining, moved, calls, unlocked, crossed>>
        /\ split' = IF b \in q.batches THEN split \cup {b} ELSE split
        BY DEF SaveBatch, table
  <1> HIDE DEF q, b, v
  <1>6. /\ new \in Transactions
        /\ new.pc = "read" /\ new.saved = [q.saved EXCEPT ![b] = v]
        /\ new.batches = q.batches \cup {b} /\ new.loaded = q.loaded
        /\ new.line = q.line /\ new.also = q.also /\ new.todo = q.todo /\ new.left = q.left
        /\ new.held = q.held /\ new.rows = q.rows /\ new.stock = q.stock /\ new.moved = q.moved
        BY <1>1, <1>2, <1>3, SavedBatch
  <1> HIDE DEF new
  <1>7. req'[r] = new /\ \A p \in Requests \ {r} : req'[p] = req[p] BY <1>4 DEF TypeOK
  <1>8. req' \in [Requests -> {Idle} \cup Transactions] BY <1>4, <1>6 DEF TypeOK
  <1>9. new # Idle BY <1>6, TransactionNotIdle
  <1> QED BY <1>1, <1>2, <1>5, <1>6, <1>7, <1>8, <1>9 DEF q, b, v

----------------------------------------------------------------------------
(* What the rows of f have of a batch is an integer.                       *)
LEMMA TotalInt ==
    ASSUME NEW f \in [Rows -> Int], NEW b \in Batches
    PROVE  Total(f, b) \in Int
  <1> DEFINE F == [p \in Places |-> f[<<p, b>>]]
  <1>1. \A p \in Places : F[p] \in Int BY DEF Rows
  <1> HIDE DEF F
  <1>2. Sum(F, Places) \in Int BY <1>1, SumInt, StockAssumption
  <1> QED BY <1>2 DEF Total, F

LEMMA TypeInit == Init => TypeOK
  <1>1. \A x \in Rows : Opening[x] \in Int BY StockAssumption DEF Rows
  <1>2. Opening \in [Rows -> Int] BY <1>1, StockAssumption DEF Rows
  <1>3. [b \in Batches |-> Total(Opening, b)] \in [Batches -> Int] BY <1>2, TotalInt
  <1> QED BY <1>2, <1>3 DEF Init, TypeOK

LEMMA ChangeFields ==
    ASSUME NEW x, NEW by
    PROVE  Change(x, by).row = x /\ Change(x, by).by = by
  BY DEF Change

(* A step of request r inside its transaction.                             *)
Inside(r) ==
    \/ \E x \in Rows : NextRow(r, x)
    \/ SecondLine(r) \/ SaveBatch(r) \/ ReadRow(r) \/ WriteRow(r)

(* The steps of Next, by what they do to the requests.                     *)
LEMMA NextCases ==
    ASSUME [Next]_vars
    PROVE  \/ \E r \in Requests : Called(r) \/ Inside(r) \/ Commit(r) \/ Rollback(r)
           \/ UNCHANGED vars
  <1>1. ASSUME NEW r \in Requests, NEW n \in Quantities,
               \/ "receive" \in Calls /\ \E x \in Rows : ReceiveStock(r, x, n)
               \/ "adjust" \in Calls /\ \E x \in Rows : AdjustStock(r, x, n)
               \/ "issue" \in Calls /\ \E w \in Warehouses : IssueStock(r, w, n)
               \/ "transfer" \in Calls /\ \E x \in Rows, to \in Places : TransferStock(r, x, to, n)
        PROVE  Called(r)
        BY <1>1 DEF Called
  <1> QED BY <1>1 DEF Next, Inside

LEMMA TypeNext == TypeOK /\ [Next]_vars => TypeOK'
  <1> SUFFICES ASSUME TypeOK, [Next]_vars PROVE TypeOK'
      OBVIOUS
  <1>1. ASSUME NEW r \in Requests, Begins(r) PROVE TypeOK'
    BY <1>1, BeginStep DEF Begins
  <1>2. ASSUME NEW r \in Requests, NEW x \in Rows, NextRow(r, x) PROVE TypeOK'
    <2> PICK q : q = req[r] OBVIOUS
    <2>1. q \in Transactions BY <1>2, PcBusy DEF NextRow
    <2> PICK take : take = (IF q.todo[x] <= q.left THEN q.todo[x] ELSE q.left) OBVIOUS
    <2>2. take \in Int BY <2>1 DEF Transactions
    <2>3. Change(x, -take) \in Lines BY <2>2 DEF Change, Lines
    <2> PICK new : new = [q EXCEPT !.pc = "batch", !.left = @ - take, !.todo[x] = 0,
                                   !.line = Change(x, -take)]
        OBVIOUS
    <2>4. new \in Transactions BY <2>1, <2>2, <2>3, Taken
    <2>5. req' = [req EXCEPT ![r] = new] BY <1>2 DEF NextRow
    <2> QED BY <1>2, <2>4, <2>5 DEF NextRow, TypeOK, table, history
  <1>3. ASSUME NEW r \in Requests, SecondLine(r) PROVE TypeOK'
    <2> PICK q : q = req[r] OBVIOUS
    <2>1. q \in Transactions BY <1>3, PcBusy DEF SecondLine
    <2>2. PICK line \in q.also :
            req' = [req EXCEPT ![r].pc = "read", ![r].line = line, ![r].also = {}]
          BY <1>3 DEF SecondLine
    <2>3. line \in Lines BY <2>1 DEF Transactions
    <2>4. [q EXCEPT !.pc = "read", !.line = line, !.also = {}] \in Transactions
          BY <2>1, <2>2, <2>3, SecondStarted
    <2>5. req' = [req EXCEPT ![r] = [q EXCEPT !.pc = "read", !.line = line, !.also = {}]]
          BY <2>1, <2>2, <2>3, SecondStarted
    <2> QED BY <1>3, <2>4, <2>5 DEF SecondLine, TypeOK, table, history
  <1>4. ASSUME NEW r \in Requests, SaveBatch(r) PROVE TypeOK'
    <2> PICK b : b = req[r].line.row[2] OBVIOUS
    <2>1. /\ b \in Batches /\ req' \in [Requests -> {Idle} \cup Transactions]
          /\ UNCHANGED <<stock, remaining, moved, calls, unlocked, crossed>>
          /\ split' = split \/ split' = split \cup {b}
          BY <1>4, SaveBatchFields
    <2>2. split' \subseteq Batches BY <2>1 DEF TypeOK
    <2> QED BY <2>1, <2>2 DEF TypeOK
  <1>5. ASSUME NEW r \in Requests, ReadRow(r) PROVE TypeOK'
    <2> PICK q : q = req[r] OBVIOUS
    <2> PICK x : x = q.line.row OBVIOUS
    <2>1. q \in Transactions BY <1>5, PcBusy DEF ReadRow
    <2>2. x \in Rows BY <2>1 DEF Transactions, Lines
    <2> PICK v : v = (IF LocksRow(r, x) THEN q.stock[x] ELSE stock[x]) OBVIOUS
    <2>3. v \in Int BY <2>1, <2>2 DEF Transactions, TypeOK
    <2>4. [q EXCEPT !.pc = "write", !.read = v] \in Transactions
          BY <2>1, <2>3 DEF Transactions
    <2>5. req' = [req EXCEPT ![r] = [q EXCEPT !.pc = "write", !.read = v]]
          BY <1>5 DEF ReadRow
    <2>6. unlocked' \subseteq Rows BY <1>5, <2>2 DEF ReadRow, TypeOK
    <2> QED BY <1>5, <2>4, <2>5, <2>6 DEF ReadRow, TypeOK, table
  <1>6. ASSUME NEW r \in Requests, WriteRow(r) PROVE TypeOK'
    <2> PICK q : q = req[r] OBVIOUS
    <2> PICK x : x = q.line.row OBVIOUS
    <2> PICK v : v = q.read + q.line.by OBVIOUS
    <2>1. q \in Transactions BY <1>6, PcBusy DEF WriteRow
    <2>2. x \in Rows /\ q.line.by \in Int /\ v \in Int BY <2>1 DEF Transactions, Lines
    <2> PICK new : new = [q EXCEPT !.pc = "pick", !.read = 0, !.rows = @ \cup {x},
                                   !.stock[x] = v, !.moved[x] = @ + q.line.by]
        OBVIOUS
    <2>3. new \in Transactions BY <2>1, <2>2, Written
    <2>4. req' = [req EXCEPT ![r] = new] BY <1>6 DEF WriteRow
    <2> QED BY <1>6, <2>3, <2>4 DEF WriteRow, TypeOK, table, history
  <1>7. ASSUME NEW r \in Requests, Commit(r) PROVE TypeOK'
    <2>1. req[r] \in Transactions BY <1>7, PcBusy DEF Commit
    <2>2. stock' \in [Rows -> Int] BY <1>7, <2>1 DEF Commit, TypeOK, Transactions
    <2>3. remaining' \in [Batches -> Int] BY <1>7, <2>1 DEF Commit, TypeOK, Transactions
    <2>4. moved' \in [Rows -> Int] BY <1>7, <2>1 DEF Commit, TypeOK, Transactions
    <2> QED BY <1>7, <2>2, <2>3, <2>4 DEF Commit, TypeOK, history
  <1>8. ASSUME NEW r \in Requests, Rollback(r) PROVE TypeOK'
    BY <1>8 DEF Rollback, TypeOK, table, history
  <1>9. CASE UNCHANGED vars
    BY <1>9 DEF TypeOK, vars, table, history
  <1> QED BY <1>1, <1>2, <1>3, <1>4, <1>5, <1>6, <1>7, <1>8, <1>9, NextCases, CallsBegin
            DEF Inside

(* Every reachable state has the types of the tables.                      *)
THEOREM TypeCorrect == Spec => []TypeOK
  BY TypeInit, TypeNext, PTL DEF Spec

----------------------------------------------------------------------------
(* The steps of a transaction, field by field.                             *)
LEMMA NextRowFields ==
    ASSUME TypeOK, NEW r \in Requests, NEW x \in Rows, NextRow(r, x)
    PROVE  LET q == req[r]
               n == req'[r]
               take == IF q.todo[x] <= q.left THEN q.todo[x] ELSE q.left IN
           /\ q \in Transactions /\ q # Idle /\ n # Idle
           /\ q.pc = "pick" /\ q.left > 0 /\ x \in Left(q) /\ First(x, Left(q))
           /\ n.pc = "batch" /\ n.line = Change(x, -take)
           /\ n.todo = [q.todo EXCEPT ![x] = 0] /\ n.left = q.left - take
           /\ n.also = q.also /\ n.held = q.held /\ n.loaded = q.loaded /\ n.saved = q.saved
           /\ n.batches = q.batches /\ n.rows = q.rows /\ n.stock = q.stock /\ n.moved = q.moved
           /\ \A p \in Requests \ {r} : req'[p] = req[p]
           /\ UNCHANGED <<stock, remaining, moved, unlocked, crossed, split>>
  <1> PICK q : q = req[r] OBVIOUS
  <1> PICK take : take = (IF q.todo[x] <= q.left THEN q.todo[x] ELSE q.left) OBVIOUS
  <1> PICK new : new = [q EXCEPT !.pc = "batch", !.left = @ - take, !.todo[x] = 0,
                                 !.line = Change(x, -take)]
      OBVIOUS
  <1>1. q \in Transactions /\ q # Idle BY PcBusy DEF NextRow
  <1>2. req' = [req EXCEPT ![r] = new] BY DEF NextRow
  <1>3. /\ new.pc = "batch" /\ new.line = Change(x, -take)
        /\ new.todo = [q.todo EXCEPT ![x] = 0] /\ new.left = q.left - take
        /\ new.also = q.also /\ new.held = q.held /\ new.loaded = q.loaded
        /\ new.saved = q.saved
        /\ new.batches = q.batches /\ new.rows = q.rows /\ new.stock = q.stock
        /\ new.moved = q.moved
        BY <1>1 DEF Transactions
  <1>4. new # Idle BY <1>3 DEF Idle
  <1>5. req'[r] = new /\ \A p \in Requests \ {r} : req'[p] = req[p] BY <1>2 DEF TypeOK
  <1>6. /\ q.pc = "pick" /\ q.left > 0 /\ x \in Left(q) /\ First(x, Left(q))
        /\ UNCHANGED <<stock, remaining, moved, unlocked, crossed, split>>
        BY DEF NextRow, table, history
  <1> QED BY <1>1, <1>3, <1>4, <1>5, <1>6

LEMMA SecondLineFields ==
    ASSUME TypeOK, NEW r \in Requests, SecondLine(r)
    PROVE  LET q == req[r]
               n == req'[r] IN
           /\ q \in Transactions /\ q # Idle /\ n # Idle
           /\ q.pc = "pick" /\ n.pc = "read" /\ n.line \in q.also /\ n.also = {}
           /\ n.todo = q.todo /\ n.left = q.left /\ n.held = q.held /\ n.loaded = q.loaded /\ n.saved = q.saved
           /\ n.batches = q.batches /\ n.rows = q.rows /\ n.stock = q.stock /\ n.moved = q.moved
           /\ \A p \in Requests \ {r} : req'[p] = req[p]
           /\ UNCHANGED <<stock, remaining, moved, unlocked, crossed, split>>
  <1> PICK q : q = req[r] OBVIOUS
  <1>1. q \in Transactions /\ q # Idle BY PcBusy DEF SecondLine
  <1>2. PICK line \in q.also :
          req' = [req EXCEPT ![r].pc = "read", ![r].line = line, ![r].also = {}]
        BY DEF SecondLine
  <1> PICK new : new = [q EXCEPT !.pc = "read", !.line = line, !.also = {}] OBVIOUS
  <1>3. req' = [req EXCEPT ![r] = new] BY <1>1, <1>2 DEF TypeOK, Transactions
  <1>4. /\ new.pc = "read" /\ new.line = line /\ new.also = {}
        /\ new.todo = q.todo /\ new.left = q.left /\ new.held = q.held
        /\ new.loaded = q.loaded /\ new.saved = q.saved
        /\ new.batches = q.batches /\ new.rows = q.rows
        /\ new.stock = q.stock /\ new.moved = q.moved
        BY <1>1 DEF Transactions
  <1>5. new # Idle BY <1>4 DEF Idle
  <1>6. req'[r] = new /\ \A p \in Requests \ {r} : req'[p] = req[p] BY <1>3 DEF TypeOK
  <1>7. q.pc = "pick" /\ UNCHANGED <<stock, remaining, moved, unlocked, crossed, split>>
        BY DEF SecondLine, table, history
  <1> QED BY <1>1, <1>2, <1>4, <1>5, <1>6, <1>7

LEMMA ReadRowFields ==
    ASSUME TypeOK, NEW r \in Requests, ReadRow(r)
    PROVE  LET q == req[r]
               n == req'[r] IN
           /\ q \in Transactions /\ q # Idle /\ n # Idle
           /\ q.pc = "read" /\ n.pc = "write"
           /\ n.read = IF q.line.row \in q.rows THEN q.stock[q.line.row] ELSE stock[q.line.row]
           /\ n.line = q.line /\ n.also = q.also /\ n.todo = q.todo /\ n.left = q.left
           /\ n.held = q.held /\ n.loaded = q.loaded /\ n.saved = q.saved
           /\ n.batches = q.batches
           /\ n.rows = q.rows /\ n.stock = q.stock /\ n.moved = q.moved
           /\ \A p \in Requests \ {r} : req'[p] = req[p]
           /\ UNCHANGED <<stock, remaining, moved, crossed, split>>
  <1> PICK q : q = req[r] OBVIOUS
  <1> PICK x : x = q.line.row OBVIOUS
  <1> PICK v : v = (IF LocksRow(r, x) THEN q.stock[x] ELSE stock[x]) OBVIOUS
  <1> PICK new : new = [q EXCEPT !.pc = "write", !.read = v] OBVIOUS
  <1>1. q \in Transactions /\ q # Idle BY PcBusy DEF ReadRow
  <1>2. req' = [req EXCEPT ![r] = new] BY DEF ReadRow
  <1>3. /\ new.pc = "write" /\ new.read = v
        /\ new.line = q.line /\ new.also = q.also /\ new.todo = q.todo /\ new.left = q.left
        /\ new.held = q.held /\ new.loaded = q.loaded /\ new.saved = q.saved
        /\ new.batches = q.batches
        /\ new.rows = q.rows /\ new.stock = q.stock /\ new.moved = q.moved
        BY <1>1 DEF Transactions
  <1>4. new # Idle BY <1>3 DEF Idle
  <1>5. req'[r] = new /\ \A p \in Requests \ {r} : req'[p] = req[p] BY <1>2 DEF TypeOK
  <1>6. q.pc = "read" /\ UNCHANGED <<stock, remaining, moved, crossed, split>>
        BY DEF ReadRow, table
  <1>7. v = IF x \in q.rows THEN q.stock[x] ELSE stock[x] BY <1>1 DEF LocksRow
  <1> QED BY <1>1, <1>3, <1>4, <1>5, <1>6, <1>7

LEMMA WriteRowFields ==
    ASSUME TypeOK, NEW r \in Requests, WriteRow(r)
    PROVE  LET q == req[r]
               n == req'[r]
               x == q.line.row
               v == q.read + q.line.by IN
           /\ q \in Transactions /\ q # Idle /\ n # Idle
           /\ q.pc = "write" /\ n.pc = "pick" /\ x \in Rows
           /\ n.rows = q.rows \cup {x} /\ n.stock = [q.stock EXCEPT ![x] = v]
           /\ n.moved = [q.moved EXCEPT ![x] = q.moved[x] + q.line.by]
           /\ n.line = q.line /\ n.also = q.also /\ n.todo = q.todo /\ n.left = q.left
           /\ n.held = q.held /\ n.loaded = q.loaded /\ n.saved = q.saved
           /\ n.batches = q.batches
           /\ \A p \in Requests \ {r} : req'[p] = req[p]
           /\ UNCHANGED <<stock, remaining, moved, unlocked, crossed, split>>
  <1> PICK q : q = req[r] OBVIOUS
  <1> PICK x : x = q.line.row OBVIOUS
  <1> PICK v : v = q.read + q.line.by OBVIOUS
  <1> PICK new : new = [q EXCEPT !.pc = "pick", !.read = 0, !.rows = @ \cup {x},
                                 !.stock[x] = v, !.moved[x] = @ + q.line.by]
      OBVIOUS
  <1>1. q \in Transactions /\ q # Idle BY PcBusy DEF WriteRow
  <1>2. req' = [req EXCEPT ![r] = new] BY DEF WriteRow
  <1>3. /\ new.pc = "pick" /\ new.rows = q.rows \cup {x}
        /\ new.stock = [q.stock EXCEPT ![x] = v]
        /\ new.moved = [q.moved EXCEPT ![x] = q.moved[x] + q.line.by]
        /\ new.line = q.line /\ new.also = q.also /\ new.todo = q.todo /\ new.left = q.left
        /\ new.held = q.held /\ new.loaded = q.loaded /\ new.saved = q.saved
        /\ new.batches = q.batches
        BY <1>1 DEF Transactions
  <1>4. new # Idle BY <1>3 DEF Idle
  <1>5. req'[r] = new /\ \A p \in Requests \ {r} : req'[p] = req[p] BY <1>2 DEF TypeOK
  <1>6. q.pc = "write" /\ UNCHANGED <<stock, remaining, moved, unlocked, crossed, split>>
        BY DEF WriteRow, table, history
  <1>7. x \in Rows BY <1>1 DEF Transactions, Lines
  <1> QED BY <1>1, <1>3, <1>4, <1>5, <1>6, <1>7

(* What those steps have in common. *)
LEMMA StepFields ==
    ASSUME TypeOK, NEW r \in Requests, Inside(r)
    PROVE  /\ req[r] \in Transactions /\ req[r] # Idle /\ req'[r].held = req[r].held
           /\ req'[r] # Idle
           /\ \A p \in Requests \ {r} : req'[p] = req[p]
           /\ UNCHANGED <<stock, remaining, moved, crossed>> /\ split \subseteq split'
  <1>1. CASE \E x \in Rows : NextRow(r, x) BY <1>1, NextRowFields
  <1>2. CASE SecondLine(r) BY <1>2, SecondLineFields
  <1>3. CASE SaveBatch(r) BY <1>3, SaveBatchFields
  <1>4. CASE ReadRow(r) BY <1>4, ReadRowFields
  <1>5. CASE WriteRow(r) BY <1>5, WriteRowFields
  <1> QED BY <1>1, <1>2, <1>3, <1>4, <1>5 DEF Inside

----------------------------------------------------------------------------
(* A step of r that changes no row, neither the committed one nor its own. *)
Between(r) ==
    /\ req[r] # Idle /\ req'[r] # Idle
    /\ \A p \in Requests \ {r} : req'[p] = req[p]
    /\ req'[r].rows = req[r].rows /\ req'[r].stock = req[r].stock
    /\ req'[r].moved = req[r].moved
    /\ req[r].batches \subseteq req'[r].batches
    /\ SaveBatch(r) \/ req'[r].batches = req[r].batches
    /\ ReadRow(r) \/ req'[r].pc # "write"
    /\ UNCHANGED <<stock, moved>>

LEMMA BetweenSteps ==
    ASSUME TypeOK, NEW r \in Requests, Inside(r)
    PROVE  Between(r) \/ WriteRow(r)
  <1>1. ASSUME NEW x \in Rows, NextRow(r, x) PROVE Between(r)
    BY <1>1, NextRowFields DEF Between
  <1>2. CASE SecondLine(r) BY <1>2, SecondLineFields DEF Between
  <1>3. CASE SaveBatch(r) BY <1>3, SaveBatchFields DEF Between
  <1>4. CASE ReadRow(r) BY <1>4, ReadRowFields DEF Between
  <1> QED BY <1>1, <1>2, <1>3, <1>4 DEF Inside

(* What WriteRow leaves in the transaction.                                *)
LEMMA WriteRowStep ==
    ASSUME TypeOK, NEW r \in Requests, WriteRow(r)
    PROVE  LET x == req[r].line.row
               v == req[r].read + req[r].line.by IN
           /\ req[r] \in Transactions /\ req[r] # Idle /\ req'[r] # Idle
           /\ x \in Rows /\ v \in Int /\ req[r].line.by \in Int /\ ~Refused(v)
           /\ req'[r].rows = req[r].rows \cup {x} /\ req'[r].pc = "pick"
           /\ req'[r].batches = req[r].batches
           /\ req'[r].stock = [req[r].stock EXCEPT ![x] = v]
           /\ req'[r].moved = [req[r].moved EXCEPT ![x] = @ + req[r].line.by]
           /\ \A p \in Requests \ {r} : req'[p] = req[p]
           /\ UNCHANGED <<stock, moved, unlocked>>
  <1>1. req[r].read + req[r].line.by \in Int /\ req[r].line.by \in Int
    <2>1. req[r] \in Transactions BY WriteRowFields
    <2> QED BY <2>1 DEF Transactions, Lines
  <1>2. ~Refused(req[r].read + req[r].line.by) BY DEF WriteRow
  <1> QED BY <1>1, <1>2, WriteRowFields

----------------------------------------------------------------------------
LEMMA CheckedInit == Init => Checked
  <1>1. \A x \in Rows : Opening[x] >= 0 BY StockAssumption DEF Rows
  <1> QED BY <1>1 DEF Init, Checked

LEMMA CheckedNext == TypeOK /\ Checked /\ [Next]_vars => Checked'
  <1> SUFFICES ASSUME TypeOK, Checked, [Next]_vars, ~AllowNegative
               PROVE  /\ \A x \in Rows : stock'[x] >= 0
                      /\ \A r \in Requests : req'[r] # Idle =>
                            \A x \in req'[r].rows : req'[r].stock[x] >= 0
      BY DEF Checked
  <1>0. /\ \A x \in Rows : stock[x] >= 0
        /\ \A r \in Requests : req[r] # Idle => \A x \in req[r].rows : req[r].stock[x] >= 0
        BY DEF Checked
  <1> DEFINE Goal == /\ \A x \in Rows : stock'[x] >= 0
                     /\ \A r \in Requests : req'[r] # Idle =>
                           \A x \in req'[r].rows : req'[r].stock[x] >= 0
  <1>1. ASSUME NEW r \in Requests, Begins(r) PROVE Goal
    <2>1. /\ \A p \in Requests \ {r} : req'[p] = req[p]
          /\ req'[r].rows = {} /\ UNCHANGED stock
          BY <1>1, BeginStep DEF Begins
    <2> QED BY <1>0, <2>1
  <1>2. ASSUME NEW r \in Requests, Between(r) PROVE Goal
    BY <1>0, <1>2 DEF Between
  <1>3. ASSUME NEW r \in Requests, WriteRow(r) PROVE Goal
    <2> PICK x : x = req[r].line.row OBVIOUS
    <2> PICK v : v = req[r].read + req[r].line.by OBVIOUS
    <2>1. /\ req[r] \in Transactions /\ req[r] # Idle /\ x \in Rows /\ v \in Int /\ ~Refused(v)
          /\ req'[r].rows = req[r].rows \cup {x}
          /\ req'[r].stock = [req[r].stock EXCEPT ![x] = v]
          /\ \A p \in Requests \ {r} : req'[p] = req[p]
          /\ UNCHANGED stock
          BY <1>3, WriteRowStep
    <2>2. v >= 0 BY <2>1 DEF Refused
    <2>3. req[r].stock \in [Rows -> Int] /\ req[r].rows \subseteq Rows
          BY <2>1 DEF Transactions
    <2>4. \A y \in req'[r].rows : req'[r].stock[y] >= 0 BY <1>0, <2>1, <2>2, <2>3
    <2> QED BY <1>0, <2>1, <2>4
  <1>4. ASSUME NEW r \in Requests, Commit(r) PROVE Goal
    <2>1. req[r] # Idle BY <1>4, PcBusy DEF Commit
    <2>2. \A x \in Rows : stock'[x] = IF x \in req[r].rows THEN req[r].stock[x] ELSE stock[x]
          BY <1>4 DEF Commit
    <2>3. req'[r] = Idle /\ \A p \in Requests \ {r} : req'[p] = req[p]
          BY <1>4 DEF Commit, TypeOK
    <2> QED BY <1>0, <2>1, <2>2, <2>3
  <1>5. ASSUME NEW r \in Requests, Rollback(r) PROVE Goal
    <2>1. /\ req'[r] = Idle /\ \A p \in Requests \ {r} : req'[p] = req[p]
          /\ UNCHANGED stock
          BY <1>5 DEF Rollback, TypeOK, table
    <2> QED BY <1>0, <2>1
  <1>6. CASE UNCHANGED vars
    BY <1>0, <1>6 DEF vars, table
  <1> QED BY <1>1, <1>2, <1>3, <1>4, <1>5, <1>6, NextCases, CallsBegin, BetweenSteps

(* No balance row of a product without allowNegativeStock goes below zero. *)
THEOREM StockStaysPositive == Spec => []NeverNegative
  <1>1. Checked => NeverNegative BY DEF Checked, NeverNegative
  <1> QED BY <1>1, TypeInit, TypeNext, CheckedInit, CheckedNext, PTL DEF Spec

----------------------------------------------------------------------------
LEMMA LockedInit == Init => Locked
  BY DEF Init, Locked, Exclusive, LocksBatch, BatchLockProtects, InStep

(* Only SaveBatch takes the lock of a batch, and only when it is free.     *)
LEMMA ExclusiveNext == TypeOK /\ Exclusive /\ [Next]_vars => Exclusive'
  <1> SUFFICES ASSUME TypeOK, Exclusive, [Next]_vars PROVE Exclusive'
      OBVIOUS
  <1>1. ASSUME NEW r \in Requests, \A p \in Requests \ {r} : req'[p] = req[p],
               \A b \in Batches : LocksBatch(r, b)' => \A p \in Requests \ {r} : ~LocksBatch(p, b)
        PROVE  Exclusive'
    <2> SUFFICES ASSUME NEW p \in Requests, NEW t \in Requests, NEW b \in Batches,
                        LocksBatch(p, b)', LocksBatch(t, b)'
                 PROVE  p = t
        BY DEF Exclusive
    <2>1. CASE p = r \/ t = r BY <1>1, <2>1 DEF LocksBatch
    <2>2. CASE p # r /\ t # r BY <1>1, <2>2 DEF LocksBatch, Exclusive
    <2> QED BY <2>1, <2>2
  <1>2. ASSUME NEW r \in Requests, \A p \in Requests \ {r} : req'[p] = req[p],
               req'[r] # Idle => req[r] # Idle /\ req'[r].batches = req[r].batches
        PROVE  Exclusive'
    BY <1>2 DEF Exclusive, LocksBatch
  <1>3. ASSUME NEW r \in Requests, Begins(r) PROVE Exclusive'
    <2>1. req'[r].batches = {} /\ \A p \in Requests \ {r} : req'[p] = req[p]
          BY <1>3, BeginStep DEF Begins
    <2> QED BY <1>1, <2>1 DEF LocksBatch
  <1>4. ASSUME NEW r \in Requests, SaveBatch(r) PROVE Exclusive'
    <2> PICK q : q = req[r] OBVIOUS
    <2> PICK c : c = q.line.row[2] OBVIOUS
    <2>1. q \in Transactions /\ q # Idle BY <1>4, SaveBatchFields
    <2>4. req'[r].batches = q.batches \cup {c} /\ \A p \in Requests \ {r} : req'[p] = req[p]
          BY <1>4, SaveBatchFields
    <2>5. \A p \in Requests \ {r} : ~LocksBatch(p, c) BY <1>4 DEF SaveBatch, BatchFree
    <2>6. ASSUME NEW b \in Batches, LocksBatch(r, b)', NEW p \in Requests \ {r}
          PROVE  ~LocksBatch(p, b)
      <3>1. CASE b = c BY <2>5, <3>1
      <3>2. CASE b # c
        <4>1. LocksBatch(r, b) BY <2>1, <2>4, <2>6, <3>2 DEF LocksBatch
        <4> QED BY <4>1 DEF Exclusive
      <3> QED BY <3>1, <3>2
    <2> QED BY <1>1, <2>4, <2>6
  <1>5. ASSUME NEW r \in Requests, Between(r), ~SaveBatch(r) PROVE Exclusive'
    BY <1>2, <1>5 DEF Between
  <1>6. ASSUME NEW r \in Requests, WriteRow(r) PROVE Exclusive'
    BY <1>2, <1>6, WriteRowStep
  <1>7. ASSUME NEW r \in Requests, Commit(r) \/ Rollback(r) PROVE Exclusive'
    <2>1. req'[r] = Idle /\ \A p \in Requests \ {r} : req'[p] = req[p]
          BY <1>7 DEF Commit, Rollback, TypeOK
    <2> QED BY <1>2, <2>1
  <1>8. CASE UNCHANGED vars
    BY <1>8 DEF vars, Exclusive, LocksBatch
  <1> QED BY <1>3, <1>4, <1>5, <1>6, <1>7, <1>8, NextCases, CallsBegin, BetweenSteps

(* A row that is not unlocked after the step was not unlocked before it.   *)
LEMMA UnlockedGrows ==
    ASSUME TypeOK, [Next]_vars
    PROVE  unlocked \subseteq unlocked'
  <1>1. ASSUME NEW r \in Requests, Begins(r) PROVE unlocked' = unlocked
    BY <1>1, BeginStep DEF Begins
  <1>2. ASSUME NEW r \in Requests, ReadRow(r) PROVE unlocked \subseteq unlocked'
    BY <1>2 DEF ReadRow
  <1>3. ASSUME NEW r \in Requests,
               \/ \E x \in Rows : NextRow(r, x)
               \/ SecondLine(r) \/ SaveBatch(r) \/ WriteRow(r) \/ Commit(r) \/ Rollback(r)
        PROVE  unlocked' = unlocked
    BY <1>3 DEF NextRow, SecondLine, SaveBatch, WriteRow, Commit, Rollback, history
  <1>4. CASE UNCHANGED vars BY <1>4 DEF vars, history
  <1> QED BY <1>1, <1>2, <1>3, <1>4, NextCases, CallsBegin DEF Inside

(* The row x of one transaction that takes a step; the other transactions  *)
(* and the committed row stay as they are.                                 *)
LEMMA OwnStep ==
    ASSUME TypeOK, Locked, NEW r \in Requests, NEW x \in Rows \ unlocked,
           \A p \in Requests \ {r} : req'[p] = req[p],
           UNCHANGED <<stock, moved>>, InStep(r, x)'
    PROVE  stock'[x] = moved'[x] /\ \A p \in Requests : InStep(p, x)'
  <1>1. stock'[x] = moved'[x] BY DEF Locked, BatchLockProtects
  <1>2. ASSUME NEW p \in Requests \ {r} PROVE InStep(p, x)'
    BY <1>2 DEF Locked, InStep
  <1> QED BY <1>1, <1>2

LEMMA BetweenKeeps ==
    ASSUME TypeOK, Locked, NEW r \in Requests, NEW x \in Rows \ unlocked',
           unlocked \subseteq unlocked', Between(r)
    PROVE  InStep(r, x)'
  <1> PICK q : q = req[r] OBVIOUS
  <1>1. q \in Transactions /\ q # Idle /\ x \in Rows \ unlocked
        BY BusyReq DEF Between
  <1>2. InStep(r, x) BY <1>1 DEF Locked
  <1>3. /\ x \in req'[r].rows => /\ x[2] \in req'[r].batches
                                 /\ req'[r].stock[x] = stock'[x] + req'[r].moved[x]
        /\ x \notin req'[r].rows => req'[r].moved[x] = 0
        BY <1>1, <1>2 DEF Between, InStep
  <1>4. ASSUME req'[r].pc = "write", req'[r].line.row = x
        PROVE  /\ x[2] \in req'[r].batches
               /\ req'[r].read = IF x \in req'[r].rows THEN req'[r].stock[x] ELSE stock'[x]
    <2>1. ReadRow(r) BY <1>4 DEF Between
    <2> PICK y : y = q.line.row OBVIOUS
    <2> PICK v : v = (IF LocksRow(r, y) THEN q.stock[y] ELSE stock[y]) OBVIOUS
    <2> PICK new : new = [q EXCEPT !.pc = "write", !.read = v] OBVIOUS
    <2>2. req' = [req EXCEPT ![r] = new] BY <2>1 DEF ReadRow
    <2>3. new.line = q.line /\ new.read = v /\ new.batches = q.batches
          BY <1>1 DEF Transactions
    <2>4. req'[r] = new BY <2>2 DEF TypeOK
    <2>5. y = x BY <1>4, <2>3, <2>4
    <2>6. LocksBatch(r, x[2])
          BY <2>1, <2>5 DEF ReadRow
    <2>7. x[2] \in req'[r].batches BY <2>3, <2>4, <2>6 DEF LocksBatch
    <2>8. req'[r].read = IF x \in q.rows THEN q.stock[x] ELSE stock[x]
          BY <1>1, <2>3, <2>4, <2>5 DEF LocksRow
    <2> QED BY <2>7, <2>8 DEF Between
  <1> QED BY <1>3, <1>4 DEF InStep

LEMMA WriteRowKeeps ==
    ASSUME TypeOK, Locked, NEW r \in Requests, NEW x \in Rows \ unlocked, WriteRow(r)
    PROVE  InStep(r, x)'
  <1> PICK q : q = req[r] OBVIOUS
  <1> PICK y : y = q.line.row OBVIOUS
  <1> PICK by : by = q.line.by OBVIOUS
  <1> PICK v : v = q.read + by OBVIOUS
  <1>1. /\ q \in Transactions /\ q # Idle /\ y \in Rows /\ v \in Int /\ by \in Int
        /\ req'[r].rows = q.rows \cup {y} /\ req'[r].pc = "pick"
        /\ req'[r].batches = q.batches
        /\ req'[r].stock = [q.stock EXCEPT ![y] = v]
        /\ req'[r].moved = [q.moved EXCEPT ![y] = q.moved[y] + by]
        /\ UNCHANGED <<stock, moved>>
        BY WriteRowStep
  <1>2. InStep(r, x) BY DEF Locked
  <1>3. q.stock \in [Rows -> Int] /\ q.moved \in [Rows -> Int] /\ stock[x] \in Int
        BY <1>1 DEF Transactions, TypeOK
  <1>4. CASE x # y
    <2>1. req'[r].stock[x] = q.stock[x] /\ req'[r].moved[x] = q.moved[x]
          BY <1>1, <1>3, <1>4
    <2>2. x \in req'[r].rows <=> x \in q.rows BY <1>1, <1>4
    <2> QED BY <1>1, <1>2, <2>1, <2>2 DEF InStep
  <1>5. CASE x = y
    <2>1. q.pc = "write" BY DEF WriteRow
    <2>2. /\ x[2] \in q.batches
          /\ q.read = IF x \in q.rows THEN q.stock[x] ELSE stock[x]
          BY <1>1, <1>2, <1>5, <2>1 DEF InStep
    <2>3. q.read = stock[x] + q.moved[x]
          BY <1>1, <1>2, <1>3, <2>2 DEF InStep
    <2>4. req'[r].stock[x] = q.read + by /\ req'[r].moved[x] = q.moved[x] + by
          BY <1>1, <1>3, <1>5
    <2>5. req'[r].stock[x] = stock'[x] + req'[r].moved[x]
          BY <1>1, <1>3, <2>3, <2>4
    <2> QED BY <1>1, <1>5, <2>2, <2>5 DEF InStep
  <1> QED BY <1>4, <1>5

(* A commit moves what r has written of a row to the table.  Another       *)
(* transaction has not touched the row: it would hold the batch.           *)
LEMMA CommitKeeps ==
    ASSUME TypeOK, Locked, NEW r \in Requests, NEW x \in Rows \ unlocked, Commit(r)
    PROVE  stock'[x] = moved'[x] /\ \A p \in Requests : InStep(p, x)'
  <1>1. req[r] \in Transactions /\ req[r] # Idle BY PcBusy DEF Commit
  <1>2. stock'[x] = IF x \in req[r].rows THEN req[r].stock[x] ELSE stock[x]
        BY DEF Commit
  <1>3. moved'[x] = moved[x] + req[r].moved[x] BY DEF Commit
  <1>4. InStep(r, x) /\ stock[x] = moved[x] BY DEF Locked, BatchLockProtects
  <1>5. stock[x] \in Int /\ moved[x] \in Int /\ req[r].moved[x] \in Int
        BY <1>1 DEF TypeOK, Transactions
  <1>6. stock'[x] = moved'[x] BY <1>1, <1>2, <1>3, <1>4, <1>5 DEF InStep
  <1>7. req'[r] = Idle /\ \A p \in Requests \ {r} : req'[p] = req[p]
        BY DEF Commit, TypeOK
  <1>8. InStep(r, x)' BY <1>7 DEF InStep
  <1>9. ASSUME NEW p \in Requests \ {r} PROVE InStep(p, x)'
    <2>1. req'[p] = req[p] /\ InStep(p, x) BY <1>7 DEF Locked
    <2>2. CASE x \in req[r].rows
      <3>1. LocksBatch(r, x[2]) /\ x[2] \in Batches
            BY <1>1, <1>4, <2>2, RowParts DEF InStep, LocksBatch
      <3>2. ~LocksBatch(p, x[2]) BY <3>1 DEF Locked, Exclusive
      <3> QED BY <2>1, <3>2 DEF InStep, LocksBatch
    <2>3. CASE x \notin req[r].rows
      BY <1>2, <2>1, <2>3 DEF InStep
    <2> QED BY <2>2, <2>3
  <1> QED BY <1>6, <1>8, <1>9

LEMMA LockedNext == TypeOK /\ Locked /\ [Next]_vars => Locked'
  <1> SUFFICES ASSUME TypeOK, Locked, [Next]_vars PROVE Locked'
      OBVIOUS
  <1>1. Exclusive' BY ExclusiveNext DEF Locked
  <1>2. unlocked \subseteq unlocked' BY UnlockedGrows
  <1> SUFFICES ASSUME NEW x \in Rows \ unlocked'
               PROVE  stock'[x] = moved'[x] /\ \A p \in Requests : InStep(p, x)'
      BY <1>1 DEF Locked, BatchLockProtects
  <1> DEFINE Goal == stock'[x] = moved'[x] /\ \A p \in Requests : InStep(p, x)'
  <1>3. x \in Rows \ unlocked BY <1>2
  <1>4. ASSUME NEW r \in Requests, Begins(r) PROVE Goal
    <2>1. /\ \A p \in Requests \ {r} : req'[p] = req[p]
          /\ req'[r].rows = {} /\ req'[r].pc # "write" /\ req'[r].moved[x] = 0
          /\ UNCHANGED <<stock, moved>>
          BY <1>4, BeginStep DEF Begins
    <2>2. InStep(r, x)' BY <2>1 DEF InStep
    <2> QED BY <1>3, <2>1, <2>2, OwnStep
  <1>5. ASSUME NEW r \in Requests, Between(r) PROVE Goal
    BY <1>2, <1>3, <1>5, BetweenKeeps, OwnStep DEF Between
  <1>6. ASSUME NEW r \in Requests, WriteRow(r) PROVE Goal
    BY <1>3, <1>6, WriteRowKeeps, WriteRowStep, OwnStep
  <1>7. ASSUME NEW r \in Requests, Commit(r) PROVE Goal
    BY <1>3, <1>7, CommitKeeps
  <1>8. ASSUME NEW r \in Requests, Rollback(r) PROVE Goal
    <2>1. /\ req'[r] = Idle /\ \A p \in Requests \ {r} : req'[p] = req[p]
          /\ UNCHANGED <<stock, moved>>
          BY <1>8 DEF Rollback, TypeOK, table
    <2>2. InStep(r, x)' BY <2>1 DEF InStep
    <2> QED BY <1>3, <2>1, <2>2, OwnStep
  <1>9. CASE UNCHANGED vars
    BY <1>3, <1>9 DEF vars, table, Locked, BatchLockProtects, InStep
  <1> QED BY <1>4, <1>5, <1>6, <1>7, <1>8, <1>9, NextCases, CallsBegin, BetweenSteps

(* A balance row is the sum of its movements as long as every transaction  *)
(* that updated it had saved, and so locked, the batch before it read it.  *)
THEOREM NoLostUpdateUnderTheLock == Spec => []BatchLockProtects
  <1>1. Locked => BatchLockProtects BY DEF Locked
  <1> QED BY <1>1, TypeInit, TypeNext, LockedInit, LockedNext, PTL DEF Spec

----------------------------------------------------------------------------
(* What a line does to batch b, while its row is still to be written, and  *)
(* while its batch is saved and its row is not.                            *)
On(line, b) == IF line.row[2] = b THEN line.by ELSE 0
Pending(q, b) == IF q.pc = "pick" THEN 0 ELSE On(q.line, b)
Saved(q, b) == IF q.pc \in {"read", "write"} THEN On(q.line, b) ELSE 0

(* A transfer holds no batch: what it takes from one it gives back.        *)
Transfers(q) ==
    /\ q.held = {} /\ q.pc # "batch"
    /\ \/ q.also = {} /\ \A b \in Batches : Total(q.moved, b) + Pending(q, b) = 0
       \/ \E line \in q.also :
             /\ q.also = {line}
             /\ \A b \in Batches : Total(q.moved, b) + Pending(q, b) + On(line, b) = 0

(* Any other transaction moves only batches it has saved.                  *)
Holds(q) ==
    /\ q.also = {}
    /\ q.pc # "pick" => q.line.row[2] \in q.held
    /\ q.pc \in {"read", "write"} => q.line.row[2] \in q.batches
    /\ \A b \in Batches \ q.batches : Total(q.moved, b) = 0

(* It has loaded what is stored, and will save that and what it moves.     *)
Loaded(q) ==
    /\ \A b \in q.held \ crossed : q.loaded[b] = remaining[b]
    /\ \A b \in q.batches \ (crossed \cup split) :
          q.saved[b] = remaining[b] + Total(q.moved, b) + Saved(q, b)

Accounts(q) ==
    /\ q.batches \subseteq q.held /\ \A x \in Left(q) : x[2] \in q.held
    /\ Transfers(q) \/ Holds(q)
    /\ Loaded(q)

(* Two transactions in progress hold a batch only if it is crossed.        *)
Sole ==
    \A r, p \in Requests, b \in Batches :
        req[r] # Idle /\ req[p] # Idle /\ b \in req[r].held \cap req[p].held => r = p \/ b \in crossed

Accounted ==
    /\ Sole
    /\ RemainingIsMoved
    /\ \A r \in Requests : req[r] # Idle => Accounts(req[r])

(* The total of a batch is zero where nothing moved.                       *)
LEMMA TotalNothing ==
    ASSUME NEW f, NEW b \in Batches, \A x \in Rows : f[x] = 0
    PROVE  Total(f, b) = 0
  <1> DEFINE F == [p \in Places |-> f[<<p, b>>]]
  <1>1. \A p \in Places : F[p] = 0 BY DEF Rows
  <1> HIDE DEF F
  <1>2. Sum(F, Places) = 0 BY <1>1, SumZero, StockAssumption
  <1> QED BY <1>2 DEF Total, F

(* One more movement of row x. *)
LEMMA TotalChange ==
    ASSUME NEW f \in [Rows -> Int], NEW x \in Rows, NEW n \in Int, NEW b \in Batches
    PROVE  Total([f EXCEPT ![x] = f[x] + n], b) = Total(f, b) + (IF x[2] = b THEN n ELSE 0)
  <1> DEFINE g == [f EXCEPT ![x] = f[x] + n]
             F == [p \in Places |-> f[<<p, b>>]]
             G == [p \in Places |-> g[<<p, b>>]]
  <1>1. x[1] \in Places /\ x = <<x[1], x[2]>> BY DEF Rows
  <1>2. \A p \in Places : <<p, b>> \in Rows /\ F[p] = f[<<p, b>>] /\ G[p] = g[<<p, b>>]
        BY DEF Rows
  <1>3. \A p \in Places : F[p] \in Int BY <1>2
  <1>6. \A p \in Places : p # x[1] \/ x[2] # b => G[p] = F[p]
    <2>1. ASSUME NEW p \in Places, p # x[1] \/ x[2] # b PROVE G[p] = F[p]
      <3>1. <<p, b>> # x BY <1>1, <2>1
      <3>2. g[<<p, b>>] = f[<<p, b>>] BY <1>2, <3>1
      <3> HIDE DEF F, G, g
      <3> QED BY <1>2, <3>2
    <2> HIDE DEF F, G
    <2> QED BY <2>1
  <1>4. CASE x[2] = b
    <2>1. G[x[1]] = F[x[1]] + n BY <1>1, <1>2, <1>4
    <2>2. \A p \in Places \ {x[1]} : G[p] = F[p] BY <1>6
    <2> HIDE DEF F, G
    <2>3. Sum(G, Places) = Sum(F, Places) + (G[x[1]] - F[x[1]])
          BY <1>1, <1>3, <2>1, <2>2, SumChange, StockAssumption
    <2>4. Sum(F, Places) \in Int BY <1>3, SumInt, StockAssumption
    <2> QED BY <1>1, <1>3, <1>4, <2>1, <2>3, <2>4 DEF Total, F, G
  <1>5. CASE x[2] # b
    <2>1. \A p \in Places : G[p] = F[p] BY <1>5, <1>6
    <2> HIDE DEF F, G
    <2>2. Sum(G, Places) = Sum(F, Places)
          BY <1>3, <2>1, SumSame, StockAssumption
    <2>3. Sum(F, Places) \in Int BY <1>3, SumInt, StockAssumption
    <2> QED BY <1>5, <2>2, <2>3 DEF Total, F, G
  <1> QED BY <1>4, <1>5

(* A transaction's movements join the committed ones. *)
LEMMA TotalAdd ==
    ASSUME NEW f \in [Rows -> Int], NEW d \in [Rows -> Int], NEW h, NEW b \in Batches,
           \A x \in Rows : h[x] = f[x] + d[x]
    PROVE  Total(h, b) = Total(f, b) + Total(d, b)
  <1> DEFINE F == [p \in Places |-> f[<<p, b>>]]
             D == [p \in Places |-> d[<<p, b>>]]
             H == [p \in Places |-> h[<<p, b>>]]
  <1>1. \A p \in Places : F[p] \in Int /\ D[p] \in Int /\ H[p] = F[p] + D[p]
        BY DEF Rows
  <1> HIDE DEF F, D, H
  <1>2. Sum(H, Places) = Sum(F, Places) + Sum(D, Places)
        BY <1>1, SumAdd, StockAssumption
  <1> QED BY <1>2 DEF Total, F, D, H

(* Nothing has moved and no transaction is open at first.                  *)
LEMMA AccountedInit == Init => Accounted
  BY DEF Init, Accounted, Sole, RemainingIsMoved

(* A step of r that commits nothing keeps the accounts of the others.      *)
LEMMA AccountedFrame ==
    ASSUME TypeOK, Accounted, NEW r \in Requests,
           \A p \in Requests \ {r} : req'[p] = req[p],
           UNCHANGED <<remaining, moved>>, crossed \subseteq crossed', split \subseteq split',
           req'[r] # Idle =>
              /\ Accounts(req[r])'
              /\ \A b \in req'[r].held, p \in Requests \ {r} :
                    req[p] # Idle /\ b \in req[p].held => b \in crossed'
    PROVE  Accounted'
  <1>1. Sole' BY DEF Accounted, Sole
  <1>2. RemainingIsMoved'
    <2>1. \A b \in Batches \ (crossed' \cup split') : remaining[b] = Total(moved, b)
          BY DEF Accounted, RemainingIsMoved
    <2> QED BY <2>1 DEF RemainingIsMoved, Total
  <1>3. ASSUME NEW p \in Requests, req'[p] # Idle PROVE Accounts(req[p])'
    <2>1. CASE p = r BY <1>3, <2>1
    <2>2. CASE p # r
      <3>1. req'[p] = req[p] BY <2>2
      <3>2. Accounts(req[p]) BY <1>3, <3>1 DEF Accounted
      <3>3. Loaded(req[p])' BY <3>1, <3>2 DEF Accounts, Loaded, Saved
      <3> QED BY <3>1, <3>2, <3>3 DEF Accounts, Transfers, Holds, Left, Pending
    <2> QED BY <2>1, <2>2
  <1> QED BY <1>1, <1>2, <1>3 DEF Accounted

(* The transaction an operation begins, and whom it finds.                 *)
Began(r, pc, line, also, held, todo, left) ==
    /\ req[r] = Idle
    /\ req'[r].pc = pc /\ req'[r].line = line /\ req'[r].also = also
    /\ req'[r].held = held /\ req'[r].todo = todo /\ req'[r].left = left
    /\ req'[r].batches = {} /\ req'[r].rows = {}
    /\ \A b \in held : req'[r].loaded[b] = remaining[b]
    /\ \A x \in Rows : req'[r].moved[x] = 0
    /\ \A p \in Requests \ {r} : req'[p] = req[p]
    /\ crossed \subseteq crossed' /\ split' = split
    /\ \A b \in held, p \in Requests : req[p] # Idle /\ b \in req[p].held => b \in crossed'
    /\ UNCHANGED <<stock, remaining, moved, unlocked>>

LEMMA BeginFields ==
    ASSUME TypeOK, NEW r \in Requests, NEW pc, NEW line, NEW also, NEW held \in SUBSET Batches,
           NEW todo, NEW left, Begin(r, pc, line, also, held, todo, left)
    PROVE  Began(r, pc, line, also, held, todo, left)
  <1> PICK new : new = [pc |-> pc, line |-> line, also |-> also, todo |-> todo, left |-> left,
                  held |-> held, loaded |-> [b \in Batches |-> IF b \in held THEN remaining[b] ELSE 0],
                  read |-> 0, batches |-> {}, rows |-> {}, saved |-> Nothing(Batches),
                  stock |-> Nothing(Rows), moved |-> Nothing(Rows)]
      OBVIOUS
  <1>1. req' = [req EXCEPT ![r] = new] BY DEF Begin
  <1>2. req'[r] = new /\ \A p \in Requests \ {r} : req'[p] = req[p] BY <1>1 DEF TypeOK
  <1>3. \A b \in held : new.loaded[b] = remaining[b] OBVIOUS
  <1>4. \A x \in Rows : new.moved[x] = 0 BY DEF Nothing
  <1>5. /\ new.pc = pc /\ new.line = line /\ new.also = also /\ new.held = held
        /\ new.todo = todo /\ new.left = left /\ new.batches = {} /\ new.rows = {}
        OBVIOUS
  <1>6. req[r] = Idle /\ UNCHANGED <<stock, remaining, moved, unlocked>> BY DEF Begin, table
  <1>7. /\ crossed \subseteq crossed' /\ split' = split
        /\ \A b \in held, p \in Requests : req[p] # Idle /\ b \in req[p].held => b \in crossed'
        BY DEF Begin
  <1> QED BY <1>2, <1>3, <1>4, <1>5, <1>6, <1>7 DEF Began

(* An operation with a batch of its own, or with two lines of one batch.   *)
LEMMA AccountedBegin ==
    ASSUME TypeOK, Accounted, NEW r \in Requests, NEW pc, NEW line \in Lines, NEW also,
           NEW held \in SUBSET Batches, NEW todo, NEW left,
           Begin(r, pc, line, also, held, todo, left),
           \A x \in Rows : todo[x] > 0 => x[2] \in held,
           \/ also = {} /\ pc \in {"pick", "batch"} /\ (pc = "batch" => line.row[2] \in held)
           \/ /\ held = {} /\ pc = "read"
              /\ \E second \in Lines : /\ also = {second} /\ second.row[2] = line.row[2]
                                       /\ second.by = -line.by
    PROVE  Accounted'
  <1> PICK q : q = req'[r] OBVIOUS
  <1>0. Began(r, pc, line, also, held, todo, left) BY BeginFields
  <1>1. /\ q.pc = pc /\ q.line = line /\ q.also = also /\ q.held = held /\ q.todo = todo
        /\ q.batches = {} /\ \A b \in held : q.loaded[b] = remaining[b]
        /\ \A x \in Rows : q.moved[x] = 0
        /\ \A p \in Requests \ {r} : req'[p] = req[p]
        /\ crossed \subseteq crossed' /\ split' = split
        /\ \A b \in held, p \in Requests : req[p] # Idle /\ b \in req[p].held => b \in crossed'
        /\ UNCHANGED <<remaining, moved>>
        BY <1>0 DEF Began
  <1>2. \A b \in Batches : Total(q.moved, b) = 0 BY <1>1, TotalNothing
  <1>3. q.batches \subseteq q.held /\ \A x \in Left(q) : x[2] \in q.held BY <1>1 DEF Left
  <1>4. line.by \in Int BY DEF Lines
  <1>5. Transfers(q) \/ Holds(q)
    <2>1. CASE also = {} /\ pc \in {"pick", "batch"} /\ (pc = "batch" => line.row[2] \in held)
      BY <1>1, <1>2, <2>1 DEF Holds
    <2>2. CASE /\ held = {} /\ pc = "read"
               /\ \E second \in Lines : /\ also = {second} /\ second.row[2] = line.row[2]
                                        /\ second.by = -line.by
      <3>1. PICK second \in Lines : /\ also = {second} /\ second.row[2] = line.row[2]
                                    /\ second.by = -line.by
            BY <2>2
      <3>2. \A b \in Batches : Total(q.moved, b) + Pending(q, b) + On(second, b) = 0
            BY <1>1, <1>2, <1>4, <2>2, <3>1 DEF Pending, On
      <3> QED BY <1>1, <2>2, <3>1, <3>2 DEF Transfers
    <2> QED BY <2>1, <2>2
  <1>7. Accounts(req[r])'
    <2>1. Loaded(req[r])' BY <1>1 DEF Loaded
    <2> QED BY <1>3, <1>5, <2>1 DEF Accounts, Transfers, Holds, Left, Pending
  <1>8. \A b \in q.held, p \in Requests \ {r} :
           req[p] # Idle /\ b \in req[p].held => b \in crossed'
        BY <1>1
  <1> QED BY <1>1, <1>7, <1>8, AccountedFrame

LEMMA AccountedBegins == ASSUME TypeOK, Accounted, NEW r \in Requests, Called(r) PROVE Accounted'
  <1>1. \A n \in Quantities : n \in Int /\ -n \in Int BY StockAssumption
  <1>2. \A x \in Rows, n \in Int :
           Change(x, n) \in Lines /\ Change(x, n).row = x /\ x[2] \in Batches
        BY RowParts DEF Change, Lines
  <1>3. \A x \in Rows : ~(Nothing(Rows)[x] > 0) BY DEF Nothing
  <1>4. ASSUME NEW x \in Rows, NEW m \in Int,
               Begin(r, "batch", Change(x, m), {}, {x[2]}, Nothing(Rows), 0)
        PROVE  Accounted'
    <2>1. {x[2]} \in SUBSET Batches BY <1>2
    <2> QED BY <1>2, <1>3, <1>4, <2>1, AccountedBegin
  <1>5. ASSUME NEW n \in Quantities, NEW x \in Rows, ReceiveStock(r, x, n) PROVE Accounted'
        BY <1>1, <1>4, <1>5 DEF ReceiveStock
  <1>6. ASSUME NEW n \in Quantities, NEW x \in Rows, AdjustStock(r, x, n) PROVE Accounted'
        BY <1>1, <1>4, <1>6 DEF AdjustStock
  <1>7. ASSUME NEW n \in Quantities, NEW w \in Warehouses, IssueStock(r, w, n) PROVE Accounted'
    <2> DEFINE found == {x \in Rows : WarehouseOf[x[1]] = w /\ stock[x] > 0}
               held == {y[2] : y \in found}
               todo == [y \in Rows |-> IF y \in found THEN stock[y] ELSE 0]
    <2>1. held \in SUBSET Batches BY RowParts
    <2>2. \A x \in Rows : todo[x] > 0 => x[2] \in held OBVIOUS
    <2>3. PICK x \in found : Begin(r, "pick", Change(x, 0), {}, held, todo, n)
          BY <1>7 DEF IssueStock
    <2>4. Change(x, 0) \in Lines BY <1>2
    <2> HIDE DEF held, todo, found
    <2> QED BY <2>1, <2>2, <2>3, <2>4, AccountedBegin
  <1>8. ASSUME NEW n \in Quantities, NEW x \in Rows, NEW to \in Places, TransferStock(r, x, to, n)
        PROVE  Accounted'
    <2> PICK line : line = [row |-> x, by |-> -n, batch |-> FALSE] OBVIOUS
    <2> PICK second : second = [row |-> <<to, x[2]>>, by |-> n, batch |-> FALSE] OBVIOUS
    <2>1. line \in Lines /\ second \in Lines BY <1>1, RowParts DEF Lines, Rows
    <2>2. Begin(r, "read", line, {second}, {}, Nothing(Rows), 0)
          BY <1>8 DEF TransferStock
    <2>3. second.row[2] = line.row[2] /\ second.by = -line.by BY <1>1
    <2>4. {} \in SUBSET Batches OBVIOUS
    <2> QED BY <1>3, <2>1, <2>2, <2>3, <2>4, AccountedBegin
  <1> QED BY <1>5, <1>6, <1>7, <1>8 DEF Called

(* The accounts of the transaction that takes a step.                      *)
LEMMA AccountsStep ==
    ASSUME TypeOK, Accounted, NEW r \in Requests, Inside(r)
    PROVE  Accounts(req[r])'
  <1> PICK q : q = req[r] OBVIOUS
  <1> PICK n : n = req'[r] OBVIOUS
  <1>1. /\ q \in Transactions /\ q # Idle
        /\ n.held = q.held /\ UNCHANGED <<remaining, crossed>> /\ split \subseteq split'
        BY StepFields
  <1>2. /\ q.batches \subseteq q.held /\ \A x \in Left(q) : x[2] \in q.held
        /\ Transfers(q) \/ Holds(q)
        /\ \A b \in q.held \ crossed : q.loaded[b] = remaining[b]
        /\ \A b \in q.batches \ (crossed \cup split) :
              q.saved[b] = remaining[b] + Total(q.moved, b) + Saved(q, b)
        BY <1>1 DEF Accounted, Accounts, Loaded
  <1>3. /\ q.held \subseteq Batches /\ q.line.by \in Int /\ q.line.row[2] \in Batches
        /\ q.todo \in [Rows -> Int] /\ q.saved \in [Batches -> Int]
        /\ q.loaded \in [Batches -> Int]
        BY <1>1, RowParts DEF Transactions, Lines
  <1>4. \A b \in Batches : Total(q.moved, b) \in Int /\ remaining[b] \in Int
        BY <1>1, TotalInt DEF Transactions, TypeOK
  <1> DEFINE Saves == \A b \in n.batches \ (crossed \cup split') :
                         n.saved[b] = remaining[b] + Total(n.moved, b) + Saved(n, b)
             Goal == /\ n.batches \subseteq n.held /\ \A x \in Left(n) : x[2] \in n.held
                     /\ Transfers(n) \/ Holds(n)
                     /\ n.loaded = q.loaded /\ Saves
  <1>5. ASSUME NEW x \in Rows, NextRow(r, x) PROVE Goal
    <2> PICK take : take = (IF q.todo[x] <= q.left THEN q.todo[x] ELSE q.left) OBVIOUS
    <2>1. /\ q.pc = "pick" /\ x \in Left(q)
          /\ n.pc = "batch" /\ n.line = Change(x, -take)
          /\ n.todo = [q.todo EXCEPT ![x] = 0]
          /\ n.also = q.also /\ n.loaded = q.loaded /\ n.saved = q.saved
          /\ n.batches = q.batches /\ n.moved = q.moved
          BY <1>5, NextRowFields
    <2>2. Left(n) \subseteq Left(q) BY <1>3, <2>1 DEF Left
    <2>3. n.line.row = x /\ x[2] \in q.held BY <1>2, <2>1 DEF Change
    <2>4. Holds(q) BY <1>2, <2>3 DEF Transfers
    <2>5. Holds(n) BY <1>1, <2>1, <2>3, <2>4 DEF Holds
    <2>6. \A c \in Batches : Saved(n, c) = 0 /\ Saved(q, c) = 0 BY <2>1 DEF Saved
    <2>7. Saves BY <1>1, <1>2, <1>3, <2>1, <2>6
    <2> QED BY <1>1, <1>2, <2>1, <2>2, <2>5, <2>7
  <1>6. ASSUME SecondLine(r) PROVE Goal
    <2>1. /\ q.pc = "pick" /\ n.pc = "read" /\ n.line \in q.also /\ n.also = {}
          /\ n.todo = q.todo /\ n.loaded = q.loaded /\ n.saved = q.saved
          /\ n.batches = q.batches /\ n.moved = q.moved
          BY <1>6, SecondLineFields
    <2>2. Transfers(q) BY <1>2, <2>1 DEF Holds
    <2>3. n.line \in Lines BY <1>1, <2>1 DEF Transactions
    <2>4. \A b \in Batches : Total(q.moved, b) + On(n.line, b) = 0
          BY <1>4, <2>1, <2>2 DEF Transfers, Pending
    <2>5. \A b \in Batches : Total(n.moved, b) + Pending(n, b) = 0
          BY <2>1, <2>4 DEF Pending
    <2>6. Transfers(n) BY <1>1, <2>1, <2>2, <2>5 DEF Transfers
    <2>7. q.held = {} /\ q.batches = {} BY <1>2, <2>2 DEF Transfers
    <2>8. Saves BY <2>1, <2>7
    <2> QED BY <1>1, <1>2, <2>1, <2>6, <2>8 DEF Left
  <1>7. ASSUME SaveBatch(r) PROVE Goal
    <2> PICK b : b = q.line.row[2] OBVIOUS
    <2>1. /\ q.pc = "batch" /\ n.pc = "read"
          /\ n.saved = [q.saved EXCEPT ![b] = q.loaded[b] + q.line.by]
          /\ n.batches = q.batches \cup {b} /\ n.loaded = q.loaded
          /\ n.line = q.line /\ n.also = q.also /\ n.todo = q.todo /\ n.moved = q.moved
          /\ split' = IF b \in q.batches THEN split \cup {b} ELSE split
          BY <1>7, SaveBatchFields
    <2>2. Holds(q) BY <1>2, <2>1 DEF Transfers
    <2>3. b \in q.held BY <2>1, <2>2 DEF Holds
    <2>4. Holds(n) BY <1>1, <2>1, <2>2, <2>3 DEF Holds
    <2>5. ASSUME NEW c \in n.batches \ (crossed \cup split')
          PROVE  n.saved[c] = remaining[c] + Total(n.moved, c) + Saved(n, c)
      <3>1. c \in Batches /\ b \in Batches BY <1>2, <1>3, <2>1, <2>3, <2>5
      <3>2. CASE c = b
        <4>1. b \notin q.batches BY <2>1, <2>5, <3>2
        <4>2. Total(q.moved, b) = 0 BY <2>2, <3>1, <4>1 DEF Holds
        <4>3. Saved(n, b) = q.line.by BY <2>1 DEF Saved, On
        <4>4. q.loaded[b] = remaining[b] BY <1>2, <2>3, <2>5, <3>2
        <4>5. n.saved[b] = q.loaded[b] + q.line.by BY <1>3, <2>1, <3>1
        <4> QED BY <1>3, <1>4, <2>1, <3>1, <3>2, <4>2, <4>3, <4>4, <4>5
      <3>3. CASE c # b
        <4>1. Saved(n, c) = 0 /\ Saved(q, c) = 0 BY <2>1, <3>3 DEF Saved, On
        <4>2. c \in q.batches \ (crossed \cup split) BY <1>1, <2>1, <2>5, <3>3
        <4>3. n.saved[c] = q.saved[c] BY <1>3, <2>1, <3>1, <3>3
        <4> QED BY <1>2, <2>1, <4>1, <4>2, <4>3
      <3> QED BY <3>2, <3>3
    <2>6. \A x \in Left(n) : x[2] \in n.held BY <1>1, <1>2, <2>1 DEF Left
    <2> QED BY <1>1, <1>2, <2>1, <2>3, <2>4, <2>5, <2>6
  <1>8. ASSUME ReadRow(r) PROVE Goal
    <2>1. /\ q.pc = "read" /\ n.pc = "write"
          /\ n.line = q.line /\ n.also = q.also /\ n.todo = q.todo /\ n.loaded = q.loaded /\ n.saved = q.saved
          /\ n.batches = q.batches /\ n.moved = q.moved
          BY <1>8, ReadRowFields
    <2>2. \A b \in Batches : Pending(n, b) = Pending(q, b) /\ Saved(n, b) = Saved(q, b)
          BY <2>1 DEF Pending, Saved
    <2>3. Transfers(q) => Transfers(n) BY <1>1, <2>1, <2>2 DEF Transfers
    <2>4. Holds(q) => Holds(n) BY <1>1, <2>1 DEF Holds
    <2>5. Saves BY <1>1, <1>2, <1>3, <2>1, <2>2
    <2> QED BY <1>1, <1>2, <2>1, <2>3, <2>4, <2>5 DEF Left
  <1>9. ASSUME WriteRow(r) PROVE Goal
    <2> PICK x : x = q.line.row OBVIOUS
    <2> PICK by : by = q.line.by OBVIOUS
    <2>1. /\ q.pc = "write" /\ n.pc = "pick" /\ x \in Rows
          /\ n.moved = [q.moved EXCEPT ![x] = q.moved[x] + by]
          /\ n.also = q.also /\ n.todo = q.todo /\ n.loaded = q.loaded /\ n.saved = q.saved
          /\ n.batches = q.batches
          BY <1>9, WriteRowFields
    <2>2. q.moved \in [Rows -> Int] BY <1>1 DEF Transactions
    <2>3. \A b \in Batches : Total(n.moved, b) = Total(q.moved, b) + (IF x[2] = b THEN by ELSE 0)
      <3> SUFFICES ASSUME NEW b \in Batches
                   PROVE  Total(n.moved, b) = Total(q.moved, b) + (IF x[2] = b THEN by ELSE 0)
          OBVIOUS
      <3>1. x \in Rows /\ by \in Int BY <1>3, <2>1
      <3>2. Total([q.moved EXCEPT ![x] = q.moved[x] + by], b)
               = Total(q.moved, b) + (IF x[2] = b THEN by ELSE 0)
        BY <2>2, <3>1, TotalChange
      <3> QED BY <2>1, <3>2
    <2>4. \A b \in Batches : /\ Pending(n, b) = 0 /\ Saved(n, b) = 0
                             /\ Pending(q, b) = (IF x[2] = b THEN by ELSE 0)
                             /\ Saved(q, b) = (IF x[2] = b THEN by ELSE 0)
          BY <2>1 DEF Pending, Saved, On
    <2>5. ASSUME Transfers(q) PROVE Transfers(n)
      <3>1. \A b \in Batches : Total(n.moved, b) + Pending(n, b) = Total(q.moved, b) + Pending(q, b)
            BY <1>3, <1>4, <2>3, <2>4
      <3> QED BY <1>1, <2>1, <2>5, <3>1 DEF Transfers
    <2>6. ASSUME Holds(q) PROVE Holds(n)
      <3>1. x[2] \in q.batches BY <2>1, <2>6 DEF Holds
      <3>2. \A b \in Batches \ n.batches : Total(n.moved, b) = 0
            BY <2>1, <2>3, <2>6, <3>1 DEF Holds
      <3> QED BY <1>1, <2>1, <2>6, <3>2 DEF Holds
    <2>7. Saves BY <1>1, <1>2, <1>3, <1>4, <2>1, <2>3, <2>4
    <2> QED BY <1>1, <1>2, <2>1, <2>5, <2>6, <2>7 DEF Left
  <1>10. Goal BY <1>5, <1>6, <1>7, <1>8, <1>9 DEF Inside
  <1>11. Loaded(req[r])' BY <1>1, <1>2, <1>10 DEF Loaded, Saved
  <1> QED BY <1>10, <1>11 DEF Accounts, Transfers, Holds, Left, Pending

(* A commit stores what the transaction had loaded and what it has moved.  *)
LEMMA AccountedCommit ==
    ASSUME TypeOK, Accounted, NEW r \in Requests, Commit(r)
    PROVE  Accounted'
  <1> PICK q : q = req[r] OBVIOUS
  <1>1. q \in Transactions /\ q # Idle BY PcBusy DEF Commit
  <1>2. q.pc = "pick" /\ q.also = {} BY DEF Commit
  <1>3. \A b \in Batches : remaining'[b] = IF b \in q.batches THEN q.saved[b] ELSE remaining[b]
        BY DEF Commit
  <1>4. \A x \in Rows : moved'[x] = moved[x] + q.moved[x] BY DEF Commit
  <1>5. /\ req'[r] = Idle /\ \A p \in Requests \ {r} : req'[p] = req[p]
        /\ UNCHANGED <<crossed, split>>
        BY DEF Commit, TypeOK, history
  <1>6. /\ q.batches \subseteq q.held
        /\ Transfers(q) \/ Holds(q)
        /\ \A b \in q.batches \ (crossed \cup split) :
              q.saved[b] = remaining[b] + Total(q.moved, b) + Saved(q, b)
        BY <1>1 DEF Accounted, Accounts, Loaded
  <1>7. moved \in [Rows -> Int] /\ q.moved \in [Rows -> Int]
        BY <1>1 DEF TypeOK, Transactions
  <1>8. \A b \in Batches : /\ Total(moved', b) = Total(moved, b) + Total(q.moved, b)
                           /\ Total(moved, b) \in Int /\ Total(q.moved, b) \in Int
                           /\ remaining[b] \in Int
    <2>1. \A b \in Batches : Total(moved', b) = Total(moved, b) + Total(q.moved, b)
          BY <1>4, <1>7, TotalAdd
    <2>2. \A b \in Batches : Total(moved, b) \in Int /\ Total(q.moved, b) \in Int
          BY <1>7, TotalInt
    <2>3. \A b \in Batches : remaining[b] \in Int BY DEF TypeOK
    <2> QED BY <2>1, <2>2, <2>3
  <1>9. \A b \in Batches \ q.batches : Total(q.moved, b) = 0
        BY <1>2, <1>6, <1>8 DEF Transfers, Holds, Pending
  <1>10. ASSUME NEW b \in Batches \ (crossed \cup split) PROVE remaining'[b] = Total(moved', b)
    <2>1. remaining[b] = Total(moved, b) BY <1>10 DEF Accounted, RemainingIsMoved
    <2>2. CASE b \in q.batches
      <3>1. Saved(q, b) = 0 BY <1>2 DEF Saved
      <3> QED BY <1>3, <1>6, <1>8, <1>10, <2>1, <2>2, <3>1
    <2>3. CASE b \notin q.batches BY <1>3, <1>8, <1>9, <1>10, <2>1, <2>3
    <2> QED BY <2>2, <2>3
  <1>11. RemainingIsMoved' BY <1>5, <1>10 DEF RemainingIsMoved
  <1>12. Sole' BY <1>5 DEF Accounted, Sole
  <1>13. ASSUME NEW p \in Requests, req'[p] # Idle PROVE Accounts(req[p])'
    <2>1. p # r /\ req'[p] = req[p] /\ req[p] # Idle BY <1>5, <1>13
    <2>2. Accounts(req[p]) BY <2>1 DEF Accounted
    <2>3. ASSUME NEW b \in req[p].held \ crossed PROVE remaining'[b] = remaining[b]
      <3>1. b \in Batches BY <2>1, <2>3, BusyReq DEF Transactions
      <3>2. b \notin q.held BY <1>1, <2>1, <2>3, <3>1 DEF Accounted, Sole
      <3> QED BY <1>3, <1>6, <3>1, <3>2
    <2>4. req[p].batches \subseteq req[p].held BY <2>2 DEF Accounts
    <2>5. Loaded(req[p])' BY <1>5, <2>1, <2>2, <2>3, <2>4 DEF Accounts, Loaded, Saved
    <2> QED BY <2>1, <2>2, <2>5 DEF Accounts, Transfers, Holds, Left, Pending
  <1> QED BY <1>11, <1>12, <1>13 DEF Accounted

LEMMA AccountedNext == TypeOK /\ Accounted /\ [Next]_vars => Accounted'
  <1> SUFFICES ASSUME TypeOK, Accounted, [Next]_vars PROVE Accounted'
      OBVIOUS
  <1>1. ASSUME NEW r \in Requests, Called(r) PROVE Accounted'
    BY <1>1, AccountedBegins
  <1>2. ASSUME NEW r \in Requests, Inside(r) PROVE Accounted'
    <2>1. Accounts(req[r])' BY <1>2, AccountsStep
    <2>2. /\ req[r] # Idle /\ req'[r].held = req[r].held
          /\ \A p \in Requests \ {r} : req'[p] = req[p]
          /\ req[r] \in Transactions
          /\ UNCHANGED <<remaining, moved, crossed>> /\ split \subseteq split'
          BY <1>2, StepFields
    <2>3. ASSUME NEW b \in req'[r].held, NEW p \in Requests \ {r}, req[p] # Idle, b \in req[p].held
          PROVE  b \in crossed'
      <3>1. b \in Batches BY <2>2, <2>3 DEF Transactions
      <3> QED BY <2>2, <2>3, <3>1 DEF Accounted, Sole
    <2> QED BY <2>1, <2>2, <2>3, AccountedFrame
  <1>3. ASSUME NEW r \in Requests, Commit(r) PROVE Accounted'
    BY <1>3, AccountedCommit
  <1>4. ASSUME NEW r \in Requests, Rollback(r) PROVE Accounted'
    <2>1. /\ req'[r] = Idle /\ \A p \in Requests \ {r} : req'[p] = req[p]
          /\ UNCHANGED <<remaining, moved, crossed, split>>
          BY <1>4 DEF Rollback, TypeOK, table, history
    <2> QED BY <2>1, AccountedFrame
  <1>5. CASE UNCHANGED vars
    <2>1. UNCHANGED <<remaining, moved, req, crossed, split>> BY <1>5 DEF vars, table, history
    <2> QED BY <2>1 DEF Accounted, Sole, RemainingIsMoved, Accounts, Transfers, Holds, Left,
                        Pending, Loaded, Saved
  <1> QED BY <1>1, <1>2, <1>3, <1>4, <1>5, NextCases

(* The remaining quantity of a batch is the sum of the movements that      *)
(* change it in all places, unless two transactions had loaded the batch   *)
(* at the same time or one issue took from two places of it: a transfer,   *)
(* which saves no batch, moves nothing of it in or out, and every other    *)
(* operation saves what it moves.                                          *)
THEOREM RemainingFollowsMovements == Spec => []RemainingIsMoved
  <1>1. Accounted => RemainingIsMoved BY DEF Accounted
  <1> QED BY <1>1, TypeInit, TypeNext, AccountedInit, AccountedNext, PTL DEF Spec

----------------------------------------------------------------------------
(* The warehouse a transaction issues from.                                *)
From(q) == WarehouseOf[q.line.row[1]]
InProgress(q, x) == q.pc # "pick" /\ q.line.row = x

(* The transaction has come to a batch that is consumed after that of x.   *)
Later(q, x) ==
    \/ \E y \in q.rows : Earlier(x[2], y[2])
    \/ q.pc # "pick" /\ Earlier(x[2], q.line.row[2])

(* It found nothing in row x, still has what it found, is taking it, or    *)
(* has taken it.                                                           *)
Missed(q, x) == q.todo[x] = 0 /\ stock[x] <= 0 /\ x \notin q.rows /\ ~InProgress(q, x)
Waiting(q, x) ==
    q.todo[x] > 0 /\ q.todo[x] = stock[x] /\ x \notin q.rows /\ ~InProgress(q, x)
Emptying(q, x) ==
    q.todo[x] = 0 /\ q.line.by = -stock[x] /\ x \notin q.rows /\ InProgress(q, x)
Gone(q, x) == q.todo[x] = 0 /\ q.stock[x] = 0 /\ x \in q.rows /\ ~InProgress(q, x)
(* It needs nothing after row x, of which it takes a part.                 *)
Ends(q, x) == q.todo[x] = 0 /\ q.left <= 0

Stage(q, x) ==
    \/ Gone(q, x) \/ Missed(q, x)
    \/ ~Later(q, x) /\ (Waiting(q, x) \/ Emptying(q, x) \/ Ends(q, x))

(* A transaction that holds batches works in one warehouse and in order.   *)
Near(q, x) == WarehouseOf[x[1]] = From(q)
InOrder(q) ==
    q.held # {} =>
        /\ \A x \in q.rows \cup Left(q) : Near(q, x)
        /\ \A x \in Rows \ unlocked : Near(q, x) /\ x[2] \in q.held \ crossed => Stage(q, x)

Consuming == \A r \in Requests : req[r] # Idle => InOrder(req[r])

(* No transaction is open at first.                                        *)
LEMMA ConsumingInit == Init => Consuming
  BY DEF Init, Consuming

(* No batch comes before itself.                                           *)
LEMMA NotBefore == ASSUME NEW b \in Batches PROVE ~Earlier(b, b)
  <1>1. b \in Nat BY StockAssumption
  <1> QED BY <1>1 DEF Earlier

(* A transaction another one leaves alone keeps its order as long as the   *)
(* rows of the batches it holds stay as they are.                          *)
LEMMA OrderFrame ==
    ASSUME Consuming, NEW p \in Requests, req[p] # Idle, req'[p] = req[p],
           crossed \subseteq crossed', unlocked \subseteq unlocked',
           \A x \in Rows \ unlocked : x[2] \in req[p].held \ crossed => stock'[x] = stock[x]
    PROVE  InOrder(req[p])'
  <1> PICK q : q = req[p] OBVIOUS
  <1>1. InOrder(q) BY DEF Consuming
  <1>2. SUFFICES ASSUME q.held # {}
                 PROVE  /\ \A x \in q.rows \cup Left(q) : Near(q, x)
                        /\ \A x \in Rows \ unlocked' :
                              Near(q, x) /\ x[2] \in q.held \ crossed' => Stage(q, x)'
        BY DEF InOrder, Near, From, Left, Stage, Gone, Missed, Later, Waiting, Emptying, Ends,
               InProgress
  <1>3. ASSUME NEW x \in Rows \ unlocked', Near(q, x), x[2] \in q.held \ crossed'
        PROVE  Stage(q, x)'
    <2>1. Stage(q, x) BY <1>1, <1>2, <1>3 DEF InOrder
    <2>2. stock'[x] = stock[x] BY <1>3
    <2> QED BY <2>1, <2>2 DEF Stage, Gone, Missed, Later, Waiting, Emptying, Ends, InProgress
  <1> QED BY <1>1, <1>2, <1>3 DEF InOrder

(* The next row comes after every row that waited no longer.               *)
LEMMA OrderTaken ==
    ASSUME NEW q \in Transactions, NEW n, NEW take, NEW y \in Rows,
           q.pc = "pick", q.left > 0, y \in Left(q), First(y, Left(q)),
           q.todo[y] <= q.left => take = q.todo[y],
           ~(q.todo[y] <= q.left) => take = q.left,
           n.pc = "batch", n.line = Change(y, -take),
           n.todo = [q.todo EXCEPT ![y] = 0], n.left = q.left - take,
           n.rows = q.rows, n.stock = q.stock,
           NEW x \in Rows, Stage(q, x)
    PROVE  Stage(n, x)
  <1>1. /\ q.pc = "pick" /\ q.left > 0 /\ y \in Left(q) /\ First(y, Left(q))
        /\ q.todo[y] <= q.left => take = q.todo[y]
        /\ ~(q.todo[y] <= q.left) => take = q.left
        /\ n.pc = "batch" /\ n.line = Change(y, -take)
        /\ n.todo = [q.todo EXCEPT ![y] = 0] /\ n.left = q.left - take
        /\ n.rows = q.rows /\ n.stock = q.stock
        OBVIOUS
  <1>2. q.todo \in [Rows -> Int] /\ q.left \in Int /\ q.todo[y] > 0
    <2>1. q.todo \in [Rows -> Int] /\ q.left \in Int BY <1>1 DEF Transactions
    <2>2. q.todo[y] > 0 BY <1>1 DEF Left
    <2> QED BY <2>1, <2>2
  <1>3. n.line.row = y /\ n.line.by = -take
    <2>1. n.line = Change(y, -take) BY <1>1
    <2> QED BY <2>1, ChangeFields
  <1>4. (InProgress(n, x) <=> x = y) /\ ~InProgress(q, x)
        BY <1>1, <1>3 DEF InProgress
  <1>5. ~Emptying(q, x) /\ ~Ends(q, x)
    <2>1. ~InProgress(q, x) /\ q.left > 0 /\ q.left \in Int BY <1>1, <1>2, <1>4
    <2> QED BY <2>1 DEF Emptying, Ends
  <1>6. CASE Gone(q, x) \/ Missed(q, x)
    <2>1. x # y BY <1>2, <1>6 DEF Gone, Missed
    <2>2. n.todo[x] = q.todo[x] BY <1>1, <1>2, <2>1
    <2>3. Gone(q, x) => Gone(n, x) BY <1>1, <1>4, <2>1, <2>2 DEF Gone
    <2>4. Missed(q, x) => Missed(n, x) BY <1>1, <1>4, <2>1, <2>2 DEF Missed
    <2> QED BY <1>6, <2>3, <2>4 DEF Stage
  <1>7. CASE ~Later(q, x) /\ Waiting(q, x)
    <2>1. x \in Left(q) BY <1>7 DEF Waiting, Left
    <2>2. ~Earlier(x[2], y[2])
      <3>1. First(y, Left(q)) BY <1>1
      <3> QED BY <2>1, <3>1 DEF First
    <2>3. ~Later(n, x)
      <3>1. n.rows = q.rows /\ n.line.row = y BY <1>1, <1>3
      <3> QED BY <1>7, <2>2, <3>1 DEF Later
    <2>4. CASE x # y
      <3>1. n.todo[x] = q.todo[x] BY <1>1, <1>2, <2>4
      <3>2. Waiting(n, x) BY <1>1, <1>4, <1>7, <2>4, <3>1 DEF Waiting
      <3> QED BY <2>3, <3>2 DEF Stage
    <2>5. CASE x = y
      <3>1. n.todo[x] = 0 BY <1>1, <1>2, <2>5
      <3>2. CASE q.todo[y] <= q.left
        <4>1. n.line.by = -stock[x] BY <1>1, <1>3, <1>7, <2>5, <3>2 DEF Waiting
        <4>2. Emptying(n, x) BY <1>1, <1>4, <1>7, <2>5, <3>1, <4>1 DEF Emptying, Waiting
        <4> QED BY <2>3, <4>2 DEF Stage
      <3>3. CASE ~(q.todo[y] <= q.left)
        <4>1. n.left <= 0 BY <1>1, <1>2, <3>3
        <4> QED BY <2>3, <3>1, <4>1 DEF Stage, Ends
      <3> QED BY <3>2, <3>3
    <2> QED BY <2>4, <2>5
  <1> QED BY <1>5, <1>6, <1>7 DEF Stage

LEMMA OrderNextRow ==
    ASSUME TypeOK, NEW r \in Requests, NEW y \in Rows, NextRow(r, y),
           NEW x \in Rows, Stage(req[r], x)
    PROVE  Stage(req'[r], x)
  <1> DEFINE q == req[r]
             n == req'[r]
             take == IF q.todo[y] <= q.left THEN q.todo[y] ELSE q.left
  <1>1. /\ q \in Transactions /\ q.pc = "pick" /\ q.left > 0
        /\ y \in Left(q) /\ First(y, Left(q))
        /\ n.pc = "batch" /\ n.line = Change(y, -take)
        /\ n.todo = [q.todo EXCEPT ![y] = 0] /\ n.left = q.left - take
        /\ n.rows = q.rows /\ n.stock = q.stock
        BY NextRowFields
  <1>2. /\ q.todo[y] <= q.left => take = q.todo[y]
        /\ ~(q.todo[y] <= q.left) => take = q.left
        OBVIOUS
  <1> HIDE DEF take
  <1> QED BY <1>1, <1>2, OrderTaken

(* A row that is written is emptied, or the last one.                      *)
LEMMA OrderWriteRow ==
    ASSUME TypeOK, Locked, NEW r \in Requests, WriteRow(r),
           NEW x \in Rows \ unlocked, Stage(req[r], x)
    PROVE  Stage(req'[r], x)
  <1> PICK q : q = req[r] OBVIOUS
  <1> PICK n : n = req'[r] OBVIOUS
  <1> PICK y : y = q.line.row OBVIOUS
  <1> PICK v : v = q.read + q.line.by OBVIOUS
  <1>1. /\ q \in Transactions /\ q # Idle /\ q.pc = "write" /\ n.pc = "pick" /\ y \in Rows
        /\ n.rows = q.rows \cup {y} /\ n.stock = [q.stock EXCEPT ![y] = v]
        /\ n.line = q.line /\ n.todo = q.todo /\ n.left = q.left
        BY WriteRowFields
  <1>2. q.stock \in [Rows -> Int] BY <1>1 DEF Transactions
  <1>3. ~InProgress(n, x) /\ (InProgress(q, x) <=> y = x) BY <1>1 DEF InProgress
  <1>5. ASSUME ~Later(q, x) PROVE ~Later(n, x)
    BY <1>1, <1>5 DEF Later
  <1>6. CASE y # x
    <2>1. n.stock[x] = q.stock[x] BY <1>1, <1>2, <1>6
    <2>2. x \in n.rows <=> x \in q.rows BY <1>1, <1>6
    <2>3. Gone(q, x) => Gone(n, x) BY <1>1, <1>3, <2>1, <2>2 DEF Gone
    <2>4. Missed(q, x) => Missed(n, x) BY <1>1, <1>3, <2>2 DEF Missed
    <2>5. Waiting(q, x) => Waiting(n, x) BY <1>1, <1>3, <2>2 DEF Waiting
    <2>6. ~Emptying(q, x) BY <1>3, <1>6 DEF Emptying
    <2>7. Ends(q, x) => Ends(n, x) BY <1>1 DEF Ends
    <2> QED BY <1>5, <2>3, <2>4, <2>5, <2>6, <2>7 DEF Stage
  <1>7. CASE y = x
    <2>1. CASE Emptying(q, x)
      <3>1. InStep(r, x) BY <1>1, <1>7 DEF Locked
      <3>2. q.read = stock[x] BY <1>1, <1>7, <2>1, <3>1 DEF InStep, Emptying
      <3>3. stock[x] \in Int BY <1>1 DEF TypeOK
      <3>4. v = 0 BY <1>7, <2>1, <3>2, <3>3 DEF Emptying
      <3>5. n.stock[x] = 0 BY <1>1, <1>2, <1>7, <3>4
      <3> QED BY <1>1, <1>3, <1>7, <2>1, <3>5 DEF Stage, Gone, Emptying
    <2>2. CASE Ends(q, x) /\ ~Later(q, x)
      BY <1>1, <1>5, <2>2 DEF Stage, Ends
    <2>3. ~Gone(q, x) /\ ~Waiting(q, x) /\ ~Missed(q, x)
          BY <1>3, <1>7 DEF Gone, Waiting, Missed
    <2> QED BY <2>1, <2>2, <2>3 DEF Stage
  <1> QED BY <1>6, <1>7

(* A step inside a transaction keeps the order it consumes in.             *)
LEMMA OrderStep ==
    ASSUME TypeOK, Locked, Accounted, Consuming, NEW r \in Requests,
           unlocked \subseteq unlocked', Inside(r)
    PROVE  InOrder(req[r])'
  <1> PICK q : q = req[r] OBVIOUS
  <1> PICK n : n = req'[r] OBVIOUS
  <1>1. q \in Transactions /\ q # Idle /\ n.held = q.held /\ UNCHANGED <<stock, crossed>>
        BY StepFields
  <1>2. CASE q.held = {} BY <1>1, <1>2 DEF InOrder
  <1>3. CASE q.held # {}
    <2>1. Holds(q) BY <1>1, <1>3 DEF Accounted, Accounts, Transfers
    <2>2. InOrder(q) BY <1>1 DEF Consuming
    <2>3. /\ \A x \in q.rows \cup Left(q) : Near(q, x)
          /\ \A x \in Rows \ unlocked : Near(q, x) /\ x[2] \in q.held \ crossed => Stage(q, x)
          BY <1>3, <2>2 DEF InOrder
    <2>4. q.todo \in [Rows -> Int] BY <1>1 DEF Transactions
    <2> DEFINE Goal == /\ \A x \in n.rows \cup Left(n) : Near(n, x)
                       /\ \A x \in Rows \ unlocked' :
                             Near(n, x) /\ x[2] \in q.held \ crossed => Stage(n, x)
    <2>5. ASSUME NEW y \in Rows, NextRow(r, y) PROVE Goal
      <3> PICK take : take = (IF q.todo[y] <= q.left THEN q.todo[y] ELSE q.left) OBVIOUS
      <3>0. /\ n.rows = q.rows /\ n.line = Change(y, -take) /\ y \in Left(q)
            /\ n.todo = [q.todo EXCEPT ![y] = 0]
            BY <2>5, NextRowFields
      <3>1. From(n) = From(q)
        <4>1. Near(q, y) BY <2>3, <3>0
        <4>2. n.line.row = y BY <3>0, ChangeFields
        <4> QED BY <4>1, <4>2 DEF Near, From
      <3>2. Left(n) \subseteq Left(q) BY <2>4, <3>0 DEF Left
      <3>3. \A x \in Rows \ unlocked' :
               Near(q, x) /\ x[2] \in q.held \ crossed => Stage(n, x)
            BY <2>3, <2>5, OrderNextRow
      <3> QED BY <2>3, <3>0, <3>1, <3>2, <3>3 DEF Near
    <2>6. ASSUME WriteRow(r) PROVE Goal
      <3>1. n.rows = q.rows \cup {q.line.row} /\ n.line = q.line /\ n.todo = q.todo
            BY <2>6, WriteRowFields
      <3>2. \A x \in Rows \ unlocked' :
               Near(q, x) /\ x[2] \in q.held \ crossed => Stage(n, x)
            BY <2>3, <2>6, OrderWriteRow
      <3> QED BY <2>3, <3>1, <3>2 DEF Near, From, Left
    <2>7. ASSUME SaveBatch(r) \/ ReadRow(r) PROVE Goal
      <3>1. /\ n.rows = q.rows /\ n.stock = q.stock /\ n.line = q.line
            /\ n.todo = q.todo /\ n.left = q.left /\ q.pc # "pick" /\ n.pc # "pick"
        <4>1. CASE SaveBatch(r) BY <4>1, SaveBatchFields
        <4>2. CASE ReadRow(r) BY <4>2, ReadRowFields
        <4> QED BY <2>7, <4>1, <4>2
      <3>2. ASSUME NEW x \in Rows \ unlocked', Near(q, x), x[2] \in q.held \ crossed
            PROVE  Stage(n, x)
        <4>1. Stage(q, x) BY <2>3, <3>2
        <4> QED BY <3>1, <4>1
                DEF Stage, Gone, Missed, Later, Waiting, Emptying, Ends, InProgress
      <3> QED BY <2>3, <3>1, <3>2 DEF Near, From, Left
    <2>8. ~SecondLine(r) BY <2>1 DEF Holds, SecondLine
    <2>9. Goal BY <1>1, <2>5, <2>6, <2>7, <2>8 DEF Inside
    <2>10. \A x : Stage(n, x) = Stage(req[r], x)'
          BY <1>1 DEF Stage, Gone, Missed, Later, Waiting, Emptying, Ends, InProgress
    <2> QED BY <1>1, <2>9, <2>10 DEF InOrder, Near, From, Left
  <1> QED BY <1>2, <1>3

(* An operation begins with everything it found, or with nothing to find.  *)
LEMMA OrderBegin ==
    ASSUME TypeOK, NEW r \in Requests, Called(r)
    PROVE  /\ InOrder(req[r])'
           /\ req[r] = Idle /\ UNCHANGED <<stock, unlocked>> /\ crossed \subseteq crossed'
           /\ \A p \in Requests \ {r} : req'[p] = req[p]
  <1> PICK q : q = req'[r] OBVIOUS
  <1> DEFINE Goal == /\ InOrder(req[r])'
                     /\ req[r] = Idle /\ UNCHANGED <<stock, unlocked>> /\ crossed \subseteq crossed'
                     /\ \A p \in Requests \ {r} : req'[p] = req[p]
  <1>1. ASSUME NEW z \in Rows, NEW m,
               Begin(r, "batch", Change(z, m), {}, {z[2]}, Nothing(Rows), 0)
        PROVE  Goal
    <2>1. Began(r, "batch", Change(z, m), {}, {z[2]}, Nothing(Rows), 0)
      <3>1. {z[2]} \in SUBSET Batches BY RowParts
      <3> QED BY <1>1, <3>1, BeginFields
    <2>2. /\ q.held = {z[2]} /\ q.rows = {} /\ q.todo = Nothing(Rows) /\ q.left = 0
          /\ q.line.row = z
          BY <2>1 DEF Began, Change
    <2>3. \A x \in Rows : q.todo[x] = 0 BY <2>2 DEF Nothing
    <2>4. Left(q) = {} BY <2>3 DEF Left
    <2>5. ASSUME NEW x \in Rows, x[2] \in q.held PROVE ~Later(q, x) /\ Ends(q, x)
      <3>1. x[2] = z[2] /\ x[2] \in Batches BY <2>2, <2>5, RowParts
      <3>2. ~Earlier(x[2], x[2]) BY <3>1, NotBefore
      <3> QED BY <2>2, <2>3, <3>1, <3>2 DEF Later, Ends
    <2>6. \A x \in Rows : x[2] \in q.held => ~Later(req[r], x)' /\ Ends(req[r], x)'
          BY <2>5 DEF Later, Ends
    <2>7. InOrder(req[r])' BY <2>2, <2>4, <2>6 DEF InOrder, Stage, Left
    <2> QED BY <2>1, <2>7 DEF Began
  <1>2. ASSUME NEW n \in Quantities, NEW w \in Warehouses, IssueStock(r, w, n) PROVE Goal
    <2> DEFINE found == {x \in Rows : WarehouseOf[x[1]] = w /\ stock[x] > 0}
               held == {y[2] : y \in found}
               todo == [y \in Rows |-> IF y \in found THEN stock[y] ELSE 0]
    <2>1. PICK z \in found : Begin(r, "pick", Change(z, 0), {}, held, todo, n)
          BY <1>2 DEF IssueStock
    <2>2. Began(r, "pick", Change(z, 0), {}, held, todo, n)
      <3>1. held \in SUBSET Batches BY RowParts
      <3> HIDE DEF held, todo, found
      <3> QED BY <2>1, <3>1, BeginFields
    <2>3. q.held = held /\ q.todo = todo
          BY <2>2 DEF Began
    <2>4. /\ q.rows = {} /\ q.pc = "pick" /\ q.line = Change(z, 0) /\ UNCHANGED stock
          BY <2>2 DEF Began
    <2>5. q.line.row = z BY <2>4, ChangeFields
    <2>6. \A x \in Rows : /\ q.todo[x] = IF x \in found THEN stock[x] ELSE 0
                          /\ stock[x] \in Int
          BY <2>3 DEF TypeOK
    <2>7. From(q) = w BY <2>5 DEF From
    <2>8. \A x \in Left(q) : Near(q, x) BY <2>6, <2>7 DEF Left, Near
    <2>9. ASSUME NEW x \in Rows, Near(q, x)
          PROVE  Missed(q, x) \/ (~Later(q, x) /\ Waiting(q, x))
      <3>1. ~InProgress(q, x) /\ ~Later(q, x) BY <2>4 DEF InProgress, Later
      <3>2. CASE x \in found BY <2>4, <2>6, <3>1, <3>2 DEF Waiting
      <3>3. CASE x \notin found
        <4>1. q.todo[x] = 0 /\ stock[x] <= 0 BY <2>6, <2>7, <2>9, <3>3 DEF Near
        <4> QED BY <2>4, <3>1, <4>1 DEF Missed
      <3> QED BY <3>2, <3>3
    <2>10. \A x \in Rows : Near(q, x) => Stage(req[r], x)'
          BY <2>4, <2>9 DEF Stage, Missed, Later, Waiting, InProgress
    <2>11. InOrder(req[r])' BY <2>4, <2>8, <2>10 DEF InOrder, Near, From, Left
    <2> QED BY <2>2, <2>11 DEF Began
  <1>3. ASSUME NEW n \in Quantities, NEW x \in Rows, NEW to \in Places, TransferStock(r, x, to, n)
        PROVE  Goal
    <2>1. PICK line, also : Begin(r, "read", line, also, {}, Nothing(Rows), 0)
          BY <1>3 DEF TransferStock
    <2>2. Began(r, "read", line, also, {}, Nothing(Rows), 0)
      <3>1. {} \in SUBSET Batches OBVIOUS
      <3> QED BY <2>1, <3>1, BeginFields
    <2> QED BY <2>2 DEF Began, InOrder
  <1>4. ASSUME NEW n \in Quantities, NEW x \in Rows, ReceiveStock(r, x, n) PROVE Goal
        BY <1>1, <1>4 DEF ReceiveStock
  <1>5. ASSUME NEW n \in Quantities, NEW x \in Rows, AdjustStock(r, x, n) PROVE Goal
        BY <1>1, <1>5 DEF AdjustStock
  <1> QED BY <1>2, <1>3, <1>4, <1>5 DEF Called

LEMMA ConsumingNext ==
    TypeOK /\ Locked /\ Accounted /\ Consuming /\ [Next]_vars => Consuming'
  <1> SUFFICES ASSUME TypeOK, Locked, Accounted, Consuming, [Next]_vars PROVE Consuming'
      OBVIOUS
  <1>0. unlocked \subseteq unlocked' BY UnlockedGrows
  <1>1. ASSUME NEW r \in Requests, req'[r] # Idle => InOrder(req[r])',
               \A p \in Requests \ {r} : req'[p] = req[p],
               UNCHANGED stock, crossed \subseteq crossed'
        PROVE  Consuming'
    <2>1. ASSUME NEW p \in Requests \ {r}, req'[p] # Idle PROVE InOrder(req[p])'
      BY <1>0, <1>1, <2>1, OrderFrame
    <2> QED BY <1>1, <2>1 DEF Consuming
  <1>2. ASSUME NEW r \in Requests, Called(r) PROVE Consuming'
    <2>1. /\ InOrder(req[r])' /\ UNCHANGED stock /\ crossed \subseteq crossed'
          /\ \A p \in Requests \ {r} : req'[p] = req[p]
          BY <1>2, OrderBegin
    <2> QED BY <1>1, <2>1
  <1>3. ASSUME NEW r \in Requests, Inside(r) PROVE Consuming'
    <2>1. InOrder(req[r])' BY <1>0, <1>3, OrderStep
    <2> QED BY <1>1, <1>3, <2>1, StepFields
  <1>4. ASSUME NEW r \in Requests, Commit(r) PROVE Consuming'
    <2>1. /\ req'[r] = Idle /\ \A p \in Requests \ {r} : req'[p] = req[p]
          /\ UNCHANGED <<unlocked, crossed>>
          BY <1>4 DEF Commit, TypeOK, history
    <2>2. req[r] \in Transactions /\ req[r] # Idle BY <1>4, PcBusy DEF Commit
    <2>3. ASSUME NEW p \in Requests, req'[p] # Idle PROVE InOrder(req[p])'
      <3>1. p # r /\ req'[p] = req[p] /\ req[p] # Idle BY <2>1, <2>3
      <3>2. ASSUME NEW x \in Rows \ unlocked, x[2] \in req[p].held \ crossed
            PROVE  stock'[x] = stock[x]
        <4>1. x[2] \in Batches BY RowParts
        <4>2. x[2] \notin req[r].held BY <2>2, <3>1, <3>2, <4>1 DEF Accounted, Sole
        <4>3. x[2] \notin req[r].batches BY <2>2, <4>2 DEF Accounted, Accounts
        <4>4. x \notin req[r].rows BY <2>2, <3>2, <4>3 DEF Locked, InStep
        <4> QED BY <1>4, <4>4 DEF Commit
      <3> QED BY <1>0, <2>1, <3>1, <3>2, OrderFrame
    <2> QED BY <2>3 DEF Consuming
  <1>5. ASSUME NEW r \in Requests, Rollback(r) PROVE Consuming'
    <2>1. /\ req'[r] = Idle /\ \A p \in Requests \ {r} : req'[p] = req[p]
          /\ UNCHANGED <<stock, crossed>>
          BY <1>5 DEF Rollback, TypeOK, table, history
    <2> QED BY <1>1, <2>1
  <1>6. CASE UNCHANGED vars
    <2>1. UNCHANGED <<stock, req, crossed, unlocked>> BY <1>6 DEF vars, table, history
    <2>2. ASSUME NEW p \in Requests, req'[p] # Idle PROVE InOrder(req[p])'
      BY <2>1, <2>2, OrderFrame
    <2> QED BY <2>2 DEF Consuming
  <1> QED BY <1>2, <1>3, <1>4, <1>5, <1>6, NextCases

(* Every commit of an issue that took from a later batch leaves nothing in *)
(* an earlier one.                                                         *)
OrderedCommits ==
    \A r \in Requests : Commits(r) =>
       \A x \in req[r].rows, y \in Rows \ unlocked : Earlier(y[2], x[2]) => Emptied(r, x, y)

LEMMA CommitsInOrder ==
    TypeOK /\ Accounted /\ Consuming /\ [Next]_vars => OrderedCommits
  <1> SUFFICES ASSUME TypeOK, Accounted, Consuming, [Next]_vars,
                      NEW r \in Requests, Commits(r),
                      NEW x \in req[r].rows, NEW y \in Rows \ unlocked, Earlier(y[2], x[2]),
                      WarehouseOf[x[1]] = WarehouseOf[y[1]], y[2] \in req[r].held \ crossed
               PROVE  stock'[y] <= 0
      BY DEF OrderedCommits, Emptied
  <1> PICK q : q = req[r] OBVIOUS
  <1>0. req[r] # Idle /\ req'[r] = Idle /\ calls' = calls BY DEF Commits
  <1>1. q \in Transactions BY <1>0, BusyReq
  <1>2. ASSUME NEW p \in Requests, Called(p) PROVE FALSE
    <2>1. req[p] = Idle /\ \A t \in Requests \ {p} : req'[t] = req[t] BY <1>2, OrderBegin
    <2> QED BY <1>0, <2>1
  <1>3. ASSUME NEW p \in Requests, Inside(p) PROVE FALSE
    <2>1. req'[p] # Idle /\ \A t \in Requests \ {p} : req'[t] = req[t] BY <1>3, StepFields
    <2> QED BY <1>0, <2>1
  <1>4. ASSUME NEW p \in Requests, Rollback(p) PROVE FALSE
    BY <1>0, <1>4 DEF Rollback, TypeOK
  <1>5. ~UNCHANGED vars BY <1>0 DEF vars
  <1>6. PICK p \in Requests : Commit(p) BY <1>2, <1>3, <1>4, <1>5, NextCases
  <1>7. p = r BY <1>0, <1>6 DEF Commit, TypeOK
  <1>8. q.held # {} /\ InOrder(q) BY <1>0 DEF Consuming
  <1>9. Near(q, x) /\ Near(q, y) BY <1>8 DEF InOrder, Near
  <1>10. Later(q, y) BY DEF Later
  <1>11. Stage(q, y) BY <1>8, <1>9 DEF InOrder
  <1>12. Gone(q, y) \/ Missed(q, y) BY <1>10, <1>11 DEF Stage
  <1>13. stock'[y] = IF y \in q.rows THEN q.stock[y] ELSE stock[y] BY <1>6, <1>7 DEF Commit
  <1> QED BY <1>12, <1>13 DEF Gone, Missed

(* BUSINESS_LOGIC.md: the oldest unconsumed receipts are consumed first,   *)
(* and FEFO takes what expires first.  A committed issue that took from a  *)
(* batch has emptied, in all bins of the warehouse, every batch before it, *)
(* unless another transaction held that batch too or a transfer has        *)
(* touched the row.                                                        *)
THEOREM IssuesConsumeInOrder == Spec => ConsumesInOrder
  <1>1. [][TypeOK /\ Locked /\ Accounted /\ Consuming /\ [Next]_vars]_vars => [][OrderedCommits]_vars
    <2>1. [TypeOK /\ Locked /\ Accounted /\ Consuming /\ [Next]_vars]_vars => [OrderedCommits]_vars
          BY CommitsInOrder
    <2> QED BY <2>1, PTL
  <1>2. [][OrderedCommits]_vars => ConsumesInOrder
    BY DEF OrderedCommits, ConsumesInOrder
  <1> QED BY <1>1, <1>2, TypeInit, TypeNext, LockedInit, LockedNext, AccountedInit, AccountedNext,
             ConsumingInit, ConsumingNext, PTL DEF Spec
=============================================================================
