------------------------- MODULE BillPaymentsProofs -------------------------
(***************************************************************************)
(* Theorems about BillPayments for any number of bills, batches and        *)
(* requests.  A batch only has items for bills that were APPROVED when     *)
(* they were found, and a row a request has in memory says no more is paid *)
(* than has been paid by now.  A batch or a bill that nobody raced for is  *)
(* in the hands of one request at most, so the row of such a bill says     *)
(* exactly what has been paid (Exact), and what was recorded is booked, or *)
(* due by a request that has not failed (BookedOrDue).                     *)
(***************************************************************************)
EXTENDS BillPayments, SumsProofs

\* Request r has a batch row in memory, or is making one, with an item for b.
Asked(r, b) ==
    \/ req[r].pc \in {"create", "finalize"} /\ req[r].items[b] > 0
    \/ req[r].pc = "export" /\ req[r].row.items[b] > 0

Wanted(b) ==
    \/ \E x \in Batches : batches[x] # NoRow /\ batches[x].items[b] > 0
    \/ \E r \in Requests : Asked(r, b)

WantedExist == \A b \in Bills : Wanted(b) => bills[b] # NoRow

Loaded ==
    \A r \in Requests : req[r].pc = "finalize" =>
        \A b \in Items(req[r].items) : req[r].rows[b] # NoRow

TypeInv == TypeOK /\ WantedExist /\ Loaded

----------------------------------------------------------------------------
LEMMA RowTypes ==
    /\ NoRow \notin BillRow /\ NoRow \notin BatchRow
    /\ \A row \in BillRow : row.status \in BillStatus /\ row.paid \in Nat
    /\ \A row \in BatchRow : row.status \in BatchStatus /\ row.items \in [Bills -> Nat]
    /\ NoRow.status # "APPROVED"
  BY DEF NoRow, BillRow, BatchRow

(* What is known of a request by its pc.                                   *)
LEMMA ReqByPc ==
    ASSUME TypeOK, NEW r \in Requests
    PROVE  /\ req[r].pc = "status" => req[r] \in StatusRequest
           /\ req[r].pc = "pay" => req[r] \in PayRequest
           /\ req[r].pc \in {"expense", "payment"} => req[r] \in BookRequest
           /\ req[r].pc = "create" => req[r] \in CreateRequest
           /\ req[r].pc = "export" => req[r] \in ExportRequest
           /\ req[r].pc = "finalize" => req[r] \in FinalizeRequest
           /\ req[r] = Idle => req[r].pc = "idle"
  <1> PICK q : q = req[r] OBVIOUS
  <1>1. q \in Request BY DEF TypeOK
  <1>2. q = Idle => q.pc = "idle" BY DEF Idle
  <1>3. q \in StatusRequest => q.pc = "status" BY DEF StatusRequest
  <1>4. q \in PayRequest => q.pc = "pay" BY DEF PayRequest
  <1>5. q \in BookRequest => q.pc \in {"expense", "payment"} BY DEF BookRequest
  <1>6. q \in CreateRequest => q.pc = "create" BY DEF CreateRequest
  <1>7. q \in ExportRequest => q.pc = "export" BY DEF ExportRequest
  <1>8. q \in FinalizeRequest => q.pc = "finalize" BY DEF FinalizeRequest
  <1> QED BY <1>1, <1>2, <1>3, <1>4, <1>5, <1>6, <1>7, <1>8 DEF Request

LEMMA PaidType ==
    ASSUME NEW b \in Bills, NEW row \in BillRow, NEW a \in Nat
    PROVE  /\ Paid(b, row, a) \in BillRow
           /\ Paid(b, row, a).paid = row.paid + a
           /\ Paid(b, row, a).status # "APPROVED"
  BY BillAssumption, RowTypes DEF Paid, BillRow, BillStatus

(* A step of one request keeps the others as they are.                     *)
LEMMA ReqStep ==
    ASSUME TypeOK, NEW r \in Requests, NEW new \in Request, req' = [req EXCEPT ![r] = new]
    PROVE  /\ req' \in [Requests -> Request]
           /\ req'[r] = new
           /\ \A p \in Requests \ {r} : req'[p] = req[p]
  BY DEF TypeOK

LEMMA BeginType ==
    ASSUME TypeOK, NEW r \in Requests, NEW new \in Request,
           NEW loaded \in SUBSET (Bills \cup Batches),
           Begin(r, new, loaded)
    PROVE  /\ req' \in [Requests -> Request]
           /\ raced' \subseteq Bills \cup Batches
           /\ req'[r] = new
           /\ \A p \in Requests \ {r} : req'[p] = req[p]
  BY ReqStep DEF Begin, TypeOK

----------------------------------------------------------------------------
LEMMA TypeInit == Init => TypeInv
  <1> SUFFICES ASSUME Init PROVE TypeInv
      OBVIOUS
  <1>1. TypeOK BY DEF Init, TypeOK, Request
  <1>2. \A r \in Requests : req[r].pc = "idle" BY DEF Init, Idle
  <1>3. \A b \in Bills : ~Wanted(b) BY <1>2 DEF Init, Wanted, Asked
  <1> QED BY <1>1, <1>2, <1>3 DEF TypeInv, WantedExist, Loaded

LEMMA CreateType == ASSUME TypeInv, NEW b \in Bills, CreateBill(b) PROVE TypeOK'
  <1>0. TypeOK BY DEF TypeInv
  <1> USE BillAssumption
  <1> PICK s \in Created :
          /\ bills' = [bills EXCEPT ![b] = [status |-> s, paid |-> 0]]
          /\ unexpensed' = IF s = "APPROVED" THEN unexpensed \cup {b} ELSE unexpensed
      BY DEF CreateBill
  <1>1. [status |-> s, paid |-> 0] \in BillRow BY DEF BillRow
  <1>2. bills' \in [Bills -> BillRow \cup {NoRow}] BY <1>0, <1>1 DEF TypeOK
  <1>3. unexpensed' \subseteq Bills BY <1>0 DEF TypeOK
  <1> QED BY <1>0, <1>2, <1>3 DEF CreateBill, TypeOK

(* Every operation on a bill keeps the types.                              *)
LEMMA BillStepsType ==
    ASSUME TypeInv, NEW r \in Requests,
           \/ \E b \in Bills : LoadToUpdate(r, b) \/ LoadToPay(r, b)
           \/ SaveStatus(r) \/ SavePayment(r) \/ BookExpense(r) \/ BookPayment(r)
    PROVE  TypeOK'
  <1> USE BillAssumption
  <1>0. TypeOK BY DEF TypeInv
  <1> PICK q : q = req[r] OBVIOUS
  <1>2. ASSUME NEW b \in Bills, LoadToUpdate(r, b) PROVE TypeOK'
    <2> PICK s \in Statuses :
            Begin(r, [pc |-> "status", bill |-> b, row |-> bills[b], to |-> s], {b})
        BY <1>2 DEF LoadToUpdate
    <2> DEFINE new == [pc |-> "status", bill |-> b, row |-> bills[b], to |-> s]
    <2>1. bills[b] \in BillRow BY <1>0, <1>2 DEF LoadToUpdate, TypeOK
    <2>2. new \in Request BY <2>1 DEF StatusRequest, Request
    <2>3. Begin(r, new, {b}) OBVIOUS
    <2> HIDE DEF new
    <2>4. req' \in [Requests -> Request] /\ raced' \subseteq Bills \cup Batches
          BY <1>0, <2>2, <2>3, BeginType
    <2> QED BY <1>0, <1>2, <2>4 DEF LoadToUpdate, TypeOK, table
  <1>3. ASSUME NEW b \in Bills, LoadToPay(r, b) PROVE TypeOK'
    <2> PICK a \in Amounts :
            Begin(r, [pc |-> "pay", bill |-> b, row |-> bills[b], amount |-> a], {b})
        BY <1>3 DEF LoadToPay
    <2> DEFINE new == [pc |-> "pay", bill |-> b, row |-> bills[b], amount |-> a]
    <2>1. bills[b] \in BillRow BY <1>0, <1>3 DEF LoadToPay, TypeOK
    <2>2. new \in Request BY <2>1 DEF PayRequest, Request
    <2>3. Begin(r, new, {b}) OBVIOUS
    <2> HIDE DEF new
    <2>4. req' \in [Requests -> Request] /\ raced' \subseteq Bills \cup Batches
          BY <1>0, <2>2, <2>3, BeginType
    <2> QED BY <1>0, <1>3, <2>4 DEF LoadToPay, TypeOK, table
  <1>4. CASE SaveStatus(r)
    <2>1. q \in StatusRequest BY <1>0, <1>4, ReqByPc DEF SaveStatus
    <2>2. q.bill \in Bills /\ q.row \in BillRow /\ q.to \in BillStatus BY <2>1 DEF StatusRequest
    <2>3. [status |-> q.to, paid |-> q.row.paid] \in BillRow BY <2>2 DEF BillRow
    <2>4. bills' \in [Bills -> BillRow \cup {NoRow}]
          BY <1>0, <1>4, <2>2, <2>3 DEF SaveStatus, TypeOK
    <2>5. [pc |-> "expense", bill |-> q.bill, amount |-> Total[q.bill]] \in Request
          BY <2>2 DEF BookRequest, Request
    <2>6. Idle \in Request BY DEF Request
    <2>7. req' \in [Requests -> Request] BY <1>0, <1>4, <2>5, <2>6 DEF SaveStatus, TypeOK
    <2> QED BY <1>0, <1>4, <2>4, <2>7 DEF SaveStatus, TypeOK, history
  <1>5. CASE SavePayment(r)
    <2>1. q \in PayRequest BY <1>0, <1>5, ReqByPc DEF SavePayment
    <2>2. q.bill \in Bills /\ q.row \in BillRow /\ q.amount \in Nat BY <2>1 DEF PayRequest
    <2>3. Paid(q.bill, q.row, q.amount) \in BillRow BY <2>2, PaidType
    <2>4. bills' \in [Bills -> BillRow \cup {NoRow}]
          BY <1>0, <1>5, <2>2, <2>3 DEF SavePayment, TypeOK
    <2>5. [pc |-> "payment", bill |-> q.bill, amount |-> q.amount] \in Request
          BY <2>2 DEF BookRequest, Request
    <2>6. req' \in [Requests -> Request] BY <1>0, <1>5, <2>5 DEF SavePayment, TypeOK
    <2>7. recorded' \in [Bills -> Nat] BY <1>0, <1>5, <2>2 DEF SavePayment, TypeOK
    <2> QED BY <1>0, <1>5, <2>4, <2>6, <2>7 DEF SavePayment, TypeOK
  <1>6. CASE BookExpense(r)
    <2>1. q.bill \in Bills BY <1>0, <1>6, ReqByPc DEF BookExpense, BookRequest
    <2>2. Idle \in Request BY DEF Request
    <2> QED BY <1>0, <1>6, <2>1, <2>2 DEF BookExpense, TypeOK, history
  <1>7. CASE BookPayment(r)
    <2>1. q.bill \in Bills /\ q.amount \in Nat BY <1>0, <1>7, ReqByPc DEF BookPayment, BookRequest
    <2>2. Idle \in Request BY DEF Request
    <2>3. booked' \in [Bills -> Nat] BY <1>0, <1>7, <2>1 DEF BookPayment, TypeOK
    <2> QED BY <1>0, <1>7, <2>2, <2>3 DEF BookPayment, TypeOK, history
  <1> QED BY <1>2, <1>3, <1>4, <1>5, <1>6, <1>7

(* Every operation on a batch, and every failure, keeps the types.         *)
LEMMA BatchStepsType ==
    ASSUME TypeInv, NEW r \in Requests,
           \/ \E given \in SUBSET Bills : FindPayable(r, given)
           \/ \E x \in Batches : CreateBatch(r, x) \/ LoadToExport(r, x) \/ LoadToFinalize(r, x)
           \/ \E b \in Bills : PayItem(r, b)
           \/ SaveExport(r) \/ Fail(r)
    PROVE  TypeOK'
  <1> USE BillAssumption
  <1>0. TypeOK BY DEF TypeInv
  <1> PICK q : q = req[r] OBVIOUS
  <1>1. ASSUME NEW given \in SUBSET Bills, FindPayable(r, given) PROVE TypeOK'
    <2> DEFINE items == [c \in Bills |-> IF c \in given /\ Payable(c) THEN Open(c) ELSE 0]
               new == [pc |-> "create", items |-> items]
    <2>1. ASSUME NEW c \in Bills, Payable(c) PROVE Open(c) \in Nat
      <3>1. bills[c] \in BillRow BY <1>0, <2>1, RowTypes DEF Payable, TypeOK
      <3> QED BY <3>1, RowTypes DEF Open
    <2>2. items \in [Bills -> Nat] BY <2>1
    <2>3. new \in Request BY <2>2 DEF CreateRequest, Request
    <2>4. Begin(r, new, {}) BY <1>1 DEF FindPayable
    <2> HIDE DEF new
    <2>5. req' \in [Requests -> Request] /\ raced' \subseteq Bills \cup Batches
          BY <1>0, <2>3, <2>4, BeginType
    <2> QED BY <1>0, <1>1, <2>5 DEF FindPayable, TypeOK, table
  <1>2. ASSUME NEW x \in Batches, CreateBatch(r, x) PROVE TypeOK'
    <2>1. q.items \in [Bills -> Nat] BY <1>0, <1>2, ReqByPc DEF CreateBatch, CreateRequest
    <2>2. [status |-> "DRAFT", items |-> q.items] \in BatchRow
          BY <2>1 DEF BatchRow, BatchStatus
    <2>3. Idle \in Request BY DEF Request
    <2>4. batches' \in [Batches -> BatchRow \cup {NoRow}]
          BY <1>0, <1>2, <2>2 DEF CreateBatch, TypeOK
    <2>5. req' \in [Requests -> Request] BY <1>0, <1>2, <2>3 DEF CreateBatch, TypeOK
    <2> QED BY <1>0, <1>2, <2>4, <2>5 DEF CreateBatch, TypeOK, history
  <1>3. ASSUME NEW x \in Batches, LoadToExport(r, x) PROVE TypeOK'
    <2> DEFINE new == [pc |-> "export", batch |-> x, row |-> batches[x]]
    <2>1. batches[x] \in BatchRow BY <1>0, <1>3 DEF LoadToExport, TypeOK
    <2>2. new \in Request BY <2>1 DEF ExportRequest, Request
    <2>3. Begin(r, new, {x}) BY <1>3 DEF LoadToExport
    <2> HIDE DEF new
    <2>4. req' \in [Requests -> Request] /\ raced' \subseteq Bills \cup Batches
          BY <1>0, <2>2, <2>3, BeginType
    <2>5. reopened' \subseteq Batches BY <1>0, <1>3 DEF LoadToExport, TypeOK
    <2> QED BY <1>0, <1>3, <2>4, <2>5 DEF LoadToExport, TypeOK, table
  <1>4. CASE SaveExport(r)
    <2>1. q.batch \in Batches /\ q.row \in BatchRow
          BY <1>0, <1>4, ReqByPc DEF SaveExport, ExportRequest
    <2>2. [q.row EXCEPT !.status = "SENT_TO_BANK"] \in BatchRow
          BY <2>1 DEF BatchRow, BatchStatus
    <2>3. Idle \in Request BY DEF Request
    <2>4. batches' \in [Batches -> BatchRow \cup {NoRow}]
          BY <1>0, <1>4, <2>1, <2>2 DEF SaveExport, TypeOK
    <2>5. req' \in [Requests -> Request] BY <1>0, <1>4, <2>3 DEF SaveExport, TypeOK
    <2> QED BY <1>0, <1>4, <2>4, <2>5 DEF SaveExport, TypeOK, history
  <1>5. ASSUME NEW x \in Batches, LoadToFinalize(r, x) PROVE TypeOK'
    <2> DEFINE items == batches[x].items
               rows == [c \in Bills |-> IF c \in Items(items) THEN bills[c] ELSE NoRow]
               new == [pc |-> "finalize", batch |-> x, items |-> items, todo |-> Items(items),
                       rows |-> rows]
    <2>1. batches[x] \in BatchRow BY <1>0, <1>5 DEF LoadToFinalize, TypeOK
    <2>2. items \in [Bills -> Nat] BY <2>1, RowTypes
    <2>3. rows \in [Bills -> BillRow \cup {NoRow}] BY <1>0 DEF TypeOK
    <2>4. Items(items) \subseteq Bills BY DEF Items
    <2>5. new \in Request BY <2>2, <2>3, <2>4 DEF FinalizeRequest, Request
    <2>6. Begin(r, new, {x} \cup Items(items)) BY <1>5 DEF LoadToFinalize
    <2> HIDE DEF new, items
    <2>7. req' \in [Requests -> Request] /\ raced' \subseteq Bills \cup Batches
          BY <1>0, <2>4, <2>5, <2>6, BeginType
    <2> QED BY <1>0, <1>5, <2>7 DEF LoadToFinalize, TypeOK, table
  <1>6. ASSUME NEW b \in Bills, PayItem(r, b) PROVE TypeOK'
    <2>1. q \in FinalizeRequest BY <1>0, <1>6, ReqByPc DEF PayItem
    <2>2. [q EXCEPT !.todo = @ \ {b}] \in FinalizeRequest BY <2>1 DEF FinalizeRequest
    <2>3. [q EXCEPT !.todo = @ \ {b}] \in Request BY <2>2 DEF Request
    <2>4. req' = [req EXCEPT ![r] = [q EXCEPT !.todo = @ \ {b}]] BY <1>6 DEF PayItem
    <2>5. req' \in [Requests -> Request] BY <1>0, <2>3, <2>4 DEF TypeOK
    <2> QED BY <1>0, <1>6, <2>5 DEF PayItem, TypeOK, table, history
  <1>7. CASE Fail(r)
    <2>1. q.pc \in {"expense", "payment"} => q.bill \in Bills BY <1>0, ReqByPc DEF BookRequest
    <2>2. Idle \in Request BY DEF Request
    <2>3. unexpensed' \subseteq Bills /\ unbooked' \subseteq Bills
          BY <1>0, <1>7, <2>1 DEF Fail, TypeOK
    <2> QED BY <1>0, <1>7, <2>2, <2>3 DEF Fail, TypeOK, table
  <1> QED BY <1>1, <1>2, <1>3, <1>4, <1>5, <1>6, <1>7

LEMMA CommitType == ASSUME TypeInv, NEW r \in Requests, FinalizeCommit(r) PROVE TypeOK'
  <1>0. TypeOK BY DEF TypeInv
  <1> PICK q : q = req[r] OBVIOUS
  <1>1. q \in FinalizeRequest BY <1>0, ReqByPc DEF FinalizeCommit
  <1>2. q.batch \in Batches /\ q.items \in [Bills -> Nat] BY <1>1 DEF FinalizeRequest
  <1>3. ASSUME NEW b \in Items(q.items) PROVE Paid(b, q.rows[b], q.items[b]) \in BillRow
    <2>1. b \in Bills BY DEF Items
    <2>2. q.rows[b] \in BillRow
      <3>1. q.rows[b] # NoRow BY DEF TypeInv, Loaded, FinalizeCommit
      <3> QED BY <1>1, <2>1, <3>1 DEF FinalizeRequest
    <2> QED BY <1>2, <2>1, <2>2, PaidType
  <1>4. bills' \in [Bills -> BillRow \cup {NoRow}] BY <1>0, <1>3 DEF FinalizeCommit, TypeOK
  <1>5. [status |-> "COMPLETED", items |-> q.items] \in BatchRow
        BY <1>2 DEF BatchRow, BatchStatus
  <1>6. batches' \in [Batches -> BatchRow \cup {NoRow}]
        BY <1>0, <1>2, <1>5 DEF FinalizeCommit, TypeOK
  <1>7. batched' \in [Bills -> Nat] /\ completed' \in [Batches -> Nat]
        BY <1>0, <1>2 DEF FinalizeCommit, TypeOK
  <1>8. Idle \in Request BY DEF Request
  <1>9. req' \in [Requests -> Request] BY <1>0, <1>8 DEF FinalizeCommit, TypeOK
  <1> QED BY <1>0, <1>4, <1>6, <1>7, <1>9 DEF FinalizeCommit, TypeOK

----------------------------------------------------------------------------
(* Rows are never deleted.                                                 *)
LEMMA RowsStay ==
    ASSUME TypeInv, [Next]_vars, NEW b \in Bills, bills[b] # NoRow
    PROVE  bills'[b] # NoRow
  <1>0. TypeOK BY DEF TypeInv
  <1>1. ASSUME NEW c \in Bills, CreateBill(c) PROVE bills'[b] # NoRow
        BY <1>0, <1>1 DEF CreateBill, TypeOK
  <1>2. ASSUME NEW r \in Requests, SaveStatus(r) PROVE bills'[b] # NoRow
    <2>1. req[r].bill \in Bills /\ req[r].row \in BillRow /\ req[r].to \in BillStatus
          BY <1>0, <1>2, ReqByPc DEF SaveStatus, StatusRequest
    <2>2. [status |-> req[r].to, paid |-> req[r].row.paid] \in BillRow
          BY <2>1 DEF BillRow
    <2> QED BY <1>0, <1>2, <2>2, RowTypes DEF SaveStatus, TypeOK
  <1>3. ASSUME NEW r \in Requests, SavePayment(r) PROVE bills'[b] # NoRow
    <2>1. req[r].bill \in Bills /\ req[r].row \in BillRow /\ req[r].amount \in Nat
          BY <1>0, <1>3, ReqByPc DEF SavePayment, PayRequest
    <2>2. Paid(req[r].bill, req[r].row, req[r].amount) \in BillRow BY <2>1, PaidType
    <2> QED BY <1>0, <1>3, <2>2, RowTypes DEF SavePayment, TypeOK
  <1>4. ASSUME NEW r \in Requests, FinalizeCommit(r) PROVE bills'[b] # NoRow
    <2>1. req[r] \in FinalizeRequest BY <1>0, <1>4, ReqByPc DEF FinalizeCommit
    <2>2. ASSUME b \in Items(req[r].items)
          PROVE  Paid(b, req[r].rows[b], req[r].items[b]) \in BillRow
      <3>1. req[r].rows[b] # NoRow BY <1>4, <2>2 DEF TypeInv, Loaded, FinalizeCommit
      <3>2. req[r].rows[b] \in BillRow /\ req[r].items[b] \in Nat
            BY <2>1, <3>1 DEF FinalizeRequest
      <3> QED BY <3>2, PaidType
    <2> QED BY <1>4, <2>2, RowTypes DEF FinalizeCommit
  <1>5. ASSUME UNCHANGED bills PROVE bills'[b] # NoRow BY <1>5
  <1> QED BY <1>1, <1>2, <1>3, <1>4, <1>5
          DEF Next, vars, table, LoadToUpdate, BookExpense, LoadToPay, BookPayment,
              FindPayable, CreateBatch, LoadToExport, SaveExport, LoadToFinalize,
              PayItem, Fail

(* A request that takes on no item makes no bill wanted.                   *)
LEMMA AskStep ==
    ASSUME TypeOK, NEW r \in Requests, NEW new \in Request, NEW b \in Bills,
           req' = [req EXCEPT ![r] = new], UNCHANGED batches,
           \/ new.pc \in {"create", "finalize"} /\ new.items[b] > 0
           \/ new.pc = "export" /\ new.row.items[b] > 0
           => Wanted(b) \/ Payable(b),
           Wanted(b)'
    PROVE  Wanted(b) \/ Payable(b)
  <1>1. req'[r] = new /\ \A p \in Requests \ {r} : req'[p] = req[p] BY ReqStep
  <1>2. CASE \E x \in Batches : batches'[x] # NoRow /\ batches'[x].items[b] > 0
        BY <1>2 DEF Wanted
  <1>3. CASE \E p \in Requests : Asked(p, b)'
    <2> PICK p \in Requests : Asked(p, b)' BY <1>3
    <2>1. CASE p = r BY <1>1, <2>1 DEF Asked
    <2>2. CASE p # r
      <3>1. Asked(p, b) BY <1>1, <2>2 DEF Asked
      <3> QED BY <3>1 DEF Wanted
    <2> QED BY <2>1, <2>2
  <1> QED BY <1>2, <1>3 DEF Wanted

(* A request that saves a batch row hands the items on to the row.         *)
LEMMA HandStep ==
    ASSUME TypeOK, NEW r \in Requests, NEW b \in Bills, NEW x \in Batches, NEW row \in BatchRow,
           req' = [req EXCEPT ![r] = Idle], batches' = [batches EXCEPT ![x] = row],
           row.items[b] > 0 => Asked(r, b),
           Wanted(b)'
    PROVE  Wanted(b)
  <1>1. Idle \in Request /\ Idle.pc = "idle" BY DEF Request, Idle
  <1>2. req'[r] = Idle /\ \A p \in Requests \ {r} : req'[p] = req[p] BY <1>1, ReqStep
  <1>3. CASE \E y \in Batches : batches'[y] # NoRow /\ batches'[y].items[b] > 0
    <2> PICK y \in Batches : batches'[y] # NoRow /\ batches'[y].items[b] > 0 BY <1>3
    <2>1. CASE y = x BY <2>1 DEF TypeOK, Wanted
    <2>2. CASE y # x BY <2>2 DEF TypeOK, Wanted
    <2> QED BY <2>1, <2>2
  <1>4. CASE \E p \in Requests : Asked(p, b)'
    <2> PICK p \in Requests : Asked(p, b)' BY <1>4
    <2>1. p # r BY <1>1, <1>2 DEF Asked
    <2>2. Asked(p, b) BY <1>2, <2>1 DEF Asked
    <2> QED BY <2>2 DEF Wanted
  <1> QED BY <1>3, <1>4 DEF Wanted

LEMMA WantedStep ==
    ASSUME TypeInv, [Next]_vars, NEW b \in Bills, Wanted(b)'
    PROVE  Wanted(b) \/ Payable(b)
  <1>0. TypeOK BY DEF TypeInv
  <1>1. Idle \in Request /\ Idle.pc = "idle" BY DEF Request, Idle
  <1>2. ASSUME NEW r \in Requests, NEW new \in Request,
               req' = [req EXCEPT ![r] = new], UNCHANGED batches,
               new.pc \in {"idle", "status", "pay", "expense", "payment"}
        PROVE  Wanted(b) \/ Payable(b)
        BY <1>0, <1>2, AskStep
  <1>3. ASSUME NEW r \in Requests, NEW c \in Bills, LoadToUpdate(r, c)
        PROVE  Wanted(b) \/ Payable(b)
    <2> PICK t \in Statuses :
            req' = [req EXCEPT ![r] = [pc |-> "status", bill |-> c, row |-> bills[c], to |-> t]]
        BY <1>3 DEF LoadToUpdate, Begin
    <2>1. bills[c] \in BillRow BY <1>0, <1>3 DEF LoadToUpdate, TypeOK
    <2>2. [pc |-> "status", bill |-> c, row |-> bills[c], to |-> t] \in Request
          BY <2>1, BillAssumption DEF StatusRequest, Request
    <2> QED BY <1>2, <1>3, <2>2 DEF LoadToUpdate, table
  <1>4. ASSUME NEW r \in Requests, NEW c \in Bills, LoadToPay(r, c)
        PROVE  Wanted(b) \/ Payable(b)
    <2> PICK a \in Amounts :
            req' = [req EXCEPT ![r] = [pc |-> "pay", bill |-> c, row |-> bills[c], amount |-> a]]
        BY <1>4 DEF LoadToPay, Begin
    <2>1. bills[c] \in BillRow BY <1>0, <1>4 DEF LoadToPay, TypeOK
    <2>2. [pc |-> "pay", bill |-> c, row |-> bills[c], amount |-> a] \in Request
          BY <2>1, BillAssumption DEF PayRequest, Request
    <2> QED BY <1>2, <1>4, <2>2 DEF LoadToPay, table
  <1>5. ASSUME NEW r \in Requests, SaveStatus(r) PROVE Wanted(b) \/ Payable(b)
    <2>1. req[r].bill \in Bills BY <1>0, <1>5, ReqByPc DEF SaveStatus, StatusRequest
    <2>2. [pc |-> "expense", bill |-> req[r].bill, amount |-> Total[req[r].bill]] \in Request
          BY <2>1, BillAssumption DEF BookRequest, Request
    <2> QED BY <1>1, <1>2, <1>5, <2>2 DEF SaveStatus
  <1>6. ASSUME NEW r \in Requests, SavePayment(r) PROVE Wanted(b) \/ Payable(b)
    <2>1. req[r].bill \in Bills /\ req[r].amount \in Nat
          BY <1>0, <1>6, ReqByPc DEF SavePayment, PayRequest
    <2>2. [pc |-> "payment", bill |-> req[r].bill, amount |-> req[r].amount] \in Request
          BY <2>1 DEF BookRequest, Request
    <2> QED BY <1>2, <1>6, <2>2 DEF SavePayment
  <1>7. ASSUME NEW r \in Requests, BookExpense(r) \/ BookPayment(r) \/ Fail(r)
        PROVE  Wanted(b) \/ Payable(b)
        BY <1>1, <1>2, <1>7 DEF BookExpense, BookPayment, Fail, table
  <1>8. ASSUME NEW r \in Requests, NEW given \in SUBSET Bills, FindPayable(r, given)
        PROVE  Wanted(b) \/ Payable(b)
    <2> DEFINE new == [pc |-> "create",
                       items |-> [c \in Bills |-> IF c \in given /\ Payable(c) THEN Open(c) ELSE 0]]
    <2>1. UNCHANGED batches /\ req' = [req EXCEPT ![r] = new]
          BY <1>8 DEF FindPayable, Begin, table
    <2>2. new.pc = "create" /\ (new.items[b] > 0 => Payable(b)) OBVIOUS
    <2> HIDE DEF new
    <2>3. req'[r] = new /\ \A p \in Requests \ {r} : req'[p] = req[p]
          BY <1>0, <2>1 DEF TypeOK
    <2>4. CASE \E p \in Requests : Asked(p, b)'
      <3> PICK p \in Requests : Asked(p, b)' BY <2>4
      <3>1. CASE p = r BY <2>2, <2>3, <3>1 DEF Asked
      <3>2. CASE p # r
        <4>1. Asked(p, b) BY <2>3, <3>2 DEF Asked
        <4> QED BY <4>1 DEF Wanted
      <3> QED BY <3>1, <3>2
    <2> QED BY <2>1, <2>4 DEF Wanted
  <1>9. ASSUME NEW r \in Requests, NEW x \in Batches, CreateBatch(r, x) PROVE Wanted(b)
    <2>1. req[r].items \in [Bills -> Nat]
          BY <1>0, <1>9, ReqByPc DEF CreateBatch, CreateRequest
    <2> DEFINE row == [status |-> "DRAFT", items |-> req[r].items]
    <2>2. row \in BatchRow BY <2>1 DEF BatchRow, BatchStatus
    <2>3. row.items[b] > 0 => Asked(r, b) BY <1>9 DEF CreateBatch, Asked
    <2>4. batches' = [batches EXCEPT ![x] = row] /\ req' = [req EXCEPT ![r] = Idle]
          BY <1>9 DEF CreateBatch
    <2> HIDE DEF row
    <2> QED BY <1>0, <2>2, <2>3, <2>4, HandStep
  <1>10. ASSUME NEW r \in Requests, SaveExport(r) PROVE Wanted(b)
    <2>1. req[r].batch \in Batches /\ req[r].row \in BatchRow
          BY <1>0, <1>10, ReqByPc DEF SaveExport, ExportRequest
    <2> DEFINE row == [req[r].row EXCEPT !.status = "SENT_TO_BANK"]
    <2>2. row \in BatchRow /\ row.items = req[r].row.items BY <2>1 DEF BatchRow, BatchStatus
    <2>3. batches' = [batches EXCEPT ![req[r].batch] = row] /\ req' = [req EXCEPT ![r] = Idle]
          BY <1>10 DEF SaveExport
    <2> HIDE DEF row
    <2>4. row.items[b] > 0 => Asked(r, b) BY <1>10, <2>2 DEF SaveExport, Asked
    <2> QED BY <1>0, <2>1, <2>2, <2>3, <2>4, HandStep
  <1>11. ASSUME NEW r \in Requests, FinalizeCommit(r) PROVE Wanted(b)
    <2>1. req[r].batch \in Batches /\ req[r].items \in [Bills -> Nat]
          BY <1>0, <1>11, ReqByPc DEF FinalizeCommit, FinalizeRequest
    <2> DEFINE row == [status |-> "COMPLETED", items |-> req[r].items]
    <2>2. row \in BatchRow BY <2>1 DEF BatchRow, BatchStatus
    <2>3. row.items[b] > 0 => Asked(r, b) BY <1>11 DEF FinalizeCommit, Asked
    <2>4. batches' = [batches EXCEPT ![req[r].batch] = row] /\ req' = [req EXCEPT ![r] = Idle]
          BY <1>11 DEF FinalizeCommit
    <2> HIDE DEF row
    <2> QED BY <1>0, <2>1, <2>2, <2>3, <2>4, HandStep
  <1>12. ASSUME NEW r \in Requests, NEW x \in Batches, LoadToExport(r, x)
         PROVE  Wanted(b) \/ Payable(b)
    <2> DEFINE new == [pc |-> "export", batch |-> x, row |-> batches[x]]
    <2>1. batches[x] # NoRow /\ batches[x] \in BatchRow BY <1>0, <1>12 DEF LoadToExport, TypeOK
    <2>2. new \in Request BY <2>1 DEF ExportRequest, Request
    <2>3. new.pc = "export" /\ (new.row.items[b] > 0 => Wanted(b)) BY <2>1 DEF Wanted
    <2>4. req' = [req EXCEPT ![r] = new] /\ UNCHANGED batches
          BY <1>12 DEF LoadToExport, Begin, table
    <2> HIDE DEF new
    <2> QED BY <1>0, <2>2, <2>3, <2>4, AskStep
  <1>13. ASSUME NEW r \in Requests, NEW x \in Batches, LoadToFinalize(r, x)
         PROVE  Wanted(b) \/ Payable(b)
    <2> DEFINE items == batches[x].items
               new == [pc |-> "finalize", batch |-> x, items |-> items, todo |-> Items(items),
                       rows |-> [c \in Bills |-> IF c \in Items(items) THEN bills[c] ELSE NoRow]]
    <2>1. batches[x] # NoRow /\ batches[x] \in BatchRow
          BY <1>0, <1>13 DEF LoadToFinalize, TypeOK
    <2>2. new \in Request
      <3>1. items \in [Bills -> Nat] BY <2>1, RowTypes
      <3>2. Items(items) \subseteq Bills BY DEF Items
      <3>3. [c \in Bills |-> IF c \in Items(items) THEN bills[c] ELSE NoRow]
              \in [Bills -> BillRow \cup {NoRow}]
            BY <1>0 DEF TypeOK
      <3> QED BY <3>1, <3>2, <3>3 DEF FinalizeRequest, Request
    <2>3. new.pc = "finalize" /\ (new.items[b] > 0 => Wanted(b)) BY <2>1 DEF Wanted
    <2>4. req' = [req EXCEPT ![r] = new] /\ UNCHANGED batches
          BY <1>13 DEF LoadToFinalize, Begin, table
    <2> HIDE DEF new
    <2> QED BY <1>0, <2>2, <2>3, <2>4, AskStep
  <1>14. ASSUME NEW r \in Requests, NEW c \in Bills, PayItem(r, c)
         PROVE  Wanted(b) \/ Payable(b)
    <2>1. req[r] \in FinalizeRequest BY <1>0, <1>14, ReqByPc DEF PayItem
    <2> DEFINE new == [req[r] EXCEPT !.todo = @ \ {c}]
    <2>2. new \in FinalizeRequest /\ new.items = req[r].items BY <2>1 DEF FinalizeRequest
    <2>3. new \in Request /\ new.pc = "finalize" BY <2>2 DEF Request, FinalizeRequest
    <2>4. req' = [req EXCEPT ![r] = new] /\ UNCHANGED batches BY <1>14 DEF PayItem, table
    <2> HIDE DEF new
    <2>5. new.items[b] > 0 => Wanted(b) BY <1>14, <2>2 DEF PayItem, Asked, Wanted
    <2> QED BY <1>0, <2>3, <2>4, <2>5, AskStep
  <1>15. ASSUME UNCHANGED <<batches, req>> PROVE Wanted(b) BY <1>15 DEF Wanted, Asked
  <1> QED BY <1>3, <1>4, <1>5, <1>6, <1>7, <1>8, <1>9, <1>10, <1>11, <1>12, <1>13, <1>14, <1>15
          DEF Next, CreateBill, vars, table

(* finalizeBatch loads a row with every item.                              *)
LEMMA LoadedStep == ASSUME TypeInv, [Next]_vars PROVE Loaded'
  <1>0. TypeOK BY DEF TypeInv
  <1> SUFFICES ASSUME NEW p \in Requests, req'[p].pc = "finalize", NEW b \in Items(req'[p].items)
               PROVE  req'[p].rows[b] # NoRow
      BY DEF Loaded, Items
  <1>1. CASE req'[p] = req[p] BY <1>1 DEF TypeInv, Loaded, Items
  <1>2. ASSUME NEW x \in Batches, LoadToFinalize(p, x) PROVE req'[p].rows[b] # NoRow
    <2>1. /\ req'[p].items = batches[x].items
          /\ req'[p].rows = [c \in Bills |-> IF c \in Items(batches[x].items) THEN bills[c] ELSE NoRow]
          /\ batches[x] # NoRow
          BY <1>0, <1>2 DEF LoadToFinalize, Begin, TypeOK
    <2>2. Wanted(b) /\ b \in Bills BY <2>1 DEF Items, Wanted
    <2> QED BY <2>1, <2>2 DEF TypeInv, WantedExist
  <1>3. ASSUME NEW c \in Bills, PayItem(p, c) PROVE req'[p].rows[b] # NoRow
    <2>1. req[p] \in FinalizeRequest BY <1>0, <1>3, ReqByPc DEF PayItem
    <2>2. [req[p] EXCEPT !.todo = @ \ {c}].items = req[p].items
          /\ [req[p] EXCEPT !.todo = @ \ {c}].rows = req[p].rows
          BY <2>1 DEF FinalizeRequest
    <2>3. req'[p] = [req[p] EXCEPT !.todo = @ \ {c}] BY <1>0, <1>3 DEF PayItem, TypeOK
    <2> QED BY <1>3, <2>2, <2>3 DEF PayItem, TypeInv, Loaded, Items
  <1>4. ASSUME NEW r \in Requests, r # p,
               \/ \E x \in Batches : LoadToFinalize(r, x)
               \/ \E c \in Bills : PayItem(r, c)
        PROVE  req'[p] = req[p]
        BY <1>0, <1>4 DEF LoadToFinalize, Begin, PayItem, TypeOK
  <1>5. ASSUME NEW r \in Requests,
               \/ \E c \in Bills : LoadToUpdate(r, c) \/ LoadToPay(r, c)
               \/ \E given \in SUBSET Bills : FindPayable(r, given)
               \/ \E x \in Batches : LoadToExport(r, x)
        PROVE  req'[p] = req[p]
        BY <1>0, <1>5 DEF LoadToUpdate, LoadToPay, FindPayable, LoadToExport, Begin, TypeOK
  <1>6. ASSUME NEW r \in Requests,
               \/ \E x \in Batches : CreateBatch(r, x)
               \/ SaveStatus(r) \/ BookExpense(r) \/ SavePayment(r) \/ BookPayment(r)
               \/ SaveExport(r) \/ FinalizeCommit(r) \/ Fail(r)
        PROVE  req'[p] = req[p]
        BY <1>0, <1>6 DEF CreateBatch, SaveStatus, BookExpense, SavePayment, BookPayment,
                          SaveExport, FinalizeCommit, Fail, TypeOK, Idle
  <1>7. ASSUME UNCHANGED req PROVE req'[p] = req[p] BY <1>7
  <1> QED BY <1>1, <1>2, <1>3, <1>4, <1>5, <1>6, <1>7 DEF Next, CreateBill, vars

LEMMA TypeNext == TypeInv /\ [Next]_vars => TypeInv'
  <1> SUFFICES ASSUME TypeInv, [Next]_vars PROVE TypeInv'
      OBVIOUS
  <1>1. TypeOK'
    <2>1. CASE UNCHANGED vars BY <2>1 DEF vars, table, history, TypeInv, TypeOK
    <2>2. CASE Next
      <3>1. ASSUME NEW b \in Bills, CreateBill(b) PROVE TypeOK' BY <3>1, CreateType
      <3>2. ASSUME NEW r \in Requests,
                   \/ \E b \in Bills : LoadToUpdate(r, b) \/ LoadToPay(r, b)
                   \/ SaveStatus(r) \/ SavePayment(r) \/ BookExpense(r) \/ BookPayment(r)
            PROVE  TypeOK'
            BY <3>2, BillStepsType
      <3>3. ASSUME NEW r \in Requests, FinalizeCommit(r) PROVE TypeOK' BY <3>3, CommitType
      <3>4. ASSUME NEW r \in Requests,
                   \/ \E given \in SUBSET Bills : FindPayable(r, given)
                   \/ \E x \in Batches :
                         CreateBatch(r, x) \/ LoadToExport(r, x) \/ LoadToFinalize(r, x)
                   \/ \E b \in Bills : PayItem(r, b)
                   \/ SaveExport(r) \/ Fail(r)
            PROVE  TypeOK'
            BY <3>4, BatchStepsType
      <3> QED BY <2>2, <3>1, <3>2, <3>3, <3>4 DEF Next
    <2> QED BY <2>1, <2>2
  <1>2. WantedExist'
    <2> SUFFICES ASSUME NEW b \in Bills, Wanted(b)' PROVE bills'[b] # NoRow
        BY DEF WantedExist
    <2>1. Wanted(b) \/ Payable(b) BY WantedStep
    <2>2. bills[b] # NoRow BY <2>1, RowTypes DEF TypeInv, WantedExist, Payable
    <2> QED BY <2>2, RowsStay
  <1> QED BY <1>1, <1>2, LoadedStep DEF TypeInv

LEMMA AlwaysTyped == Spec => []TypeInv
  <1> QED BY TypeInit, TypeNext, PTL DEF Spec

(* The rows, the requests and the entries keep their types through every   *)
(* interleaving: a batch never has an item for a bill that does not exist, *)
(* nor does a finalization lack a row for an item.                         *)
THEOREM TypeCorrect == Spec => []TypeOK
  <1>1. TypeInv => TypeOK BY DEF TypeInv
  <1> QED BY <1>1, AlwaysTyped, PTL

----------------------------------------------------------------------------
Covered(b) == b \in expensed \cup unexpensed \/ Booking(b, "expense")

Expensed == \A b \in Bills : Wanted(b) \/ Payable(b) => Covered(b)

(* An entry that is there or on its way gets there, or its request fails.  *)
LEMMA CoveredStays ==
    ASSUME TypeOK, [Next]_vars, NEW b \in Bills, Covered(b)
    PROVE  Covered(b)'
  <1>1. expensed \subseteq expensed' /\ unexpensed \subseteq unexpensed'
        BY DEF Next, vars, table, history, CreateBill, LoadToUpdate, SaveStatus, BookExpense,
               LoadToPay, SavePayment, BookPayment, FindPayable, CreateBatch, LoadToExport,
               SaveExport, LoadToFinalize, PayItem, FinalizeCommit, Fail
  <1>2. CASE b \in expensed \cup unexpensed BY <1>1, <1>2 DEF Covered
  <1>3. CASE Booking(b, "expense")
    <2> PICK r \in Requests : req[r].pc = "expense" /\ req[r].bill = b BY <1>3 DEF Booking
    <2>1. CASE req'[r] = req[r] BY <2>1 DEF Covered, Booking
    <2>2. CASE BookExpense(r) BY <2>2 DEF BookExpense, Covered
    <2>3. CASE Fail(r) BY <2>3 DEF Fail, Covered
    <2>4. req[r] # Idle BY DEF Idle
    <2>5. ASSUME NEW p \in Requests,
                 \/ \E c \in Bills : LoadToUpdate(p, c) \/ LoadToPay(p, c)
                 \/ \E given \in SUBSET Bills : FindPayable(p, given)
                 \/ \E x \in Batches : LoadToExport(p, x) \/ LoadToFinalize(p, x)
          PROVE  req'[r] = req[r]
          BY <2>4, <2>5 DEF LoadToUpdate, LoadToPay, FindPayable, LoadToExport, LoadToFinalize,
                            Begin, TypeOK
    <2>6. ASSUME NEW p \in Requests,
                 \/ \E x \in Batches : CreateBatch(p, x)
                 \/ \E c \in Bills : PayItem(p, c)
                 \/ SaveStatus(p) \/ SavePayment(p) \/ BookPayment(p)
                 \/ SaveExport(p) \/ FinalizeCommit(p)
          PROVE  req'[r] = req[r]
          BY <2>6 DEF CreateBatch, PayItem, SaveStatus, SavePayment, BookPayment, SaveExport,
                      FinalizeCommit, TypeOK
    <2>7. ASSUME NEW p \in Requests, p # r, BookExpense(p) \/ Fail(p)
          PROVE  req'[r] = req[r]
          BY <2>7 DEF BookExpense, Fail, TypeOK
    <2>8. ASSUME UNCHANGED req PROVE req'[r] = req[r] BY <2>8
    <2> QED BY <2>1, <2>2, <2>3, <2>5, <2>6, <2>7, <2>8 DEF Next, CreateBill, vars
  <1> QED BY <1>2, <1>3 DEF Covered

(* Only updateBillStatus and createBill make a bill payable.               *)
LEMMA PayableStep ==
    ASSUME TypeInv, [Next]_vars, NEW b \in Bills, Payable(b)'
    PROVE  Payable(b) \/ Covered(b)'
  <1>0. TypeOK BY DEF TypeInv
  <1>1. ASSUME NEW c \in Bills, CreateBill(c) PROVE Payable(b) \/ Covered(b)'
    <2>1. CASE c = b BY <1>0, <1>1, <2>1 DEF CreateBill, TypeOK, Payable, Covered
    <2>2. CASE c # b BY <1>0, <1>1, <2>2 DEF CreateBill, TypeOK, Payable
    <2> QED BY <2>1, <2>2
  <1>2. ASSUME NEW r \in Requests, SaveStatus(r) PROVE Payable(b) \/ Covered(b)'
    <2>1. CASE req[r].bill = b
      <3>1. bills'[b] = [status |-> req[r].to, paid |-> req[r].row.paid]
            BY <1>0, <1>2, <2>1 DEF SaveStatus, TypeOK
      <3>2. req[r].to = "APPROVED" BY <3>1 DEF Payable
      <3>3. req'[r] = [pc |-> "expense", bill |-> b, amount |-> Total[b]]
            BY <1>0, <1>2, <2>1, <3>2 DEF SaveStatus, TypeOK
      <3> QED BY <3>3 DEF Covered, Booking
    <2>2. CASE req[r].bill # b BY <1>0, <1>2, <2>2 DEF SaveStatus, TypeOK, Payable
    <2> QED BY <2>1, <2>2
  <1>3. ASSUME NEW r \in Requests, SavePayment(r) PROVE Payable(b)
    <2>1. req[r].bill \in Bills /\ req[r].row \in BillRow /\ req[r].amount \in Nat
          BY <1>0, <1>3, ReqByPc DEF SavePayment, PayRequest
    <2>2. Paid(req[r].bill, req[r].row, req[r].amount).status # "APPROVED" BY <2>1, PaidType
    <2> QED BY <1>0, <1>3, <2>2 DEF SavePayment, TypeOK, Payable
  <1>4. ASSUME NEW r \in Requests, FinalizeCommit(r) PROVE Payable(b)
    <2>1. req[r] \in FinalizeRequest BY <1>0, <1>4, ReqByPc DEF FinalizeCommit
    <2>2. ASSUME b \in Items(req[r].items)
          PROVE  Paid(b, req[r].rows[b], req[r].items[b]).status # "APPROVED"
      <3>1. req[r].rows[b] # NoRow BY <1>4, <2>2 DEF TypeInv, Loaded, FinalizeCommit
      <3>2. req[r].rows[b] \in BillRow /\ req[r].items[b] \in Nat
            BY <2>1, <3>1 DEF FinalizeRequest
      <3> QED BY <3>2, PaidType
    <2> QED BY <1>4, <2>2 DEF FinalizeCommit, Payable
  <1>5. ASSUME UNCHANGED bills PROVE Payable(b) BY <1>5 DEF Payable
  <1> QED BY <1>1, <1>2, <1>3, <1>4, <1>5
          DEF Next, vars, table, LoadToUpdate, BookExpense, LoadToPay, BookPayment,
              FindPayable, CreateBatch, LoadToExport, SaveExport, LoadToFinalize,
              PayItem, Fail

LEMMA ExpensedNext == TypeInv /\ Expensed /\ [Next]_vars => Expensed'
  <1> SUFFICES ASSUME TypeInv, Expensed, [Next]_vars, NEW b \in Bills, (Wanted(b) \/ Payable(b))'
               PROVE  Covered(b)'
      BY DEF Expensed
  <1>1. Wanted(b) \/ Payable(b) \/ Covered(b)' BY WantedStep, PayableStep
  <1>2. Covered(b) => Covered(b)' BY CoveredStays DEF TypeInv
  <1> QED BY <1>1, <1>2 DEF Expensed

(* Whatever requests interleave or fail: no bill can be paid, and no batch *)
(* pays a bill, whose expense is neither in the ledger nor on its way      *)
(* there, unless it was created APPROVED or its entry failed.              *)
THEOREM PayableBillsAreExpensed == Spec => []PayableIsExpensed
  <1>1. Init => Expensed
    <2> SUFFICES ASSUME Init, NEW b \in Bills PROVE ~Wanted(b) /\ ~Payable(b)
        BY DEF Expensed
    <2>1. \A r \in Requests : req[r].pc = "idle" BY DEF Init, Idle
    <2> QED BY <2>1, RowTypes DEF Init, Wanted, Asked, Payable
  <1>2. TypeInv /\ Expensed => PayableIsExpensed
    <2> SUFFICES ASSUME TypeInv, Expensed, NEW b \in Bills, ~Covered(b)
                 PROVE  /\ bills[b].status # "APPROVED"
                        /\ \A x \in Batches : batches[x] # NoRow => batches[x].items[b] = 0
        BY DEF PayableIsExpensed, Covered
    <2>1. ~Wanted(b) /\ ~Payable(b) BY DEF Expensed
    <2>2. ASSUME NEW x \in Batches, batches[x] # NoRow PROVE batches[x].items[b] \in Nat
          BY <2>2, RowTypes DEF TypeInv, TypeOK
    <2> QED BY <2>1, <2>2 DEF Wanted, Payable
  <1> QED BY <1>1, <1>2, ExpensedNext, AlwaysTyped, PTL DEF Spec

----------------------------------------------------------------------------
Spent(b) == recorded[b] + batched[b]

\* No row, in the table or in memory, says more is paid than was spent.
TableHonest == \A b \in Bills : bills[b] # NoRow => bills[b].paid <= Spent(b)

MemoryHonest ==
    \A r \in Requests :
        /\ req[r].pc \in {"status", "pay"} => req[r].row.paid <= Spent(req[r].bill)
        /\ req[r].pc = "finalize" =>
              \A b \in Items(req[r].items) : req[r].rows[b].paid <= Spent(b)

Honest == TableHonest /\ MemoryHonest

LEMMA SpentGrows ==
    ASSUME TypeInv, [Next]_vars, NEW b \in Bills
    PROVE  Spent(b) \in Nat /\ Spent(b)' \in Nat /\ Spent(b) <= Spent(b)'
  <1>0. TypeOK BY DEF TypeInv
  <1>1. recorded[b] \in Nat /\ batched[b] \in Nat BY <1>0 DEF TypeOK
  <1>2. ASSUME NEW r \in Requests, SavePayment(r)
        PROVE  recorded'[b] \in Nat /\ recorded[b] <= recorded'[b] /\ batched' = batched
    <2>1. req[r].amount \in Nat BY <1>0, <1>2, ReqByPc DEF SavePayment, PayRequest
    <2> QED BY <1>0, <1>1, <1>2, <2>1 DEF SavePayment, TypeOK
  <1>3. ASSUME NEW r \in Requests, FinalizeCommit(r)
        PROVE  batched'[b] \in Nat /\ batched[b] <= batched'[b] /\ recorded' = recorded
    <2>1. req[r].items[b] \in Nat
          BY <1>0, <1>3, ReqByPc DEF FinalizeCommit, FinalizeRequest
    <2> QED BY <1>1, <1>3, <2>1 DEF FinalizeCommit
  <1>4. CASE UNCHANGED <<recorded, batched>> BY <1>1, <1>4 DEF Spent
  <1>5. ASSUME NEW r \in Requests, SavePayment(r)
        PROVE  Spent(b) \in Nat /\ Spent(b)' \in Nat /\ Spent(b) <= Spent(b)'
        BY <1>1, <1>2, <1>5 DEF Spent
  <1>6. ASSUME NEW r \in Requests, FinalizeCommit(r)
        PROVE  Spent(b) \in Nat /\ Spent(b)' \in Nat /\ Spent(b) <= Spent(b)'
        BY <1>1, <1>3, <1>6 DEF Spent
  <1> QED BY <1>4, <1>5, <1>6
          DEF Next, vars, history, CreateBill, LoadToUpdate, SaveStatus, BookExpense, LoadToPay,
              BookPayment, FindPayable, CreateBatch, LoadToExport, SaveExport, LoadToFinalize,
              PayItem, Fail

LEMMA TableStep ==
    ASSUME TypeInv, Honest, [Next]_vars, NEW b \in Bills, bills'[b] # NoRow
    PROVE  bills'[b].paid <= Spent(b)'
  <1>0. TypeOK BY DEF TypeInv
  <1>1. Spent(b) \in Nat /\ Spent(b)' \in Nat /\ Spent(b) <= Spent(b)' BY SpentGrows
  <1>2. CASE bills'[b] = bills[b]
    <2>1. bills[b] \in BillRow /\ bills[b].paid <= Spent(b)
          BY <1>0, <1>2 DEF TypeOK, Honest, TableHonest
    <2> QED BY <1>1, <1>2, <2>1, RowTypes
  <1>3. ASSUME NEW c \in Bills, CreateBill(c), bills'[b] # bills[b]
        PROVE  bills'[b].paid <= Spent(b)'
    <2>1. bills'[b].paid = 0 BY <1>0, <1>3 DEF CreateBill, TypeOK
    <2> QED BY <1>1, <2>1
  <1>4. ASSUME NEW r \in Requests, SaveStatus(r), bills'[b] # bills[b]
        PROVE  bills'[b].paid <= Spent(b)'
    <2>1. req[r].bill = b /\ bills'[b].paid = req[r].row.paid
          BY <1>0, <1>4 DEF SaveStatus, TypeOK
    <2>2. req[r].row.paid \in Nat
          BY <1>0, <1>4, ReqByPc, RowTypes DEF SaveStatus, StatusRequest
    <2>3. req[r].row.paid <= Spent(b) BY <1>4, <2>1 DEF Honest, MemoryHonest, SaveStatus
    <2> QED BY <1>1, <2>1, <2>2, <2>3
  <1>5. ASSUME NEW r \in Requests, SavePayment(r), bills'[b] # bills[b]
        PROVE  bills'[b].paid <= Spent(b)'
    <2>1. req[r].bill \in Bills /\ req[r].row \in BillRow /\ req[r].amount \in Nat
          BY <1>0, <1>5, ReqByPc DEF SavePayment, PayRequest
    <2>2. req[r].bill = b /\ bills'[b] = Paid(b, req[r].row, req[r].amount)
          BY <1>0, <1>5 DEF SavePayment, TypeOK
    <2>3. bills'[b].paid = req[r].row.paid + req[r].amount BY <2>1, <2>2, PaidType
    <2>4. req[r].row.paid <= Spent(b) BY <1>5, <2>2 DEF Honest, MemoryHonest, SavePayment
    <2>5. recorded'[b] = recorded[b] + req[r].amount /\ batched' = batched
          BY <1>0, <1>5, <2>2 DEF SavePayment, TypeOK
    <2>6. Spent(b)' = Spent(b) + req[r].amount BY <1>0, <2>1, <2>5 DEF Spent, TypeOK
    <2>7. req[r].row.paid \in Nat BY <2>1, RowTypes
    <2> QED BY <1>1, <2>1, <2>3, <2>4, <2>6, <2>7
  <1>6. ASSUME NEW r \in Requests, FinalizeCommit(r), bills'[b] # bills[b]
        PROVE  bills'[b].paid <= Spent(b)'
    <2>1. req[r] \in FinalizeRequest BY <1>0, <1>6, ReqByPc DEF FinalizeCommit
    <2>2. b \in Items(req[r].items) BY <1>6 DEF FinalizeCommit
    <2>3. bills'[b] = Paid(b, req[r].rows[b], req[r].items[b]) BY <1>6, <2>2 DEF FinalizeCommit
    <2>4. req[r].rows[b] # NoRow BY <1>6, <2>2 DEF TypeInv, Loaded, FinalizeCommit
    <2>5. req[r].rows[b] \in BillRow /\ req[r].items[b] \in Nat
          BY <2>1, <2>4 DEF FinalizeRequest
    <2>6. bills'[b].paid = req[r].rows[b].paid + req[r].items[b] BY <2>3, <2>5, PaidType
    <2>7. req[r].rows[b].paid <= Spent(b)
          BY <1>6, <2>2 DEF Honest, MemoryHonest, FinalizeCommit
    <2>8. batched'[b] = batched[b] + req[r].items[b] /\ recorded' = recorded
          BY <1>6 DEF FinalizeCommit
    <2>9. Spent(b)' = Spent(b) + req[r].items[b] BY <1>0, <2>5, <2>8 DEF Spent, TypeOK
    <2>10. req[r].rows[b].paid \in Nat BY <2>5, RowTypes
    <2> QED BY <1>1, <2>5, <2>6, <2>7, <2>9, <2>10
  <1>7. CASE UNCHANGED bills BY <1>2, <1>7
  <1> QED BY <1>2, <1>3, <1>4, <1>5, <1>6, <1>7
          DEF Next, vars, table, LoadToUpdate, BookExpense, LoadToPay, BookPayment,
              FindPayable, CreateBatch, LoadToExport, SaveExport, LoadToFinalize,
              PayItem, Fail

LEMMA MemoryStep == ASSUME TypeInv, Honest, [Next]_vars PROVE MemoryHonest'
  <1>0. TypeOK BY DEF TypeInv
  <1> DEFINE Goal(r) ==
               /\ req'[r].pc \in {"status", "pay"} =>
                     req'[r].row.paid <= recorded'[req'[r].bill] + batched'[req'[r].bill]
               /\ req'[r].pc = "finalize" =>
                     \A b \in Items(req'[r].items) :
                         req'[r].rows[b].paid <= recorded'[b] + batched'[b]
  <1> SUFFICES ASSUME NEW r \in Requests PROVE Goal(r)
      BY DEF MemoryHonest, Spent, Items
  <1>1. \A b \in Bills : Spent(b) \in Nat /\ Spent(b)' \in Nat /\ Spent(b) <= Spent(b)'
        BY SpentGrows
  <1>2. ASSUME NEW b \in Bills, NEW n \in Nat, n <= Spent(b)
        PROVE  n <= recorded'[b] + batched'[b]
        BY <1>1, <1>2 DEF Spent
  <1>3. CASE req'[r] = req[r]
    <2>1. ASSUME req[r].pc \in {"status", "pay"}
          PROVE  req[r].row.paid <= recorded'[req[r].bill] + batched'[req[r].bill]
      <3>1. req[r].bill \in Bills /\ req[r].row.paid \in Nat
            BY <1>0, <2>1, ReqByPc, RowTypes DEF StatusRequest, PayRequest
      <3>2. req[r].row.paid <= Spent(req[r].bill) BY <2>1 DEF Honest, MemoryHonest
      <3> QED BY <1>2, <3>1, <3>2
    <2>2. ASSUME req[r].pc = "finalize", NEW b \in Items(req[r].items)
          PROVE  req[r].rows[b].paid <= recorded'[b] + batched'[b]
      <3>1. b \in Bills /\ req[r].rows[b] # NoRow BY <2>2 DEF TypeInv, Loaded, Items
      <3>2. req[r].rows[b] \in BillRow BY <1>0, <2>2, <3>1, ReqByPc DEF FinalizeRequest
      <3>3. req[r].rows[b].paid <= Spent(b) BY <2>2 DEF Honest, MemoryHonest
      <3> QED BY <1>2, <3>1, <3>2, <3>3, RowTypes
    <2> QED BY <1>3, <2>1, <2>2
  <1>4. CASE req'[r].pc \notin {"status", "pay", "finalize"} BY <1>4
  <1>5. ASSUME NEW c \in Bills, bills[c] # NoRow, req'[r].bill = c, req'[r].row = bills[c],
               req'[r].pc \in {"status", "pay"}
        PROVE  Goal(r)
    <2>1. bills[c] \in BillRow /\ bills[c].paid <= Spent(c)
          BY <1>0, <1>5 DEF TypeOK, Honest, TableHonest
    <2> QED BY <1>2, <1>5, <2>1, RowTypes
  <1>6. ASSUME NEW c \in Bills, LoadToUpdate(r, c) \/ LoadToPay(r, c) PROVE Goal(r)
    <2>1. /\ bills[c] # NoRow /\ req'[r].bill = c /\ req'[r].row = bills[c]
          /\ req'[r].pc \in {"status", "pay"}
          BY <1>0, <1>6 DEF LoadToUpdate, LoadToPay, Begin, TypeOK
    <2> QED BY <1>5, <2>1
  <1>7. ASSUME NEW x \in Batches, LoadToFinalize(r, x) PROVE Goal(r)
    <2>1. /\ req'[r].pc = "finalize" /\ req'[r].items = batches[x].items /\ batches[x] # NoRow
          /\ req'[r].rows = [c \in Bills |-> IF c \in Items(batches[x].items) THEN bills[c] ELSE NoRow]
          BY <1>0, <1>7 DEF LoadToFinalize, Begin, TypeOK
    <2>2. ASSUME NEW b \in Items(req'[r].items)
          PROVE  req'[r].rows[b].paid <= recorded'[b] + batched'[b]
      <3>1. b \in Bills /\ Wanted(b) /\ req'[r].rows[b] = bills[b]
            BY <2>1, <2>2 DEF Items, Wanted
      <3>2. bills[b] # NoRow BY <3>1 DEF TypeInv, WantedExist
      <3>3. bills[b] \in BillRow /\ bills[b].paid <= Spent(b)
            BY <1>0, <3>1, <3>2 DEF TypeOK, Honest, TableHonest
      <3> QED BY <1>2, <3>1, <3>3, RowTypes
    <2> QED BY <2>1, <2>2
  <1>8. ASSUME NEW c \in Bills, PayItem(r, c) PROVE Goal(r)
    <2>1. req[r] \in FinalizeRequest BY <1>0, <1>8, ReqByPc DEF PayItem
    <2>2. /\ [req[r] EXCEPT !.todo = @ \ {c}].items = req[r].items
          /\ [req[r] EXCEPT !.todo = @ \ {c}].rows = req[r].rows
          /\ [req[r] EXCEPT !.todo = @ \ {c}].pc = "finalize"
          BY <1>8, <2>1 DEF PayItem, FinalizeRequest
    <2>3. req'[r] = [req[r] EXCEPT !.todo = @ \ {c}] BY <1>0, <1>8 DEF PayItem, TypeOK
    <2>4. ASSUME NEW b \in Items(req[r].items)
          PROVE  req[r].rows[b].paid <= recorded'[b] + batched'[b]
      <3>1. b \in Bills /\ req[r].rows[b] # NoRow BY <1>8 DEF PayItem, TypeInv, Loaded, Items
      <3>2. req[r].rows[b] \in BillRow BY <2>1, <3>1 DEF FinalizeRequest
      <3>3. req[r].rows[b].paid <= Spent(b) BY <1>8 DEF PayItem, Honest, MemoryHonest
      <3> QED BY <1>2, <3>1, <3>2, <3>3, RowTypes
    <2> QED BY <2>2, <2>3, <2>4
  <1>9. ASSUME NEW p \in Requests, p # r,
               \/ \E c \in Bills : LoadToUpdate(p, c) \/ LoadToPay(p, c) \/ PayItem(p, c)
               \/ \E x \in Batches : LoadToFinalize(p, x)
        PROVE  req'[r] = req[r]
        BY <1>0, <1>9 DEF LoadToUpdate, LoadToPay, PayItem, LoadToFinalize, Begin, TypeOK
  <1>10. ASSUME NEW p \in Requests,
                \/ \E given \in SUBSET Bills : FindPayable(p, given)
                \/ \E x \in Batches : LoadToExport(p, x)
         PROVE  req'[r] = req[r] \/ req'[r].pc \in {"create", "export"}
         BY <1>0, <1>10 DEF FindPayable, LoadToExport, Begin, TypeOK
  <1>11. ASSUME NEW p \in Requests,
                \/ \E x \in Batches : CreateBatch(p, x)
                \/ SaveStatus(p) \/ BookExpense(p) \/ SavePayment(p) \/ BookPayment(p)
                \/ SaveExport(p) \/ FinalizeCommit(p) \/ Fail(p)
         PROVE  req'[r] = req[r] \/ req'[r].pc \in {"idle", "expense", "payment"}
         BY <1>0, <1>11 DEF CreateBatch, SaveStatus, BookExpense, SavePayment, BookPayment,
                            SaveExport, FinalizeCommit, Fail, TypeOK, Idle
  <1>12. ASSUME UNCHANGED req PROVE req'[r] = req[r] BY <1>12
  <1> HIDE DEF Goal
  <1> QED BY <1>3, <1>4, <1>6, <1>7, <1>8, <1>9, <1>10, <1>11, <1>12 DEF Next, CreateBill, vars

(* However many requests save what they loaded long ago, fail or finalize  *)
(* a batch again: no bill says that more of it is paid than recordPayment  *)
(* and the batches have paid.                                              *)
THEOREM PaymentsAreNotInvented == Spec => []PaidNotInvented
  <1>1. Init => Honest
    <2> SUFFICES ASSUME Init PROVE Honest
        OBVIOUS
    <2>1. \A r \in Requests : req[r].pc = "idle" BY DEF Init, Idle
    <2> QED BY <2>1 DEF Init, Honest, TableHonest, MemoryHonest
  <1>2. TypeInv /\ Honest /\ [Next]_vars => Honest'
        BY TableStep, MemoryStep DEF Honest, TableHonest
  <1>3. Honest => PaidNotInvented BY DEF Honest, TableHonest, Spent, PaidNotInvented
  <1> QED BY <1>1, <1>2, <1>3, AlwaysTyped, PTL DEF Spec
----------------------------------------------------------------------------
HasBatch(r, x) == req[r].pc \in {"export", "finalize"} /\ req[r].batch = x

\* Two requests that have a batch at the same time have raced for it.
BatchRaceIsSeen ==
    \A p, t \in Requests, x \in Batches :
        p # t /\ HasBatch(p, x) /\ HasBatch(t, x) => x \in raced

(* A batch nobody raced for, and nobody exported again, was finalized once *)
(* at most; once it was, it says so and no request has it any more.        *)
CompletedOnce ==
    \A x \in Batches \ (raced \cup reopened) :
        \/ completed[x] = 0
        \/ /\ completed[x] = 1
           /\ batches[x].status = "COMPLETED"
           /\ \A r \in Requests : ~HasBatch(r, x)

\* The steps of a request at which it loads batch x.
LoadsBatch(r, x) == LoadToExport(r, x) \/ LoadToFinalize(r, x)

\* A request that comes to have a batch has loaded it.
LEMMA HasBatchStep ==
    ASSUME TypeInv, [Next]_vars, NEW r \in Requests, NEW x \in Batches, HasBatch(r, x)'
    PROVE  HasBatch(r, x) \/ LoadsBatch(r, x)
  <1>0. TypeOK BY DEF TypeInv
  <1>1. CASE req'[r] = req[r] BY <1>1 DEF HasBatch
  <1>2. ASSUME NEW p \in Requests, NEW b \in Bills, PayItem(p, b) PROVE HasBatch(r, x)
    <2>1. p = r => req[r].pc = "finalize" BY <1>2 DEF PayItem
    <2>2. p = r => req'[r] = [req[r] EXCEPT !.todo = @ \ {b}] BY <1>0, <1>2 DEF PayItem, TypeOK
    <2>3. p # r => req'[r] = req[r] BY <1>0, <1>2 DEF PayItem, TypeOK
    <2>4. CASE p = r
      <3>1. req[r] \in FinalizeRequest BY <1>0, <2>1, <2>4, ReqByPc
      <3>2. [req[r] EXCEPT !.todo = @ \ {b}].batch = req[r].batch BY <3>1 DEF FinalizeRequest
      <3>3. req'[r].batch = req[r].batch BY <2>2, <2>4, <3>2
      <3>4. req[r].batch = x BY <3>3 DEF HasBatch
      <3> QED BY <2>1, <2>4, <3>4 DEF HasBatch
    <2>5. CASE p # r BY <2>3, <2>5 DEF HasBatch
    <2> QED BY <2>4, <2>5
  <1>3. ASSUME NEW y \in Batches, LoadsBatch(r, y) PROVE LoadsBatch(r, x)
    <2>1. req'[r].batch = y
          BY <1>0, <1>3 DEF LoadsBatch, LoadToExport, LoadToFinalize, Begin, TypeOK
    <2> QED BY <1>3, <2>1 DEF HasBatch
  <1>4. ASSUME NEW p \in Requests, p # r,
               \E y \in Batches : LoadsBatch(p, y)
        PROVE  req'[r] = req[r]
        BY <1>0, <1>4 DEF LoadsBatch, LoadToExport, LoadToFinalize, Begin, TypeOK
  <1>5. ASSUME NEW p \in Requests,
               \/ \E b \in Bills : LoadToUpdate(p, b) \/ LoadToPay(p, b)
               \/ \E given \in SUBSET Bills : FindPayable(p, given)
        PROVE  req'[r] = req[r] \/ req'[r].pc \in {"status", "pay", "create"}
        BY <1>0, <1>5 DEF LoadToUpdate, LoadToPay, FindPayable, Begin, TypeOK
  <1>6. ASSUME NEW p \in Requests,
               \/ \E y \in Batches : CreateBatch(p, y)
               \/ SaveStatus(p) \/ BookExpense(p) \/ SavePayment(p) \/ BookPayment(p)
               \/ SaveExport(p) \/ FinalizeCommit(p) \/ Fail(p)
        PROVE  req'[r] = req[r] \/ req'[r].pc \in {"idle", "expense", "payment"}
        BY <1>0, <1>6 DEF CreateBatch, SaveStatus, BookExpense, SavePayment, BookPayment,
                          SaveExport, FinalizeCommit, Fail, TypeOK, Idle
  <1>7. req'[r].pc \in {"export", "finalize"} BY DEF HasBatch
  <1>8. CASE UNCHANGED req BY <1>1, <1>8
  <1>9. ASSUME NEW p \in Requests, NEW y \in Batches, LoadsBatch(p, y)
        PROVE  HasBatch(r, x) \/ LoadsBatch(r, x)
        BY <1>1, <1>3, <1>4, <1>9
  <1>10. CASE UNCHANGED vars \/ \E b \in Bills : CreateBill(b)
         BY <1>8, <1>10 DEF CreateBill, vars
  <1> QED BY <1>1, <1>2, <1>5, <1>6, <1>7, <1>9, <1>10 DEF Next, LoadsBatch

\* The past is not forgotten.
LEMMA BatchHistory ==
    ASSUME TypeInv, [Next]_vars
    PROVE  raced \subseteq raced' /\ reopened \subseteq reopened'
  <1>1. CASE UNCHANGED vars \/ \E b \in Bills : CreateBill(b)
        BY <1>1 DEF CreateBill, vars, history
  <1>2. ASSUME NEW r \in Requests,
               \/ \E b \in Bills : LoadToUpdate(r, b) \/ LoadToPay(r, b) \/ PayItem(r, b)
               \/ \E given \in SUBSET Bills : FindPayable(r, given)
               \/ \E x \in Batches : LoadToExport(r, x) \/ LoadToFinalize(r, x)
        PROVE  raced \subseteq raced' /\ reopened \subseteq reopened'
        BY <1>2 DEF LoadToUpdate, LoadToPay, PayItem, FindPayable, LoadToExport, LoadToFinalize,
                    Begin, history
  <1>3. ASSUME NEW r \in Requests,
               \/ \E x \in Batches : CreateBatch(r, x)
               \/ SaveStatus(r) \/ BookExpense(r) \/ SavePayment(r) \/ BookPayment(r)
               \/ SaveExport(r) \/ FinalizeCommit(r) \/ Fail(r)
        PROVE  raced \subseteq raced' /\ reopened \subseteq reopened'
        BY <1>3 DEF CreateBatch, SaveStatus, BookExpense, SavePayment, BookPayment, SaveExport,
                    FinalizeCommit, Fail, history
  <1> QED BY <1>1, <1>2, <1>3 DEF Next

LEMMA LoadBatch ==
    ASSUME TypeInv, NEW r \in Requests, NEW x \in Batches, LoadsBatch(r, x)
    PROVE  /\ \A p \in Requests \ {r} : HasBatch(p, x) => x \in raced'
           /\ \A p \in Requests \ {r} : req'[p] = req[p]
           /\ ~HasBatch(r, x)
           /\ batches[x].status = "COMPLETED" => x \in reopened'
  <1>0. TypeOK BY DEF TypeInv
  <1>1. ASSUME NEW p \in Requests, HasBatch(p, x) PROVE x \in Holds(p)
        BY <1>1 DEF HasBatch, Holds
  <1>2. req[r].pc = "idle" /\ \A p \in Requests \ {r} : req'[p] = req[p]
        BY <1>0, ReqByPc DEF LoadsBatch, LoadToExport, LoadToFinalize, Begin, TypeOK
  <1>3. \A p \in Requests \ {r} : x \in Holds(p) => x \in raced'
        BY DEF LoadsBatch, LoadToExport, LoadToFinalize, Begin
  <1>4. batches[x].status = "COMPLETED" => x \in reopened'
        BY DEF LoadsBatch, LoadToExport, LoadToFinalize, Finalizable
  <1> QED BY <1>1, <1>2, <1>3, <1>4 DEF HasBatch

LEMMA BatchRaceStep == ASSUME TypeInv, BatchRaceIsSeen, [Next]_vars PROVE BatchRaceIsSeen'
  <1> SUFFICES ASSUME NEW p \in Requests, NEW t \in Requests, NEW x \in Batches, p # t,
                      HasBatch(p, x)', HasBatch(t, x)'
               PROVE  x \in raced'
      BY DEF BatchRaceIsSeen
  <1>1. HasBatch(p, x) \/ LoadsBatch(p, x) BY HasBatchStep
  <1>2. HasBatch(t, x) \/ LoadsBatch(t, x) BY HasBatchStep
  <1>3. CASE LoadsBatch(p, x)
    <2>1. HasBatch(t, x) BY <1>3, LoadBatch DEF HasBatch
    <2> QED BY <1>3, <2>1, LoadBatch
  <1>4. CASE LoadsBatch(t, x)
    <2>1. HasBatch(p, x) BY <1>4, LoadBatch DEF HasBatch
    <2> QED BY <1>4, <2>1, LoadBatch
  <1>5. CASE HasBatch(p, x) /\ HasBatch(t, x) BY <1>5, BatchHistory DEF BatchRaceIsSeen
  <1> QED BY <1>1, <1>2, <1>3, <1>4, <1>5

\* Only the end of a transaction counts as a completion.
LEMMA CompletedFrame ==
    ASSUME TypeOK, [Next]_vars, NEW x \in Batches,
           ~\E r \in Requests : FinalizeCommit(r) /\ req[r].batch = x
    PROVE  completed'[x] = completed[x]
  <1>1. CASE UNCHANGED vars \/ \E b \in Bills : CreateBill(b)
        BY <1>1 DEF CreateBill, vars, history
  <1>2. ASSUME NEW r \in Requests,
               \/ \E b \in Bills : LoadToUpdate(r, b) \/ LoadToPay(r, b) \/ PayItem(r, b)
               \/ \E given \in SUBSET Bills : FindPayable(r, given)
               \/ \E y \in Batches : LoadToExport(r, y) \/ LoadToFinalize(r, y)
        PROVE  completed'[x] = completed[x]
        BY <1>2 DEF LoadToUpdate, LoadToPay, PayItem, FindPayable, LoadToExport, LoadToFinalize,
                    history
  <1>3. ASSUME NEW r \in Requests,
               \/ \E y \in Batches : CreateBatch(r, y)
               \/ SaveStatus(r) \/ BookExpense(r) \/ SavePayment(r) \/ BookPayment(r)
               \/ SaveExport(r) \/ Fail(r)
        PROVE  completed'[x] = completed[x]
        BY <1>3 DEF CreateBatch, SaveStatus, BookExpense, SavePayment, BookPayment, SaveExport,
                    Fail, history
  <1>4. ASSUME NEW r \in Requests, FinalizeCommit(r) PROVE completed'[x] = completed[x]
        BY <1>4 DEF FinalizeCommit, TypeOK
  <1> QED BY <1>1, <1>2, <1>3, <1>4 DEF Next

\* A batch that exists is written by its export and by its finalization.
LEMMA BatchFrame ==
    ASSUME TypeOK, [Next]_vars, NEW x \in Batches, batches[x] # NoRow,
           ~\E r \in Requests : FinalizeCommit(r) /\ req[r].batch = x,
           \A r \in Requests : SaveExport(r) => req[r].batch # x
    PROVE  batches'[x] = batches[x]
  <1>1. CASE UNCHANGED vars \/ \E b \in Bills : CreateBill(b)
        BY <1>1 DEF CreateBill, vars, table
  <1>2. ASSUME NEW r \in Requests,
               \/ \E b \in Bills : LoadToUpdate(r, b) \/ LoadToPay(r, b) \/ PayItem(r, b)
               \/ \E given \in SUBSET Bills : FindPayable(r, given)
               \/ \E y \in Batches : LoadToExport(r, y) \/ LoadToFinalize(r, y)
        PROVE  batches'[x] = batches[x]
        BY <1>2 DEF LoadToUpdate, LoadToPay, PayItem, FindPayable, LoadToExport, LoadToFinalize,
                    table
  <1>3. ASSUME NEW r \in Requests, NEW y \in Batches, CreateBatch(r, y)
        PROVE  batches'[x] = batches[x]
        BY <1>3 DEF CreateBatch, TypeOK
  <1>4. ASSUME NEW r \in Requests,
               SaveStatus(r) \/ BookExpense(r) \/ SavePayment(r) \/ BookPayment(r) \/ Fail(r)
        PROVE  batches'[x] = batches[x]
        BY <1>4 DEF SaveStatus, BookExpense, SavePayment, BookPayment, Fail, table
  <1>5. ASSUME NEW r \in Requests, SaveExport(r) PROVE batches'[x] = batches[x]
        BY <1>5 DEF SaveExport, TypeOK
  <1>6. ASSUME NEW r \in Requests, FinalizeCommit(r) PROVE batches'[x] = batches[x]
        BY <1>6 DEF FinalizeCommit, TypeOK
  <1> QED BY <1>1, <1>2, <1>3, <1>4, <1>5, <1>6 DEF Next

LEMMA CompletedStep ==
    ASSUME TypeInv, BatchRaceIsSeen, CompletedOnce, [Next]_vars
    PROVE  CompletedOnce'
  <1>0. TypeOK BY DEF TypeInv
  <1> SUFFICES ASSUME NEW x \in Batches, x \notin raced', x \notin reopened'
               PROVE  \/ completed'[x] = 0
                      \/ /\ completed'[x] = 1
                         /\ batches'[x].status = "COMPLETED"
                         /\ \A r \in Requests : ~HasBatch(r, x)'
      BY DEF CompletedOnce
  <1>1. x \notin raced /\ x \notin reopened BY BatchHistory
  <1>2. \/ completed[x] = 0
        \/ completed[x] = 1 /\ batches[x].status = "COMPLETED"
                            /\ \A r \in Requests : ~HasBatch(r, x)
        BY <1>1 DEF CompletedOnce
  <1>3. ASSUME NEW r \in Requests, FinalizeCommit(r), req[r].batch = x
        PROVE  /\ completed'[x] = 1
               /\ batches'[x].status = "COMPLETED"
               /\ \A p \in Requests : ~HasBatch(p, x)'
    <2>1. HasBatch(r, x) BY <1>3 DEF HasBatch, FinalizeCommit
    <2>2. completed[x] = 0 BY <1>2, <2>1
    <2>3. completed'[x] = 1 BY <1>0, <1>3, <2>2 DEF FinalizeCommit, TypeOK
    <2>4. batches'[x].status = "COMPLETED" BY <1>0, <1>3 DEF FinalizeCommit, TypeOK
    <2>5. req'[r] = Idle /\ \A p \in Requests \ {r} : req'[p] = req[p]
          BY <1>0, <1>3 DEF FinalizeCommit, TypeOK
    <2>6. ASSUME NEW p \in Requests, HasBatch(p, x)' PROVE FALSE
      <3>1. p # r BY <2>5, <2>6 DEF HasBatch, Idle
      <3>2. HasBatch(p, x) BY <2>5, <2>6, <3>1 DEF HasBatch
      <3> QED BY <1>1, <2>1, <3>1, <3>2 DEF BatchRaceIsSeen
    <2> QED BY <2>3, <2>4, <2>6
  <1>4. CASE ~\E r \in Requests : FinalizeCommit(r) /\ req[r].batch = x
    <2>1. completed'[x] = completed[x] BY <1>0, <1>4, CompletedFrame
    <2>2. CASE completed[x] = 1
      <3>1. batches[x].status = "COMPLETED" /\ \A r \in Requests : ~HasBatch(r, x)
            BY <1>2, <2>2
      <3>2. ASSUME NEW r \in Requests, SaveExport(r) PROVE req[r].batch # x
            BY <3>1, <3>2 DEF SaveExport, HasBatch
      <3>3. batches[x] # NoRow BY <3>1 DEF NoRow
      <3>4. batches'[x] = batches[x] BY <1>0, <1>4, <3>2, <3>3, BatchFrame
      <3>5. \A r \in Requests : ~LoadsBatch(r, x) BY <3>1, LoadBatch
      <3>6. \A r \in Requests : ~HasBatch(r, x)' BY <3>1, <3>5, HasBatchStep
      <3> QED BY <2>1, <2>2, <3>1, <3>4, <3>6
    <2>3. CASE completed[x] = 0 BY <2>1, <2>3
    <2> QED BY <1>2, <2>2, <2>3
  <1> QED BY <1>3, <1>4

(* However requests interleave and fail: a batch pays its bills a second   *)
(* time only after two requests had it at once or after it was exported    *)
(* when it was completed; a finalization repeated in its turn is refused.  *)
THEOREM PayingTwiceIsExplained == Spec => []PaidTwiceNeedsExport
  <1> DEFINE OnceInv == BatchRaceIsSeen /\ CompletedOnce
  <1>1. Init => OnceInv
    <2> SUFFICES ASSUME Init PROVE OnceInv
        OBVIOUS
    <2>1. \A r \in Requests : req[r].pc = "idle" BY DEF Init, Idle
    <2> QED BY <2>1 DEF Init, BatchRaceIsSeen, CompletedOnce, HasBatch
  <1>2. TypeInv /\ OnceInv /\ [Next]_vars => OnceInv' BY BatchRaceStep, CompletedStep
  <1>3. OnceInv => PaidTwiceNeedsExport BY DEF CompletedOnce, PaidTwiceNeedsExport
  <1> HIDE DEF OnceInv
  <1> QED BY <1>1, <1>2, <1>3, AlwaysTyped, PTL DEF Spec
----------------------------------------------------------------------------
(* Request r has bill b in memory, with this row.                          *)
HasBill(r, b) ==
    \/ req[r].pc \in {"status", "pay"} /\ req[r].bill = b
    \/ req[r].pc = "finalize" /\ b \in Items(req[r].items)
RowInMemory(r, b) == IF req[r].pc = "finalize" THEN req[r].rows[b] ELSE req[r].row

(* Two requests that have a bill at the same time have raced for it.       *)
BillRaceIsSeen ==
    \A p, t \in Requests, b \in Bills :
        p # t /\ HasBill(p, b) /\ HasBill(t, b) => b \in raced

(* The row of a bill nobody raced for, in the table and in memory, says    *)
(* what has been paid.                                                     *)
Exact ==
    \A b \in Bills :
        /\ bills[b] = NoRow => Spent(b) = 0
        /\ b \notin raced =>
              /\ bills[b] # NoRow => bills[b].paid = Spent(b)
              /\ \A r \in Requests : HasBill(r, b) => RowInMemory(r, b).paid = Spent(b)

(* The entry request r is about to make, and all of them: what recordPayment *)
(* has saved is booked or due.                                             *)
Owed(r, b) == IF req[r].pc = "payment" /\ req[r].bill = b THEN req[r].amount ELSE 0
Due(b) == Sum([r \in Requests |-> Owed(r, b)], Requests)

BookedOrDue == \A b \in Bills \ unbooked : recorded[b] = booked[b] + Due(b)

(* The steps of a request at which it loads bill b, and saves it.          *)
LoadsBill(r, b) ==
    \/ LoadToUpdate(r, b) \/ LoadToPay(r, b)
    \/ \E x \in Batches : LoadToFinalize(r, x) /\ b \in Items(batches[x].items)
SavesBill(r, b) ==
    \/ (SaveStatus(r) \/ SavePayment(r)) /\ req[r].bill = b
    \/ FinalizeCommit(r) /\ b \in Items(req[r].items)

LEMMA MemoryType ==
    ASSUME TypeInv, NEW r \in Requests, NEW b \in Bills, HasBill(r, b)
    PROVE  RowInMemory(r, b) \in BillRow /\ req[r] # Idle
  <1>0. TypeOK BY DEF TypeInv
  <1>1. CASE req[r].pc \in {"status", "pay"}
    BY <1>0, <1>1, ReqByPc DEF RowInMemory, StatusRequest, PayRequest
  <1>2. CASE req[r].pc = "finalize" /\ b \in Items(req[r].items)
    <2>1. req[r] \in FinalizeRequest BY <1>0, <1>2, ReqByPc
    <2>2. req[r].rows[b] # NoRow BY <1>2 DEF TypeInv, Loaded
    <2>3. req[r].rows[b] \in BillRow BY <2>1, <2>2 DEF FinalizeRequest
    <2>4. req[r] # Idle BY <1>0, <1>2, ReqByPc
    <2> QED BY <1>2, <2>3, <2>4 DEF RowInMemory
  <1> QED BY <1>1, <1>2 DEF HasBill

(* A request that comes to have a bill has loaded it; one that keeps a     *)
(* bill keeps the row.                                                     *)
LEMMA HasBillStep ==
    ASSUME TypeInv, [Next]_vars, NEW r \in Requests, NEW b \in Bills, HasBill(r, b)'
    PROVE  \/ HasBill(r, b) /\ RowInMemory(r, b)' = RowInMemory(r, b)
           \/ LoadsBill(r, b)
  <1>0. TypeOK BY DEF TypeInv
  <1>1. CASE req'[r] = req[r] BY <1>1 DEF HasBill, RowInMemory
  <1>2. ASSUME NEW c \in Bills, PayItem(r, c)
        PROVE  HasBill(r, b) /\ RowInMemory(r, b)' = RowInMemory(r, b)
    <2>1. req[r] \in FinalizeRequest BY <1>0, <1>2, ReqByPc DEF PayItem
    <2>2. /\ [req[r] EXCEPT !.todo = @ \ {c}].items = req[r].items
          /\ [req[r] EXCEPT !.todo = @ \ {c}].rows = req[r].rows
          /\ [req[r] EXCEPT !.todo = @ \ {c}].pc = req[r].pc
          BY <2>1 DEF FinalizeRequest
    <2>3. req'[r] = [req[r] EXCEPT !.todo = @ \ {c}] BY <1>0, <1>2 DEF PayItem, TypeOK
    <2> QED BY <1>2, <2>2, <2>3 DEF HasBill, RowInMemory, PayItem
  <1>3. ASSUME NEW c \in Bills, LoadToUpdate(r, c) \/ LoadToPay(r, c) PROVE LoadsBill(r, b)
    <2>1. req'[r].bill = c /\ req'[r].pc \in {"status", "pay"}
          BY <1>0, <1>3 DEF LoadToUpdate, LoadToPay, Begin, TypeOK
    <2>2. c = b BY <2>1 DEF HasBill
    <2> QED BY <1>3, <2>2 DEF LoadsBill
  <1>4. ASSUME NEW x \in Batches, LoadToFinalize(r, x) PROVE LoadsBill(r, b)
    <2>1. req'[r].pc = "finalize" /\ req'[r].items = batches[x].items
          BY <1>0, <1>4 DEF LoadToFinalize, Begin, TypeOK
    <2>2. b \in Items(batches[x].items) BY <2>1 DEF HasBill
    <2> QED BY <1>4, <2>2 DEF LoadsBill
  <1>5. ASSUME NEW p \in Requests, p # r,
               \/ \E c \in Bills : LoadToUpdate(p, c) \/ LoadToPay(p, c) \/ PayItem(p, c)
               \/ \E x \in Batches : LoadToFinalize(p, x)
        PROVE  req'[r] = req[r]
        BY <1>0, <1>5 DEF LoadToUpdate, LoadToPay, PayItem, LoadToFinalize, Begin, TypeOK
  <1>6. ASSUME NEW p \in Requests,
               \/ \E given \in SUBSET Bills : FindPayable(p, given)
               \/ \E x \in Batches : LoadToExport(p, x)
        PROVE  req'[r] = req[r] \/ req'[r].pc \in {"create", "export"}
        BY <1>0, <1>6 DEF FindPayable, LoadToExport, Begin, TypeOK
  <1>7. ASSUME NEW p \in Requests,
               \/ \E x \in Batches : CreateBatch(p, x)
               \/ SaveStatus(p) \/ BookExpense(p) \/ SavePayment(p) \/ BookPayment(p)
               \/ SaveExport(p) \/ FinalizeCommit(p) \/ Fail(p)
        PROVE  req'[r] = req[r] \/ req'[r].pc \in {"idle", "expense", "payment"}
        BY <1>0, <1>7 DEF CreateBatch, SaveStatus, BookExpense, SavePayment, BookPayment,
                          SaveExport, FinalizeCommit, Fail, TypeOK, Idle
  <1>8. req'[r].pc \in {"status", "pay", "finalize"} BY DEF HasBill
  <1>9. CASE UNCHANGED req BY <1>1, <1>9
  <1> QED BY <1>1, <1>2, <1>3, <1>4, <1>5, <1>6, <1>7, <1>8, <1>9 DEF Next, CreateBill, vars

(* A request loads the row of the table, and is seen by the others.        *)
LEMMA LoadBill ==
    ASSUME TypeInv, NEW r \in Requests, NEW b \in Bills, LoadsBill(r, b)
    PROVE  /\ \A p \in Requests \ {r} : HasBill(p, b) => b \in raced'
           /\ \A p \in Requests \ {r} : req'[p] = req[p]
           /\ ~HasBill(r, b)
           /\ bills[b] # NoRow /\ RowInMemory(r, b)' = bills[b]
           /\ UNCHANGED <<bills, recorded, batched>>
  <1>0. TypeOK BY DEF TypeInv
  <1>1. ASSUME NEW p \in Requests, HasBill(p, b) PROVE b \in Holds(p)
        BY <1>1 DEF HasBill, Holds
  <1>2. req[r].pc = "idle" /\ \A p \in Requests \ {r} : req'[p] = req[p]
        BY <1>0, ReqByPc DEF LoadsBill, LoadToUpdate, LoadToPay, LoadToFinalize, Begin, TypeOK
  <1>3. \A p \in Requests \ {r} : b \in Holds(p) => b \in raced'
        BY DEF LoadsBill, LoadToUpdate, LoadToPay, LoadToFinalize, Begin
  <1>4. bills[b] # NoRow /\ RowInMemory(r, b)' = bills[b]
    <2>1. CASE LoadToUpdate(r, b) \/ LoadToPay(r, b)
      <3>1. bills[b] # NoRow /\ req'[r].row = bills[b] /\ req'[r].pc \in {"status", "pay"}
            BY <1>0, <2>1 DEF LoadToUpdate, LoadToPay, Begin, TypeOK
      <3> QED BY <3>1 DEF RowInMemory
    <2>2. ASSUME NEW x \in Batches, LoadToFinalize(r, x), b \in Items(batches[x].items)
          PROVE  bills[b] # NoRow /\ RowInMemory(r, b)' = bills[b]
      <3>1. /\ req'[r].pc = "finalize" /\ batches[x] # NoRow
            /\ req'[r].rows = [c \in Bills |-> IF c \in Items(batches[x].items) THEN bills[c] ELSE NoRow]
            BY <1>0, <2>2 DEF LoadToFinalize, Begin, TypeOK
      <3>2. Wanted(b) BY <2>2, <3>1 DEF Wanted, Items
      <3>3. bills[b] # NoRow BY <3>2 DEF TypeInv, WantedExist
      <3> QED BY <2>2, <3>1, <3>3 DEF RowInMemory
    <2> QED BY <2>1, <2>2 DEF LoadsBill
  <1>5. UNCHANGED <<bills, recorded, batched>>
        BY DEF LoadsBill, LoadToUpdate, LoadToPay, LoadToFinalize, table
  <1> QED BY <1>1, <1>2, <1>3, <1>4, <1>5 DEF HasBill

LEMMA BillRaceStep == ASSUME TypeInv, BillRaceIsSeen, [Next]_vars PROVE BillRaceIsSeen'
  <1> SUFFICES ASSUME NEW p \in Requests, NEW t \in Requests, NEW b \in Bills, p # t,
                      HasBill(p, b)', HasBill(t, b)'
               PROVE  b \in raced'
      BY DEF BillRaceIsSeen
  <1>1. HasBill(p, b) \/ LoadsBill(p, b) BY HasBillStep
  <1>2. HasBill(t, b) \/ LoadsBill(t, b) BY HasBillStep
  <1>3. CASE LoadsBill(p, b)
    <2>1. HasBill(t, b) BY <1>3, LoadBill DEF HasBill
    <2> QED BY <1>3, <2>1, LoadBill
  <1>4. CASE LoadsBill(t, b)
    <2>1. HasBill(p, b) BY <1>4, LoadBill DEF HasBill
    <2> QED BY <1>4, <2>1, LoadBill
  <1>5. CASE HasBill(p, b) /\ HasBill(t, b) BY <1>5, BatchHistory DEF BillRaceIsSeen
  <1> QED BY <1>1, <1>2, <1>3, <1>4, <1>5

(* A save adds to the row in memory what it adds to what has been paid,    *)
(* and gives the bill back.                                                *)
LEMMA SaveBill ==
    ASSUME TypeInv, NEW r \in Requests, NEW b \in Bills, SavesBill(r, b)
    PROVE  /\ HasBill(r, b) /\ ~HasBill(r, b)'
           /\ \A p \in Requests \ {r} : req'[p] = req[p]
           /\ bills'[b] # NoRow
           /\ Spent(b)' - Spent(b) = bills'[b].paid - RowInMemory(r, b).paid
           /\ bills'[b].paid \in Nat
  <1>0. TypeOK /\ recorded[b] \in Nat /\ batched[b] \in Nat BY DEF TypeInv, TypeOK
  <1>1. HasBill(r, b)
        BY DEF SavesBill, HasBill, SaveStatus, SavePayment, FinalizeCommit
  <1> PICK row : row = RowInMemory(r, b) OBVIOUS
  <1>2. row \in BillRow /\ row.paid \in Nat BY <1>1, MemoryType, RowTypes
  <1>3. ~HasBill(r, b)' /\ \A p \in Requests \ {r} : req'[p] = req[p]
    <2>1. /\ req'[r].pc \in {"idle", "expense", "payment"}
          /\ \A p \in Requests \ {r} : req'[p] = req[p]
          BY <1>0 DEF SavesBill, SaveStatus, SavePayment, FinalizeCommit, TypeOK, Idle
    <2> QED BY <2>1 DEF HasBill
  <1>4. CASE SaveStatus(r) /\ req[r].bill = b
    <2>1. row = req[r].row BY <1>4 DEF RowInMemory, SaveStatus
    <2>2. bills'[b] = [status |-> req[r].to, paid |-> row.paid]
          BY <1>0, <1>4, <2>1 DEF SaveStatus, TypeOK
    <2>3. UNCHANGED <<recorded, batched>> BY <1>4 DEF SaveStatus, history
    <2>4. bills'[b] # NoRow
      <3>1. req[r].to \in BillStatus BY <1>0, <1>4, ReqByPc DEF SaveStatus, StatusRequest
      <3>2. bills'[b] \in BillRow BY <1>2, <2>2, <3>1 DEF BillRow
      <3> QED BY <3>2, RowTypes
    <2> QED BY <1>0, <1>1, <1>2, <1>3, <2>2, <2>3, <2>4 DEF Spent
  <1>5. CASE SavePayment(r) /\ req[r].bill = b
    <2>1. row = req[r].row BY <1>5 DEF RowInMemory, SavePayment
    <2>2. req[r].amount \in Nat BY <1>0, <1>5, ReqByPc DEF SavePayment, PayRequest
    <2>3. bills'[b] = Paid(b, row, req[r].amount)
          BY <1>0, <1>5, <2>1 DEF SavePayment, TypeOK
    <2>4. bills'[b] \in BillRow /\ bills'[b].paid = row.paid + req[r].amount
          BY <1>2, <2>2, <2>3, PaidType
    <2>5. recorded'[b] = recorded[b] + req[r].amount /\ UNCHANGED batched
          BY <1>0, <1>5 DEF SavePayment, TypeOK
    <2> QED BY <1>0, <1>1, <1>2, <1>3, <2>2, <2>4, <2>5, RowTypes DEF Spent
  <1>6. CASE FinalizeCommit(r) /\ b \in Items(req[r].items)
    <2>1. row = req[r].rows[b] BY <1>6 DEF RowInMemory, FinalizeCommit
    <2>2. req[r].items[b] \in Nat BY <1>0, <1>6, ReqByPc DEF FinalizeCommit, FinalizeRequest
    <2>3. bills'[b] = Paid(b, row, req[r].items[b]) BY <1>6, <2>1 DEF FinalizeCommit
    <2>4. bills'[b] \in BillRow /\ bills'[b].paid = row.paid + req[r].items[b]
          BY <1>2, <2>2, <2>3, PaidType
    <2>5. batched'[b] = batched[b] + req[r].items[b] /\ UNCHANGED recorded
          BY <1>6 DEF FinalizeCommit
    <2> QED BY <1>0, <1>1, <1>2, <1>3, <2>2, <2>4, <2>5, RowTypes DEF Spent
  <1> QED BY <1>4, <1>5, <1>6 DEF SavesBill

(* Nothing else changes a bill that exists, or what has been paid on it.   *)
LEMMA BillStays ==
    ASSUME TypeInv, [Next]_vars, NEW b \in Bills, \A r \in Requests : ~SavesBill(r, b)
    PROVE  /\ Spent(b)' = Spent(b)
           /\ \/ bills'[b] = bills[b]
              \/ bills[b] = NoRow /\ bills'[b] # NoRow /\ bills'[b].paid = 0
  <1>0. TypeOK BY DEF TypeInv
  <1> DEFINE Goal == /\ Spent(b)' = Spent(b)
                     /\ \/ bills'[b] = bills[b]
                        \/ bills[b] = NoRow /\ bills'[b] # NoRow /\ bills'[b].paid = 0
  <1>1. ASSUME NEW c \in Bills, CreateBill(c) PROVE Goal
    <2>1. UNCHANGED <<recorded, batched>> BY <1>1 DEF CreateBill
    <2>2. PICK s \in Created : bills' = [bills EXCEPT ![c] = [status |-> s, paid |-> 0]]
          BY <1>1 DEF CreateBill
    <2>3. [status |-> s, paid |-> 0] \in BillRow BY BillAssumption DEF BillRow
    <2> QED BY <1>0, <1>1, <2>1, <2>2, <2>3, RowTypes DEF CreateBill, Spent, TypeOK
  <1>2. ASSUME NEW r \in Requests, SaveStatus(r) PROVE Goal
    <2>1. req[r].bill # b BY <1>2 DEF SavesBill
    <2> QED BY <1>0, <1>2, <2>1 DEF SaveStatus, Spent, TypeOK, history
  <1>3. ASSUME NEW r \in Requests, SavePayment(r) PROVE Goal
    <2>1. req[r].bill # b BY <1>3 DEF SavesBill
    <2> QED BY <1>0, <1>3, <2>1 DEF SavePayment, Spent, TypeOK
  <1>4. ASSUME NEW r \in Requests, FinalizeCommit(r) PROVE Goal
    <2>1. b \notin Items(req[r].items) BY <1>4 DEF SavesBill
    <2>2. req[r].items[b] \in Nat BY <1>0, <1>4, ReqByPc DEF FinalizeCommit, FinalizeRequest
    <2>3. req[r].items[b] = 0 BY <2>1, <2>2 DEF Items
    <2>4. batched'[b] = batched[b] + 0 BY <1>4, <2>3 DEF FinalizeCommit
    <2>5. batched[b] \in Nat BY <1>0 DEF TypeOK
    <2> QED BY <1>4, <2>1, <2>4, <2>5 DEF FinalizeCommit, Spent
  <1>5. CASE UNCHANGED <<bills, recorded, batched>> BY <1>5 DEF Spent
  <1>6. ASSUME NEW r \in Requests,
               \/ \E c \in Bills : LoadToUpdate(r, c) \/ LoadToPay(r, c) \/ PayItem(r, c)
               \/ \E given \in SUBSET Bills : FindPayable(r, given)
               \/ \E x \in Batches : CreateBatch(r, x) \/ LoadToExport(r, x) \/ LoadToFinalize(r, x)
               \/ BookExpense(r) \/ BookPayment(r) \/ SaveExport(r) \/ Fail(r)
        PROVE  Goal
    <2>1. UNCHANGED <<bills, recorded, batched>>
      BY <1>6 DEF table, history, LoadToUpdate, BookExpense, LoadToPay, BookPayment, FindPayable,
                  CreateBatch, LoadToExport, SaveExport, LoadToFinalize, PayItem, Fail
    <2> QED BY <1>5, <2>1
  <1>7. ASSUME UNCHANGED vars PROVE Goal
    <2>1. UNCHANGED <<bills, recorded, batched>> BY <1>7 DEF vars, table, history
    <2> QED BY <1>5, <2>1
  <1> HIDE DEF Goal
  <1>8. Goal BY <1>1, <1>2, <1>3, <1>4, <1>6, <1>7 DEF Next
  <1> QED BY <1>8 DEF Goal

LEMMA ExactStep == ASSUME TypeInv, BillRaceIsSeen, Exact, [Next]_vars PROVE Exact'
  <1>0. TypeOK BY DEF TypeInv
  <1> SUFFICES ASSUME NEW b \in Bills
               PROVE  /\ bills'[b] = NoRow => Spent(b)' = 0
                      /\ b \notin raced' =>
                            /\ bills'[b] # NoRow => bills'[b].paid = Spent(b)'
                            /\ \A r \in Requests : HasBill(r, b)' => RowInMemory(r, b)'.paid = Spent(b)'
      BY DEF Exact
  <1>1. b \notin raced' => b \notin raced BY BatchHistory
  <1>2. Spent(b) \in Nat BY <1>0 DEF TypeOK, Spent
  <1>3. /\ bills[b] = NoRow => Spent(b) = 0
        /\ b \notin raced =>
              /\ bills[b] # NoRow => bills[b].paid = Spent(b)
              /\ \A r \in Requests : HasBill(r, b) => RowInMemory(r, b).paid = Spent(b)
        BY DEF Exact
  <1>4. ASSUME NEW r \in Requests, SavesBill(r, b)
        PROVE  /\ bills'[b] # NoRow
               /\ b \notin raced' => bills'[b].paid = Spent(b)' /\ \A p \in Requests : ~HasBill(p, b)'
    <2>1. /\ HasBill(r, b) /\ ~HasBill(r, b)' /\ bills'[b] # NoRow
          /\ \A p \in Requests \ {r} : req'[p] = req[p]
          /\ Spent(b)' - Spent(b) = bills'[b].paid - RowInMemory(r, b).paid
          /\ bills'[b].paid \in Nat
          BY <1>4, SaveBill
    <2>2. Spent(b)' \in Nat BY SpentGrows
    <2>3. b \notin raced' => bills'[b].paid = Spent(b)' BY <1>1, <1>2, <1>3, <2>1, <2>2
    <2>4. ASSUME b \notin raced', NEW p \in Requests \ {r} PROVE ~HasBill(p, b)'
      <3>1. ~HasBill(p, b) BY <1>1, <2>1, <2>4 DEF BillRaceIsSeen
      <3> QED BY <2>1, <2>4, <3>1 DEF HasBill
    <2> QED BY <2>1, <2>3, <2>4
  <1>5. CASE \A r \in Requests : ~SavesBill(r, b)
    <2>1. /\ Spent(b)' = Spent(b)
          /\ \/ bills'[b] = bills[b]
             \/ bills[b] = NoRow /\ bills'[b] # NoRow /\ bills'[b].paid = 0
          BY <1>5, BillStays
    <2>2. ASSUME b \notin raced', NEW r \in Requests, HasBill(r, b)'
          PROVE  RowInMemory(r, b)'.paid = Spent(b)'
      <3>1. CASE HasBill(r, b) /\ RowInMemory(r, b)' = RowInMemory(r, b)
        BY <1>1, <1>3, <2>1, <2>2, <3>1
      <3>2. CASE LoadsBill(r, b)
        <4>1. bills[b] # NoRow /\ RowInMemory(r, b)' = bills[b] BY <3>2, LoadBill
        <4> QED BY <1>1, <1>3, <2>1, <2>2, <4>1
      <3> QED BY <2>2, <3>1, <3>2, HasBillStep
    <2> QED BY <1>1, <1>3, <2>1, <2>2
  <1> QED BY <1>4, <1>5

(* A step of one request changes what is due by what it owes itself.       *)
LEMMA DueStep ==
    ASSUME TypeOK, NEW r \in Requests, NEW b \in Bills, \A p \in Requests \ {r} : req'[p] = req[p],
           Owed(r, b)' \in Int
    PROVE  Due(b)' = Due(b) + (Owed(r, b)' - Owed(r, b))
  <1> DEFINE f == [p \in Requests |-> Owed(p, b)]
             g == [p \in Requests |-> Owed(p, b)']
  <1>1. \A p \in Requests : Owed(p, b) \in Int BY ReqByPc DEF Owed, BookRequest
  <1>2. \A p \in Requests \ {r} : Owed(p, b)' = Owed(p, b) BY DEF Owed
  <1>3. /\ \A p \in Requests : f[p] \in Int
        /\ g[r] = Owed(r, b)' /\ f[r] = Owed(r, b) /\ g[r] \in Int
        /\ \A p \in Requests \ {r} : g[p] = f[p]
        BY <1>1, <1>2
  <1>4. Due(b) = Sum(f, Requests) /\ Due(b)' = Sum(g, Requests) BY DEF Due
  <1> HIDE DEF f, g
  <1>5. Sum(g, Requests) = Sum(f, Requests) + (g[r] - f[r])
        BY <1>3, SumChange, BillAssumption
  <1> QED BY <1>3, <1>4, <1>5

LEMMA DueType == ASSUME TypeOK, NEW b \in Bills PROVE Due(b) \in Int
  <1> DEFINE f == [p \in Requests |-> Owed(p, b)]
  <1>1. \A p \in Requests : f[p] \in Int BY ReqByPc DEF Owed, BookRequest
  <1> HIDE DEF f
  <1>2. Sum(f, Requests) \in Int BY <1>1, SumInt, BillAssumption
  <1> QED BY <1>2 DEF Due, f

LEMMA NothingDue == ASSUME NEW b \in Bills, ~Booking(b, "payment") PROVE Due(b) = 0
  <1> DEFINE f == [p \in Requests |-> Owed(p, b)]
  <1>1. \A p \in Requests : f[p] = 0 BY DEF Owed, Booking
  <1> HIDE DEF f
  <1>2. Sum(f, Requests) = 0 BY <1>1, SumZero, BillAssumption
  <1> QED BY <1>2 DEF Due, f

(* What recordPayment has saved is booked, due, or lost with a failed entry. *)
LEMMA DueNext == ASSUME TypeInv, BookedOrDue, [Next]_vars PROVE BookedOrDue'
  <1>0. TypeOK BY DEF TypeInv
  <1> SUFFICES ASSUME NEW b \in Bills, b \notin unbooked'
               PROVE  recorded'[b] = booked'[b] + Due(b)'
      BY DEF BookedOrDue
  <1> DEFINE Goal == recorded'[b] = booked'[b] + Due(b)'
  <1>1. recorded[b] \in Int /\ booked[b] \in Int /\ Due(b) \in Int
        BY <1>0, DueType DEF TypeOK
  <1>2. ASSUME NEW r \in Requests, \A p \in Requests \ {r} : req'[p] = req[p],
               b \notin unbooked,
               Owed(r, b)' \in Int, Owed(r, b) \in Int,
               recorded'[b] - booked'[b] = recorded[b] - booked[b] + (Owed(r, b)' - Owed(r, b)),
               recorded'[b] \in Int, booked'[b] \in Int
        PROVE  Goal
    <2>1. Due(b)' = Due(b) + (Owed(r, b)' - Owed(r, b)) BY <1>0, <1>2, DueStep
    <2>2. recorded[b] = booked[b] + Due(b) BY <1>2 DEF BookedOrDue
    <2> QED BY <1>1, <1>2, <2>1, <2>2
  <1>3. ASSUME NEW r \in Requests, SavePayment(r) PROVE Goal
    <2>1. req[r] \in PayRequest /\ req[r].pc = "pay" BY <1>0, <1>3, ReqByPc DEF SavePayment
    <2>2. req[r].bill \in Bills /\ req[r].amount \in Nat BY <2>1 DEF PayRequest
    <2>3. req'[r] = [pc |-> "payment", bill |-> req[r].bill, amount |-> req[r].amount]
          BY <1>0, <1>3 DEF SavePayment, TypeOK
    <2>4. Owed(r, b) = 0 /\ Owed(r, b)' = IF req[r].bill = b THEN req[r].amount ELSE 0
          BY <2>1, <2>3 DEF Owed
    <2>5. /\ recorded'[b] = recorded[b] + (IF req[r].bill = b THEN req[r].amount ELSE 0)
          /\ UNCHANGED <<booked, unbooked>> /\ \A p \in Requests \ {r} : req'[p] = req[p]
          BY <1>0, <1>1, <1>3, <2>2 DEF SavePayment, TypeOK
    <2> HIDE DEF Goal
    <2> QED BY <1>1, <1>2, <2>2, <2>4, <2>5
  <1>4. ASSUME NEW r \in Requests, BookPayment(r) PROVE Goal
    <2>1. req[r] \in BookRequest /\ req[r].pc = "payment" BY <1>0, <1>4, ReqByPc DEF BookPayment
    <2>2. req[r].bill \in Bills /\ req[r].amount \in Nat BY <2>1 DEF BookRequest
    <2>3. req'[r].pc = "idle" BY <1>0, <1>4 DEF BookPayment, TypeOK, Idle
    <2>4. Owed(r, b)' = 0 /\ Owed(r, b) = IF req[r].bill = b THEN req[r].amount ELSE 0
          BY <2>1, <2>3 DEF Owed
    <2>5. /\ booked'[b] = booked[b] + (IF req[r].bill = b THEN req[r].amount ELSE 0)
          /\ UNCHANGED <<recorded, unbooked>> /\ \A p \in Requests \ {r} : req'[p] = req[p]
          BY <1>0, <1>1, <1>4, <2>2 DEF BookPayment, TypeOK, history
    <2> HIDE DEF Goal
    <2> QED BY <1>1, <1>2, <2>2, <2>4, <2>5
  <1>5. ASSUME NEW r \in Requests, Fail(r) PROVE Goal
    <2>1. /\ req'[r].pc = "idle" /\ UNCHANGED <<recorded, booked>> /\ b \notin unbooked
          /\ \A p \in Requests \ {r} : req'[p] = req[p]
          BY <1>0, <1>5 DEF Fail, table, TypeOK, Idle
    <2>2. ~(req[r].pc = "payment" /\ req[r].bill = b) BY <1>5 DEF Fail
    <2>3. Owed(r, b) = 0 /\ Owed(r, b)' = 0 BY <2>1, <2>2 DEF Owed
    <2> HIDE DEF Goal
    <2> QED BY <1>1, <1>2, <2>1, <2>3
  <1>6. ASSUME NEW r \in Requests, \A p \in Requests \ {r} : req'[p] = req[p],
               req[r].pc # "payment", req'[r].pc # "payment",
               UNCHANGED <<recorded, booked, unbooked>>
        PROVE  Goal
    <2>1. Owed(r, b) = 0 /\ Owed(r, b)' = 0 BY <1>6 DEF Owed
    <2> HIDE DEF Goal
    <2> QED BY <1>1, <1>2, <1>6, <2>1
  <1>7. ASSUME NEW r \in Requests,
               \/ \E c \in Bills : LoadToUpdate(r, c) \/ LoadToPay(r, c)
               \/ \E given \in SUBSET Bills : FindPayable(r, given)
               \/ \E x \in Batches : LoadToExport(r, x) \/ LoadToFinalize(r, x)
        PROVE  Goal
    <2>1. /\ \A p \in Requests \ {r} : req'[p] = req[p]
          /\ req'[r].pc # "payment"
          BY <1>0, <1>7 DEF LoadToUpdate, LoadToPay, FindPayable, LoadToExport, LoadToFinalize,
                            Begin, TypeOK
    <2>2. req[r] = Idle BY <1>7 DEF LoadToUpdate, LoadToPay, FindPayable, LoadToExport,
                                    LoadToFinalize, Begin
    <2>3. UNCHANGED <<recorded, booked, unbooked>>
          BY <1>7 DEF LoadToUpdate, LoadToPay, FindPayable, LoadToExport, LoadToFinalize, table
    <2> HIDE DEF Goal
    <2> QED BY <1>6, <2>1, <2>2, <2>3 DEF Idle
  <1>8. ASSUME NEW r \in Requests,
               \/ \E x \in Batches : CreateBatch(r, x)
               \/ SaveStatus(r) \/ BookExpense(r) \/ SaveExport(r) \/ FinalizeCommit(r)
        PROVE  Goal
    <2>1. /\ \A p \in Requests \ {r} : req'[p] = req[p]
          /\ req'[r].pc # "payment" /\ req[r].pc # "payment"
          BY <1>0, <1>8 DEF CreateBatch, SaveStatus, BookExpense, SaveExport, FinalizeCommit,
                            TypeOK, Idle
    <2>2. UNCHANGED <<recorded, booked, unbooked>>
          BY <1>8 DEF CreateBatch, SaveStatus, BookExpense, SaveExport, FinalizeCommit, history
    <2> HIDE DEF Goal
    <2> QED BY <1>6, <2>1, <2>2
  <1>9. ASSUME NEW r \in Requests, NEW c \in Bills, PayItem(r, c) PROVE Goal
    <2>1. req[r] \in FinalizeRequest /\ req[r].pc = "finalize" BY <1>0, <1>9, ReqByPc DEF PayItem
    <2>2. [req[r] EXCEPT !.todo = @ \ {c}].pc = "finalize" BY <2>1 DEF FinalizeRequest
    <2>3. /\ req'[r] = [req[r] EXCEPT !.todo = @ \ {c}]
          /\ \A p \in Requests \ {r} : req'[p] = req[p]
          BY <1>0, <1>9 DEF PayItem, TypeOK
    <2>4. UNCHANGED <<recorded, booked, unbooked>> BY <1>9 DEF PayItem, table, history
    <2> HIDE DEF Goal
    <2> QED BY <1>6, <2>1, <2>2, <2>3, <2>4
  <1>10. ASSUME UNCHANGED <<req, recorded, booked, unbooked>> PROVE Goal
    BY <1>10 DEF BookedOrDue, Due, Owed
  <1>11. ASSUME NEW c \in Bills, CreateBill(c) PROVE Goal
    BY <1>10, <1>11 DEF CreateBill
  <1>12. UNCHANGED vars => UNCHANGED <<req, recorded, booked, unbooked>>
    BY DEF vars, table, history
  <1> HIDE DEF Goal
  <1>13. Goal
    BY <1>3, <1>4, <1>5, <1>7, <1>8, <1>9, <1>10, <1>11, <1>12 DEF Next
  <1> QED BY <1>13 DEF Goal

(* What the ledger lacks of the paid amount of a bill is what batches have *)
(* paid and nothing else, unless two requests held the bill at the same    *)
(* time, or the entry of a payment failed or is still to be made.          *)
THEOREM OnlyBatchesAreMissing == Spec => []MissingIsBatched
  <1> DEFINE PaidInv == BillRaceIsSeen /\ Exact /\ BookedOrDue
  <1>1. Init => PaidInv
    <2> SUFFICES ASSUME Init PROVE PaidInv
        OBVIOUS
    <2>1. \A r \in Requests : req[r].pc = "idle" BY DEF Init, Idle
    <2>2. \A b \in Bills : Due(b) = 0 BY <2>1, NothingDue DEF Booking
    <2> QED BY <2>1, <2>2 DEF Init, BillRaceIsSeen, Exact, BookedOrDue, HasBill, Spent
  <1>2. TypeInv /\ PaidInv /\ [Next]_vars => PaidInv' BY BillRaceStep, ExactStep, DueNext
  <1>3. TypeInv /\ PaidInv => MissingIsBatched
    <2> SUFFICES ASSUME TypeInv, PaidInv, NEW b \in Bills \ (raced \cup unbooked), bills[b] # NoRow,
                        ~Booking(b, "payment")
                 PROVE  bills[b].paid - booked[b] = batched[b]
        BY DEF MissingIsBatched, Settled
    <2>1. bills[b].paid = recorded[b] + batched[b] BY DEF Exact, Spent
    <2>2. recorded[b] = booked[b] + 0 BY NothingDue DEF BookedOrDue
    <2>3. booked[b] \in Nat /\ batched[b] \in Nat BY DEF TypeInv, TypeOK
    <2> QED BY <2>1, <2>2, <2>3
  <1> HIDE DEF PaidInv
  <1> QED BY <1>1, <1>2, <1>3, AlwaysTyped, PTL DEF Spec
=============================================================================
