-------------------------- MODULE PurchasingProofs --------------------------
(***************************************************************************)
(* Theorems about Purchasing for any number of orders, bills and requests. *)
(* They rest on four facts about the requests in progress: the rows they   *)
(* name exist; the stock of an order is ahead of its receipts by what the  *)
(* receipts before their commit have moved; two requests with a row in     *)
(* memory have raced for it; and of a bill whose number finance has, one   *)
(* request at most is to submit.                                           *)
(***************************************************************************)
EXTENDS Purchasing, SumsProofs, TLAPS

\* The steps at which a request has an order, a bill in memory.
OrderPcs == Saving \cup Receiving
BillPcs == {"book", "submit", "pay", "cancel"}

Exist ==
    \A r \in Requests :
        /\ req[r].pc \in OrderPcs => orders[req[r].order] # NoRow
        /\ req[r].pc \in BillPcs => bills[req[r].bill] # NoRow

TypeInv == TypeOK /\ Exist

----------------------------------------------------------------------------
LEMMA RowTypes ==
    /\ NoRow \notin OrderRow /\ NoRow \notin BillRow
    /\ \A row \in BillRow : row.status \in VendorBillStatus
    /\ \A row \in OrderRow :
          /\ row.status \in PoStatus /\ row.quantity \in Nat
          /\ row.received \in Int /\ row.cancelled \in Int
    /\ \A row \in OrderRow, s \in PoStatus :
          /\ [row EXCEPT !.status = s] \in OrderRow
          /\ [row EXCEPT !.status = s].status = s
          /\ [row EXCEPT !.status = s].quantity = row.quantity
          /\ [row EXCEPT !.status = s].received = row.received
          /\ [row EXCEPT !.status = s].cancelled = row.cancelled
    /\ \A row \in OrderRow, n \in Nat :
          /\ Received(row, n) \in OrderRow
          /\ Received(row, n).received = row.received + n
          /\ [row EXCEPT !.cancelled = @ + n] \in OrderRow
          /\ [row EXCEPT !.cancelled = @ + n].status = row.status
          /\ [row EXCEPT !.cancelled = @ + n].quantity = row.quantity
          /\ [row EXCEPT !.cancelled = @ + n].received = row.received
          /\ [row EXCEPT !.cancelled = @ + n].cancelled = row.cancelled + n
  BY DEF NoRow, OrderRow, BillRow, VendorBillStatus, PoStatus, Received

\* The status of an order is in keeping with its line.
Sound(row) ==
    /\ row.status = "FULLY_RECEIVED" => row.received >= row.quantity
    /\ row.status = "PARTIALLY_RECEIVED" => row.received < row.quantity
    /\ row.status = "CANCELLED" => row.received + row.cancelled >= row.quantity

LEMMA ChangedRows ==
    ASSUME NEW row \in OrderRow
    PROVE  /\ CancelledRest(row) \in OrderRow
           /\ CancelledRest(row).received = row.received
           /\ Sound(CancelledRest(row))
           /\ Closed(row) \in OrderRow
           /\ Closed(row).received = row.received
           /\ Sound(Closed(row))
  <1>1. row.received \in Int /\ row.quantity \in Nat /\ row.quantity - row.received \in Int
        BY RowTypes
  <1>2. \A n \in Int :
           LET new == [row EXCEPT !.status = "CANCELLED", !.cancelled = n] IN
           /\ new \in OrderRow /\ new.quantity = row.quantity
           /\ new.status = "CANCELLED" /\ new.received = row.received /\ new.cancelled = n
        BY DEF OrderRow, PoStatus
  <1>3. \A s \in {"FULLY_RECEIVED", "PARTIALLY_RECEIVED"} :
           LET new == [row EXCEPT !.status = s] IN
           /\ new \in OrderRow /\ new.quantity = row.quantity
           /\ new.received = row.received /\ new.status = s
        BY DEF OrderRow, PoStatus
  <1>4. /\ CancelledRest(row) \in OrderRow
        /\ CancelledRest(row).received = row.received
        /\ Sound(CancelledRest(row))
    <2> DEFINE new == CancelledRest(row)
    <2>1. /\ new \in OrderRow /\ new.quantity = row.quantity /\ new.status = "CANCELLED"
          /\ new.received = row.received /\ new.cancelled = row.quantity - row.received
          BY <1>1, <1>2 DEF CancelledRest
    <2> HIDE DEF new
    <2>2. Sound(new) BY <1>1, <2>1 DEF Sound
    <2> QED BY <2>1, <2>2 DEF new
  <1>5. Closed(row) \in OrderRow /\ Closed(row).received = row.received /\ Sound(Closed(row))
    <2> DEFINE new == Closed(row)
               s == IF row.received >= row.quantity THEN "FULLY_RECEIVED" ELSE "PARTIALLY_RECEIVED"
    <2>1. /\ new \in OrderRow /\ new.quantity = row.quantity
          /\ new.received = row.received /\ new.status = s
          BY <1>3 DEF Closed
    <2> HIDE DEF new
    <2>2. Sound(new) BY <1>1, <2>1 DEF Sound
    <2> QED BY <2>1, <2>2 DEF new
  <1> QED BY <1>4, <1>5

(* A save that writes some columns of a row over another makes a row, and  *)
(* the row in memory when the others are the same.                         *)
LEMMA SavedRow ==
    ASSUME NEW q, q.row \in OrderRow, q.dirty \subseteq Columns, NEW old \in OrderRow
    PROVE  /\ Saved(q, old) \in OrderRow
           /\ (\A c \in Columns \ q.dirty : q.row[c] = old[c]) =>
                 /\ Saved(q, old).status = q.row.status
                 /\ Saved(q, old).quantity = q.row.quantity
                 /\ Saved(q, old).received = q.row.received
                 /\ Saved(q, old).cancelled = q.row.cancelled
  <1> DEFINE mixed == Saved(q, old)
  <1>1. Columns = {"status", "quantity", "received", "cancelled"} BY DEF Columns, LineColumns
  <1>2. \A c \in Columns : mixed[c] = IF c \in q.dirty THEN q.row[c] ELSE old[c]
        BY DEF Saved
  <1>3. /\ mixed["status"] \in PoStatus /\ mixed["quantity"] \in Nat
        /\ mixed["received"] \in Int /\ mixed["cancelled"] \in Int
        BY <1>1, <1>2 DEF OrderRow
  <1>4. mixed = [status |-> mixed["status"], quantity |-> mixed["quantity"],
                 received |-> mixed["received"], cancelled |-> mixed["cancelled"]]
        BY <1>1 DEF Saved
  <1> HIDE DEF mixed
  <1>5. mixed \in OrderRow BY <1>3, <1>4 DEF OrderRow
  <1>6. (\A c \in Columns \ q.dirty : q.row[c] = old[c]) => \A c \in Columns : mixed[c] = q.row[c]
        BY <1>2
  <1>7. (\A c \in Columns \ q.dirty : q.row[c] = old[c]) =>
           /\ mixed.status = q.row.status /\ mixed.quantity = q.row.quantity
           /\ mixed.received = q.row.received /\ mixed.cancelled = q.row.cancelled
        BY <1>1, <1>6
  <1> QED BY <1>5, <1>7 DEF mixed

\* What a step does to the request of an order.
Compared(q, to, dirty) == [q EXCEPT !.pc = to, !.dirty = dirty]
LineWritten(q, locked) == [q EXCEPT !.pc = "stock", !.dirty = {}, !.locked = locked]
Stocked(q) == [q EXCEPT !.pc = "close", !.row = Closed(q.row)]

LEMMA ChangedRequests ==
    ASSUME NEW q \in OrderRequest
    PROVE  /\ \A to \in OrderPcs, dirty \in SUBSET Columns :
                 LET new == Compared(q, to, dirty) IN
                 /\ new \in OrderRequest /\ new.pc = to /\ new.dirty = dirty
                 /\ new.order = q.order /\ new.row = q.row
                 /\ new.quantity = q.quantity /\ new.known = q.known
           /\ \A locked \in BOOLEAN :
                 LET new == LineWritten(q, locked) IN
                 /\ new \in OrderRequest /\ new.pc = "stock"
                 /\ new.order = q.order /\ new.row = q.row
                 /\ new.quantity = q.quantity /\ new.known = q.known
           /\ Stocked(q) \in OrderRequest /\ Stocked(q).pc = "close"
           /\ Stocked(q).order = q.order /\ Stocked(q).row = Closed(q.row)
           /\ Stocked(q).quantity = q.quantity /\ Stocked(q).known = q.known
  <1>1. \A to \in OrderPcs, dirty \in SUBSET Columns :
           LET new == Compared(q, to, dirty) IN
           /\ new \in OrderRequest /\ new.pc = to /\ new.dirty = dirty
           /\ new.order = q.order /\ new.row = q.row
           /\ new.quantity = q.quantity /\ new.known = q.known
        BY DEF Compared, OrderRequest, OrderPcs
  <1>2. \A locked \in BOOLEAN :
           LET new == LineWritten(q, locked) IN
           /\ new \in OrderRequest /\ new.pc = "stock"
           /\ new.order = q.order /\ new.row = q.row
           /\ new.quantity = q.quantity /\ new.known = q.known
        BY DEF LineWritten, OrderRequest, Receiving
  <1>3. q.row \in OrderRow BY DEF OrderRequest
  <1>4. PICK row \in OrderRow : row = Closed(q.row) BY <1>3, ChangedRows
  <1>5. LET new == [q EXCEPT !.pc = "close", !.row = row] IN
           /\ new \in OrderRequest /\ new.pc = "close" /\ new.order = q.order /\ new.row = row
           /\ new.quantity = q.quantity /\ new.known = q.known
        BY DEF OrderRequest, Receiving
  <1>6. Stocked(q) = [q EXCEPT !.pc = "close", !.row = row] BY <1>4 DEF Stocked
  <1> QED BY <1>1, <1>2, <1>4, <1>5, <1>6

----------------------------------------------------------------------------
(* What is known of a request by its pc.                                   *)
LEMMA ReqByPc ==
    ASSUME TypeOK, NEW r \in Requests
    PROVE  /\ req[r].pc \in OrderPcs =>
                 /\ req[r] \in OrderRequest
                 /\ req[r].order \in Orders /\ req[r].row \in OrderRow /\ req[r].quantity \in Nat
                 /\ req[r].known \in BOOLEAN /\ req[r].dirty \subseteq Columns
           /\ req[r].pc \in {"return", "note"} => req[r] \in ReturnRequest
           /\ req[r].pc \in BillPcs => req[r] \in BillRequest
  <1> PICK q : q = req[r] OBVIOUS
  <1>1. q \in Request BY DEF TypeOK
  <1>2. q = Idle => q.pc = "idle" BY DEF Idle
  <1>3. q \in OrderRequest =>
           /\ q.pc \in OrderPcs
           /\ q.order \in Orders /\ q.row \in OrderRow /\ q.quantity \in Nat
           /\ q.known \in BOOLEAN /\ q.dirty \subseteq Columns
        BY DEF OrderRequest, OrderPcs
  <1>4. q \in ReturnRequest => q.pc \in {"return", "note"} BY DEF ReturnRequest
  <1>5. q \in BillRequest => q.pc \in BillPcs BY DEF BillRequest, BillPcs
  <1> QED BY <1>1, <1>2, <1>3, <1>4, <1>5 DEF Request, OrderPcs, Saving, Receiving, BillPcs

(* A step of one request keeps the others as they are.                     *)
LEMMA ReqStep ==
    ASSUME TypeOK, NEW r \in Requests, NEW new, req' = [req EXCEPT ![r] = new]
    PROVE  /\ req'[r] = new
           /\ \A p \in Requests \ {r} : req'[p] = req[p]
           /\ new \in Request => req' \in [Requests -> Request]
  BY DEF TypeOK

\* r loads order o to change it, to receive it.
LoadsChange(r, o) ==
    LoadToSend(r, o) \/ LoadToCancel(r, o) \/ \E n \in Quantities : LoadToCancelPart(r, o, n)
LoadsReceipt(r, o) == \E n \in Quantities, known \in BOOLEAN : LoadToReceive(r, o, n, known)

\* What request q adds to the line.
Gain(q) == IF q.known THEN q.quantity ELSE 0

\* What a save has not found to differ is the same.
Agrees(q, row) == \A c \in Columns \ q.dirty : q.row[c] = row[c]

(* What a request has in memory after it has loaded an order.              *)
LEMMA LoadChange ==
    ASSUME TypeOK, NEW r \in Requests, NEW o \in Orders, LoadsChange(r, o)
    PROVE  /\ orders[o] \in OrderRow
           /\ \E new \in OrderRequest :
                 /\ Begin(r, new, o)
                 /\ new.pc = "change" /\ new.order = o
                 /\ new.row.received = orders[o].received
                 /\ Sound(orders[o]) => Sound(new.row)
  <1> PICK old : old = orders[o] OBVIOUS
  <1>0. \A row : LoadOrder(r, o, row) => old \in OrderRow BY DEF LoadOrder, TypeOK
  <1>1. ASSUME NEW row \in OrderRow, LoadOrder(r, o, row), row.received = old.received,
               Sound(old) => Sound(row)
        PROVE  /\ old \in OrderRow
               /\ \E new \in OrderRequest :
                     /\ Begin(r, new, o)
                     /\ new.pc = "change" /\ new.order = o
                     /\ new.row.received = old.received
                     /\ Sound(old) => Sound(new.row)
    <2> DEFINE new == Has("change", o, row, {})
    <2>1. /\ new \in OrderRequest
          /\ new.pc = "change" /\ new.order = o /\ new.row = row
          BY DEF Has, OrderRequest, Saving
    <2>2. Begin(r, new, o) BY <1>1 DEF LoadOrder
    <2> HIDE DEF new
    <2> QED BY <1>0, <1>1, <2>1, <2>2
  <1>2. CASE LoadToSend(r, o)
    <2>1. old \in OrderRow BY <1>0, <1>2 DEF LoadToSend
    <2> DEFINE sent == [old EXCEPT !.status = "SENT"]
    <2>2. sent \in OrderRow /\ sent.status = "SENT" /\ sent.received = old.received
          BY <2>1, RowTypes DEF PoStatus
    <2>3. LoadOrder(r, o, sent) BY <1>2 DEF LoadToSend
    <2> HIDE DEF sent
    <2>4. Sound(sent) BY <2>2 DEF Sound
    <2> QED BY <1>1, <2>2, <2>3, <2>4
  <1>3. CASE LoadToCancel(r, o)
    <2>1. old \in OrderRow BY <1>0, <1>3 DEF LoadToCancel
    <2> QED BY <1>1, <1>3, <2>1, ChangedRows DEF LoadToCancel
  <1>4. ASSUME NEW n \in Quantities, LoadToCancelPart(r, o, n)
        PROVE  /\ old \in OrderRow
               /\ \E new \in OrderRequest :
                     /\ Begin(r, new, o)
                     /\ new.pc = "change" /\ new.order = o
                     /\ new.row.received = old.received
                     /\ Sound(old) => Sound(new.row)
    <2> DEFINE part == [old EXCEPT !.cancelled = @ + n]
    <2>1. old \in OrderRow /\ LoadOrder(r, o, part) BY <1>0, <1>4 DEF LoadToCancelPart
    <2>2. n \in Nat BY PurchasingAssumption
    <2>3. /\ part \in OrderRow /\ part.status = old.status /\ part.received = old.received
          /\ part.quantity = old.quantity /\ part.cancelled = old.cancelled + n
          /\ old.received \in Int /\ old.cancelled \in Int /\ old.quantity \in Nat
          BY <2>1, <2>2, RowTypes
    <2> HIDE DEF part
    <2>4. Sound(old) => Sound(part) BY <2>2, <2>3 DEF Sound
    <2> QED BY <1>1, <2>1, <2>3, <2>4
  <1> QED BY <1>2, <1>3, <1>4 DEF LoadsChange

LEMMA LoadReceive ==
    ASSUME TypeOK, NEW r \in Requests, NEW o \in Orders, LoadsReceipt(r, o)
    PROVE  /\ orders[o] \in OrderRow
           /\ \E new \in OrderRequest :
                 /\ Begin(r, new, o)
                 /\ new.pc \in {"receive", "stock"} /\ new.order = o
                 /\ new.row.received = orders[o].received + Gain(new)
  <1>0. PICK n \in Quantities, known \in BOOLEAN : LoadToReceive(r, o, n, known)
        BY DEF LoadsReceipt
  <1>1. orders[o] \in OrderRow BY <1>0 DEF LoadToReceive, TypeOK
  <1>2. n \in Nat BY PurchasingAssumption
  <1> DEFINE row == IF known THEN Received(orders[o], n) ELSE orders[o]
             new == [pc |-> IF known THEN "receive" ELSE "stock", order |-> o, row |-> row,
                     quantity |-> n, known |-> known, dirty |-> {}, locked |-> FALSE]
  <1>3. Begin(r, new, o) BY <1>0 DEF LoadToReceive
  <1>4. row \in OrderRow /\ row.received = orders[o].received + IF known THEN n ELSE 0
    <2>1. CASE known
      <3>1. row = Received(orders[o], n) BY <2>1
      <3> HIDE DEF row
      <3> QED BY <1>1, <1>2, <2>1, <3>1, RowTypes
    <2>2. CASE ~known
      <3>1. row = orders[o] /\ orders[o].received \in Int BY <1>1, <2>2, RowTypes
      <3> HIDE DEF row
      <3> QED BY <1>1, <2>2, <3>1
    <2> QED BY <2>1, <2>2
  <1> HIDE DEF row
  <1>5. /\ new \in OrderRequest /\ new.pc \in {"receive", "stock"} /\ new.order = o
        /\ new.row = row /\ new.quantity = n /\ new.known = known
        BY <1>2, <1>4 DEF OrderRequest, Receiving
  <1> HIDE DEF new
  <1> QED BY <1>1, <1>3, <1>4, <1>5 DEF Gain

\* r creates an order with the id of order o.
FindsToCreate(r, o) == \E new \in NewOrders : FindToCreate(r, o, new)

LEMMA NewRows ==
    ASSUME NEW new \in NewOrders
    PROVE  /\ new \in OrderRow /\ new.received \in Int
           /\ Sound(new)
  <1>1. Ordered \subseteq Nat /\ Stated \subseteq Int BY PurchasingAssumption
  <1>2. new \in [status : {"DRAFT"}, quantity : Nat, received : Int, cancelled : Int]
        BY <1>1 DEF NewOrders
  <1>3. new \in OrderRow /\ new.received \in Int BY <1>2 DEF OrderRow, PoStatus
  <1>4. new.status = "DRAFT" BY <1>2
  <1> QED BY <1>3, <1>4 DEF Sound

LEMMA LoadCreate ==
    ASSUME TypeOK, NEW r \in Requests, NEW o \in Orders, FindsToCreate(r, o)
    PROVE  /\ orders[o] \in OrderRow
           /\ \E new \in OrderRequest :
                 /\ Begin(r, new, o)
                 /\ new.pc = "create" /\ new.order = o
                 /\ Sound(new.row)
                 /\ Agrees(new, orders[o])
  <1>0. PICK row \in NewOrders : FindToCreate(r, o, row) BY DEF FindsToCreate
  <1>1. orders[o] \in OrderRow BY <1>0 DEF FindToCreate, TypeOK
  <1>2. row \in OrderRow /\ Sound(row) BY NewRows
  <1> DEFINE dirty == Dirty(row, o)
             new == Has("create", o, row, dirty)
  <1>3. dirty \subseteq Columns /\ \A c \in Columns \ dirty : row[c] = orders[o][c] BY DEF Dirty
  <1>4. Begin(r, new, o) BY <1>0 DEF FindToCreate
  <1> HIDE DEF dirty
  <1>5. /\ new \in OrderRequest /\ new.pc = "create" /\ new.order = o
        /\ new.row = row /\ new.dirty = dirty
        BY <1>2, <1>3 DEF Has, OrderRequest, Saving
  <1> HIDE DEF new
  <1> QED BY <1>1, <1>2, <1>3, <1>4, <1>5 DEF Agrees

LEMMA LoadedBill ==
    ASSUME TypeOK, NEW r \in Requests, NEW b \in Bills, NEW pc \in {"book", "pay", "cancel"},
           NEW allowed \in SUBSET VendorBillStatus, LoadBill(r, b, pc, allowed)
    PROVE  /\ bills[b] \in BillRow
           /\ \E new \in BillRequest :
                 Begin(r, new, b) /\ new.pc = pc /\ new.bill = b /\ new.row = bills[b]
  <1> DEFINE new == [pc |-> pc, bill |-> b, row |-> bills[b]]
  <1>1. bills[b].status \in VendorBillStatus BY DEF LoadBill
  <1>2. bills[b] \in BillRow BY <1>1 DEF TypeOK, NoRow, VendorBillStatus
  <1>3. new \in BillRequest /\ new.pc = pc /\ new.bill = b /\ new.row = bills[b]
        BY <1>2 DEF BillRequest
  <1>4. Begin(r, new, b) BY DEF LoadBill
  <1> HIDE DEF new
  <1> QED BY <1>2, <1>3, <1>4

----------------------------------------------------------------------------
\* r loads the row of order o, of bill b.
LoadsOrder(r, o) == LoadsChange(r, o) \/ LoadsReceipt(r, o) \/ FindsToCreate(r, o)
LoadsBill(r, b) == LoadToSubmit(r, b) \/ LoadToPay(r, b) \/ LoadToCancelBill(r, b)
Loads(r) == (\E o \in Orders : LoadsOrder(r, o)) \/ (\E b \in Bills : LoadsBill(r, b))

\* The steps with which r goes on, and those after which it is idle.
GoesOn(r) == CompareOrder(r) \/ CompareLine(r) \/ WriteLine(r) \/ ReceiveStock(r) \/ CompareClosed(r)
Saves(r) == WriteOrder(r) \/ SaveCreated(r) \/ CommitReceipt(r)
SavesBill(r) == SaveSubmitted(r) \/ SavePaid(r) \/ SaveCancelled(r)

\* The steps of request r.
Acts(r) ==
    \/ Loads(r) \/ \E o \in Orders : StartReturn(r, o)
    \/ GoesOn(r) \/ Saves(r)
    \/ ReturnStock(r) \/ SaveDebitNote(r)
    \/ BookBill(r) \/ SavesBill(r) \/ Fail(r)

LEMMA NextActs ==
    ASSUME [Next]_vars
    PROVE  \/ \E o \in Orders, new \in NewOrders : CreatePO(o, new)
           \/ \E b \in Bills : CreateVendorBill(b)
           \/ \E r \in Requests : Acts(r)
           \/ UNCHANGED vars
  <1>1. ASSUME NEW r \in Requests, NEW o \in Orders,
               \/ LoadToSend(r, o) \/ LoadToCancel(r, o)
               \/ \E new \in NewOrders : FindToCreate(r, o, new)
               \/ \E n \in Quantities :
                     LoadToCancelPart(r, o, n) \/ \E known \in BOOLEAN : LoadToReceive(r, o, n, known)
        PROVE  Acts(r)
        BY <1>1 DEF Acts, Loads, LoadsOrder, LoadsChange, LoadsReceipt, FindsToCreate
  <1>2. ASSUME NEW r \in Requests, NEW b \in Bills,
               LoadToSubmit(r, b) \/ LoadToPay(r, b) \/ LoadToCancelBill(r, b)
        PROVE  Acts(r)
        BY <1>2 DEF Acts, Loads, LoadsBill
  <1>3. ASSUME NEW r \in Requests,
               \/ CompareOrder(r) \/ WriteOrder(r) \/ SaveCreated(r)
               \/ CompareLine(r) \/ WriteLine(r) \/ ReceiveStock(r)
               \/ CompareClosed(r) \/ CommitReceipt(r)
               \/ ReturnStock(r) \/ SaveDebitNote(r)
               \/ BookBill(r) \/ SaveSubmitted(r) \/ SavePaid(r) \/ SaveCancelled(r) \/ Fail(r)
        PROVE  Acts(r)
        BY <1>3 DEF Acts, GoesOn, Saves, SavesBill
  <1>4. \A r \in Requests, o \in Orders : StartReturn(r, o) => Acts(r) BY DEF Acts
  <1> QED BY <1>1, <1>2, <1>3, <1>4 DEF Next

LEMMA BeginStep ==
    ASSUME TypeOK, NEW r \in Requests, NEW new \in Request, NEW k \in Orders \cup Bills,
           Begin(r, new, k)
    PROVE  /\ TypeOK'
           /\ req'[r] = new /\ req[r] = Idle
           /\ \A p \in Requests \ {r} : req'[p] = req[p]
           /\ \A p \in Requests \ {r} : k \in Holds(p) => k \in raced'
           /\ raced \subseteq raced'
           /\ UNCHANGED <<table, due, broken, unnoted, halted, withdrawn>>
  <1>1. /\ req' \in [Requests -> Request] /\ req'[r] = new
        /\ \A p \in Requests \ {r} : req'[p] = req[p]
        BY ReqStep DEF Begin
  <1>2. calls' \in Nat BY PurchasingAssumption DEF Begin, TypeOK
  <1>3. raced' \subseteq Orders \cup Bills BY DEF Begin, TypeOK
  <1>4. req[r] = Idle BY DEF Begin
  <1>5. /\ \A p \in Requests \ {r} : k \in Holds(p) => k \in raced'
        /\ raced \subseteq raced'
        BY DEF Begin
  <1>6. UNCHANGED <<table, due, broken, unnoted, halted, withdrawn>> BY DEF Begin
  <1> QED BY <1>1, <1>2, <1>3, <1>4, <1>5, <1>6 DEF TypeOK, table

(* What a request has loaded, and that nothing else has changed.           *)
LEMMA LoadBegins ==
    ASSUME TypeOK, NEW r \in Requests
    PROVE  /\ \A o \in Orders : LoadsOrder(r, o) =>
                 \E new \in Request :
                    /\ Begin(r, new, o)
                    /\ new.pc \in {"create", "change", "receive", "stock"} /\ new.order = o
           /\ \A b \in Bills : LoadsBill(r, b) =>
                 \E new \in Request :
                    /\ Begin(r, new, b)
                    /\ new.bill = b /\ new.row = bills[b] /\ bills[b] \in BillRow
                    /\ \/ new.pc = "book" /\ bills[b].status = "DRAFT" /\ LoadToSubmit(r, b)
                       \/ new.pc = "pay" /\ bills[b].status = "PENDING_PAYMENT" /\ LoadToPay(r, b)
                       \/ new.pc = "cancel" /\ bills[b].status # "PAID" /\ LoadToCancelBill(r, b)
  <1>1. ASSUME NEW o \in Orders, LoadsOrder(r, o)
        PROVE  \E new \in Request :
                  /\ Begin(r, new, o)
                  /\ new.pc \in {"create", "change", "receive", "stock"} /\ new.order = o
    <2>1. OrderRequest \subseteq Request BY DEF Request
    <2>2. CASE LoadsChange(r, o) BY <2>1, <2>2, LoadChange
    <2>3. CASE LoadsReceipt(r, o) BY <2>1, <2>3, LoadReceive
    <2>4. CASE FindsToCreate(r, o) BY <2>1, <2>4, LoadCreate
    <2> QED BY <1>1, <2>2, <2>3, <2>4 DEF LoadsOrder
  <1>2. ASSUME NEW b \in Bills, NEW pc \in {"book", "pay", "cancel"},
               NEW allowed \in SUBSET VendorBillStatus, LoadBill(r, b, pc, allowed)
        PROVE  /\ bills[b].status \in allowed /\ bills[b] \in BillRow
               /\ \E new \in Request :
                     Begin(r, new, b) /\ new.pc = pc /\ new.bill = b /\ new.row = bills[b]
    <2>1. BillRequest \subseteq Request BY DEF Request
    <2>2. bills[b].status \in allowed BY <1>2 DEF LoadBill
    <2> QED BY <1>2, <2>1, <2>2, LoadedBill
  <1>3. ASSUME NEW b \in Bills, LoadsBill(r, b)
        PROVE  \E new \in Request :
                  /\ Begin(r, new, b)
                  /\ new.bill = b /\ new.row = bills[b] /\ bills[b] \in BillRow
                  /\ \/ new.pc = "book" /\ bills[b].status = "DRAFT" /\ LoadToSubmit(r, b)
                     \/ new.pc = "pay" /\ bills[b].status = "PENDING_PAYMENT" /\ LoadToPay(r, b)
                     \/ new.pc = "cancel" /\ bills[b].status # "PAID" /\ LoadToCancelBill(r, b)
    <2>1. CASE LoadToSubmit(r, b)
      <3>1. LoadBill(r, b, "book", {"DRAFT"}) BY <2>1 DEF LoadToSubmit
      <3> QED BY <1>2, <2>1, <3>1 DEF VendorBillStatus
    <2>2. CASE LoadToPay(r, b)
      <3>1. LoadBill(r, b, "pay", {"PENDING_PAYMENT"}) BY <2>2 DEF LoadToPay
      <3> QED BY <1>2, <2>2, <3>1 DEF VendorBillStatus
    <2>3. CASE LoadToCancelBill(r, b)
      <3>1. LoadBill(r, b, "cancel", Cancellable) BY <2>3 DEF LoadToCancelBill
      <3>2. Cancellable \subseteq VendorBillStatus /\ "PAID" \notin Cancellable BY DEF Cancellable
      <3> QED BY <1>2, <2>3, <3>1, <3>2
    <2> QED BY <1>3, <2>1, <2>2, <2>3 DEF LoadsBill
  <1> QED BY <1>1, <1>3

LEMMA LoadsKeep ==
    ASSUME TypeOK, NEW r \in Requests, Loads(r)
    PROVE  /\ TypeOK' /\ req[r] = Idle
           /\ req'[r].pc \in {"create", "change", "receive", "stock", "book", "pay", "cancel"}
           /\ \A p \in Requests \ {r} : req'[p] = req[p]
           /\ raced \subseteq raced'
           /\ UNCHANGED <<table, due, broken, unnoted, halted, withdrawn>>
  <1>1. PICK new \in Request, k \in Orders \cup Bills :
           /\ Begin(r, new, k)
           /\ new.pc \in {"create", "change", "receive", "stock", "book", "pay", "cancel"}
        BY LoadBegins DEF Loads
  <1> QED BY <1>1, BeginStep

(* What the steps of a request do to what it has in memory.                *)
LEMMA CompareStep ==
    ASSUME TypeOK, NEW r \in Requests, NEW from \in OrderPcs, NEW to \in OrderPcs,
           Compare(r, from, to)
    PROVE  /\ req[r] \in OrderRequest /\ req'[r] \in OrderRequest
           /\ req[r].pc = from /\ req'[r].pc = to
           /\ req'[r].order = req[r].order /\ req'[r].row = req[r].row
           /\ req'[r].quantity = req[r].quantity /\ req'[r].known = req[r].known
           /\ req'[r].dirty = Dirty(req[r].row, req[r].order)
  <1> PICK q : q = req[r] OBVIOUS
  <1>1. q.pc = from BY DEF Compare
  <1>2. q \in OrderRequest BY <1>1, ReqByPc
  <1> DEFINE dirty == Dirty(q.row, q.order)
             new == Compared(q, to, dirty)
  <1>3. dirty \subseteq Columns BY DEF Dirty
  <1>4. req' = [req EXCEPT ![r] = new] BY DEF Compare, Compared
  <1> HIDE DEF dirty
  <1>5. /\ new \in OrderRequest /\ new.pc = to /\ new.dirty = dirty
        /\ new.order = q.order /\ new.row = q.row
        /\ new.quantity = q.quantity /\ new.known = q.known
        BY <1>2, <1>3, ChangedRequests
  <1> HIDE DEF new
  <1>6. req'[r] = new BY <1>4, ReqStep
  <1> QED BY <1>1, <1>2, <1>5, <1>6 DEF dirty

LEMMA MemoryStep ==
    ASSUME TypeOK, NEW r \in Requests
    PROVE  /\ GoesOn(r) =>
                 /\ req[r] \in OrderRequest /\ req'[r] \in OrderRequest
                 /\ req'[r].order = req[r].order
                 /\ req'[r].quantity = req[r].quantity /\ req'[r].known = req[r].known
           /\ CompareOrder(r) \/ CompareLine(r) \/ CompareClosed(r) =>
                 /\ req'[r].row = req[r].row
                 /\ req'[r].dirty = Dirty(req[r].row, req[r].order)
           /\ CompareOrder(r) => req[r].pc = "change" /\ req'[r].pc = "write"
           /\ CompareLine(r) => req[r].pc = "receive" /\ req'[r].pc = "line"
           /\ CompareClosed(r) => req[r].pc = "close" /\ req'[r].pc = "commit"
           /\ WriteLine(r) =>
                 req[r].pc = "line" /\ req'[r].pc = "stock" /\ req'[r].row = req[r].row
           /\ ReceiveStock(r) =>
                 req[r].pc = "stock" /\ req'[r].pc = "close" /\ req'[r].row = Closed(req[r].row)
           /\ ReturnStock(r) =>
                 /\ req[r] \in ReturnRequest
                 /\ req'[r] \in ReturnRequest /\ req'[r].pc = "note"
                 /\ req'[r].return = req[r].return
           /\ BookBill(r) =>
                 /\ req[r] \in BillRequest
                 /\ req'[r] \in BillRequest /\ req'[r].pc = "submit"
                 /\ req'[r].bill = req[r].bill /\ req'[r].row = req[r].row
  <1> PICK q : q = req[r] OBVIOUS
  <1> DEFINE Kept == /\ q \in OrderRequest /\ req'[r] \in OrderRequest
                     /\ req'[r].order = q.order
                     /\ req'[r].quantity = q.quantity /\ req'[r].known = q.known
  <1>1. CompareOrder(r) =>
           /\ Kept /\ q.pc = "change" /\ req'[r].pc = "write"
           /\ req'[r].row = q.row /\ req'[r].dirty = Dirty(q.row, q.order)
        BY CompareStep DEF CompareOrder, OrderPcs, Saving
  <1>2. CompareLine(r) =>
           /\ Kept /\ q.pc = "receive" /\ req'[r].pc = "line"
           /\ req'[r].row = q.row /\ req'[r].dirty = Dirty(q.row, q.order)
        BY CompareStep DEF CompareLine, OrderPcs, Receiving
  <1>3. CompareClosed(r) =>
           /\ Kept /\ q.pc = "close" /\ req'[r].pc = "commit"
           /\ req'[r].row = q.row /\ req'[r].dirty = Dirty(q.row, q.order)
        BY CompareStep DEF CompareClosed, OrderPcs, Receiving
  <1>4. ASSUME WriteLine(r)
        PROVE  Kept /\ q.pc = "line" /\ req'[r].pc = "stock" /\ req'[r].row = q.row
    <2> DEFINE locked == WritesLine(q)
               new == LineWritten(q, locked)
    <2>1. q.pc = "line" BY <1>4 DEF WriteLine
    <2>2. q \in OrderRequest BY <2>1, ReqByPc DEF OrderPcs, Receiving
    <2>3. locked \in BOOLEAN BY DEF WritesLine
    <2>4. \A l \in BOOLEAN :
             LET new1 == LineWritten(q, l) IN
             /\ new1 \in OrderRequest /\ new1.pc = "stock"
             /\ new1.order = q.order /\ new1.row = q.row
             /\ new1.quantity = q.quantity /\ new1.known = q.known
          BY <2>2, ChangedRequests
    <2>5. /\ new \in OrderRequest /\ new.pc = "stock"
          /\ new.order = q.order /\ new.row = q.row
          /\ new.quantity = q.quantity /\ new.known = q.known
          BY <2>3, <2>4
    <2>6. req' = [req EXCEPT ![r] = new] BY <1>4 DEF WriteLine, AfterLine, LineWritten
    <2> HIDE DEF new
    <2>7. req'[r] = new BY <2>6, ReqStep
    <2> QED BY <2>1, <2>2, <2>5, <2>7
  <1>5. ASSUME ReceiveStock(r)
        PROVE  Kept /\ q.pc = "stock" /\ req'[r].pc = "close" /\ req'[r].row = Closed(q.row)
    <2>1. q.pc = "stock" BY <1>5 DEF ReceiveStock
    <2>2. q \in OrderRequest BY <2>1, ReqByPc DEF OrderPcs, Receiving
    <2>3. req' = [req EXCEPT ![r] = Stocked(req[r])] BY <1>5 DEF ReceiveStock, Stocked
    <2>4. req'[r] = Stocked(q) BY <2>3, ReqStep
    <2> QED BY <2>1, <2>2, <2>4, ChangedRequests
  <1>6. ASSUME ReturnStock(r)
        PROVE  /\ q \in ReturnRequest
               /\ req'[r] \in ReturnRequest /\ req'[r].pc = "note" /\ req'[r].return = q.return
    <2> DEFINE new == [q EXCEPT !.pc = "note"]
    <2>1. q \in ReturnRequest BY <1>6, ReqByPc DEF ReturnStock
    <2>2. new \in ReturnRequest /\ new.pc = "note" /\ new.return = q.return
          BY <2>1 DEF ReturnRequest
    <2>3. req' = [req EXCEPT ![r] = new] BY <1>6 DEF ReturnStock
    <2> HIDE DEF new
    <2>4. req'[r] = new BY <2>3, ReqStep
    <2> QED BY <2>1, <2>2, <2>4
  <1>7. ASSUME BookBill(r)
        PROVE  /\ q \in BillRequest
               /\ req'[r] \in BillRequest /\ req'[r].pc = "submit"
               /\ req'[r].bill = q.bill /\ req'[r].row = q.row
    <2> DEFINE new == [q EXCEPT !.pc = "submit"]
    <2>1. q \in BillRequest BY <1>7, ReqByPc DEF BookBill, BillPcs
    <2>2. new \in BillRequest /\ new.pc = "submit" /\ new.bill = q.bill /\ new.row = q.row
          BY <2>1 DEF BillRequest
    <2>3. req' = [req EXCEPT ![r] = new] BY <1>7 DEF BookBill
    <2> HIDE DEF new
    <2>4. req'[r] = new BY <2>3, ReqStep
    <2> QED BY <2>1, <2>2, <2>4
  <1> QED BY <1>1, <1>2, <1>3, <1>4, <1>5, <1>6, <1>7 DEF GoesOn

\* The steps after which r is idle.
Ends(r) == Saves(r) \/ SaveDebitNote(r) \/ SavesBill(r) \/ Fail(r)

LEMMA EndsStep ==
    ASSUME NEW r \in Requests, Ends(r)
    PROVE  req' = [req EXCEPT ![r] = Idle] /\ calls' = calls
  <1>1. \A pc : Save(r, pc) => req' = [req EXCEPT ![r] = Idle] /\ calls' = calls BY DEF Save
  <1>2. \A pc, s : SaveBill(r, pc, s) => req' = [req EXCEPT ![r] = Idle] /\ calls' = calls
        BY DEF SaveBill
  <1>3. CASE Saves(r) BY <1>1, <1>3 DEF Saves, WriteOrder, SaveCreated, CommitReceipt
  <1>4. CASE SavesBill(r) BY <1>2, <1>4 DEF SavesBill, SaveSubmitted, SavePaid, SaveCancelled
  <1>5. CASE SaveDebitNote(r) \/ Fail(r) BY <1>5 DEF SaveDebitNote, Fail
  <1> QED BY <1>3, <1>4, <1>5 DEF Ends

(* A step of r keeps the other requests, and r becomes what it names.      *)
LEMMA RequestsStep ==
    ASSUME TypeOK, NEW r \in Requests, Acts(r)
    PROVE  /\ \A p \in Requests \ {r} : req'[p] = req[p]
           /\ req'[r].pc \in OrderPcs => (\E o \in Orders : LoadsOrder(r, o)) \/ GoesOn(r)
           /\ req'[r].pc \in {"write", "line", "close", "commit"} => GoesOn(r)
           /\ req'[r].pc = "return" => \E o \in Orders : StartReturn(r, o)
           /\ req'[r].pc = "note" => ReturnStock(r)
           /\ req'[r].pc \in {"book", "pay", "cancel"} => \E b \in Bills : LoadsBill(r, b)
           /\ req'[r].pc = "submit" => BookBill(r)
           /\ Ends(r) => req'[r] = Idle
  <1>0. \A new : req' = [req EXCEPT ![r] = new] =>
           req'[r] = new /\ \A p \in Requests \ {r} : req'[p] = req[p]
        BY ReqStep
  <1>1. ASSUME NEW o \in Orders, LoadsOrder(r, o)
        PROVE  /\ \A p \in Requests \ {r} : req'[p] = req[p]
               /\ req'[r].pc \in {"create", "change", "receive", "stock"} /\ req[r] = Idle
        BY <1>1, LoadBegins, BeginStep
  <1>2. ASSUME NEW b \in Bills, LoadsBill(r, b)
        PROVE  /\ \A p \in Requests \ {r} : req'[p] = req[p]
               /\ req'[r].pc \in {"book", "pay", "cancel"} /\ req[r] = Idle
        BY <1>2, LoadBegins, BeginStep
  <1>3. ASSUME NEW o \in Orders, StartReturn(r, o)
        PROVE  /\ \A p \in Requests \ {r} : req'[p] = req[p]
               /\ req'[r].pc = "return" /\ req[r] = Idle
    <2> DEFINE new == [pc |-> "return", return |-> <<o, calls>>]
    <2>1. new.pc = "return" /\ req' = [req EXCEPT ![r] = new] /\ req[r] = Idle
          BY <1>3 DEF StartReturn
    <2> HIDE DEF new
    <2> QED BY <1>0, <2>1
  <1>4. GoesOn(r) => /\ \A p \in Requests \ {r} : req'[p] = req[p]
                     /\ req'[r].pc \in {"write", "line", "stock", "close", "commit"}
                     /\ req[r].pc # "idle"
    <2>1. ASSUME GoesOn(r) PROVE \E new : req' = [req EXCEPT ![r] = new]
          BY <2>1 DEF GoesOn, CompareOrder, CompareLine, CompareClosed, Compare, WriteLine, ReceiveStock
    <2> QED BY <1>0, <2>1, MemoryStep DEF GoesOn
  <1>5. ReturnStock(r) => req'[r].pc = "note" /\ \A p \in Requests \ {r} : req'[p] = req[p]
    <2>1. ASSUME ReturnStock(r) PROVE \E new : req' = [req EXCEPT ![r] = new]
          BY <2>1 DEF ReturnStock
    <2> QED BY <1>0, <2>1, MemoryStep
  <1>6. BookBill(r) => req'[r].pc = "submit" /\ \A p \in Requests \ {r} : req'[p] = req[p]
    <2>1. ASSUME BookBill(r) PROVE \E new : req' = [req EXCEPT ![r] = new]
          BY <2>1 DEF BookBill
    <2> QED BY <1>0, <2>1, MemoryStep
  <1>7. Ends(r) => /\ req'[r] = Idle /\ req'[r].pc = "idle"
                   /\ \A p \in Requests \ {r} : req'[p] = req[p]
    <2>1. Idle.pc = "idle" BY DEF Idle
    <2> QED BY <1>0, <2>1, EndsStep
  <1>8. CASE \E o \in Orders : LoadsOrder(r, o)
    <2>1. ~Ends(r)
      <3>1. req[r] = Idle /\ req'[r].pc # "idle" BY <1>1, <1>8
      <3> QED BY <1>7, <3>1
    <2> QED BY <1>1, <1>8, <2>1
  <1>9. CASE \E b \in Bills : LoadsBill(r, b)
    <2>1. req'[r].pc \in {"book", "pay", "cancel"} BY <1>2, <1>9
    <2>2. ~Ends(r) BY <1>7, <2>1
    <2> QED BY <1>2, <1>9, <2>1, <2>2 DEF OrderPcs, Saving, Receiving
  <1>10. CASE \E o \in Orders : StartReturn(r, o)
    <2>1. req'[r].pc = "return" BY <1>3, <1>10
    <2>2. ~Ends(r) BY <1>7, <2>1
    <2> QED BY <1>3, <1>10, <2>1, <2>2 DEF OrderPcs, Saving, Receiving
  <1>11. CASE GoesOn(r)
    <2>1. ~Ends(r) BY <1>4, <1>7, <1>11
    <2> QED BY <1>4, <1>11, <2>1
  <1>12. CASE ReturnStock(r)
    <2>1. ~Ends(r) BY <1>5, <1>7, <1>12
    <2> QED BY <1>5, <1>12, <2>1 DEF OrderPcs, Saving, Receiving
  <1>13. CASE BookBill(r)
    <2>1. ~Ends(r) BY <1>6, <1>7, <1>13
    <2> QED BY <1>6, <1>13, <2>1 DEF OrderPcs, Saving, Receiving
  <1>14. CASE Ends(r) BY <1>7, <1>14 DEF OrderPcs, Saving, Receiving
  <1> QED BY <1>8, <1>9, <1>10, <1>11, <1>12, <1>13, <1>14 DEF Acts, Loads, Ends


----------------------------------------------------------------------------
(* What a step does to the tables and to the history.                      *)
LEMMA RestStep ==
    ASSUME TypeOK, NEW r \in Requests, Acts(r)
    PROVE  /\ Saves(r) \/ UNCHANGED <<orders, due>>
           /\ SavesBill(r) \/ UNCHANGED bills
           /\ ReceiveStock(r) \/ UNCHANGED moved
           /\ CommitReceipt(r) \/ UNCHANGED receipts
           /\ ReturnStock(r) \/ UNCHANGED returned
           /\ SaveDebitNote(r) \/ UNCHANGED noted
           /\ BookBill(r) \/ UNCHANGED booked
           /\ SaveCancelled(r) \/ UNCHANGED withdrawn
           /\ Fail(r) \/ UNCHANGED <<broken, unnoted, halted>>
           /\ Loads(r) \/ UNCHANGED raced
           /\ raced \subseteq raced'
  <1>1. CASE Loads(r) BY <1>1, LoadsKeep DEF table
  <1>2. CASE \E o \in Orders : StartReturn(r, o) BY <1>2 DEF StartReturn, table, history
  <1>3. CASE GoesOn(r)
        BY <1>3 DEF GoesOn, CompareOrder, CompareLine, CompareClosed, Compare, WriteLine,
                    ReceiveStock, table, history
  <1>4. CASE Saves(r) BY <1>4 DEF Saves, WriteOrder, SaveCreated, CommitReceipt, Save
  <1>5. CASE ReturnStock(r) BY <1>5 DEF ReturnStock, history
  <1>6. CASE SaveDebitNote(r) BY <1>6 DEF SaveDebitNote, history
  <1>7. CASE BookBill(r) BY <1>7 DEF BookBill, history
  <1>8. CASE SavesBill(r)
        BY <1>8 DEF SavesBill, SaveSubmitted, SavePaid, SaveCancelled, SaveBill
  <1>9. CASE Fail(r) BY <1>9 DEF Fail, table
  <1> QED BY <1>1, <1>2, <1>3, <1>4, <1>5, <1>6, <1>7, <1>8, <1>9 DEF Acts

(* What a step does to the row of an order: only a save changes it, which  *)
(* writes the columns it has found to differ.                              *)
LEMMA OrderStep ==
    ASSUME TypeInv, NEW r \in Requests, Acts(r), NEW o \in Orders
    PROVE  \/ orders'[o] = orders[o]
           \/ /\ Saves(r) /\ req[r].pc \in {"write", "create", "commit"} /\ req[r].order = o
              /\ orders[o] \in OrderRow
              /\ orders'[o] = Saved(req[r], orders[o])
              /\ orders'[o] \in OrderRow
  <1>0. TypeOK BY DEF TypeInv
  <1> PICK q : q = req[r] OBVIOUS
  <1>1. ASSUME NEW pc \in {"write", "create", "commit"}, Save(r, pc)
        PROVE  \/ orders'[o] = orders[o]
               \/ /\ q.pc \in {"write", "create", "commit"} /\ q.order = o
                  /\ orders[o] \in OrderRow
                  /\ orders'[o] = Saved(q, orders[o])
                  /\ orders'[o] \in OrderRow
    <2>1. q.pc = pc /\ orders' = [orders EXCEPT ![q.order] = Saved(q, @)] BY <1>1 DEF Save
    <2>2. q.pc \in OrderPcs BY <2>1 DEF OrderPcs, Saving, Receiving
    <2>3. q.order \in Orders /\ q.row \in OrderRow /\ q.dirty \subseteq Columns
          BY <1>0, <2>2, ReqByPc
    <2>4. CASE o = q.order
      <3>1. orders[o] \in OrderRow BY <1>0, <2>2, <2>3, <2>4 DEF TypeInv, Exist, TypeOK
      <3>2. Saved(q, orders[o]) \in OrderRow BY <2>3, <3>1, SavedRow
      <3>3. orders'[o] = Saved(q, orders[o]) BY <1>0, <2>1, <2>4 DEF TypeOK
      <3> QED BY <2>1, <2>4, <3>1, <3>2, <3>3
    <2>5. CASE o # q.order BY <1>0, <2>1, <2>5 DEF TypeOK
    <2> QED BY <2>4, <2>5
  <1>2. Saves(r) => \E pc \in {"write", "create", "commit"} : Save(r, pc)
        BY DEF Saves, WriteOrder, SaveCreated, CommitReceipt
  <1> QED BY <1>0, <1>1, <1>2, RestStep

(* What a step does to the row of a vendor bill.                           *)
LEMMA BillStep ==
    ASSUME TypeInv, NEW r \in Requests, Acts(r), NEW b \in Bills
    PROVE  \/ bills'[b] = bills[b]
           \/ /\ req[r].bill = b /\ bills'[b] \in BillRow
              /\ \/ SaveSubmitted(r) /\ req[r].pc = "submit" /\ bills'[b].status = "PENDING_PAYMENT"
                 \/ SavePaid(r) /\ req[r].pc = "pay" /\ bills'[b].status = "PAID"
                 \/ SaveCancelled(r) /\ req[r].pc = "cancel" /\ bills'[b].status = "CANCELLED"
  <1>0. TypeOK BY DEF TypeInv
  <1> PICK q : q = req[r] OBVIOUS
  <1>1. ASSUME NEW pc \in {"submit", "pay", "cancel"}, NEW s \in VendorBillStatus,
               SaveBill(r, pc, s)
        PROVE  \/ bills'[b] = bills[b]
               \/ q.bill = b /\ q.pc = pc /\ bills'[b] \in BillRow /\ bills'[b].status = s
    <2>1. q.pc = pc /\ bills' = [bills EXCEPT ![q.bill].status = s] BY <1>1 DEF SaveBill
    <2>2. q.bill # b => bills'[b] = bills[b] BY <1>0, <2>1 DEF TypeOK
    <2>3. ASSUME q.bill = b PROVE bills'[b] \in BillRow /\ bills'[b].status = s
      <3>1. bills[b] # NoRow BY <1>1, <2>1, <2>3 DEF TypeInv, Exist, BillPcs
      <3>2. bills[b] \in BillRow BY <1>0, <3>1 DEF TypeOK
      <3>3. bills'[b] = [bills[b] EXCEPT !.status = s] BY <1>0, <2>1, <2>3 DEF TypeOK
      <3> QED BY <3>2, <3>3 DEF BillRow
    <2> QED BY <2>1, <2>2, <2>3
  <1>2. SaveSubmitted(r) => SaveBill(r, "submit", "PENDING_PAYMENT") BY DEF SaveSubmitted
  <1>3. SavePaid(r) => SaveBill(r, "pay", "PAID") BY DEF SavePaid
  <1>4. SaveCancelled(r) => SaveBill(r, "cancel", "CANCELLED") BY DEF SaveCancelled
  <1>5. CASE SaveSubmitted(r) BY <1>1, <1>2, <1>5 DEF VendorBillStatus
  <1>6. CASE SavePaid(r) BY <1>1, <1>3, <1>6 DEF VendorBillStatus
  <1>7. CASE SaveCancelled(r) BY <1>1, <1>4, <1>7 DEF VendorBillStatus
  <1> QED BY <1>0, <1>5, <1>6, <1>7, RestStep DEF SavesBill

----------------------------------------------------------------------------
LEMMA TypeInit == Init => TypeInv
  <1> SUFFICES ASSUME Init PROVE TypeInv
      OBVIOUS
  <1>1. TypeOK BY DEF Init, TypeOK, Request
  <1>2. \A r \in Requests : req[r].pc = "idle" BY DEF Init, Idle
  <1> QED BY <1>1, <1>2 DEF TypeInv, Exist, OrderPcs, Saving, Receiving, BillPcs

LEMMA RequestType ==
    ASSUME TypeInv, NEW r \in Requests, Acts(r)
    PROVE  req' \in [Requests -> Request] /\ calls' \in Nat
  <1>0. TypeOK BY DEF TypeInv
  <1>1. CASE Loads(r)
    <2>1. TypeOK' BY <1>0, <1>1, LoadsKeep
    <2> QED BY <2>1 DEF TypeOK
  <1>2. ASSUME NEW o \in Orders, StartReturn(r, o)
        PROVE  req' \in [Requests -> Request] /\ calls' \in Nat
    <2> DEFINE new == [pc |-> "return", return |-> <<o, calls>>]
    <2>1. calls \in Nat BY <1>0 DEF TypeOK
    <2>2. <<o, calls>> \in Return BY <2>1 DEF Return
    <2>3. new \in Request BY <2>2 DEF ReturnRequest, Request
    <2>4. req' = [req EXCEPT ![r] = new] /\ calls' = calls + 1 BY <1>2 DEF StartReturn
    <2> HIDE DEF new
    <2>5. req' \in [Requests -> Request] BY <1>0, <2>3, <2>4, ReqStep
    <2>6. calls' \in Nat BY <2>1, <2>4
    <2> QED BY <2>5, <2>6
  <1>3. ASSUME GoesOn(r) \/ ReturnStock(r) \/ BookBill(r)
        PROVE  req' \in [Requests -> Request] /\ calls' \in Nat
    <2>1. req'[r] \in Request BY <1>0, <1>3, MemoryStep DEF Request
    <2>2. calls' = calls /\ \E new : req' = [req EXCEPT ![r] = new]
      <3>1. CASE GoesOn(r)
            BY <3>1 DEF GoesOn, CompareOrder, CompareLine, CompareClosed, Compare, WriteLine,
                        ReceiveStock
      <3>2. CASE ReturnStock(r) \/ BookBill(r) BY <3>2 DEF ReturnStock, BookBill
      <3> QED BY <1>3, <3>1, <3>2
    <2>3. PICK new : req' = [req EXCEPT ![r] = new] BY <2>2
    <2> QED BY <1>0, <2>1, <2>2, <2>3, ReqStep DEF TypeOK
  <1>4. ASSUME Ends(r) PROVE req' \in [Requests -> Request] /\ calls' \in Nat
    <2>1. req' = [req EXCEPT ![r] = Idle] /\ calls' = calls BY <1>4, EndsStep
    <2> QED BY <1>0, <2>1, ReqStep DEF Request, TypeOK
  <1> QED BY <1>1, <1>2, <1>3, <1>4 DEF Acts, Ends

LEMMA TypeOKStep == ASSUME TypeInv, NEW r \in Requests, Acts(r) PROVE TypeOK'
  <1>0. TypeOK BY DEF TypeInv
  <1> PICK q : q = req[r] OBVIOUS
  <1>1. Saves(r) =>
           /\ q.order \in Orders /\ q.row \in OrderRow /\ q.row.received \in Int
           /\ q.quantity \in Nat
           /\ \E new : orders' = [orders EXCEPT ![q.order] = new]
           /\ due' = due \/ due' = [due EXCEPT ![q.order] = q.row.received]
                \/ due' = [due EXCEPT ![q.order] = @ + q.quantity]
    <2>1. Saves(r) => /\ q.pc \in OrderPcs
                      /\ \E new : orders' = [orders EXCEPT ![q.order] = new]
          BY DEF Saves, WriteOrder, SaveCreated, CommitReceipt, Save, OrderPcs, Saving, Receiving
    <2>2. Saves(r) => due' = due \/ due' = [due EXCEPT ![q.order] = q.row.received]
                        \/ due' = [due EXCEPT ![q.order] = @ + q.quantity]
          BY DEF Saves, WriteOrder, SaveCreated, CommitReceipt
    <2>3. q.pc \in OrderPcs => q.order \in Orders /\ q.row \in OrderRow /\ q.quantity \in Nat
          BY <1>0, ReqByPc
    <2> QED BY <2>1, <2>2, <2>3, RowTypes
  <1>2. orders' \in [Orders -> OrderRow \cup {NoRow}]
    <2>1. CASE Saves(r)
      <3>1. PICK new : orders' = [orders EXCEPT ![q.order] = new] BY <1>1, <2>1
      <3>2. new = orders'[q.order] BY <1>0, <1>1, <2>1, <3>1 DEF TypeOK
      <3>3. orders'[q.order] \in OrderRow \cup {NoRow} BY <1>0, <1>1, <2>1, OrderStep DEF TypeOK
      <3> QED BY <1>0, <3>1, <3>2, <3>3 DEF TypeOK
    <2> QED BY <1>0, <2>1, RestStep DEF TypeOK
  <1>3. due' \in [Orders -> Int]
    <2>1. CASE Saves(r) BY <1>0, <1>1, <2>1 DEF TypeOK
    <2> QED BY <1>0, <2>1, RestStep DEF TypeOK
  <1>4. bills' \in [Bills -> BillRow \cup {NoRow}]
    <2>1. CASE SavesBill(r)
      <3>1. q.bill \in Bills
            BY <1>0, <2>1, ReqByPc DEF SavesBill, SaveSubmitted, SavePaid, SaveCancelled, SaveBill,
                                       BillPcs, BillRequest
      <3>2. PICK s : bills' = [bills EXCEPT ![q.bill].status = s]
            BY <2>1 DEF SavesBill, SaveSubmitted, SavePaid, SaveCancelled, SaveBill
      <3>3. bills' = [bills EXCEPT ![q.bill] = bills'[q.bill]] BY <1>0, <3>1, <3>2 DEF TypeOK
      <3>4. bills'[q.bill] \in BillRow \cup {NoRow} BY <1>0, <3>1, BillStep DEF TypeOK
      <3> QED BY <1>0, <3>3, <3>4 DEF TypeOK
    <2> QED BY <1>0, <2>1, RestStep DEF TypeOK
  <1>5. receipts' \in [Orders -> Nat] /\ moved' \in [Orders -> Nat]
    <2>1. CASE ReceiveStock(r)
      <3>1. q.order \in Orders /\ q.quantity \in Nat
            BY <1>0, <2>1, ReqByPc DEF ReceiveStock, OrderPcs, Receiving
      <3>2. moved' = [moved EXCEPT ![q.order] = @ + q.quantity] /\ receipts' = receipts
            BY <2>1 DEF ReceiveStock
      <3> QED BY <1>0, <3>1, <3>2 DEF TypeOK
    <2>2. CASE CommitReceipt(r)
      <3>1. receipts' = [receipts EXCEPT ![q.order] = @ + q.quantity] /\ moved' = moved
            BY <2>2 DEF CommitReceipt, Save
      <3> QED BY <1>0, <1>1, <2>2, <3>1 DEF TypeOK, Saves
    <2> QED BY <1>0, <2>1, <2>2, RestStep DEF TypeOK
  <1>6. returned' \subseteq Return /\ noted' \subseteq Return
    <2>1. q.pc \in {"return", "note"} => q.return \in Return BY <1>0, ReqByPc DEF ReturnRequest
    <2>2. CASE ReturnStock(r) BY <1>0, <2>1, <2>2 DEF ReturnStock, TypeOK
    <2>3. CASE SaveDebitNote(r) BY <1>0, <2>1, <2>3 DEF SaveDebitNote, TypeOK
    <2> QED BY <1>0, <2>2, <2>3, RestStep DEF TypeOK
  <1>7. booked' \subseteq Bills /\ withdrawn' \subseteq Bills
    <2>1. q.pc \in BillPcs => q.bill \in Bills BY <1>0, ReqByPc DEF BillRequest
    <2>2. CASE BookBill(r) BY <1>0, <2>1, <2>2, RestStep DEF BookBill, TypeOK, BillPcs, history
    <2>3. CASE SaveCancelled(r)
          BY <1>0, <2>1, <2>3 DEF SaveCancelled, SaveBill, TypeOK, BillPcs
    <2> QED BY <1>0, <2>2, <2>3, RestStep DEF TypeOK
  <1>8. broken' \subseteq Orders /\ unnoted' \subseteq Return /\ halted' \subseteq Bills
    <2>1. CASE Fail(r)
      <3>1. q.pc \in {"close", "commit"} => q.order \in Orders
            BY <1>0, ReqByPc DEF OrderPcs, Receiving
      <3>2. q.pc = "note" => q.return \in Return BY <1>0, ReqByPc DEF ReturnRequest
      <3>3. q.pc = "submit" => q.bill \in Bills BY <1>0, ReqByPc DEF BillRequest, BillPcs
      <3> QED BY <1>0, <2>1, <3>1, <3>2, <3>3 DEF Fail, TypeOK
    <2> QED BY <1>0, <2>1, RestStep DEF TypeOK
  <1>9. raced' \subseteq Orders \cup Bills
    <2>1. CASE Loads(r)
      <3>1. TypeOK' BY <1>0, <2>1, LoadsKeep
      <3> QED BY <3>1 DEF TypeOK
    <2> QED BY <1>0, <2>1, RestStep DEF TypeOK
  <1> QED BY <1>2, <1>3, <1>4, <1>5, <1>6, <1>7, <1>8, <1>9, RequestType DEF TypeOK

(* Rows are never deleted.                                                 *)
LEMMA RowsStay ==
    ASSUME TypeInv, NEW r \in Requests, Acts(r)
    PROVE  /\ \A o \in Orders : orders[o] # NoRow => orders'[o] # NoRow
           /\ \A b \in Bills : bills[b] # NoRow => bills'[b] # NoRow
  <1>1. \A o \in Orders : orders[o] # NoRow => orders'[o] # NoRow BY OrderStep, RowTypes
  <1>2. \A b \in Bills : bills[b] # NoRow => bills'[b] # NoRow BY BillStep, RowTypes
  <1> QED BY <1>1, <1>2

LEMMA ExistStep == ASSUME TypeInv, NEW r \in Requests, Acts(r) PROVE Exist'
  <1>0. TypeOK BY DEF TypeInv
  <1>1. ASSUME NEW p \in Requests, p # r
        PROVE  /\ req'[p].pc \in OrderPcs => orders'[req'[p].order] # NoRow
               /\ req'[p].pc \in BillPcs => bills'[req'[p].bill] # NoRow
    <2>1. req'[p] = req[p] BY <1>0, <1>1, RequestsStep
    <2>2. req[p].pc \in OrderPcs => req[p].order \in Orders BY <1>0, ReqByPc
    <2>3. req[p].pc \in BillPcs => req[p].bill \in Bills BY <1>0, ReqByPc DEF BillRequest
    <2> QED BY <2>1, <2>2, <2>3, RowsStay DEF TypeInv, Exist
  <1>2. ASSUME req'[r].pc \in OrderPcs PROVE orders'[req'[r].order] # NoRow
    <2>1. CASE GoesOn(r)
      <3>1. req[r] \in OrderRequest /\ req'[r].order = req[r].order BY <1>0, <2>1, MemoryStep
      <3>2. req[r].order \in Orders /\ orders[req[r].order] # NoRow
            BY <3>1 DEF OrderRequest, OrderPcs, TypeInv, Exist
      <3> QED BY <3>1, <3>2, RowsStay
    <2>2. CASE \E o \in Orders : LoadsOrder(r, o)
      <3>1. PICK o \in Orders : LoadsOrder(r, o) BY <2>2
      <3>2. orders[o] # NoRow
            BY <1>0, <3>1, LoadChange, LoadReceive, LoadCreate, RowTypes DEF LoadsOrder
      <3>3. req'[r].order = o BY <1>0, <3>1, LoadBegins, BeginStep
      <3> QED BY <3>2, <3>3, RowsStay
    <2> QED BY <1>0, <1>2, <2>1, <2>2, RequestsStep
  <1>3. ASSUME req'[r].pc \in BillPcs PROVE bills'[req'[r].bill] # NoRow
    <2>1. CASE req'[r].pc = "submit"
      <3>1. BookBill(r) BY <1>0, <2>1, RequestsStep
      <3>2. req[r].bill \in Bills /\ bills[req[r].bill] # NoRow
            BY <1>0, <3>1, MemoryStep DEF BookBill, BillRequest, BillPcs, TypeInv, Exist
      <3> QED BY <1>0, <3>1, <3>2, MemoryStep, RowsStay
    <2>2. CASE req'[r].pc \in {"book", "pay", "cancel"}
      <3>1. PICK b \in Bills : LoadsBill(r, b) BY <1>0, <2>2, RequestsStep
      <3>2. PICK new \in Request :
               Begin(r, new, b) /\ new.bill = b /\ bills[b] \in BillRow
            BY <1>0, <3>1, LoadBegins
      <3>3. req'[r].bill = b BY <1>0, <3>2, BeginStep
      <3> QED BY <3>2, <3>3, RowTypes, RowsStay
    <2> QED BY <1>3, <2>1, <2>2 DEF BillPcs
  <1> QED BY <1>1, <1>2, <1>3 DEF Exist

(* A new row of an order or a bill.                                        *)
LEMMA CreateStep ==
    ASSUME TypeOK
    PROVE  /\ \A o \in Orders, new \in NewOrders : CreatePO(o, new) =>
                 /\ orders' \in [Orders -> OrderRow \cup {NoRow}] /\ due' \in [Orders -> Int]
                 /\ orders[o] = NoRow /\ orders'[o] = new
                 /\ due'[o] = new.received
                 /\ \A x \in Orders \ {o} : orders'[x] = orders[x] /\ due'[x] = due[x]
           /\ \A b \in Bills : CreateVendorBill(b) =>
                 /\ bills' \in [Bills -> BillRow \cup {NoRow}]
                 /\ \A x \in Bills : IF x = b THEN /\ bills[x] = NoRow
                                                   /\ bills'[x].status = "DRAFT"
                                                   /\ bills'[x] \in BillRow
                                     ELSE bills'[x] = bills[x]
  <1>1. ASSUME NEW o \in Orders, NEW new \in NewOrders, CreatePO(o, new)
        PROVE  /\ orders' \in [Orders -> OrderRow \cup {NoRow}] /\ due' \in [Orders -> Int]
               /\ orders[o] = NoRow /\ orders'[o] = new
               /\ due'[o] = new.received
               /\ \A x \in Orders \ {o} : orders'[x] = orders[x] /\ due'[x] = due[x]
    <2>1. new \in OrderRow /\ new.received \in Int BY NewRows
    <2>2. /\ orders' = [orders EXCEPT ![o] = new] /\ orders[o] = NoRow
          /\ due' = [due EXCEPT ![o] = new.received]
          BY <1>1 DEF CreatePO
    <2>3. /\ orders' \in [Orders -> OrderRow \cup {NoRow}] /\ orders'[o] = new
          /\ \A x \in Orders \ {o} : orders'[x] = orders[x]
          BY <2>1, <2>2 DEF TypeOK
    <2>4. /\ due' \in [Orders -> Int] /\ due'[o] = new.received
          /\ \A x \in Orders \ {o} : due'[x] = due[x]
          BY <2>1, <2>2 DEF TypeOK
    <2> QED BY <2>2, <2>3, <2>4
  <1>2. ASSUME NEW b \in Bills, CreateVendorBill(b)
        PROVE  /\ bills' \in [Bills -> BillRow \cup {NoRow}]
               /\ \A x \in Bills : IF x = b THEN /\ bills[x] = NoRow
                                                 /\ bills'[x].status = "DRAFT"
                                                 /\ bills'[x] \in BillRow
                                   ELSE bills'[x] = bills[x]
    <2> DEFINE new == [status |-> "DRAFT"]
    <2>1. new \in BillRow /\ new.status = "DRAFT" BY DEF BillRow, VendorBillStatus
    <2>2. bills' = [bills EXCEPT ![b] = new] /\ bills[b] = NoRow BY <1>2 DEF CreateVendorBill
    <2> HIDE DEF new
    <2> QED BY <2>1, <2>2 DEF TypeOK
  <1> QED BY <1>1, <1>2

LEMMA TypeNext == TypeInv /\ [Next]_vars => TypeInv'
  <1> SUFFICES ASSUME TypeInv, [Next]_vars PROVE TypeInv'
      OBVIOUS
  <1>0. TypeOK BY DEF TypeInv
  <1>r. \A r \in Requests :
           /\ req[r].pc \in OrderPcs => req[r].order \in Orders
           /\ req[r].pc \in BillPcs => req[r].bill \in Bills
        BY <1>0, ReqByPc DEF BillRequest
  <1>1. ASSUME NEW o \in Orders, NEW new \in NewOrders, CreatePO(o, new) PROVE TypeInv'
    <2>1. /\ orders' \in [Orders -> OrderRow \cup {NoRow}] /\ due' \in [Orders -> Int]
          /\ \A x \in Orders : orders[x] # NoRow => orders'[x] # NoRow
          BY <1>0, <1>1, CreateStep, RowTypes
    <2>2. TypeOK' BY <1>0, <1>1, <2>1 DEF CreatePO, TypeOK
    <2>3. Exist' BY <1>1, <1>r, <2>1 DEF CreatePO, TypeInv, Exist
    <2> QED BY <2>2, <2>3 DEF TypeInv
  <1>2. ASSUME NEW b \in Bills, CreateVendorBill(b) PROVE TypeInv'
    <2>1. /\ bills' \in [Bills -> BillRow \cup {NoRow}]
          /\ \A x \in Bills : bills[x] # NoRow => bills'[x] # NoRow
          BY <1>0, <1>2, CreateStep, RowTypes
    <2>2. TypeOK' BY <1>0, <1>2, <2>1 DEF CreateVendorBill, TypeOK, history
    <2>3. Exist' BY <1>2, <1>r, <2>1 DEF CreateVendorBill, TypeInv, Exist
    <2> QED BY <2>2, <2>3 DEF TypeInv
  <1>3. CASE \E r \in Requests : Acts(r) BY <1>3, TypeOKStep, ExistStep DEF TypeInv
  <1>4. CASE UNCHANGED vars BY <1>4 DEF vars, table, history, TypeInv, TypeOK, Exist
  <1> QED BY <1>1, <1>2, <1>3, <1>4, NextActs

(* Every reachable state of the tables and the requests is well typed; a   *)
(* request in progress names rows that exist.                              *)
THEOREM TypeCorrect == Spec => []TypeOK
  <1>1. TypeInv => TypeOK BY DEF TypeInv
  <1> QED BY <1>1, TypeInit, TypeNext, PTL DEF Spec

----------------------------------------------------------------------------
(* Where a request is before each of its steps.                            *)
LEMMA FromPc ==
    ASSUME TypeOK, NEW r \in Requests, Acts(r)
    PROVE  /\ req[r].pc = "idle" => Loads(r) \/ \E o \in Orders : StartReturn(r, o)
           /\ req[r].pc \in OrderPcs => GoesOn(r) \/ Saves(r) \/ Fail(r)
           /\ req[r].pc \in {"close", "commit"} => CompareClosed(r) \/ CommitReceipt(r) \/ Fail(r)
           /\ req[r].pc = "return" => ReturnStock(r) \/ Fail(r)
           /\ req[r].pc = "note" => SaveDebitNote(r) \/ Fail(r)
           /\ req[r].pc \in BillPcs => BookBill(r) \/ SavesBill(r) \/ Fail(r)
  <1> PICK pc : pc = req[r].pc OBVIOUS
  <1>0. Idle.pc = "idle" BY DEF Idle
  <1>1. CASE Loads(r)
    <2>1. pc = "idle" BY <1>0, <1>1, LoadsKeep
    <2> QED BY <1>1, <2>1 DEF OrderPcs, Saving, Receiving, BillPcs
  <1>2. CASE \E o \in Orders : StartReturn(r, o)
    <2>1. pc = "idle" BY <1>0, <1>2 DEF StartReturn
    <2> QED BY <1>2, <2>1 DEF OrderPcs, Saving, Receiving, BillPcs
  <1>3. CASE GoesOn(r)
    <2>1. /\ pc \in {"change", "receive", "line", "stock", "close"}
          /\ pc = "close" => CompareClosed(r)
          BY <1>3, MemoryStep DEF GoesOn
    <2> QED BY <1>3, <2>1 DEF OrderPcs, Saving, Receiving, BillPcs
  <1>4. CASE Saves(r)
    <2>1. pc \in {"write", "create", "commit"} /\ (pc = "commit" => CommitReceipt(r))
          BY <1>4 DEF Saves, WriteOrder, SaveCreated, CommitReceipt, Save
    <2> QED BY <1>4, <2>1 DEF OrderPcs, Saving, Receiving, BillPcs
  <1>5. CASE ReturnStock(r)
    <2>1. pc = "return" BY <1>5 DEF ReturnStock
    <2> QED BY <1>5, <2>1 DEF OrderPcs, Saving, Receiving, BillPcs
  <1>6. CASE SaveDebitNote(r)
    <2>1. pc = "note" BY <1>6 DEF SaveDebitNote
    <2> QED BY <1>6, <2>1 DEF OrderPcs, Saving, Receiving, BillPcs
  <1>7. CASE BookBill(r) \/ SavesBill(r)
    <2>1. pc \in BillPcs
          BY <1>7 DEF BookBill, SavesBill, SaveSubmitted, SavePaid, SaveCancelled, SaveBill, BillPcs
    <2> QED BY <1>7, <2>1 DEF OrderPcs, Saving, Receiving, BillPcs
  <1>8. CASE Fail(r)
    <2>1. req[r] # Idle BY <1>8 DEF Fail
    <2>2. pc # "idle"
      <3>1. req[r] \in Request BY DEF TypeOK
      <3> QED BY <2>1, <3>1 DEF Request, OrderRequest, Saving, Receiving, ReturnRequest, BillRequest
    <2> QED BY <1>8, <2>2
  <1> QED BY <1>1, <1>2, <1>3, <1>4, <1>5, <1>6, <1>7, <1>8 DEF Acts

----------------------------------------------------------------------------
(* What the stock of order o is ahead of its receipts by, as far as        *)
(* request q has moved it.                                                 *)
Ahead(q, o) == IF q.pc \in {"close", "commit"} /\ q.order = o THEN q.quantity ELSE 0
AheadOf(o) == [r \in Requests |-> Ahead(req[r], o)]

StockInv ==
    /\ \A o \in Orders \ broken : moved[o] = receipts[o] + Sum(AheadOf(o), Requests)
    /\ noted \subseteq returned
    /\ \A r \in Requests : req[r].pc = "note" => req[r].return \in returned
    /\ \A x \in returned \ noted : Noting(x) \/ x \in unnoted

LEMMA AheadType ==
    ASSUME TypeOK, NEW r \in Requests, NEW o \in Orders
    PROVE  Ahead(req[r], o) \in Nat
  <1>1. req[r].pc \in {"close", "commit"} => req[r].quantity \in Nat
        BY ReqByPc DEF OrderPcs, Receiving
  <1> QED BY <1>1 DEF Ahead

(* A receipt moves stock with the step after which it is ahead of its      *)
(* document by as much, and is level with it once it commits.              *)
LEMMA ReceiptsStep ==
    ASSUME TypeInv, StockInv, NEW r \in Requests, Acts(r)
    PROVE  \A o \in Orders \ broken' :
              moved'[o] = receipts'[o] + Sum(AheadOf(o)', Requests)
  <1>0. TypeOK BY DEF TypeInv
  <1>1. \A p \in Requests \ {r} : req'[p] = req[p] BY <1>0, RequestsStep
  <1>2. broken \subseteq broken'
    <2>1. CASE Fail(r) BY <2>1 DEF Fail
    <2> QED BY <1>0, <2>1, RestStep
  <1> SUFFICES ASSUME NEW o \in Orders \ broken'
               PROVE  moved'[o] = receipts'[o] + Sum(AheadOf(o)', Requests)
      OBVIOUS
  <1> DEFINE old == Ahead(req[r], o)
             new == Ahead(req'[r], o)
             sum == Sum(AheadOf(o), Requests)
  <1>3. /\ moved[o] = receipts[o] + sum
        /\ moved[o] \in Nat /\ receipts[o] \in Nat /\ sum \in Int
    <2>1. \A p \in Requests : AheadOf(o)[p] \in Int BY <1>0, AheadType DEF AheadOf
    <2>2. sum \in Int BY <2>1, SumInt, PurchasingAssumption
    <2> QED BY <1>0, <1>2, <2>2 DEF StockInv, TypeOK
  <1>4. old \in Nat /\ new \in Nat
    <2>1. req'[r].pc \in {"close", "commit"} => req'[r].quantity \in Nat
          BY <1>0, RequestsStep, MemoryStep DEF OrderRequest
    <2>2. new \in Nat BY <2>1 DEF Ahead
    <2> QED BY <1>0, <2>2, AheadType
  <1>5. Sum(AheadOf(o)', Requests) = sum + (new - old)
    <2> DEFINE f == AheadOf(o)
               h == AheadOf(o)'
    <2>1. /\ f[r] = old /\ h[r] = new
          /\ \A p \in Requests : f[p] \in Int
          /\ \A p \in Requests \ {r} : h[p] = f[p]
          BY <1>0, <1>1, AheadType DEF AheadOf
    <2> HIDE DEF f, h, old, new
    <2>2. h[r] \in Int BY <1>4, <2>1
    <2>3. Sum(h, Requests) = Sum(f, Requests) + (h[r] - f[r])
          BY <2>1, <2>2, SumChange, PurchasingAssumption
    <2> QED BY <2>1, <2>3 DEF f, h
  <1> SUFFICES moved'[o] - moved[o] = (receipts'[o] - receipts[o]) + (new - old)
               /\ moved'[o] \in Nat /\ receipts'[o] \in Nat
    <2> HIDE DEF old, new, sum
    <2> QED BY <1>3, <1>4, <1>5
  <1>6. moved'[o] \in Nat /\ receipts'[o] \in Nat BY TypeOKStep DEF TypeOK
  <1>7. CASE ReceiveStock(r)
    <2>1. /\ req[r].pc = "stock" /\ req'[r].pc = "close" /\ req[r].quantity \in Nat
          /\ req'[r].order = req[r].order /\ req'[r].quantity = req[r].quantity
          BY <1>0, <1>7, MemoryStep DEF GoesOn, OrderRequest
    <2>2. moved' = [moved EXCEPT ![req[r].order] = @ + req[r].quantity] /\ receipts' = receipts
          BY <1>7 DEF ReceiveStock
    <2>3. moved'[o] = moved[o] + IF req[r].order = o THEN req[r].quantity ELSE 0
          BY <1>0, <2>1, <2>2 DEF TypeOK
    <2>4. old = 0 /\ new = IF req[r].order = o THEN req[r].quantity ELSE 0
          BY <2>1 DEF Ahead
    <2> HIDE DEF old, new, sum
    <2> QED BY <1>3, <1>6, <2>1, <2>2, <2>3, <2>4
  <1>8. CASE CommitReceipt(r)
    <2>1. /\ req[r].pc = "commit"
          /\ receipts' = [receipts EXCEPT ![req[r].order] = @ + req[r].quantity]
          /\ moved' = moved
          BY <1>8 DEF CommitReceipt, Save
    <2>2. req[r].quantity \in Nat BY <1>0, <2>1, ReqByPc DEF OrderPcs, Receiving
    <2>3. req'[r].pc = "idle" BY <1>0, <1>8, RequestsStep DEF Ends, Saves, Idle
    <2>4. receipts'[o] = receipts[o] + IF req[r].order = o THEN req[r].quantity ELSE 0
          BY <1>0, <2>1, <2>2 DEF TypeOK
    <2>5. new = 0 /\ old = IF req[r].order = o THEN req[r].quantity ELSE 0
          BY <2>1, <2>3 DEF Ahead
    <2>6. moved'[o] = moved[o] BY <2>1
    <2> HIDE DEF old, new, sum
    <2>7. receipts'[o] = receipts[o] + old BY <2>4, <2>5
    <2> QED BY <1>3, <1>4, <1>6, <2>5, <2>6, <2>7
  <1>9. CASE ~ReceiveStock(r) /\ ~CommitReceipt(r)
    <2>1. moved' = moved /\ receipts' = receipts BY <1>0, <1>9, RestStep
    <2>2. new = old
      <3>1. CASE CompareClosed(r)
        <4>1. /\ req[r].pc = "close" /\ req'[r].pc = "commit"
              /\ req'[r].order = req[r].order /\ req'[r].quantity = req[r].quantity
              BY <1>0, <3>1, MemoryStep DEF GoesOn
        <4> QED BY <4>1 DEF Ahead
      <3>2. CASE Fail(r)
        <4>1. req'[r].pc = "idle" BY <1>0, <3>2, RequestsStep DEF Ends, Idle
        <4>2. req[r].pc \in {"close", "commit"} => req[r].order # o BY <3>2 DEF Fail
        <4> QED BY <4>1, <4>2 DEF Ahead
      <3>3. CASE ~CompareClosed(r) /\ ~Fail(r)
        <4>1. req[r].pc \notin {"close", "commit"} BY <1>0, <1>9, <3>3, FromPc
        <4>2. req'[r].pc \in {"close", "commit"} => GoesOn(r) BY <1>0, RequestsStep
        <4>3. GoesOn(r) => req'[r].pc \notin {"close", "commit"}
              BY <1>0, <1>9, <3>3, MemoryStep DEF GoesOn
        <4> QED BY <4>1, <4>2, <4>3 DEF Ahead
      <3> QED BY <3>1, <3>2, <3>3
    <2> HIDE DEF old, new, sum
    <2> QED BY <1>3, <1>4, <1>6, <2>1, <2>2
  <1> QED BY <1>7, <1>8, <1>9

LEMMA ReturnsStep ==
    ASSUME TypeInv, StockInv, NEW r \in Requests, Acts(r)
    PROVE  /\ noted' \subseteq returned'
           /\ \A p \in Requests : req'[p].pc = "note" => req'[p].return \in returned'
           /\ \A x \in returned' \ noted' : Noting(x)' \/ x \in unnoted'
  <1>0. TypeOK BY DEF TypeInv
  <1>1. \A p \in Requests \ {r} : req'[p] = req[p] BY <1>0, RequestsStep
  <1>2. \A x : Noting(x) => Noting(x)' \/ (req[r].pc = "note" /\ req[r].return = x)
        BY <1>1 DEF Noting
  <1>3. CASE ReturnStock(r)
    <2> PICK new : new = req[r].return OBVIOUS
    <2>1. /\ returned' = returned \cup {new} /\ noted' = noted /\ unnoted' = unnoted
          /\ req[r].pc = "return"
          BY <1>3 DEF ReturnStock, history
    <2>2. req'[r].pc = "note" /\ req'[r].return = new BY <1>0, <1>3, MemoryStep
    <2>3. Noting(new)' BY <2>2 DEF Noting
    <2>4. \A p \in Requests : req'[p].pc = "note" => req'[p].return \in returned'
          BY <1>1, <2>1, <2>2 DEF StockInv
    <2>5. \A x \in returned' \ noted' : Noting(x)' \/ x \in unnoted'
          BY <1>2, <2>1, <2>3 DEF StockInv
    <2> QED BY <2>1, <2>4, <2>5 DEF StockInv
  <1>4. CASE SaveDebitNote(r)
    <2>1. /\ noted' = noted \cup {req[r].return} /\ returned' = returned /\ unnoted' = unnoted
          /\ req[r].pc = "note"
          BY <1>4 DEF SaveDebitNote, history
    <2>2. req'[r].pc = "idle" BY <1>0, <1>4, RequestsStep DEF Ends, Idle
    <2>3. \A p \in Requests : req'[p].pc = "note" => req'[p].return \in returned'
          BY <1>1, <2>1, <2>2 DEF StockInv
    <2>4. \A x \in returned' \ noted' : Noting(x)' \/ x \in unnoted'
          BY <1>2, <2>1 DEF StockInv
    <2> QED BY <2>1, <2>3, <2>4 DEF StockInv
  <1>5. CASE ~ReturnStock(r) /\ ~SaveDebitNote(r)
    <2>1. returned' = returned /\ noted' = noted BY <1>0, <1>5, RestStep
    <2>2. req'[r].pc # "note" BY <1>0, <1>5, RequestsStep
    <2>3. unnoted \subseteq unnoted' /\ (req[r].pc = "note" => req[r].return \in unnoted')
      <3>1. CASE Fail(r) BY <3>1 DEF Fail
      <3>2. CASE ~Fail(r)
        <4>1. req[r].pc # "note" BY <1>0, <1>5, <3>2, FromPc
        <4> QED BY <1>0, <3>2, <4>1, RestStep
      <3> QED BY <3>1, <3>2
    <2>4. \A p \in Requests : req'[p].pc = "note" => req'[p] = req[p] BY <1>1, <2>2
    <2> QED BY <1>2, <2>1, <2>3, <2>4 DEF StockInv
  <1> QED BY <1>3, <1>4, <1>5

(* createGRN and createPurchaseReturn move stock in transactions of their  *)
(* own: receipts and debit notes part from it only by a failure, however   *)
(* many requests overlap.                                                  *)
THEOREM StockHasDocuments == Spec => []StockIsDocumented
  <1>1. Init => StockInv
    <2> SUFFICES ASSUME Init PROVE StockInv
        OBVIOUS
    <2>1. \A r \in Requests : req[r].pc = "idle" BY DEF Init, Idle
    <2>2. ASSUME NEW o \in Orders PROVE moved[o] = receipts[o] + Sum(AheadOf(o), Requests)
      <3>1. \A r \in Requests : AheadOf(o)[r] = 0 BY <2>1 DEF AheadOf, Ahead
      <3>2. Sum(AheadOf(o), Requests) = 0 BY <3>1, SumZero, PurchasingAssumption
      <3> QED BY <3>2 DEF Init
    <2> QED BY <2>1, <2>2 DEF Init, StockInv
  <1>2. TypeInv /\ StockInv /\ [Next]_vars => StockInv'
    <2> SUFFICES ASSUME TypeInv, StockInv, [Next]_vars PROVE StockInv'
        OBVIOUS
    <2>1. CASE \E o \in Orders, new \in NewOrders : CreatePO(o, new)
          BY <2>1 DEF CreatePO, StockInv, AheadOf, Noting
    <2>2. CASE \E b \in Bills : CreateVendorBill(b)
          BY <2>2 DEF CreateVendorBill, StockInv, AheadOf, Noting, history
    <2>3. CASE \E r \in Requests : Acts(r) BY <2>3, ReceiptsStep, ReturnsStep DEF StockInv
    <2>4. CASE UNCHANGED vars BY <2>4 DEF vars, table, history, StockInv, AheadOf, Noting
    <2> QED BY <2>1, <2>2, <2>3, <2>4, NextActs
  <1>3. TypeInv /\ StockInv => StockIsDocumented
    <2> SUFFICES ASSUME TypeInv, StockInv PROVE StockIsDocumented
        OBVIOUS
    <2>1. ASSUME NEW o \in Orders \ broken, ~Closing(o) PROVE receipts[o] = moved[o]
      <3>1. \A r \in Requests : AheadOf(o)[r] = 0 BY <2>1 DEF AheadOf, Ahead, Closing
      <3>2. Sum(AheadOf(o), Requests) = 0 BY <3>1, SumZero, PurchasingAssumption
      <3>3. moved[o] = receipts[o] + Sum(AheadOf(o), Requests) BY DEF StockInv
      <3>4. moved[o] \in Nat /\ receipts[o] \in Nat BY DEF TypeInv, TypeOK
      <3> QED BY <3>2, <3>3, <3>4
    <2> QED BY <2>1 DEF StockInv, StockIsDocumented
  <1> QED BY <1>1, <1>2, <1>3, TypeInit, TypeNext, PTL DEF Spec

----------------------------------------------------------------------------
\* Request r has the row of order o, of bill b, in memory.
HasOrder(r, o) == req[r].pc \in OrderPcs /\ req[r].order = o
HasBill(r, b) == req[r].pc \in BillPcs /\ req[r].bill = b

(* Two requests with the same row in memory have raced for it.             *)
RaceIsSeen ==
    \A r, p \in Requests :
        r # p =>
        /\ \A o \in Orders : HasOrder(r, o) /\ HasOrder(p, o) => o \in raced
        /\ \A b \in Bills : HasBill(r, b) /\ HasBill(p, b) => b \in raced

LEMMA HoldsRow ==
    ASSUME NEW r \in Requests
    PROVE  /\ \A o \in Orders : HasOrder(r, o) => o \in Holds(r)
           /\ \A b \in Bills : HasBill(r, b) => b \in Holds(r)
  <1> PICK pc : pc = req[r].pc OBVIOUS
  <1>1. CASE pc \in OrderPcs BY <1>1 DEF Holds, HasOrder, HasBill, OrderPcs, Saving, Receiving, BillPcs
  <1>2. CASE pc \in BillPcs BY <1>2 DEF Holds, HasOrder, HasBill, OrderPcs, Saving, Receiving, BillPcs
  <1> QED BY <1>1, <1>2 DEF HasOrder, HasBill

(* A request that loads a row another has in memory makes it a raced one.  *)
LEMMA LoadStep ==
    ASSUME TypeOK, NEW r \in Requests
    PROVE  /\ \A o \in Orders : LoadsOrder(r, o) =>
                 /\ req'[r].order = o
                 /\ \A p \in Requests \ {r} : HasOrder(p, o) => o \in raced'
           /\ \A b \in Bills : LoadsBill(r, b) =>
                 /\ req'[r].bill = b /\ req'[r].row = bills[b] /\ bills[b] \in BillRow
                 /\ \/ req'[r].pc = "book" /\ bills[b].status = "DRAFT"
                    \/ req'[r].pc = "pay" /\ bills[b].status = "PENDING_PAYMENT"
                    \/ req'[r].pc = "cancel" /\ bills[b].status # "PAID"
                 /\ \A p \in Requests \ {r} : HasBill(p, b) => b \in raced'
                 /\ UNCHANGED <<table, halted, withdrawn>>
  <1>1. ASSUME NEW new \in Request, NEW k \in Orders \cup Bills, Begin(r, new, k)
        PROVE  /\ req'[r] = new
               /\ k \in Orders => \A p \in Requests \ {r} : HasOrder(p, k) => k \in raced'
               /\ k \in Bills => \A p \in Requests \ {r} : HasBill(p, k) => k \in raced'
               /\ UNCHANGED <<table, halted, withdrawn>>
        BY <1>1, BeginStep, HoldsRow
  <1>2. ASSUME NEW o \in Orders, LoadsOrder(r, o)
        PROVE  /\ req'[r].order = o
               /\ \A p \in Requests \ {r} : HasOrder(p, o) => o \in raced'
    <2>1. PICK new \in Request : Begin(r, new, o) /\ new.order = o BY <1>2, LoadBegins
    <2> QED BY <1>1, <2>1
  <1>3. ASSUME NEW b \in Bills, LoadsBill(r, b)
        PROVE  /\ req'[r].bill = b /\ req'[r].row = bills[b] /\ bills[b] \in BillRow
               /\ \/ req'[r].pc = "book" /\ bills[b].status = "DRAFT"
                  \/ req'[r].pc = "pay" /\ bills[b].status = "PENDING_PAYMENT"
                  \/ req'[r].pc = "cancel" /\ bills[b].status # "PAID"
               /\ \A p \in Requests \ {r} : HasBill(p, b) => b \in raced'
               /\ UNCHANGED <<table, halted, withdrawn>>
    <2>1. PICK new \in Request :
             /\ Begin(r, new, b)
             /\ new.bill = b /\ new.row = bills[b] /\ bills[b] \in BillRow
             /\ \/ new.pc = "book" /\ bills[b].status = "DRAFT"
                \/ new.pc = "pay" /\ bills[b].status = "PENDING_PAYMENT"
                \/ new.pc = "cancel" /\ bills[b].status # "PAID"
          BY <1>3, LoadBegins
    <2> QED BY <1>1, <2>1
  <1> QED BY <1>2, <1>3

(* Who has a row after a step had it before, or has just loaded it.        *)
LEMMA HasStep ==
    ASSUME TypeOK, NEW r \in Requests, Acts(r)
    PROVE  /\ \A p \in Requests \ {r} : req'[p] = req[p]
           /\ \A o \in Orders : HasOrder(r, o)' => LoadsOrder(r, o) \/ (GoesOn(r) /\ HasOrder(r, o))
           /\ \A b \in Bills : HasBill(r, b)' => LoadsBill(r, b) \/ (BookBill(r) /\ HasBill(r, b))
  <1>1. \A p \in Requests \ {r} : req'[p] = req[p] BY RequestsStep
  <1>2. GoesOn(r) => req[r].pc \in OrderPcs /\ req'[r].order = req[r].order
        BY MemoryStep DEF OrderRequest, OrderPcs
  <1>3. BookBill(r) => req[r].pc \in BillPcs /\ req'[r].bill = req[r].bill
        BY MemoryStep DEF BookBill, BillPcs
  <1>4. ASSUME NEW o \in Orders, HasOrder(r, o)'
        PROVE  LoadsOrder(r, o) \/ (GoesOn(r) /\ HasOrder(r, o))
    <2>0. req'[r].pc \in OrderPcs /\ req'[r].order = o BY <1>4 DEF HasOrder
    <2>1. CASE GoesOn(r) BY <1>2, <2>0, <2>1 DEF HasOrder
    <2>2. CASE \E x \in Orders : LoadsOrder(r, x) BY <2>0, <2>2, LoadStep
    <2> QED BY <2>0, <2>1, <2>2, RequestsStep
  <1>5. ASSUME NEW b \in Bills, HasBill(r, b)'
        PROVE  LoadsBill(r, b) \/ (BookBill(r) /\ HasBill(r, b))
    <2>0. req'[r].pc \in BillPcs /\ req'[r].bill = b BY <1>5 DEF HasBill
    <2>1. CASE req'[r].pc \in {"book", "pay", "cancel"}
      <3>1. PICK x \in Bills : LoadsBill(r, x) BY <2>1, RequestsStep
      <3> QED BY <2>0, <3>1, LoadStep
    <2>2. CASE req'[r].pc = "submit"
      <3>1. BookBill(r) BY <2>2, RequestsStep
      <3> QED BY <1>3, <2>0, <3>1 DEF HasBill
    <2> QED BY <2>0, <2>1, <2>2 DEF BillPcs
  <1> QED BY <1>1, <1>4, <1>5

LEMMA RaceStep ==
    ASSUME TypeOK, RaceIsSeen, NEW r \in Requests, Acts(r)
    PROVE  RaceIsSeen'
  <1>1. ASSUME NEW p \in Requests \ {r}, NEW o \in Orders, HasOrder(r, o)', HasOrder(p, o)'
        PROVE  o \in raced'
    <2>1. HasOrder(p, o) BY <1>1, HasStep DEF HasOrder
    <2>2. CASE LoadsOrder(r, o) BY <2>1, <2>2, LoadStep
    <2>3. CASE HasOrder(r, o) BY <2>1, <2>3, RestStep DEF RaceIsSeen
    <2> QED BY <1>1, <2>2, <2>3, HasStep
  <1>2. ASSUME NEW p \in Requests \ {r}, NEW b \in Bills, HasBill(r, b)', HasBill(p, b)'
        PROVE  b \in raced'
    <2>1. HasBill(p, b) BY <1>2, HasStep DEF HasBill
    <2>2. CASE LoadsBill(r, b) BY <2>1, <2>2, LoadStep
    <2>3. CASE HasBill(r, b) BY <2>1, <2>3, RestStep DEF RaceIsSeen
    <2> QED BY <1>2, <2>2, <2>3, HasStep
  <1>3. ASSUME NEW p \in Requests \ {r}, NEW t \in Requests \ {r}, p # t
        PROVE  /\ \A o \in Orders : HasOrder(p, o)' /\ HasOrder(t, o)' => o \in raced'
               /\ \A b \in Bills : HasBill(p, b)' /\ HasBill(t, b)' => b \in raced'
    <2>1. /\ \A o \in Orders : HasOrder(p, o)' /\ HasOrder(t, o)'
                  => HasOrder(p, o) /\ HasOrder(t, o)
          /\ \A b \in Bills : HasBill(p, b)' /\ HasBill(t, b)' => HasBill(p, b) /\ HasBill(t, b)
          BY HasStep DEF HasOrder, HasBill
    <2> QED BY <1>3, <2>1, RestStep DEF RaceIsSeen
  <1> SUFFICES ASSUME NEW p \in Requests, NEW t \in Requests, p # t
               PROVE  /\ \A o \in Orders : HasOrder(p, o)' /\ HasOrder(t, o)' => o \in raced'
                      /\ \A b \in Bills : HasBill(p, b)' /\ HasBill(t, b)' => b \in raced'
      BY DEF RaceIsSeen
  <1>4. CASE p = r BY <1>1, <1>2, <1>4
  <1>5. CASE t = r BY <1>1, <1>2, <1>5
  <1> QED BY <1>3, <1>4, <1>5

----------------------------------------------------------------------------
(* Finance has one bill of a number, so one request at most is between     *)
(* finance's bill and the save of a vendor bill, and while it is the bill  *)
(* can neither be submitted nor paid by another.                           *)
Submission ==
    /\ \A r, p \in Requests :
          req[r].pc = "submit" /\ req[p].pc = "submit" /\ req[r].bill = req[p].bill => r = p
    /\ \A r \in Requests : req[r].pc = "submit" =>
          /\ req[r].bill \in booked \ halted
          /\ bills[req[r].bill].status \notin {"PENDING_PAYMENT", "PAID"}
          /\ \A p \in Requests : req[p].pc = "pay" => req[p].bill # req[r].bill
    /\ \A r \in Requests : req[r].pc = "pay" => req[r].bill \in booked \ halted
    /\ halted \subseteq booked
    /\ \A b \in Bills :
          /\ b \in booked => bills[b] # NoRow
          /\ bills[b].status \in {"PENDING_PAYMENT", "PAID"} => b \in booked \ halted

(* Of a bill no two requests held, the row in memory is the row; when      *)
(* finance has its bill, it is a draft only during its submission.         *)
Cancellation ==
    /\ \A r \in Requests :
          /\ req[r].pc \in {"book", "submit"} => req[r].row.status = "DRAFT"
          /\ req[r].pc = "cancel" => req[r].row.status # "PAID"
    /\ \A b \in Bills \ raced :
          /\ \A r \in Requests : HasBill(r, b) => req[r].row.status = bills[b].status
          /\ bills[b].status = "DRAFT" /\ b \in booked =>
                b \in halted \/ \E r \in Requests : req[r].pc = "submit" /\ req[r].bill = b
          /\ bills[b].status = "CANCELLED" /\ b \in booked => b \in withdrawn \cup halted

BillInv == TypeInv /\ RaceIsSeen /\ Submission /\ Cancellation

LEMMA SubmissionStep ==
    ASSUME TypeInv, Submission, NEW r \in Requests, Acts(r)
    PROVE  Submission'
  <1>0. TypeOK BY DEF TypeInv
  <1>1. \A p \in Requests \ {r} : req'[p] = req[p] BY <1>0, HasStep
  <1>2. booked \subseteq booked' /\ booked' \subseteq Bills
    <2>1. CASE BookBill(r) BY <2>1, TypeOKStep DEF BookBill, TypeOK
    <2> QED BY <1>0, <2>1, RestStep DEF TypeOK
  \* After the step r is at a submission only with the bill it has just booked.
  <1>3. req'[r].pc = "submit" =>
           /\ BookBill(r) /\ req'[r].bill = req[r].bill /\ req[r].bill \in Bills \ booked
           /\ booked' = booked \cup {req[r].bill} /\ halted' = halted /\ bills' = bills
    <2>1. req'[r].pc = "submit" => BookBill(r) BY <1>0, RequestsStep
    <2>2. BookBill(r) => req[r].bill \in Bills /\ req'[r].bill = req[r].bill
          BY <1>0, MemoryStep DEF BillRequest
    <2> QED BY <2>1, <2>2 DEF BookBill, NumberFree, history
  <1>4. req'[r].pc = "pay" =>
           /\ req'[r].bill \in Bills /\ bills[req'[r].bill].status = "PENDING_PAYMENT"
           /\ bills' = bills /\ halted' = halted /\ booked' = booked
    <2>1. ASSUME req'[r].pc = "pay" PROVE \E b \in Bills : LoadsBill(r, b)
          BY <1>0, <2>1, RequestsStep
    <2> QED BY <1>0, <2>1, LoadStep DEF table
  <1>5. \A p \in Requests : req[p].pc \in {"submit", "pay"} => req[p].bill \in Bills
        BY <1>0, ReqByPc DEF BillPcs, BillRequest
  <1>6. \A b \in halted' \ halted :
           Fail(r) /\ req[r].pc = "submit" /\ req[r].bill = b /\ bills' = bills /\ booked' = booked
    <2>1. CASE Fail(r) BY <2>1 DEF Fail, table
    <2> QED BY <1>0, <2>1, RestStep
  <1>7. Fail(r) => req'[r].pc = "idle" BY <1>0, RequestsStep DEF Ends, SavesBill, Idle
  <1>8. ASSUME NEW t \in Requests, NEW p \in Requests, req'[t].pc = "submit", req'[p].pc = "submit",
               req'[t].bill = req'[p].bill
        PROVE  t = p
    <2>1. CASE t # r /\ p # r BY <1>1, <1>8, <2>1 DEF Submission
    <2>2. CASE t = r /\ p # r BY <1>1, <1>3, <1>8, <2>2 DEF Submission
    <2>3. CASE t # r /\ p = r BY <1>1, <1>3, <1>8, <2>3 DEF Submission
    <2> QED BY <2>1, <2>2, <2>3
  <1>9. ASSUME NEW b \in Bills, bills'[b].status \in {"PENDING_PAYMENT", "PAID"}
        PROVE  /\ b \in booked' \ halted'
               /\ \A p \in Requests : req'[p].pc = "submit" => req'[p].bill # b
    <2>1. CASE bills'[b] = bills[b]
      <3>1. b \in booked \ halted BY <1>9, <2>1 DEF Submission
      <3>2. b \notin halted' BY <1>6, <1>9, <2>1, <3>1 DEF Submission
      <3>3. ASSUME NEW p \in Requests, req'[p].pc = "submit" PROVE req'[p].bill # b
            BY <1>1, <1>3, <1>9, <2>1, <3>1, <3>3 DEF Submission
      <3> QED BY <1>2, <3>1, <3>2, <3>3
    <2>2. CASE req[r].bill = b /\ (SaveSubmitted(r) \/ SavePaid(r))
      <3>1. req[r].pc \in {"submit", "pay"} /\ req'[r] = Idle /\ halted' = halted
        <4>1. req[r].pc \in {"submit", "pay"} /\ halted' = halted
              BY <2>2 DEF SaveSubmitted, SavePaid, SaveBill
        <4> QED BY <1>0, <2>2, <4>1, RequestsStep DEF Ends, SavesBill
      <3>2. b \in booked' \ halted' BY <1>2, <2>2, <3>1 DEF Submission
      <3>3. ASSUME NEW p \in Requests, req'[p].pc = "submit" PROVE req'[p].bill # b
        <4>1. p # r BY <3>1, <3>3 DEF Idle
        <4> QED BY <1>1, <2>2, <3>1, <3>3, <4>1 DEF Submission
      <3> QED BY <3>2, <3>3
    <2>3. SaveCancelled(r)
        => ~(bills'[b].status \in {"PENDING_PAYMENT", "PAID"}) \/ bills'[b] = bills[b]
          BY <1>9, BillStep DEF SaveCancelled, SaveSubmitted, SavePaid, SaveBill
    <2> QED BY <1>9, <2>1, <2>2, <2>3, BillStep
  <1>10. ASSUME NEW p \in Requests, req'[p].pc = "pay"
         PROVE  /\ req'[p].bill \in booked' \ halted'
                /\ \A t \in Requests : req'[t].pc = "submit" => req'[t].bill # req'[p].bill
    <2> PICK b : b = req'[p].bill OBVIOUS
    <2>1. CASE p = r
      <3>1. bills'[b].status = "PENDING_PAYMENT" /\ b \in Bills BY <1>4, <1>10, <2>1
      <3> QED BY <1>9, <3>1
    <2>2. CASE p # r
      <3>1. req[p].pc = "pay" /\ req[p].bill = b /\ b \in Bills BY <1>1, <1>5, <1>10, <2>2
      <3>2. b \in booked \ halted BY <3>1 DEF Submission
      <3>3. b \notin halted' BY <1>6, <3>1, <3>2 DEF Submission
      <3>4. ASSUME NEW t \in Requests, req'[t].pc = "submit" PROVE req'[t].bill # b
            BY <1>1, <1>3, <3>1, <3>2, <3>4 DEF Submission
      <3> QED BY <1>2, <3>2, <3>3, <3>4
    <2> QED BY <2>1, <2>2
  <1>11. ASSUME NEW p \in Requests, req'[p].pc = "submit"
         PROVE  req'[p].bill \in booked' \ halted' /\ req'[p].bill \in Bills
    <2>1. CASE p = r BY <1>3, <1>11, <2>1 DEF Submission
    <2>2. CASE p # r
      <3>1. req'[p] = req[p] /\ req[p].bill \in booked \ halted /\ req[p].bill \in Bills
            BY <1>1, <1>5, <1>11, <2>2 DEF Submission
      <3>2. req[p].bill \notin halted' BY <1>6, <1>11, <2>2, <3>1 DEF Submission
      <3> QED BY <1>2, <3>1, <3>2
    <2> QED BY <2>1, <2>2
  <1>12. halted' \subseteq booked' BY <1>2, <1>6 DEF Submission
  <1>13. ASSUME NEW b \in booked' PROVE bills'[b] # NoRow
    <2>1. CASE b \in booked BY <1>2, <2>1, RowsStay DEF Submission
    <2>2. CASE BookBill(r) /\ b = req[r].bill
      <3>1. bills[b] # NoRow BY <2>2 DEF BookBill, TypeInv, Exist, BillPcs
      <3> QED BY <2>2, <3>1 DEF BookBill
    <2>3. BookBill(r) => booked' = booked \cup {req[r].bill} BY DEF BookBill
    <2> QED BY <1>0, <2>1, <2>2, <2>3, RestStep
  <1> QED BY <1>8, <1>9, <1>10, <1>11, <1>12, <1>13 DEF Submission

LEMMA CancellationStep ==
    ASSUME TypeInv, RaceIsSeen, Submission, Cancellation, NEW r \in Requests, Acts(r)
    PROVE  Cancellation'
  <1>0. TypeOK BY DEF TypeInv
  <1>1. \A p \in Requests \ {r} : req'[p] = req[p] BY <1>0, HasStep
  <1>2. ASSUME req'[r].pc \in BillPcs
        PROVE  \/ \E b \in Bills : LoadsBill(r, b)
               \/ /\ BookBill(r) /\ req[r].pc = "book" /\ req'[r].pc = "submit"
                  /\ req'[r].bill = req[r].bill /\ req'[r].row = req[r].row
    <2>1. CASE req'[r].pc = "submit"
          BY <1>0, <2>1, RequestsStep, MemoryStep DEF BookBill
    <2>2. CASE req'[r].pc \in {"book", "pay", "cancel"}
          BY <1>0, <2>2, RequestsStep
    <2> QED BY <1>2, <2>1, <2>2 DEF BillPcs
  <1>3. ASSUME NEW p \in Requests
        PROVE  /\ req'[p].pc \in {"book", "submit"} => req'[p].row.status = "DRAFT"
               /\ req'[p].pc = "cancel" => req'[p].row.status # "PAID"
    <2>1. CASE p # r BY <1>1, <2>1 DEF Cancellation
    <2>2. CASE p = r /\ \E b \in Bills : LoadsBill(r, b) BY <1>0, <2>2, LoadStep
    <2>3. CASE p = r /\ BookBill(r) /\ req[r].pc = "book" /\ req'[r].pc = "submit"
                 /\ req'[r].row = req[r].row
          BY <2>3 DEF Cancellation
    <2> QED BY <1>2, <2>1, <2>2, <2>3 DEF BillPcs
  <1> SUFFICES ASSUME NEW b \in Bills, b \notin raced'
               PROVE  /\ \A p \in Requests : HasBill(p, b)' => req'[p].row.status = bills'[b].status
                      /\ bills'[b].status = "DRAFT" /\ b \in booked' =>
                            b \in halted'
                               \/ \E p \in Requests : req'[p].pc = "submit" /\ req'[p].bill = b
                      /\ bills'[b].status = "CANCELLED" /\ b \in booked' =>
                            b \in withdrawn' \cup halted'
      BY <1>3 DEF Cancellation
  <1>4. b \notin raced BY <1>0, RestStep
  <1>5. /\ \A p \in Requests : HasBill(p, b) => req[p].row.status = bills[b].status
        /\ bills[b].status = "DRAFT" /\ b \in booked =>
              b \in halted \/ \E p \in Requests : req[p].pc = "submit" /\ req[p].bill = b
        /\ bills[b].status = "CANCELLED" /\ b \in booked => b \in withdrawn \cup halted
        BY <1>4 DEF Cancellation
  <1>6. \A p, t \in Requests : HasBill(p, b) /\ HasBill(t, b) => p = t BY <1>4 DEF RaceIsSeen
  <1>7. halted \subseteq halted' /\ withdrawn \subseteq withdrawn'
    <2>1. CASE Fail(r) BY <2>1 DEF Fail
    <2>2. CASE SaveCancelled(r) BY <2>2 DEF SaveCancelled, SaveBill
    <2> QED BY <1>0, <2>1, <2>2, RestStep
  <1>8. CASE ~HasBill(r, b)
    <2>1. bills'[b] = bills[b]
      <3>1. ~(req[r].pc \in {"submit", "pay", "cancel"} /\ req[r].bill = b)
            BY <1>8 DEF HasBill, BillPcs
      <3> QED BY <3>1, BillStep
    <2>2. b \in booked' => b \in booked
      <3>1. CASE BookBill(r)
            BY <1>8, <3>1 DEF BookBill, HasBill, BillPcs
      <3> QED BY <1>0, <3>1, RestStep
    <2>3. \A p \in Requests : HasBill(p, b)' => req'[p].row.status = bills'[b].status
      <3>1. HasBill(r, b)' => LoadsBill(r, b) BY <1>0, <1>8, HasStep
      <3>2. LoadsBill(r, b) => req'[r].row = bills[b] BY <1>0, LoadStep
      <3>3. \A p \in Requests \ {r} : HasBill(p, b)' => HasBill(p, b) BY <1>1 DEF HasBill
      <3> QED BY <1>1, <1>5, <2>1, <3>1, <3>2, <3>3
    <2>4. \A p \in Requests : req[p].pc = "submit" /\ req[p].bill = b =>
             req'[p].pc = "submit" /\ req'[p].bill = b
          BY <1>1, <1>8 DEF HasBill, BillPcs
    <2> QED BY <1>5, <1>7, <2>1, <2>2, <2>3, <2>4
  <1>9. CASE HasBill(r, b)
    <2>1. /\ req[r].pc \in BillPcs /\ req[r].bill = b /\ req[r].row.status = bills[b].status
          /\ \A p \in Requests \ {r} : ~HasBill(p, b) /\ ~HasBill(p, b)'
      <3>1. \A p \in Requests \ {r} : ~HasBill(p, b) BY <1>6, <1>9
      <3>2. \A p \in Requests \ {r} : HasBill(p, b)' => HasBill(p, b) BY <1>1 DEF HasBill
      <3> QED BY <1>5, <1>9, <3>1, <3>2 DEF HasBill
    <2>2. \A p \in Requests : req[p].pc = "submit" /\ req[p].bill = b => p = r
          BY <1>6, <1>9 DEF HasBill, BillPcs
    <2>3. CASE BookBill(r)
      <3>1. /\ req'[r].pc = "submit" /\ req'[r].bill = b /\ req'[r].row = req[r].row
            BY <1>0, <2>1, <2>3, MemoryStep
      <3>2. bills' = bills BY <2>3 DEF BookBill
      <3>3. bills[b].status = "DRAFT" BY <2>1, <2>3 DEF BookBill, Cancellation
      <3> QED BY <2>1, <3>1, <3>2, <3>3
    <2>4. CASE SaveSubmitted(r) \/ SavePaid(r)
      <3>1. req'[r].pc = "idle" BY <1>0, <2>4, RequestsStep DEF Ends, SavesBill, Idle
      <3>2. ~HasBill(r, b)' BY <3>1 DEF HasBill, BillPcs
      <3>3. PICK s \in {"PENDING_PAYMENT", "PAID"} : bills' = [bills EXCEPT ![b].status = s]
            BY <2>1, <2>4 DEF SaveSubmitted, SavePaid, SaveBill
      <3>4. bills[b] \in BillRow
        <4>1. bills[b] # NoRow BY <2>1 DEF TypeInv, Exist
        <4> QED BY <1>0, <4>1 DEF TypeOK
      <3>5. bills'[b].status = s BY <1>0, <3>3, <3>4 DEF TypeOK, BillRow
      <3> QED BY <2>1, <3>2, <3>5
    <2>5. CASE SaveCancelled(r)
      <3>1. req'[r].pc = "idle" BY <1>0, <2>5, RequestsStep DEF Ends, SavesBill, Idle
      <3>2. ~HasBill(r, b)' BY <3>1 DEF HasBill, BillPcs
      <3>3. /\ bills' = [bills EXCEPT ![b].status = "CANCELLED"] /\ booked' = booked
            /\ req[r].pc = "cancel"
            /\ req[r].row.status = "PENDING_PAYMENT" => b \in withdrawn'
            BY <2>1, <2>5 DEF SaveCancelled, SaveBill
      <3>4. bills[b] \in BillRow
        <4>1. bills[b] # NoRow BY <2>1 DEF TypeInv, Exist
        <4> QED BY <1>0, <4>1 DEF TypeOK
      <3>5. bills'[b].status = "CANCELLED" BY <1>0, <3>3, <3>4 DEF TypeOK, BillRow
      <3>6. bills[b].status \in {"DRAFT", "PENDING_PAYMENT", "CANCELLED"}
            BY <2>1, <3>3, <3>4, RowTypes DEF Cancellation, VendorBillStatus
      <3>7. bills[b].status = "DRAFT" /\ b \in booked => b \in halted
        <4>1. ~\E p \in Requests : req[p].pc = "submit" /\ req[p].bill = b BY <2>2, <3>3
        <4> QED BY <1>5, <4>1
      <3> QED BY <1>5, <1>7, <2>1, <3>2, <3>3, <3>5, <3>6, <3>7
    <2>6. CASE Fail(r)
      <3>1. req'[r].pc = "idle" BY <1>0, <2>6, RequestsStep DEF Ends, SavesBill, Idle
      <3>2. ~HasBill(r, b)' BY <3>1 DEF HasBill, BillPcs
      <3>3. bills' = bills /\ booked' = booked /\ (req[r].pc = "submit" => b \in halted')
            BY <2>1, <2>6 DEF Fail, table
      <3> QED BY <1>5, <1>7, <2>1, <2>2, <3>2, <3>3
    <2>7. BookBill(r) \/ SaveSubmitted(r) \/ SavePaid(r) \/ SaveCancelled(r) \/ Fail(r)
          BY <1>0, <2>1, FromPc DEF SavesBill
    <2> QED BY <2>3, <2>4, <2>5, <2>6, <2>7
  <1> QED BY <1>8, <1>9

LEMMA AlwaysBilled == Spec => []BillInv
  <1>1. Init => BillInv
    <2> SUFFICES ASSUME Init PROVE BillInv
        OBVIOUS
    <2>1. \A r \in Requests : req[r].pc = "idle" BY DEF Init, Idle
    <2>2. \A b \in Bills : bills[b].status = "NONE" BY DEF Init, NoRow
    <2>3. RaceIsSeen
          BY <2>1 DEF RaceIsSeen, HasOrder, HasBill, OrderPcs, Saving, Receiving, BillPcs
    <2>4. Submission BY <2>1, <2>2 DEF Init, Submission
    <2>5. Cancellation BY <2>1, <2>2 DEF Init, Cancellation, HasBill, BillPcs
    <2> QED BY <2>3, <2>4, <2>5, TypeInit DEF BillInv
  <1>2. BillInv /\ [Next]_vars => BillInv'
    <2> SUFFICES ASSUME BillInv, [Next]_vars PROVE BillInv'
        OBVIOUS
    <2>0. TypeInv' /\ TypeOK BY TypeNext DEF BillInv, TypeInv
    <2>1. CASE \E o \in Orders, new \in NewOrders : CreatePO(o, new)
          BY <2>0, <2>1 DEF CreatePO, BillInv, RaceIsSeen, Submission, Cancellation, HasOrder, HasBill
    <2>2. ASSUME NEW b \in Bills, CreateVendorBill(b) PROVE BillInv'
      <3>1. \A x \in Bills : IF x = b THEN bills[x] = NoRow /\ bills'[x].status = "DRAFT"
                                           /\ bills'[x] \in BillRow
                             ELSE bills'[x] = bills[x]
            BY <2>0, <2>2, CreateStep
      <3>2. b \notin booked /\ \A r \in Requests : ~HasBill(r, b)
            BY <2>2 DEF CreateVendorBill, BillInv, Submission, TypeInv, Exist, HasBill
      <3>3. /\ UNCHANGED <<booked, req, raced, halted, withdrawn>>
            /\ \A r \in Requests : req[r].pc \in BillPcs => req[r].bill \in Bills \ {b}
            BY <2>0, <2>2, <3>2, ReqByPc DEF CreateVendorBill, history, BillRequest, HasBill
      <3>4. RaceIsSeen' BY <3>3 DEF BillInv, RaceIsSeen, HasOrder, HasBill
      <3>5. Submission' BY <3>1, <3>2, <3>3 DEF BillInv, Submission, BillPcs, NoRow, BillRow
      <3>6. Cancellation'
        <4>1. \A x \in Bills \ raced : x # b => bills'[x] = bills[x] BY <3>1
        <4>2. \A r \in Requests, x \in Bills : HasBill(r, x)' <=> HasBill(r, x)
              BY <3>3 DEF HasBill
        <4> QED BY <3>1, <3>2, <3>3, <4>1, <4>2 DEF BillInv, Cancellation
      <3> QED BY <2>0, <3>4, <3>5, <3>6 DEF BillInv
    <2>3. CASE \E r \in Requests : Acts(r)
          BY <2>0, <2>3, RaceStep, SubmissionStep, CancellationStep DEF BillInv
    <2>4. CASE UNCHANGED vars
          BY <2>0, <2>4 DEF vars, table, history, BillInv, RaceIsSeen, Submission, Cancellation,
                            HasOrder, HasBill
    <2> QED BY <2>1, <2>2, <2>3, <2>4, NextActs
  <1> QED BY <1>1, <1>2, PTL DEF Spec

(* submitVendorBill creates finance's bill before it saves its own, and a  *)
(* number has one bill: a vendor bill is submitted and paid only with its  *)
(* bill in finance, never after a submission that stopped half way, and a  *)
(* cancelled one leaves a bill in finance only as the property says.       *)
THEOREM SubmittedHasBill == Spec => []SubmittedIsBooked
  <1>1. BillInv => SubmittedIsBooked
    <2> SUFFICES ASSUME BillInv PROVE SubmittedIsBooked
        OBVIOUS
    <2>1. \A b \in Bills : bills[b].status \in {"PENDING_PAYMENT", "PAID"} => b \in booked \ halted
          BY DEF BillInv, Submission
    <2>2. \A b \in Bills : bills[b].status = "CANCELLED" /\ b \in booked =>
             b \in withdrawn \cup raced \cup halted
          BY DEF BillInv, Cancellation
    <2> QED BY <2>1, <2>2 DEF SubmittedIsBooked
  <1> QED BY <1>1, AlwaysBilled, PTL

----------------------------------------------------------------------------
(* What request q has in memory of an order with the given row, whose line *)
(* should say n: the row of an order it changes is sound and says as much, *)
(* the row of a receipt that and its own quantity; what a save has not     *)
(* found to differ is the same when it writes.                             *)
Fits(q, row, n) ==
    /\ q.pc \in {"change", "write"} => q.row.received = n /\ Sound(q.row)
    /\ q.pc \in Receiving => q.row.received = n + Gain(q)
    /\ q.pc \in {"close", "commit", "create"} => Sound(q.row)
    /\ q.pc \in {"write", "create", "commit"} => Agrees(q, row)

(* Of an order no two requests held, the row says what is due, and so does *)
(* what a request has in memory.                                           *)
OrderInv ==
    \A o \in Orders \ raced :
        /\ orders[o] # NoRow => orders[o].received = due[o] /\ Sound(orders[o])
        /\ \A r \in Requests : HasOrder(r, o) => Fits(req[r], orders[o], due[o])

(* A request loads what fits the order.                                    *)
LEMMA LoadFits ==
    ASSUME TypeOK, NEW r \in Requests, NEW o \in Orders, LoadsOrder(r, o),
           orders[o].received = due[o], Sound(orders[o])
    PROVE  Fits(req'[r], orders[o], due[o])
  <1> PICK old : old = orders[o] OBVIOUS
  <1>0. \A new \in OrderRequest : Begin(r, new, o) => req'[r] = new BY BeginStep DEF Request
  <1>1. CASE LoadsChange(r, o)
    <2>1. PICK new \in OrderRequest :
             /\ Begin(r, new, o) /\ new.pc = "change"
             /\ new.row.received = old.received
             /\ Sound(old) => Sound(new.row)
          BY <1>1, LoadChange
    <2>2. Fits(new, old, due[o]) BY <2>1 DEF Fits, Receiving
    <2> QED BY <1>0, <2>1, <2>2
  <1>2. CASE LoadsReceipt(r, o)
    <2>1. PICK new \in OrderRequest :
             /\ Begin(r, new, o) /\ new.pc \in {"receive", "stock"}
             /\ new.row.received = old.received + Gain(new)
          BY <1>2, LoadReceive
    <2>2. Fits(new, old, due[o]) BY <2>1 DEF Fits, Receiving
    <2> QED BY <1>0, <2>1, <2>2
  <1>3. CASE FindsToCreate(r, o)
    <2>1. PICK new \in OrderRequest :
             /\ Begin(r, new, o) /\ new.pc = "create"
             /\ Sound(new.row) /\ Agrees(new, old)
          BY <1>3, LoadCreate
    <2>2. Fits(new, old, due[o]) BY <2>1 DEF Fits, Receiving
    <2> QED BY <1>0, <2>1, <2>2
  <1> QED BY <1>1, <1>2, <1>3 DEF LoadsOrder

(* A step in memory keeps what fits.                                       *)
LEMMA GoesOnFits ==
    ASSUME TypeOK, NEW r \in Requests, GoesOn(r), NEW n, Fits(req[r], orders[req[r].order], n)
    PROVE  Fits(req'[r], orders[req[r].order], n)
  <1> PICK row : row = orders[req[r].order] OBVIOUS
  <1> PICK q : q = req[r] OBVIOUS
  <1> PICK new : new = req'[r] OBVIOUS
  <1>1. q \in OrderRequest /\ q.row \in OrderRow /\ Gain(new) = Gain(q)
        BY MemoryStep DEF OrderRequest, Gain
  <1>2. new.row = q.row /\ new.dirty = Dirty(q.row, q.order) => Agrees(new, row)
        BY DEF Agrees, Dirty
  <1>3. CASE CompareOrder(r)
    <2>1. /\ q.pc = "change" /\ new.pc = "write" /\ new.row = q.row
          /\ new.dirty = Dirty(q.row, q.order)
          BY <1>3, MemoryStep
    <2> QED BY <1>2, <2>1 DEF Fits, Receiving
  <1>4. CASE CompareLine(r)
    <2>1. q.pc = "receive" /\ new.pc = "line" /\ new.row = q.row BY <1>4, MemoryStep
    <2> QED BY <1>1, <2>1 DEF Fits, Receiving
  <1>5. CASE WriteLine(r)
    <2>1. q.pc = "line" /\ new.pc = "stock" /\ new.row = q.row BY <1>5, MemoryStep
    <2> QED BY <1>1, <2>1 DEF Fits, Receiving
  <1>6. CASE ReceiveStock(r)
    <2>1. q.pc = "stock" /\ new.pc = "close" /\ new.row = Closed(q.row) BY <1>6, MemoryStep
    <2>2. new.row.received = q.row.received /\ Sound(new.row) BY <1>1, <2>1, ChangedRows
    <2> QED BY <1>1, <2>1, <2>2 DEF Fits, Receiving
  <1>7. CASE CompareClosed(r)
    <2>1. /\ q.pc = "close" /\ new.pc = "commit" /\ new.row = q.row
          /\ new.dirty = Dirty(q.row, q.order)
          BY <1>7, MemoryStep
    <2> QED BY <1>1, <1>2, <2>1 DEF Fits, Receiving
  <1> QED BY <1>3, <1>4, <1>5, <1>6, <1>7 DEF GoesOn

(* A save of what fits makes the order what it should be.                  *)
LEMMA SaveFits ==
    ASSUME TypeInv, NEW r \in Requests, Saves(r), NEW o \in Orders, req[r].order = o,
           Fits(req[r], orders[o], due[o])
    PROVE  orders'[o].received = due'[o] /\ Sound(orders'[o])
  <1>0. TypeOK BY DEF TypeInv
  <1> PICK q : q = req[r] OBVIOUS
  <1>1. /\ q.pc \in {"write", "create", "commit"} /\ q.pc \in OrderPcs
        /\ orders' = [orders EXCEPT ![o] = Saved(q, @)]
        BY DEF Saves, WriteOrder, SaveCreated, CommitReceipt, Save, OrderPcs, Saving, Receiving
  <1>2. /\ q.row \in OrderRow /\ q.dirty \subseteq Columns /\ orders[o] \in OrderRow
        /\ q.quantity \in Nat
        BY <1>0, <1>1, ReqByPc DEF TypeInv, Exist, TypeOK
  <1>3. orders'[o] = Saved(q, orders[o]) BY <1>0, <1>1 DEF TypeOK
  <1>4. Agrees(q, orders[o]) BY <1>1 DEF Fits
  <1> DEFINE new == Saved(q, orders[o])
  <1>5. /\ new.status = q.row.status /\ new.quantity = q.row.quantity
        /\ new.received = q.row.received /\ new.cancelled = q.row.cancelled
        BY <1>2, <1>4, SavedRow DEF Agrees
  <1> HIDE DEF new
  <1>6. Sound(q.row) BY <1>1 DEF Fits
  <1>7. Sound(new) BY <1>5, <1>6 DEF Sound
  <1>8. q.row.received = due'[o]
    <2>1. CASE WriteOrder(r)
      <3>1. q.pc = "write" /\ due' = due BY <2>1 DEF WriteOrder, Save
      <3> QED BY <3>1 DEF Fits
    <2>2. CASE SaveCreated(r)
      <3>1. due' = [due EXCEPT ![o] = q.row.received] BY <2>2 DEF SaveCreated
      <3> QED BY <1>0, <3>1 DEF TypeOK
    <2>3. CASE CommitReceipt(r)
      <3>1. /\ q.pc = "commit"
            /\ due' = IF q.known THEN [due EXCEPT ![o] = @ + q.quantity] ELSE due
            BY <2>3 DEF CommitReceipt, Save
      <3>2. q.row.received = due[o] + Gain(q) BY <3>1 DEF Fits, Receiving
      <3>3. due[o] \in Int BY <1>0 DEF TypeOK
      <3>4. CASE q.known
        <4>1. due'[o] = due[o] + q.quantity BY <1>0, <3>1, <3>4 DEF TypeOK
        <4> QED BY <3>2, <3>4, <4>1 DEF Gain
      <3>5. CASE ~q.known
        <4>1. due'[o] = due[o] /\ Gain(q) = 0 BY <3>1, <3>5 DEF Gain
        <4> QED BY <3>2, <3>3, <4>1
      <3> QED BY <3>4, <3>5
    <2> QED BY <2>1, <2>2, <2>3 DEF Saves
  <1> QED BY <1>3, <1>5, <1>7, <1>8 DEF new

LEMMA OrderInvStep ==
    ASSUME TypeInv, RaceIsSeen, OrderInv, NEW r \in Requests, Acts(r)
    PROVE  OrderInv'
  <1>0. TypeOK BY DEF TypeInv
  <1> SUFFICES ASSUME NEW o \in Orders, o \notin raced'
               PROVE  /\ orders'[o] # NoRow => orders'[o].received = due'[o] /\ Sound(orders'[o])
                      /\ \A p \in Requests : HasOrder(p, o)' => Fits(req'[p], orders'[o], due'[o])
      BY DEF OrderInv, Sound, Fits, Gain, Agrees
  <1>1. \A p \in Requests \ {r} : req'[p] = req[p] BY <1>0, HasStep
  <1>2. o \notin raced BY <1>0, RestStep
  <1>3. /\ orders[o] # NoRow => orders[o].received = due[o] /\ Sound(orders[o])
        /\ \A p \in Requests : HasOrder(p, o) => Fits(req[p], orders[o], due[o])
        BY <1>2 DEF OrderInv
  <1>4. \A p, t \in Requests : HasOrder(p, o) /\ HasOrder(t, o) => p = t
        BY <1>2 DEF RaceIsSeen
  <1>5. \A p \in Requests \ {r} : HasOrder(p, o)' => HasOrder(p, o) BY <1>1 DEF HasOrder
  <1>6. CASE ~HasOrder(r, o)
    <2>1. orders'[o] = orders[o] /\ due'[o] = due[o]
      <3>1. CASE Saves(r)
        <4>1. /\ req[r].pc \in OrderPcs
              /\ \/ due' = due \/ due' = [due EXCEPT ![req[r].order] = req[r].row.received]
                 \/ due' = [due EXCEPT ![req[r].order] = @ + req[r].quantity]
              BY <3>1 DEF Saves, WriteOrder, SaveCreated, CommitReceipt, Save, OrderPcs, Saving,
                          Receiving
        <4>2. req[r].order # o BY <1>6, <4>1 DEF HasOrder
        <4>3. due'[o] = due[o] BY <1>0, <4>1, <4>2 DEF TypeOK
        <4> QED BY <4>2, <4>3, OrderStep
      <3> QED BY <1>0, <3>1, RestStep
    <2>2. CASE ~HasOrder(r, o)' BY <1>1, <1>3, <1>5, <2>1, <2>2
    <2>3. CASE LoadsOrder(r, o)
      <3>1. orders[o] # NoRow
            BY <1>0, <2>3, LoadChange, LoadReceive, LoadCreate, RowTypes DEF LoadsOrder
      <3>2. Fits(req'[r], orders[o], due[o]) BY <1>0, <1>3, <2>3, <3>1, LoadFits
      <3> QED BY <1>1, <1>3, <1>5, <2>1, <3>2
    <2> QED BY <1>0, <1>6, <2>2, <2>3, HasStep
  <1>7. CASE HasOrder(r, o)
    <2>1. /\ req[r].order = o /\ req[r].pc \in OrderPcs /\ orders[o] # NoRow
          /\ Fits(req[r], orders[o], due[o])
          BY <1>3, <1>7 DEF HasOrder, TypeInv, Exist
    <2>2. \A p \in Requests \ {r} : ~HasOrder(p, o)' BY <1>4, <1>5, <1>7
    <2>3. Ends(r) => ~HasOrder(r, o)'
      <3>1. Ends(r) => req'[r].pc = "idle" BY <1>0, RequestsStep DEF Idle
      <3> QED BY <3>1 DEF HasOrder, OrderPcs, Saving, Receiving
    <2>4. CASE GoesOn(r)
      <3>1. orders' = orders /\ due' = due
            BY <2>4 DEF GoesOn, CompareOrder, CompareLine, CompareClosed, Compare, WriteLine,
                        ReceiveStock, table, history
      <3>2. Fits(req'[r], orders[o], due[o]) BY <1>0, <2>1, <2>4, GoesOnFits
      <3> QED BY <1>3, <2>2, <3>1, <3>2
    <2>5. CASE Saves(r)
      <3>1. orders'[o].received = due'[o] /\ Sound(orders'[o]) BY <2>1, <2>5, SaveFits
      <3> QED BY <2>2, <2>3, <2>5, <3>1 DEF Ends
    <2>6. CASE Fail(r)
      <3>1. orders' = orders /\ due' = due BY <2>6 DEF Fail, table
      <3> QED BY <1>3, <2>2, <2>3, <2>6, <3>1 DEF Ends
    <2> QED BY <1>0, <2>1, <2>4, <2>5, <2>6, FromPc
  <1> QED BY <1>6, <1>7

(* As long as no two requests hold an order at once, none of its saves     *)
(* spoils the row, neither the one of sendPOByEmail after its mail nor the *)
(* one of createGRN after its stock: the line says what its creator stated *)
(* and the receipts since that name it, and the status agrees with it.     *)
THEOREM SerialOrdersAgree == Spec => []OrderAgrees
  <1>1. Init => OrderInv
    <2> SUFFICES ASSUME Init PROVE OrderInv
        OBVIOUS
    <2>1. \A r \in Requests : req[r].pc = "idle" BY DEF Init, Idle
    <2> QED BY <2>1 DEF Init, OrderInv, HasOrder, OrderPcs, Saving, Receiving
  <1>2. BillInv /\ OrderInv /\ [Next]_vars => OrderInv'
    <2> SUFFICES ASSUME BillInv, OrderInv, [Next]_vars PROVE OrderInv'
        OBVIOUS
    <2>0. TypeInv /\ TypeOK /\ RaceIsSeen BY DEF BillInv, TypeInv
    <2>1. ASSUME NEW o \in Orders, NEW new \in NewOrders, CreatePO(o, new) PROVE OrderInv'
      <3>1. /\ orders[o] = NoRow /\ orders'[o] = new /\ due'[o] = new.received
            /\ \A x \in Orders \ {o} : orders'[x] = orders[x] /\ due'[x] = due[x]
            /\ Sound(new)
            BY <2>0, <2>1, CreateStep, NewRows
      <3>2. req' = req /\ raced' = raced BY <2>1 DEF CreatePO
      <3>3. \A r \in Requests : ~HasOrder(r, o) BY <2>0, <3>1 DEF HasOrder, TypeInv, Exist
      <3>4. \A r \in Requests, x \in Orders : HasOrder(r, x)' <=> HasOrder(r, x)
            BY <3>2 DEF HasOrder
      <3> SUFFICES ASSUME NEW x \in Orders \ raced
                   PROVE  /\ orders'[x] # NoRow =>
                                orders'[x].received = due'[x] /\ Sound(orders'[x])
                          /\ \A r \in Requests :
                                HasOrder(r, x)' => Fits(req[r], orders'[x], due'[x])
            BY <3>2 DEF OrderInv, Sound, Fits, Gain, Agrees
      <3>5. CASE x = o BY <3>1, <3>3, <3>4, <3>5
      <3>6. CASE x # o BY <3>1, <3>4, <3>6 DEF OrderInv
      <3> QED BY <3>5, <3>6
    <2>2. CASE \E b \in Bills : CreateVendorBill(b)
          BY <2>2 DEF CreateVendorBill, OrderInv, HasOrder, Sound, Fits, Gain, Agrees, history
    <2>3. CASE \E r \in Requests : Acts(r) BY <2>0, <2>3, OrderInvStep
    <2>4. CASE UNCHANGED vars
          BY <2>4 DEF vars, table, history, OrderInv, HasOrder, Sound, Fits, Gain, Agrees
    <2> QED BY <2>1, <2>2, <2>3, <2>4, NextActs
  <1>3. OrderInv => OrderAgrees
    <2> SUFFICES ASSUME OrderInv, NEW o \in Orders \ raced
                 PROVE  /\ orders[o] # NoRow => orders[o].received = due[o]
                        /\ Sound(orders[o])
        BY DEF OrderAgrees, Sound
    <2>1. CASE orders[o] = NoRow BY <2>1 DEF NoRow, Sound
    <2> QED BY <2>1 DEF OrderInv
  <1> QED BY <1>1, <1>2, <1>3, AlwaysBilled, PTL DEF Spec
=============================================================================
