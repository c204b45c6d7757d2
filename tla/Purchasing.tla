----------------------------- MODULE Purchasing -----------------------------
(***************************************************************************)
(* Purchase orders, goods receipts, purchase returns and vendor bills:     *)
(* procurement.service.ts.                                                 *)
(*                                                                         *)
(* A receipt is a transaction around calls of the inventory that commit by *)
(* themselves; so is a return.  The other operations load an order or a    *)
(* bill without a lock and save it.  A save reads the row again, writes    *)
(* the columns that differ from the row in memory, and waits for the lines *)
(* an open receipt has written.  An order has one line; a receipt may name *)
(* another, which no key forbids, and an order may be created with the id  *)
(* of one that exists.                                                     *)
(***************************************************************************)
EXTENDS Integers, FiniteSets

CONSTANTS
    Orders,      \* rows of purchase orders
    Bills,       \* rows of vendor bills
    Ordered,     \* the quantities callers order
    Stated,      \* what callers say of a new order has been received, cancelled
    Quantities,  \* the quantities callers receive and cancel
    Requests,    \* requests the API may serve at the same time
    MaxCalls     \* bound: requests that start

PoStatus == {"DRAFT", "SENT", "PARTIALLY_RECEIVED", "FULLY_RECEIVED", "CANCELLED",
             "CLOSED"}
VendorBillStatus == {"DRAFT", "PENDING_PAYMENT", "PAID", "CANCELLED"}

ASSUME PurchasingAssumption ==
    /\ Orders \cap Bills = {}
    /\ Ordered \subseteq Nat \ {0}
    /\ Stated \subseteq Int
    /\ Quantities \subseteq Nat \ {0}
    /\ IsFiniteSet(Requests)
    /\ MaxCalls \in Nat

VARIABLES
    orders,    \* the row of every order with its line
    bills,     \* the row of every vendor bill
    receipts,  \* the quantity of the receipts of an order that committed
    moved,     \* the stock received for an order
    returned,  \* the returns whose stock was issued
    noted,     \* the returns with a debit note
    booked,    \* vendor bills whose number finance has a bill of
    req,       \* the requests in progress
    calls,     \* how many requests have started
    \* history, read by the properties only
    due,       \* what was stated of the line of an order and received since for it
    raced,     \* rows two requests have held at the same time
    broken,    \* orders with a receipt that failed after its stock moved
    unnoted,   \* returns that failed after their stock was issued
    halted,    \* bills whose submission failed after finance's bill
    withdrawn  \* bills cancelled after their submission

table == <<orders, bills, receipts, moved, returned, noted, booked>>
history == <<due, raced, broken, unnoted, halted, withdrawn>>
vars == <<table, req, calls, history>>

NoRow == [status |-> "NONE"]
OrderRow == [status : PoStatus, quantity : Nat, received : Int, cancelled : Int]
LineColumns == {"quantity", "received", "cancelled"}
Columns == LineColumns \cup {"status"}
BillRow == [status : VendorBillStatus]

\* A return: its order and the call that makes it.
Return == Orders \X Nat

Idle == [pc |-> "idle"]
Saving == {"create", "change", "write"}
Receiving == {"receive", "line", "stock", "close", "commit"}
OrderRequest ==
    [pc : Saving \cup Receiving, order : Orders, row : OrderRow,
     quantity : Nat, known : BOOLEAN,           \* a receipt, and whether it names the line
     dirty : SUBSET Columns, locked : BOOLEAN]  \* what a save has found, and written
ReturnRequest == [pc : {"return", "note"}, return : Return]
BillRequest == [pc : {"book", "submit", "pay", "cancel"}, bill : Bills, row : BillRow]
Request == {Idle} \cup OrderRequest \cup ReturnRequest \cup BillRequest

TypeOK ==
    /\ orders \in [Orders -> OrderRow \cup {NoRow}]
    /\ bills \in [Bills -> BillRow \cup {NoRow}]
    /\ receipts \in [Orders -> Nat] /\ moved \in [Orders -> Nat]
    /\ returned \subseteq Return /\ noted \subseteq Return
    /\ booked \subseteq Bills
    /\ req \in [Requests -> Request] /\ calls \in Nat
    /\ due \in [Orders -> Int] /\ raced \subseteq Orders \cup Bills
    /\ broken \subseteq Orders /\ unnoted \subseteq Return
    /\ halted \subseteq Bills /\ withdrawn \subseteq Bills

Init ==
    /\ orders = [o \in Orders |-> NoRow]
    /\ bills = [b \in Bills |-> NoRow]
    /\ receipts = [o \in Orders |-> 0] /\ moved = [o \in Orders |-> 0]
    /\ returned = {} /\ noted = {}
    /\ booked = {}
    /\ req = [r \in Requests |-> Idle] /\ calls = 0
    /\ due = [o \in Orders |-> 0]
    /\ raced = {} /\ broken = {} /\ unnoted = {} /\ halted = {} /\ withdrawn = {}

----------------------------------------------------------------------------
\* The row a request has in memory and may still save.
Holds(r) ==
    CASE req[r].pc \in Saving \cup Receiving               -> {req[r].order}
      [] req[r].pc \in {"book", "submit", "pay", "cancel"} -> {req[r].bill}
      [] OTHER                                             -> {}

\* An idle request r loads row k.
Begin(r, new, k) ==
    /\ req[r] = Idle
    /\ calls < MaxCalls  \* bound
    /\ calls' = calls + 1
    /\ req' = [req EXCEPT ![r] = new]
    /\ raced' = IF \E p \in Requests \ {r} : k \in Holds(p) THEN raced \cup {k} ELSE raced
    /\ UNCHANGED <<table, due, broken, unnoted, halted, withdrawn>>

\* The lock on the line of order o is not with a receipt other than r.
Unlocked(r, o) ==
    ~\E p \in Requests \ {r} :
        req[p].pc \in {"stock", "close", "commit"} /\ req[p].order = o /\ req[p].locked

\* The columns a save of row over order o writes.
Dirty(row, o) == {c \in Columns : row[c] # orders[o][c]}

\* A request at pc with row in memory.
Has(pc, o, row, dirty) ==
    [pc |-> pc, order |-> o, row |-> row, quantity |-> 0, known |-> FALSE, dirty |-> dirty,
     locked |-> FALSE]

(* createPO: the caller gives the quantities of the line.                  *)
NewOrders == [status : {"DRAFT"}, quantity : Ordered, received : Stated, cancelled : Stated]

CreatePO(o, new) ==
    /\ orders[o] = NoRow
    /\ orders' = [orders EXCEPT ![o] = new]
    /\ due' = [due EXCEPT ![o] = new.received]
    /\ UNCHANGED <<bills, receipts, moved, returned, noted, booked, req, calls, raced, broken,
                   unnoted, halted, withdrawn>>

(* createPO with the id of an order: the save finds it and writes over it. *)
FindToCreate(r, o, new) ==
    /\ orders[o] # NoRow
    /\ Begin(r, Has("create", o, new, Dirty(new, o)), o)

LoadOrder(r, o, row) ==
    /\ orders[o] # NoRow
    /\ Begin(r, Has("change", o, row, {}), o)

(* sendPOByEmail: between the load and the save the mail is sent.          *)
LoadToSend(r, o) == LoadOrder(r, o, [orders[o] EXCEPT !.status = "SENT"])

CancelledRest(row) ==
    [row EXCEPT !.status = "CANCELLED", !.cancelled = row.quantity - row.received]

(* cancelPurchaseOrder: the whole order, or a quantity of its line.        *)
LoadToCancel(r, o) == LoadOrder(r, o, CancelledRest(orders[o]))
LoadToCancelPart(r, o, n) == LoadOrder(r, o, [orders[o] EXCEPT !.cancelled = @ + n])

\* What a save has read before it writes.
Compare(r, from, to) ==
    LET q == req[r] IN
    /\ q.pc = from
    /\ req' = [req EXCEPT ![r] = [@ EXCEPT !.pc = to, !.dirty = Dirty(q.row, q.order)]]
    /\ UNCHANGED <<table, calls, history>>

CompareOrder(r) == Compare(r, "change", "write")

\* Whether a save writes the line.
WritesLine(q) == q.dirty \cap LineColumns # {}

\* The row after a save.
Saved(q, old) == [c \in Columns |-> IF c \in q.dirty THEN q.row[c] ELSE old[c]]

Save(r, pc) ==
    LET q == req[r] IN
    /\ q.pc = pc
    /\ WritesLine(q) => Unlocked(r, q.order)
    /\ orders' = [orders EXCEPT ![q.order] = Saved(q, @)]
    /\ req' = [req EXCEPT ![r] = Idle]
    /\ UNCHANGED <<bills, moved, returned, noted, booked, calls, raced, broken, unnoted,
                   halted, withdrawn>>

WriteOrder(r) == Save(r, "write") /\ UNCHANGED <<receipts, due>>

SaveCreated(r) ==
    /\ Save(r, "create")
    /\ due' = [due EXCEPT ![req[r].order] = req[r].row.received]
    /\ UNCHANGED receipts

----------------------------------------------------------------------------
\* A mutant of Received: the receipt replaces what was received before.
ReceivedOnly(row, n) == [row EXCEPT !.received = n]
Received(row, n) == [row EXCEPT !.received = @ + n]

(* createGRN, in any status of the order and of any quantity.  A receipt   *)
(* that names no line of the order goes on to its stock.                   *)
LoadToReceive(r, o, n, known) ==
    /\ orders[o] # NoRow
    /\ Begin(r, [pc |-> IF known THEN "receive" ELSE "stock", order |-> o,
                 row |-> IF known THEN Received(orders[o], n) ELSE orders[o],
                 quantity |-> n, known |-> known, dirty |-> {}, locked |-> FALSE], o)

CompareLine(r) == Compare(r, "receive", "line")

\* A mutant of AfterLine: the receipt commits without its stock.
AfterLineClose == "close"
AfterLine == "stock"

(* The line is written in the transaction: nobody else reads it, and who   *)
(* writes it waits.                                                        *)
WriteLine(r) ==
    LET q == req[r] IN
    /\ q.pc = "line"
    /\ WritesLine(q) => Unlocked(r, q.order)
    /\ req' = [req EXCEPT ![r] = [@ EXCEPT !.pc = AfterLine, !.dirty = {},
                                                   !.locked = WritesLine(q)]]
    /\ UNCHANGED <<table, calls, history>>

Closed(row) ==
    [row EXCEPT !.status = IF row.received >= row.quantity THEN "FULLY_RECEIVED"
                           ELSE "PARTIALLY_RECEIVED"]

(* receiveStock commits by itself; then the status follows from the lines  *)
(* in memory.                                                              *)
ReceiveStock(r) ==
    LET q == req[r] IN
    /\ q.pc = "stock"
    /\ moved' = [moved EXCEPT ![q.order] = @ + q.quantity]
    /\ req' = [req EXCEPT ![r] = [@ EXCEPT !.pc = "close", !.row = Closed(q.row)]]
    /\ UNCHANGED <<orders, bills, receipts, returned, noted, booked, calls, history>>

(* The order is saved with its lines and the transaction commits.          *)
CompareClosed(r) == Compare(r, "close", "commit")

CommitReceipt(r) ==
    LET q == req[r] IN
    /\ Save(r, "commit")
    /\ receipts' = [receipts EXCEPT ![q.order] = @ + q.quantity]
    /\ due' = IF q.known THEN [due EXCEPT ![q.order] = @ + q.quantity] ELSE due

----------------------------------------------------------------------------
(* createPurchaseReturn: issueStock commits before the debit note.         *)
StartReturn(r, o) ==
    /\ orders[o] # NoRow
    /\ req[r] = Idle
    /\ calls < MaxCalls  \* bound
    /\ calls' = calls + 1
    /\ req' = [req EXCEPT ![r] = [pc |-> "return", return |-> <<o, calls>>]]
    /\ UNCHANGED <<table, history>>

ReturnStock(r) ==
    LET q == req[r] IN
    /\ q.pc = "return"
    /\ returned' = returned \cup {q.return}
    /\ req' = [req EXCEPT ![r].pc = "note"]
    /\ UNCHANGED <<orders, bills, receipts, moved, noted, booked, calls, history>>

SaveDebitNote(r) ==
    LET q == req[r] IN
    /\ q.pc = "note"
    /\ noted' = noted \cup {q.return}
    /\ req' = [req EXCEPT ![r] = Idle]
    /\ UNCHANGED <<orders, bills, receipts, moved, returned, booked, calls, history>>

----------------------------------------------------------------------------
(* createVendorBill, of an existing order.                                 *)
CreateVendorBill(b) ==
    /\ bills[b] = NoRow
    /\ \E o \in Orders : orders[o] # NoRow
    /\ bills' = [bills EXCEPT ![b] = [status |-> "DRAFT"]]
    /\ UNCHANGED <<orders, receipts, moved, returned, noted, booked, req, calls, history>>

LoadBill(r, b, pc, allowed) ==
    /\ bills[b].status \in allowed
    /\ Begin(r, [pc |-> pc, bill |-> b, row |-> bills[b]], b)

LoadToSubmit(r, b) == LoadBill(r, b, "book", {"DRAFT"})
LoadToPay(r, b) == LoadBill(r, b, "pay", {"PENDING_PAYMENT"})

Cancellable == VendorBillStatus \ {"PAID"}

LoadToCancelBill(r, b) == LoadBill(r, b, "cancel", Cancellable)

\* A mutant of NumberFree: the bill of an earlier call is used again.
NumberFreeAny(b) == TRUE
(* Finance has one bill of a number: the index of its table is unique.     *)
NumberFree(b) == b \notin booked

BookBill(r) ==
    LET q == req[r] IN
    /\ q.pc = "book"
    /\ NumberFree(q.bill)
    /\ booked' = booked \cup {q.bill}
    /\ req' = [req EXCEPT ![r].pc = "submit"]
    /\ UNCHANGED <<orders, bills, receipts, moved, returned, noted, calls, history>>

SaveBill(r, pc, status) ==
    LET q == req[r] IN
    /\ q.pc = pc
    /\ bills' = [bills EXCEPT ![q.bill].status = status]
    /\ req' = [req EXCEPT ![r] = Idle]
    /\ UNCHANGED <<orders, receipts, moved, returned, noted, booked, calls, due, raced, broken,
                   unnoted, halted>>

SaveSubmitted(r) == SaveBill(r, "submit", "PENDING_PAYMENT") /\ UNCHANGED withdrawn
SavePaid(r) == SaveBill(r, "pay", "PAID") /\ UNCHANGED withdrawn

(* cancelVendorBill: finance keeps its bill.                               *)
SaveCancelled(r) ==
    /\ SaveBill(r, "cancel", "CANCELLED")
    /\ withdrawn' = IF req[r].row.status = "PENDING_PAYMENT" THEN withdrawn \cup {req[r].bill}
                    ELSE withdrawn

----------------------------------------------------------------------------
(* A request that fails, is chosen as the victim of a deadlock or dies: an *)
(* open receipt is rolled back, the stock it moved stays.                  *)
Fail(r) ==
    LET q == req[r] IN
    /\ q # Idle
    /\ req' = [req EXCEPT ![r] = Idle]
    /\ broken' = IF q.pc \in {"close", "commit"} THEN broken \cup {q.order} ELSE broken
    /\ unnoted' = IF q.pc = "note" THEN unnoted \cup {q.return} ELSE unnoted
    /\ halted' = IF q.pc = "submit" THEN halted \cup {q.bill} ELSE halted
    /\ UNCHANGED <<table, calls, due, raced, withdrawn>>

Next ==
    \/ \E o \in Orders, new \in NewOrders : CreatePO(o, new)
    \/ \E b \in Bills : CreateVendorBill(b)
    \/ \E r \in Requests :
          \/ \E o \in Orders :
                \/ LoadToSend(r, o) \/ LoadToCancel(r, o) \/ StartReturn(r, o)
                \/ \E new \in NewOrders : FindToCreate(r, o, new)
                \/ \E n \in Quantities :
                      \/ LoadToCancelPart(r, o, n)
                      \/ \E known \in BOOLEAN : LoadToReceive(r, o, n, known)
          \/ \E b \in Bills : LoadToSubmit(r, b) \/ LoadToPay(r, b) \/ LoadToCancelBill(r, b)
          \/ CompareOrder(r) \/ WriteOrder(r) \/ SaveCreated(r)
          \/ CompareLine(r) \/ WriteLine(r) \/ ReceiveStock(r)
          \/ CompareClosed(r) \/ CommitReceipt(r)
          \/ ReturnStock(r) \/ SaveDebitNote(r)
          \/ BookBill(r) \/ SaveSubmitted(r) \/ SavePaid(r) \/ SaveCancelled(r) \/ Fail(r)

Spec == Init /\ [][Next]_vars

----------------------------------------------------------------------------
\* Where receipts and returns are between the stock and their document.
Closing(o) == \E r \in Requests : req[r].pc \in {"close", "commit"} /\ req[r].order = o
Noting(x) == \E r \in Requests : req[r].pc = "note" /\ req[r].return = x

(* The committed receipts of an order are the stock received for it,       *)
(* unless one was rolled back after receiveStock had committed, and the    *)
(* returns with stock issued are those with a debit note, unless one       *)
(* failed between the two; no overlap of requests breaks this.             *)
StockIsDocumented ==
    /\ \A o \in Orders \ broken : Closing(o) \/ receipts[o] = moved[o]
    /\ noted \subseteq returned
    /\ \A x \in returned \ noted : Noting(x) \/ x \in unnoted

(* An order says what its receipts say, unless two requests held it at the *)
(* same time: its line the quantity its creator stated and the receipts    *)
(* since that name it; its status FULLY_RECEIVED with all of the order,    *)
(* PARTIALLY_RECEIVED with a part, CANCELLED with nothing outstanding.     *)
OrderAgrees ==
    \A o \in Orders \ raced :
        LET row == orders[o] IN
        /\ row # NoRow => row.received = due[o]
        /\ row.status = "FULLY_RECEIVED" => row.received >= row.quantity
        /\ row.status = "PARTIALLY_RECEIVED" => row.received < row.quantity
        /\ row.status = "CANCELLED" => row.received + row.cancelled >= row.quantity

(* Finance has a bill of every submitted vendor bill.  It commits first,   *)
(* and a retry meets its number: a bill whose submission stopped half way  *)
(* is never submitted, and so never paid.  Finance has a bill of a         *)
(* cancelled vendor bill only when that was cancelled after its            *)
(* submission, while another request held it, or after one that failed.    *)
SubmittedIsBooked ==
    \A b \in Bills :
        /\ bills[b].status \in {"PENDING_PAYMENT", "PAID"} => b \in booked \ halted
        /\ bills[b].status = "CANCELLED" /\ b \in booked =>
              b \in withdrawn \cup raced \cup halted
=============================================================================
