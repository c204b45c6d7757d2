---------------------------- MODULE BillPayments ----------------------------
(***************************************************************************)
(* Vendor bills from their creation to their payment: updateBillStatus,    *)
(* which books the expense of an approved bill, recordPayment, which pays  *)
(* a bill and books the payment, and the payment batches, which pay        *)
(* approved bills and book nothing.                                        *)
(*                                                                         *)
(* Every request loads rows without a lock and later saves them as it has  *)
(* changed them.  Only finalizeBatch saves in a transaction.               *)
(***************************************************************************)
EXTENDS Integers, FiniteSets

CONSTANTS
    Bills,
    Batches,
    Total,         \* totalAmount of a bill
    Amounts,       \* the amounts callers pay
    Created,       \* the statuses callers create a bill in
    Statuses,      \* the statuses callers give a bill
    Requests,      \* requests the API may serve at the same time
    Calls,         \* the operations callers use
    MaxPayments,   \* bound: no payment starts after so much paid to a bill
    MaxFinal       \* bound: no finalization starts after so many of a batch

BillStatus == {"DRAFT", "PENDING_APPROVAL", "APPROVED", "PARTIALLY_PAID", "PAID",
               "OVERDUE", "VOID"}
BatchStatus == {"DRAFT", "SENT_TO_BANK", "COMPLETED", "CANCELLED"}

ASSUME BillAssumption ==
    /\ Bills \cap Batches = {}
    /\ Total \in [Bills -> Nat]
    /\ Amounts \subseteq Nat \ {0}
    /\ Created \subseteq BillStatus /\ Statuses \subseteq BillStatus
    /\ Calls \subseteq {"status", "pay", "batch", "export", "finalize"}
    /\ IsFiniteSet(Requests)
    /\ MaxPayments \in Nat /\ MaxFinal \in Nat

VARIABLES
    bills,      \* the row of every bill
    batches,    \* the row of every payment batch, with the amount of its items
    expensed,   \* the bills with an entry BILL-<number>
    booked,     \* the sum of the PAY-OUT entries of a bill
    req,        \* the requests in progress
    \* history, read by the properties only
    recorded,   \* what recordPayment has saved as paid on a bill
    batched,    \* what batches have saved as paid on a bill
    completed,  \* how often a batch was finalized
    raced,      \* rows two requests have held at the same time
    reopened,   \* batches that were exported when they were COMPLETED
    unexpensed, \* bills created APPROVED, or whose expense entry failed
    unbooked    \* bills with a payment whose entry failed

table == <<bills, batches, expensed, booked>>
history == <<recorded, batched, completed, raced, reopened, unexpensed, unbooked>>
vars == <<table, req, history>>

NoRow == [status |-> "NONE"]
BillRow == [status : BillStatus, paid : Nat]
BatchRow == [status : BatchStatus, items : [Bills -> Nat]]

Idle == [pc |-> "idle"]
StatusRequest == [pc : {"status"}, bill : Bills, row : BillRow, to : BillStatus]
PayRequest == [pc : {"pay"}, bill : Bills, row : BillRow, amount : Nat]
BookRequest == [pc : {"expense", "payment"}, bill : Bills, amount : Nat]
CreateRequest == [pc : {"create"}, items : [Bills -> Nat]]
ExportRequest == [pc : {"export"}, batch : Batches, row : BatchRow]
\* The items of a batch and the bills as they were loaded with it.
FinalizeRequest == [pc : {"finalize"}, batch : Batches, items : [Bills -> Nat],
                    rows : [Bills -> BillRow \cup {NoRow}], todo : SUBSET Bills]
Request == {Idle} \cup StatusRequest \cup PayRequest \cup BookRequest
             \cup CreateRequest \cup ExportRequest \cup FinalizeRequest

TypeOK ==
    /\ bills \in [Bills -> BillRow \cup {NoRow}]
    /\ batches \in [Batches -> BatchRow \cup {NoRow}]
    /\ expensed \subseteq Bills
    /\ booked \in [Bills -> Nat]
    /\ req \in [Requests -> Request]
    /\ recorded \in [Bills -> Nat] /\ batched \in [Bills -> Nat]
    /\ completed \in [Batches -> Nat]
    /\ raced \subseteq Bills \cup Batches /\ reopened \subseteq Batches
    /\ unexpensed \subseteq Bills /\ unbooked \subseteq Bills

Init ==
    /\ bills = [b \in Bills |-> NoRow]
    /\ batches = [x \in Batches |-> NoRow]
    /\ expensed = {}
    /\ booked = [b \in Bills |-> 0]
    /\ req = [r \in Requests |-> Idle]
    /\ recorded = [b \in Bills |-> 0] /\ batched = [b \in Bills |-> 0]
    /\ completed = [x \in Batches |-> 0]
    /\ raced = {} /\ reopened = {} /\ unexpensed = {} /\ unbooked = {}

----------------------------------------------------------------------------
Items(items) == {b \in Bills : items[b] > 0}

\* The rows a request has in memory and may still save.
Holds(r) ==
    CASE req[r].pc \in {"status", "pay"} -> {req[r].bill}
      [] req[r].pc = "export"            -> {req[r].batch}
      [] req[r].pc = "finalize"          -> {req[r].batch} \cup Items(req[r].items)
      [] OTHER                           -> {}

\* An idle request r loads some rows.
Begin(r, new, loaded) ==
    /\ req[r] = Idle
    /\ req' = [req EXCEPT ![r] = new]
    /\ raced' = raced \cup {k \in loaded : \E p \in Requests \ {r} : k \in Holds(p)}

\* Nobody's transaction has written the bill.
Unlocked(r, b) == \A p \in Requests \ {r} :
    req[p].pc = "finalize" => b \notin Items(req[p].items) \ req[p].todo

(* createBill: the caller chooses the status.                              *)
CreateBill(b) ==
    /\ bills[b] = NoRow
    /\ \E s \in Created :
          /\ bills' = [bills EXCEPT ![b] = [status |-> s, paid |-> 0]]
          /\ unexpensed' = IF s = "APPROVED" THEN unexpensed \cup {b} ELSE unexpensed
    /\ UNCHANGED <<batches, expensed, booked, req, recorded, batched, completed, raced,
                   reopened, unbooked>>

(* updateBillStatus: any status over any other.                            *)
LoadToUpdate(r, b) ==
    /\ bills[b] # NoRow
    /\ \E s \in Statuses : Begin(r, [pc |-> "status", bill |-> b, row |-> bills[b], to |-> s], {b})
    /\ UNCHANGED <<table, recorded, batched, completed, reopened, unexpensed, unbooked>>

SaveStatus(r) ==
    LET q == req[r] IN
    /\ q.pc = "status"
    /\ Unlocked(r, q.bill)
    /\ bills' = [bills EXCEPT ![q.bill] = [status |-> q.to, paid |-> q.row.paid]]
    /\ req' = [req EXCEPT ![r] =
                 IF q.to = "APPROVED" THEN [pc |-> "expense", bill |-> q.bill, amount |-> Total[q.bill]]
                                      ELSE Idle]
    /\ UNCHANGED <<batches, expensed, booked, history>>

(* The entry of an approved bill; its number is unique.                    *)
BookExpense(r) ==
    LET q == req[r] IN
    /\ q.pc = "expense"
    /\ q.bill \notin expensed
    /\ expensed' = expensed \cup {q.bill}
    /\ req' = [req EXCEPT ![r] = Idle]
    /\ UNCHANGED <<bills, batches, booked, history>>

----------------------------------------------------------------------------
LoadToPay(r, b) ==
    /\ bills[b] # NoRow
    /\ recorded[b] + batched[b] < MaxPayments  \* bound
    /\ \E a \in Amounts : Begin(r, [pc |-> "pay", bill |-> b, row |-> bills[b], amount |-> a], {b})
    /\ UNCHANGED <<table, recorded, batched, completed, reopened, unexpensed, unbooked>>

\* Mutants of Paid: the amount is not added; the bill counts as paid at the
\* first payment.
PaidSame(b, row, amount) == row
PaidInFull(b, row, amount) == [status |-> "PAID", paid |-> Total[b]]

(* recordPayment and finalizeBatch add an amount to what the row said.     *)
Paid(b, row, amount) ==
    [status |-> IF row.paid + amount >= Total[b] THEN "PAID" ELSE "PARTIALLY_PAID",
     paid   |-> row.paid + amount]

SavePayment(r) ==
    LET q == req[r] IN
    /\ q.pc = "pay"
    /\ Unlocked(r, q.bill)
    /\ bills' = [bills EXCEPT ![q.bill] = Paid(q.bill, q.row, q.amount)]
    /\ recorded' = [recorded EXCEPT ![q.bill] = @ + q.amount]
    /\ req' = [req EXCEPT ![r] = [pc |-> "payment", bill |-> q.bill, amount |-> q.amount]]
    /\ UNCHANGED <<batches, expensed, booked, batched, completed, raced, reopened,
                   unexpensed, unbooked>>

(* The entry of the payment: its number ends with the time of day.         *)
BookPayment(r) ==
    LET q == req[r] IN
    /\ q.pc = "payment"
    /\ booked' = [booked EXCEPT ![q.bill] = @ + q.amount]
    /\ req' = [req EXCEPT ![r] = Idle]
    /\ UNCHANGED <<bills, batches, expensed, history>>

----------------------------------------------------------------------------
\* A mutant of Payable: a bill need not be approved.
PayableAny(b) == bills[b] # NoRow
Payable(b) == bills[b].status = "APPROVED"

(* What is open of the bill when it is found.                              *)
Open(b) == IF bills[b].paid < Total[b] THEN Total[b] - bills[b].paid ELSE 0

(* createBatch looks for the approved bills among the ones it is given.    *)
FindPayable(r, given) ==
    /\ \E b \in given : Payable(b)
    /\ Begin(r, [pc |-> "create",
                 items |-> [b \in Bills |-> IF b \in given /\ Payable(b) THEN Open(b) ELSE 0]], {})
    /\ UNCHANGED <<table, recorded, batched, completed, reopened, unexpensed, unbooked>>

CreateBatch(r, x) ==
    /\ req[r].pc = "create"
    /\ batches[x] = NoRow
    /\ batches' = [batches EXCEPT ![x] = [status |-> "DRAFT", items |-> req[r].items]]
    /\ req' = [req EXCEPT ![r] = Idle]
    /\ UNCHANGED <<bills, expensed, booked, history>>

(* generateBankInstructionFile saves SENT_TO_BANK whatever it has loaded.  *)
LoadToExport(r, x) ==
    /\ batches[x] # NoRow
    /\ Begin(r, [pc |-> "export", batch |-> x, row |-> batches[x]], {x})
    /\ reopened' = IF batches[x].status = "COMPLETED" THEN reopened \cup {x} ELSE reopened
    /\ UNCHANGED <<table, recorded, batched, completed, unexpensed, unbooked>>

SaveExport(r) ==
    LET q == req[r] IN
    /\ q.pc = "export"
    /\ batches' = [batches EXCEPT ![q.batch] = [q.row EXCEPT !.status = "SENT_TO_BANK"]]
    /\ req' = [req EXCEPT ![r] = Idle]
    /\ UNCHANGED <<bills, expensed, booked, history>>

\* A mutant of Finalizable: the status is not looked at.
FinalizableAny(s) == TRUE
Finalizable(s) == s # "COMPLETED"

(* finalizeBatch loads the batch with its items and their bills and looks  *)
(* at the status before its transaction begins.                            *)
LoadToFinalize(r, x) ==
    LET items == batches[x].items IN
    /\ batches[x] # NoRow
    /\ Finalizable(batches[x].status)
    /\ completed[x] < MaxFinal  \* bound
    /\ Begin(r, [pc |-> "finalize", batch |-> x, items |-> items, todo |-> Items(items),
                 rows |-> [b \in Bills |-> IF b \in Items(items) THEN bills[b] ELSE NoRow]],
             {x} \cup Items(items))
    /\ UNCHANGED <<table, recorded, batched, completed, reopened, unexpensed, unbooked>>

(* The save of a bill waits for another transaction that has written it.   *)
PayItem(r, b) ==
    LET q == req[r] IN
    /\ q.pc = "finalize"
    /\ b \in q.todo
    /\ Unlocked(r, b)
    /\ req' = [req EXCEPT ![r].todo = @ \ {b}]
    /\ UNCHANGED <<table, history>>

FinalizeCommit(r) ==
    LET q == req[r] IN
    /\ q.pc = "finalize"
    /\ q.todo = {}
    /\ bills' = [b \in Bills |-> IF b \in Items(q.items) THEN Paid(b, q.rows[b], q.items[b])
                                                         ELSE bills[b]]
    /\ batches' = [batches EXCEPT ![q.batch] = [status |-> "COMPLETED", items |-> q.items]]
    /\ batched' = [b \in Bills |-> batched[b] + q.items[b]]
    /\ completed' = [completed EXCEPT ![q.batch] = @ + 1]
    /\ req' = [req EXCEPT ![r] = Idle]
    /\ UNCHANGED <<expensed, booked, recorded, raced, reopened, unexpensed, unbooked>>

----------------------------------------------------------------------------
(* A request that fails, of its own or with the server: a transaction is   *)
(* rolled back, what has been saved without one stays.                     *)
Fail(r) ==
    LET q == req[r] IN
    /\ q # Idle
    /\ req' = [req EXCEPT ![r] = Idle]
    /\ unexpensed' = IF q.pc = "expense" THEN unexpensed \cup {q.bill} ELSE unexpensed
    /\ unbooked' = IF q.pc = "payment" THEN unbooked \cup {q.bill} ELSE unbooked
    /\ UNCHANGED <<table, recorded, batched, completed, raced, reopened>>

Next ==
    \/ \E b \in Bills : CreateBill(b)
    \/ \E r \in Requests :
          \/ "status" \in Calls /\ \E b \in Bills : LoadToUpdate(r, b)
          \/ "pay" \in Calls /\ \E b \in Bills : LoadToPay(r, b)
          \/ "batch" \in Calls /\ \E given \in SUBSET Bills : FindPayable(r, given)
          \/ "export" \in Calls /\ \E x \in Batches : LoadToExport(r, x)
          \/ "finalize" \in Calls /\ \E x \in Batches : LoadToFinalize(r, x)
          \/ \E x \in Batches : CreateBatch(r, x)
          \/ \E b \in Bills : PayItem(r, b)
          \/ SaveStatus(r) \/ BookExpense(r) \/ SavePayment(r) \/ BookPayment(r)
          \/ SaveExport(r) \/ FinalizeCommit(r) \/ Fail(r)

Spec == Init /\ [][Next]_vars

----------------------------------------------------------------------------
Booking(b, pc) == \E r \in Requests : req[r].pc = pc /\ req[r].bill = b

\* The bills that only one request at a time has held, whose payments have all
\* tried to make their entry and have succeeded.
Settled == {b \in Bills \ (raced \cup unbooked) : bills[b] # NoRow /\ ~Booking(b, "payment")}

(* BUSINESS_LOGIC.md has every payment use the JournalService, but batches *)
(* make no entry, so the subledger and the ledger do not agree.  Yet the   *)
(* ledger lacks what batches have paid and nothing else, and has nothing   *)
(* that the bill does not say, unless two requests held the bill at the    *)
(* same time or an entry failed.                                           *)
MissingIsBatched == \A b \in Settled : bills[b].paid - booked[b] = batched[b]

(* Requests that save what they loaded long ago lose payments; they never  *)
(* make a bill look paid with money nobody paid.                           *)
PaidNotInvented ==
    \A b \in Bills : bills[b] # NoRow => bills[b].paid <= recorded[b] + batched[b]

(* A bill that is approved, or that a batch will pay, has its expense in   *)
(* the ledger or is getting it, unless it was created APPROVED or the      *)
(* entry failed after the status had been saved.                           *)
PayableIsExpensed ==
    \A b \in Bills :
        \/ b \in expensed \cup unexpensed
        \/ Booking(b, "expense")
        \/ /\ bills[b].status # "APPROVED"
           /\ \A x \in Batches : batches[x] # NoRow => batches[x].items[b] = 0

(* A batch pays its bills twice only when two requests held it at the same *)
(* time or when it was exported again after it was completed.              *)
PaidTwiceNeedsExport == \A x \in Batches : completed[x] > 1 => x \in raced \cup reopened
=============================================================================
