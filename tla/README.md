# Nurox ERP: a TLA+ verification project

Nurox is a multi-tenant ERP: a NestJS API (`src/apps/api`) on PostgreSQL through
TypeORM, with Redis and BullMQ for queued jobs, and a Next.js web application
(`src/apps/web`) that calls it. This directory holds TLA+ modules of the parts
of the API where state changes under concurrency, TLC configurations that check
them on small instances, and TLAPS proofs about them for every instance.

Contents: [how the code behaves](#how-the-code-behaves-and-how-it-is-modelled),
[inventory](#inventory), [modules](#modules), [runs](#runs),
[fairness](#fairness), [proofs](#proofs), [not modelled](#not-modelled),
[findings](#findings), [plan](#plan), [how to run](#how-to-run). `PROJECT.json` maps every
definition to the lines it models and lists components, runs, mutants, hazards,
findings and theorems.

## How the code behaves, and how it is modelled

The same few facts about the code decide what can go wrong almost everywhere.
All modules model them the same way.

* **A handler is a sequence of database calls.** Between an `await` of one call
  and the next one, other requests run. A request in progress is a record in
  `req`, its `pc` names the call it makes next, the other fields are what it
  has in memory. One action is one call (or several calls nobody can observe
  in between). Any number of requests may be in progress, so every pair of
  handlers interleaves at every call.
* **A handler loads a row, checks it, and saves it later.** TypeORM's
  `repository.save(entity)` compares with the row and writes what differs, and
  `BaseEntity` has no version column, so nothing notices that the row has
  changed meanwhile. A load puts the row in memory, a save writes the row that
  is in memory: a save after somebody else's save brings the older columns
  back. (TypeORM reads the row again just before it writes, to find the columns
  that differ; a change that slips in between the two statements is not
  modelled apart from the one that comes before both.)
* **`dataSource.transaction` runs at READ COMMITTED.** A transaction sees what
  others have committed and what it wrote itself. A written row stays locked
  until the transaction ends, so the next writer waits; a plain read does not
  wait. What a transaction writes appears in the tables at its commit action,
  and a rollback forgets it. Deadlock victims, lost connections, thrown errors
  and a dead process are one action (`Abort`, `Rollback` or `Fail`), enabled
  at any point of a request.
* **Services call each other after the save,** directly or through an event,
  in a transaction of their own. The failure of the second call leaves the
  first in place: these are separate steps, and `Fail` may come between them.
* **Callers are free.** A user may call any operation at any time with any
  argument from a small set; a user owes nothing (no fairness for calls).

Conventions of the modules:

* `TypeOK` is the type invariant of a module. Where a theorem proves it
  (`TypeCorrect`, `...TypeCorrect`), most runs leave it out; the runs `leave` and
  `reconciliation` check it as well.
* Variables under `history` are read by properties only, never by a guard. They
  record what a property has to say about the past: who raced with whom, which
  entry got lost, how much has been paid.
* A bound on an otherwise endless behaviour is a constant whose use is marked
  `\* bound`. Bounds stop the *start* of new work, never the middle of it.
* `Calls` selects the operations callers use, so that a run can leave one out.
* Money and quantities are small natural numbers. Where the code compares
  floats with a tolerance, the tolerance is a constant (`Tolerance`).
* A definition commented "a mutant of X" is X with a plausible bug. Nothing
  uses it but `PROJECT.json`, which names for each checked property a mutant
  that must violate it.
* `CHECK_DEADLOCK FALSE` stands in a configuration whose system really may
  stop: when the bounds are used up, when a run of payroll has reached its last
  status, or, in the connection pool, when the process hangs. The general
  ledger runs with the deadlock check.

## Inventory

| Part of the API | State | Operations | Interacts with | What is hard |
|---|---|---|---|---|
| General ledger (`finance.service.ts:788-972, 1062-1074, 1467-1485`) | journal entries with lines and a status, accounts with type, currency and balance, periods | create, review, approve, reject, post, remove; close and reopen a period; update and remove an account | bills, payroll, assets and recurring jobs enter journals | status checked without a lock, saved later; balances updated in SQL in a loop over lines, each converted at a rate of its own |
| Vendor bills (`finance.service.ts:1131-1294, 1650-1720`) | bills with status and paid amount | create, update status, record a payment | expense and payment entries in the ledger, each after the save | stale save; second step of two fails |
| Payment batches (`payment-batch.service.ts`) | batches with items and a status | create, export to the bank, finalize | bills; numbers from the sequence service | status and bills loaded before the transaction; a status that goes back |
| Payroll (`payroll.service.ts`, `payroll-processor.service.ts`) | runs, payslips, loans, repayments, advances | create, process, recompute, approve, cancel, pay, finalize | BullMQ job; event to finance | job delivered twice; status saved before the job is added; two finalizations of one loan |
| Stock (`inventory.service.ts:71-549`) | balance per bin and batch, remaining quantity per batch, movements | receive, issue in the order of the valuation method, transfer, adjust | counts, procurement, manufacturing, sales, POS | check, read and write at different times; locks taken in data-dependent order; one batch in two bins loaded twice |
| Stock counts (`inventory.service.ts:571-641`) | counts and lines | start, complete | adjustStock in a transaction of its own, per line | partial failure, retry |
| Auto-numbers (`sequence.service.ts`) | one counter row per tenant and document type | next number, configure (also the number that comes next) | payment batches, mushak documents | the first two callers; an unlocked save of a counter |
| Connections (`database.module.ts`, `tenant-connection.service.ts`, `tenant.interceptor.ts`) | a pool of ten connections | keep one per tenant request, one per query, one per transaction | every handler | hold and wait on one pool; a leak |
| Invoices, credit notes, receipts, petty cash, expenses (`finance.service.ts`) | open amounts, fund balances | create, update, convert, pay | ledger entries | as vendor bills |
| Sales orders (`sales-order-flow.service.ts`, `sales.service.ts:163-183`) | quotations and their versions, orders with lines, delivery orders | send, resend, convert, confirm, deliver, ship, invoice | stock per line, the customer invoice, the tax document, each committed by itself | several services one after the other, no common transaction, retry after half of it |
| Procurement (`procurement.service.ts:156-307, 358-401, 523-783`) | purchase orders with lines, receipts, returns, vendor bills | create (also over an existing id), send, cancel, receive, return; create, submit, pay, cancel a bill | stock in a transaction inside the receipt's; finance's bill of a vendor bill | a rolled back receipt whose stock stays; a save of an old row over a receipt; receipts that name no line of the order |
| Leave (`leave.service.ts:37-273`) | balances per employee, type and fiscal year, requests, compensatory grants | apply (over an existing id), approve, reject, initialize, grant | the clock | search-then-insert without a lock or a unique index; a decision repeated, an approved leave applied for again; the year that turns |
| Bank reconciliation (`finance.service.ts:614-685, 1740-1788`, `bank-reconciliation.service.ts:192-221`) | bank transactions with the entry they match, journal lines with a flag | import, match by hand, by suggestion, automatically | lines of the journal | three ways to choose a line by a read and mark it later |
| Attendance | daily records | check in and out | jobs | one row per employee and day |
| Billing (`billing/`) | subscriptions, invoices | webhooks, crons | two workers of one queue | webhooks out of order |
| Authentication (`auth/`) | sessions, refresh tokens, lockout counters | log in, refresh, log out | Redis | counters and caps under races |
| Manufacturing, POS, assets | work orders by stage, tills, depreciation | start, complete; open, close; run | stock, ledger | as stock and ledger |

The other parts (HR, recruitment, projects, fleet, support, documents,
notifications, chat, search, reports, AI, web application, shared packages) are
listed in `PROJECT.json` under "components" with the reason they are left out:
mostly rows that are created, read, updated and deleted, with no rule that
relates two of them.

What makes the modelled parts correct:

* **Ledger.** The balances of the accounts in one currency agree (debits =
  credits, up to the accepted tolerance) while nothing has been converted. The lines of a posted entry have reached the balances.
  An entry reaches them only after review and approval, and not twice.
* **Bills and batches.** What a bill says is paid was really paid, and the
  ledger knows of what was not paid by a batch. What may be paid has been booked as an expense. A batch
  pays once.
* **Payroll.** Repayments are only taken by an approved run, once per employee;
  a loan's balance is the sum of its repayments and stops at its principal; a
  run does not stay in PROCESSING; a finalized run is in the ledger; what is
  deducted had been withheld.
* **Stock.** No balance is negative; a balance is the sum of its movements; the
  remaining quantity of a batch is the sum of its movements in all bins; an
  issue consumes batches in the order of the product's valuation method.
* **Numbers.** One by one from 1, or from the number configured last, none twice
  and none left out.
* **Sales orders.** One order of a quotation and its versions; what a line says
  was delivered is the stock issued for the deliveries that name it, and no delivery is shipped twice;
  an INVOICED order has its invoice and its tax document.
* **Procurement.** The receipts of an order are the stock received for it; the
  line and the status of an order say what its creator stated and the receipts
  that name the line; a submitted vendor bill is in finance, and a cancelled one is not.
* **Leave.** An approved leave is deducted once and no other is; a balance loses
  no deduction and no grant; there is one per year. (That a balance suffices is
  not among them: the check of `applyLeave` refuses nothing, see
  [findings](#findings).)
* **Reconciliation.** Every matched transaction has a journal line of its own.
* **Connections.** Whoever waits for a connection gets one.

Most of these hold only under conditions: the code takes few locks. A property
then names the condition (two requests at work on one row at the same time, an
entry that failed) and says that *nothing else* breaks it. That is the useful
content: it tells a reader which single cause to remove, and a change to the
code that adds another cause violates the property. Where a document, a comment
or an assertion of the code promises more than that, a run shows the
counterexample (see [findings](#findings)).

## Modules

Every component has a module with its state and actions, an `MC` module with
the small sets for TLC, and proofs: in a `...Proofs` module of its own, or, for
`ConnectionPool`, `NumberSequence`, `BankReconciliation` and `LeaveBalances`,
together in `ComponentProofs`, which extends the four (their definitions have
different names for that reason: `PoolSpec`, `SequenceSpec`, `BankSpec`, and
`Spec` for leave). `Sums` defines the sum of a function over a finite set, with
which the modules and their proofs add up amounts; `SumsProofs` has its lemmas.
No module shares variables with
another: the parts of the API that are modelled meet at a service call or an
event, and each module contains the calls it makes (a payment's ledger entry is
a step of `BillPayments`, the finance listener a step of `PayrollRun`, the
stock of a delivery and the tax document steps of `OrderFlow`, finance's bill a
step of `Purchasing`, the nested transactions a scope of `ConnectionPool`).
`NumberSequence` is shown to implement its specification `ConsecutiveNumbers`
(`Promise == INSTANCE ConsecutiveNumbers WITH ...`, the property
`IsConsecutive`).

### GeneralLedger

`finance.service.ts`, journals and periods. State: `journals` (status, soft
delete and contents of every row), `balance`, `chart` (type and currency) and
`removed` of the accounts, `period`, and the requests in flight.

| Action | Code | Remarks |
|---|---|---|
| `CreateCheck` | `createJournalEntry` 788-825: balance check, period check | the caller chooses the initial status |
| `Load` | `reviewJournal`, `approveJournal`, `rejectJournal`, `postJournal`: read and status check | `Requires` and `Writes` are the table of the workflow |
| `SaveStatus` | the save of review, approval and rejection | waits for a transaction that has written the row |
| `SaveEntry` | the save of an entry inside `createJournalEntry` or `postJournal`, and the accounts of its lines | locks the row until the commit |
| `Commit` | `updateAccountBalances` 927-972 and the commit | `balance = balance + x` in SQL, so no update is lost; each line is converted to the currency its account had when it was read, at a rate of its own; a line whose account is gone is skipped |
| `RejectInsert` | the unique index on the entry number | |
| `Abort` | any failure of a request | |
| `UpdateAccount` | `updateAccount` 220-232 | a new type or currency turns or converts no balance |
| `RemoveJournal`, `RemoveAccount`, `ClosePeriod`, `ReopenPeriod` | the calls of that name | soft deletes; none looks at what refers to the row |

An entry has one debit and one credit line in the currency of the entry:
`updateAccountBalances` treats each line alone, and two lines are what the
balance of an entry needs. `createJournalEntry` also stores a second pair of
amounts per line, converted to the tenant's base currency at the entry's
`exchangeRate` (827-838); no posting reads it and it is left out. What the balances
are computed from is converted by `Converted`, at any rate of `Rates`: the rate
comes from a service, with fallbacks, and two lines may get two different ones.
A posting over accounts of two currencies therefore does unbalance the books of
both: the history variable `unsettled` names the currencies a conversion, a
skipped line or an update of an account has touched, and `BooksBalance` says
that all others balance. What happens
to a balance does not depend on the period of an entry, because `postJournal`
does not read it: `BUSINESS_LOGIC.md:12` says "Transaction must be within an
`accounting_period` where `status === 'OPEN'`", and the code asks at the
creation only. No property is stated about it: a run would only exhibit the
missing check.

### BillPayments

`finance.service.ts` (vendor bills) and `payment-batch.service.ts`. State: the
rows of `bills` and `batches`, the bills with an expense entry, the sum of the
payment entries, requests.

| Action | Code | Remarks |
|---|---|---|
| `CreateBill` | `createBill` | the caller chooses the status; no entry is made |
| `LoadToUpdate`, `SaveStatus`, `BookExpense` | `updateBillStatus` 1260-1294 | any status over any other; APPROVED then enters `BILL-<number>`, a unique number |
| `LoadToPay`, `SavePayment`, `BookPayment` | `recordPayment` 1650-1716 | the entry follows the save |
| `FindPayable`, `CreateBatch` | `createBatch` | approved bills are found before the transaction; their open amounts are frozen in the items |
| `LoadToExport`, `SaveExport` | `generateBankInstructionFile` 117-141 | saves SENT_TO_BANK over any status |
| `LoadToFinalize`, `PayItem`, `FinalizeCommit` | `finalizeBatch` 144-174 | status and bills are loaded before the transaction; the bills are locked one by one |
| `Fail` | any failure | a transaction is rolled back, saves without one stay |

A batch pays its bills without any entry in the ledger
(`payment-batch.service.ts:168` has a TODO), against `BUSINESS_LOGIC.md:9`. The
model makes none either, and `MissingIsBatched` says so: the ledger lacks exactly
what batches have paid.

Left out: updating a bill through `createBill` with an `id`, the three-way
match with purchase order and receipt, tax withheld at source (it splits the
credit of an entry, the amounts the properties compare stay the same), and the
collision of two `PAY-OUT` numbers made in the same millisecond.

### PayrollRun

`payroll.service.ts`, its job handler, and `recordPayrollDisbursement` of the
finance module. State: status of the runs, number of payslips per run and
employee, loans, repayments, advances, the job queue, the ledger entry of the
period, requests and workers.

| Action | Code | Remarks |
|---|---|---|
| `CreateRun` | `createRun`, `createOffCycleRun` | |
| `Load`, `SaveStatus` | `processRun`, `approveRun`, `cancelRun`, `markAsPaid` | `ValidNext` is `validateTransition` |
| `Enqueue` | `processRun` 275-285 | after the save of PROCESSING |
| `Take`, `Compute` | `executeRunComputation` 290-513 | appends a payslip per employee, saves REVIEW whatever the status was |
| `Stall`, `JobFails` | BullMQ: stalled jobs are delivered again up to `maxStalledCount`; a handler that throws is not (one attempt) | a stalled worker may still be running and commit |
| `FinalizeRead`, `FinalizePay`, `FinalizeCommit` | `finalizeRun` 632-722: per payslip, find the employee's ACTIVE loans, save a repayment and the loan; then the advances and the run | the save of the run carries the payslips it was loaded with; a payslip added since would lose its NOT NULL run and the database refuses |
| `Emit` | `payroll.processed` and its listener | the entry number `PR-<period>` is unique |
| `UpdateAdvance` | `updateAdvanceStatus` 994-1005 | any status over any other; its read and its save are one step, because the save writes the status that was asked for whatever the row says by then |
| `Fail` | any failure of a request | a job not yet added, an event not yet heard, is lost |

### StockLedger

`inventory.service.ts:71-549` for one product. State: `stock` per place and
batch (a place is a bin of a warehouse, or the warehouse outside its bins),
`remaining` per batch, `moved` (the sum of the movements of a row) and
the transactions in progress with everything they hold: the batches in memory,
what they have written, their locks.

| Action | Code | Remarks |
|---|---|---|
| `ReceiveStock`, `IssueStock`, `TransferStock`, `AdjustStock` | the first reads of each transaction | a transfer checks its source here |
| `NextRow` | the loop of `issueStock` over what it has found | in the order `Earlier` of the query: by expiry for FEFO, by receipt for the others. For LIFO the query orders by `receivedDate` DESC (337) and then by the same key ASC (338), which replaces the first: oldest first, as for FIFO |
| `SecondLine` | the destination of a transfer | |
| `SaveBatch` | `manager.save(batch)` | an absolute number from the load; takes the lock of the batch. The rows of two bins carry two objects of one batch, so an issue that takes from both saves it twice, each time from what was loaded (history variable `split`) |
| `ReadRow`, `WriteRow` | `updateInventoryBalance` 71-121 | reads the row without a lock, refuses a negative result, saves an absolute number |
| `Commit`, `Rollback` | end of the transaction | an issue that misses something is refused, unless the product may go negative |

The rows exist from the start, with what earlier receipts have left. Left out:
the unit cost of an issue, which is computed beside the loop, serial numbers and
variants.

### NumberSequence, an implementation of ConsecutiveNumbers

`sequence.service.ts`. `Find` is the read under `pessimistic_write` (it waits
for the lock), `Take` the save, the commit and the number the caller gets;
`FindNoRow` and `Create` are the first use of a document type, `Rollback` is
any failure (all under `SequenceNext`, by the requests in `Callers`);
`FindToConfigure`, `Configure` and `CreateConfigured` are `configureSequence`,
which nothing in the repository calls yet, but which the service exports. A
configuration may name the value that comes next; without one the counter that
was read is saved back. The
callers of `getNextNumber` are payment batches (`payment-batch.service.ts:67`)
and mushak documents (`mushak.service.ts:28` and 58).

`ConsecutiveNumbers` is the promise: each step appends the number that follows,
counted from 1 or from the one configured last (`Restart`), until the sequence
is `disturbed`. The refinement maps `issued`, `start` and `disturbed` to
themselves. `disturbed` becomes true when a second row is inserted or when a
counter is overwritten by a stale one, so the theorem says that these two
are the only ways to a wrong number.

### ConnectionPool

The pool of `database.module.ts`, who takes connections from it and what they
do while they hold one. A use of a connection is a pair of a task (a tenant's
request, or a job outside a tenant context) and a purpose: `context`
(`runInTenantContext` keeps a connection for the whole handler), `transaction`,
`inner` (a transaction opened by a service that is called inside another
transaction: `completeStockCount` calls `adjustStock`, `createGRN` calls
`receiveStock`, `createPurchaseReturn` calls `issueStock`), a single query of a
repository, or `runner` (`getTenantManager`, which the recruitment service calls
through `getRepo` once for every repository a handler uses: `RunnersOf`; `repos`
counts the calls of the handler in progress). A request that recruits opens no
transaction, as no handler of that service does.
`Ask...` joins the queue, `Grant` gives a free connection to the first in it
(pg-pool is external and FIFO), `Release` ends a use. A handler runs on only
when nothing it has asked for is outstanding, except that it may have several
queries under way (`Promise.all`).

`database.module.ts:13-45` sets neither a pool size nor a connection timeout:
pg-pool defaults to ten connections and to waiting without limit.
`NUROX_ERP_MASTER_ARCHITECTURE.md:1392-1394` describes 20 connections and a
timeout of 5000 ms.

Not modelled: a `Promise.all` that rejects while its other queries are still
under way (a handler could then go on with a query outstanding), and the
restart of the process, which empties the pool.

### OrderFlow

`sales-order-flow.service.ts` and `resendQuotation` of `sales.service.ts`. State:
quotations (with the first version of each), orders with their line, delivery
orders, the stock issued for an order, the orders with an invoice, those with a
tax document, the requests in flight.

| Action | Code | Remarks |
|---|---|---|
| `CreateQuotation` | `createQuotation` 109-140 | |
| `LoadToSend`, `SaveSent` | `sendQuotation` 142-152 | from DRAFT only |
| `LoadToResend`, `SaveExpired`, `CreateVersion` | `resendQuotation` (`sales.service.ts:163-183`) | any status; the old row is saved as EXPIRED before the copy, which keeps the *loaded* status; the number of the copy is unique, so a quotation has one next version |
| `LoadToConvert`, `SaveAccepted`, `CreateOrder` | `convertQuotationToSalesOrder` 171-241 | from DRAFT or SENT; two saves |
| `LoadToConfirm`, `SaveConfirmed` | `confirmSalesOrder` 260-267 | |
| `LoadToDeliver`, `CreateDelivery` | `createDeliveryOrder` 439-472 | compares no quantity with the order's; stores any `soLineId`, that of the order's line (`known`) or another |
| `LoadToShip`, `IssueStock`, `SaveLine`, `SaveShipped`, `SaveDelivered` | `shipDeliveryOrder` 474-523 | stock, the line, the delivery and the order are four commits; without a line of that id the stock is issued and no line is saved (504), which `astray` adds up |
| `LoadToInvoice`, `CreateInvoice`, `CreateMushak63`, `SaveInvoiced` | `createInvoiceFromSalesOrder` 269-426 | the invoice `INV-<order number>` is refused when it exists (`finance.service.ts:239-246`) |
| `Fail` | any failure of a request | what was saved stays |

A save of an order writes its status and its line from memory, since the lines
are loaded with it and cascade. A delivery has one line: with more, `IssueStock`
and `SaveLine` repeat for each. `Ordered` is the quantity that decides between
PARTIALLY_DELIVERED and DELIVERED. What an invoice contains is not modelled, nor
is `removeInvoice` (`finance.service.ts:387-390`): it deletes softly, the row keeps its
unique number, and "the order has its invoice" in `InvoicedIsDocumented` means
that row.

### Purchasing

`procurement.service.ts`. State: purchase orders with their line, vendor bills,
the quantity of the committed receipts, the stock received, returns with their
stock issued and with their debit note, the vendor bills finance knows of.

| Action | Code | Remarks |
|---|---|---|
| `CreatePO` | `createPO` 156-178 | the caller states the quantities of the line, received and cancelled included |
| `FindToCreate`, `SaveCreated` | `createPO` with the id of an order that exists | the body is spread over it: DRAFT again, the quantities of the body |
| `LoadToSend` | `sendPOByEmail` 193-217 | the mail is sent between the load and the save |
| `LoadToCancel`, `LoadToCancelPart` | `cancelPurchaseOrder` 523-553 | in any status |
| `CompareOrder`, `WriteOrder` | the save of the three: TypeORM reads the row again, then writes the columns that differ | here the two statements are two steps, because the write may have to wait for a receipt's lock in between |
| `LoadToReceive`, `CompareLine`, `WriteLine`, `ReceiveStock`, `CompareClosed`, `CommitReceipt` | `createGRN` 252-307 | the line is written and locked, `receiveStock` commits a transaction of its own, then the order, its lines and the receipt commit; a receipt whose `poLineId` is no line of the order (274) goes on to the stock and changes no line |
| `StartReturn`, `ReturnStock`, `SaveDebitNote` | `createPurchaseReturn` 358-401 | the same with `issueStock` |
| `CreateVendorBill` | `createVendorBill` 594-704 | |
| `LoadToSubmit`, `BookBill`, `SaveSubmitted` | `submitVendorBill` 723-763 | finance's bill commits first, its number is unique |
| `LoadToPay`, `SavePaid`; `LoadToCancelBill`, `SaveCancelled` | `markVendorBillPaid`, `cancelVendorBill` 766-783 | cancelling leaves finance's bill alone |
| `Fail` | any failure, and the victim of a deadlock | an open receipt is rolled back, the stock stays |

`due` (history) is what the line of an order should say was received: what the
last creation stated and what the receipts since that name the line have added.
`amendPO` (319-327) is not modelled: it puts the order into a JSON column of
itself, which cannot be serialized, so a call fails before its save unless its
unchecked body replaces that column. The cancelled quantity is an integer and
may be negative: a receipt may exceed the order, and cancelling then saves the
difference.

### LeaveBalances

`leave.service.ts`. State: balances (account, fiscal year, days, used days),
leave requests, the days of the recorded grants, the fiscal year. An account is
a leave type of an employee.

| Action | Code | Remarks |
|---|---|---|
| `FindToApply`, `FindNoneToApply`, `CreateToApply`, `Submit` | `applyLeave` 46-90 with `createProRatedBalance` 114-123 | a balance is opened when none is found; the check compares with a `totalDays` that no body has and refuses nothing; the application is saved over the leave whose id it names, whatever its status |
| `FindNoneToInitialize`, `CreateToInitialize` | `initializeBalances` 125-150 | per leave type |
| `LoadToDecide`, `FindToCharge`, `FindNoneToCharge`, `SaveCharged`, `SaveDecided` | `approveLeave` 152-198 (approvals by manager and HR, rejections) | looks at no earlier status; the balance is saved before the request |
| `FindToGrant`, `FindNoneToGrant`, `OpenToGrant`, `SaveRaised`, `RecordGrant` | `grantCompensatoryLeave` 235-273 | the balance is saved before the grant |
| `NewYear` | `fiscalYear` 37-44 | read from the clock at every use |
| `Fail` | any failure, and the clash check of `applyLeave` | |

The leaves of the model exist from the start, as rows inserted otherwise: the
body of an application has no `totalDays`, which the table requires, so over HTTP
an application is stored only with the `id` of an existing leave, whose days it
keeps and whose status it puts back to PENDING (`Rewritten`).

The table of balances has no unique index, so several rows of one account and
year can exist, and a search returns any of them. The calendar (half days,
holidays, who is on leave) is not modelled. The year-end job
(`leave-processor.service.ts`) is not an action: nothing in the repository adds
it to its queue, and it inserts balances without a tenant, which the column
`tenant_id` refuses, so it would stop at its first one.

### BankReconciliation

State: imported transactions, the entry each is matched with, the reconciled
lines of the ledger account of one bank account, and what the requests in flight
(`Matchers`) have read.

| Action | Code | Remarks |
|---|---|---|
| `ImportTransaction` | `importBankStatement` (`finance.service.ts:1740-1752`) | |
| `LoadToReconcile`, `FindLine`, `CommitReconciled` | `reconcileTransaction` 1754-1788 | any transaction with any entry; the transaction is saved, and locked, before a line is looked for; no line is no error |
| `FindUnreconciled`, `PickBest`, `PickNone`, `CommitMatch`, `FinishMatching` | `autoMatchTransactions` 614-685 | the transactions are read once; a commit per match |
| `CheckBoth`, `CommitChecked` | `reconcile` (`bank-reconciliation.service.ts:192-221`) | both rows are looked at, then both are saved |
| `FailMatching` | any failure | |

A save of a transaction that already has the entry writes nothing and takes no
lock. Which of several lines that fit scores best depends on dates and
references; the model takes any. `Fits` says which transactions and lines agree
in amount and date.

## Runs

Each run checks the properties of its `.cfg`; for each of them `PROJECT.json`
names a mutant of the code that violates it in the same run, so none holds
merely by the shape of the model or by too small a bound.

| Run | Instance and bounds | What it shows |
|---|---|---|
| `ledger` | 1 entry number, 2 accounts in one currency (one of each normal side), to be removed or changed to another type and currency, 1 rate, 1 period, 2 requests; an entry that is a cent off; at most 2 postings started; `FairSpec`, deadlock checked | `BooksBalance`, `PostedIsApplied`, `PostingIsSigned`, `DoublePostingNeedsRace`, `RequestsEnd` |
| `payroll` | 1 run, 1 employee with a loan of two instalments, 2 requests, 1 worker, a job that may stall once; 2 jobs, 2 finalizations | `RepaymentsWereApproved`, `BalanceIsRepayments`, `RepaymentStops`, `FinalizedTwiceNeedsRace`, `ProcessedIsJournalled` |
| `payroll_live` | the same with 1 request, 2 workers, 1 finalization, an advance that may be approved or set to DEDUCTED by a user at any time; `FairSpec` | `ProcessingEnds`, `DeductedWasWithheld` |
| `stock` | 2 warehouses, one with 2 bins, 2 batches of which the later expires first (the first in both bins, the second in one), quantities 1 and 2, 2 transactions at a time and 2 that are not rolled back, FEFO | `NeverNegative`, `BatchLockProtects`, `RemainingIsMoved`, `ConsumesInOrder` |
| `numbers` | 2 rows, 3 callers, configurations with 1, 5 or no next value, no new transaction after 3 numbers | `IsConsecutive` (refinement) |
| `payables` | 1 bill of 2 units, 1 batch, 2 requests, payments of 1, no payment started after 3 were paid, 2 finalizations | `MissingIsBatched`, `PaidNotInvented`, `PayableIsExpensed`, `PaidTwiceNeedsExport` |
| `orders` | 2 quotations, created as drafts, 2 orders for 2 units, 2 deliveries of 1, of a known or an unknown line, 2 requests, 8 calls | `InvoicedIsDocumented`, `HalfInvoicedStays`, `IssuedIsDelivered`, `ShippedTwiceNeedsFailure`, `OneOrderPerQuotation` |
| `purchasing` | 1 order for 1 or 2 units with 0 or 1 stated as received and as cancelled, 1 vendor bill, receipts (of a known or an unknown line) and cancellations of 1, 2 requests, 4 calls | `StockIsDocumented`, `OrderAgrees`, `SubmittedIsBooked` |
| `leave` | 2 accounts (annual leave of 1 day, compensatory leave), 3 rows of balances, 2 leaves of 1 day, 2 fiscal years, 2 requests, 4 calls | `TypeOK`, `ApprovedIsDeducted`, `ChangesAreKept`, `OneBalancePerYear` |
| `reconciliation` | 3 transactions, 3 lines in 2 entries, two transactions that fit one line, 2 requests, 4 calls | `BankTypeOK`, `OwnLine`, `MarkedIsMatched` |
| `pool` | 4 connections, 2 requests (one recruits with 2 repositories, the other opens transactions), 1 job, 1 query at a time per handler; `FairSpec` | `ExhaustionNeedsLoad`, `ExhaustedForEver`, `ServedUnlessExhausted` |
| `pool_leak` | 3 connections, 1 request at a time, which recruits with 1 repository; `FairSpec` | violated: `WaitingEnds` |

Why the bounds are enough for what the properties ask:

* Two requests give every interleaving of two handlers, and the properties
  speak of pairs: who overlapped with whom. Three are needed for numbers, where
  one request holds the lock, one waits for it, and one configures. The
  theorems below cover any number for the properties that are proved.
* Two postings, two finalizations, two jobs per run are the smallest number at
  which "twice" can happen; the bounds stop a third from starting. Two
  transactions on stock lose an update when they overlap, and any number of
  others may be rolled back around them.
* An entry a cent out of balance uses up the tolerance with each posting, which
  an exact one would not. That two currencies stay apart (a conversion leaves the
  books of a third alone) is proved for every chart and not checked by this run,
  whose two accounts end up in the two currencies that any conversion unsettles.
* Two batches are what the order of an issue needs, two bins what it takes to
  load a batch twice, two warehouses what a transfer needs. The later batch
  expires first, so that FEFO differs from the order of receipt. One bill is enough for payments because rows of different
  bills never meet in one check except in `createBatch`, which takes each bill
  alone. A loan of two instalments has a first one that does not end it and a
  last one that does.
* The runs of whole documents bound the number of calls. Eight calls take an
  order from its quotation through two deliveries to its invoice with a call
  that interferes or is repeated; four take a purchase order through two
  receipts, a cancellation and a second creation, or a bill through submission,
  payment and a second try; four calls apply, approve, apply and approve again; four matches
  are more than the three lines can take. A failure costs no call of its own,
  a retry does. Two orders are needed for two orders of one quotation; a second
  purchase order would share nothing with the first.
* A request that recruits keeps its context, the other request a context and a
  transaction, the job a transaction: so the four connections of the `pool` run
  are exhausted by load alone, by leaks alone and by both. Three are more than the request of `pool_leak` ever
  uses (its context and one runner): two requests, one after the other, leave a
  connection each behind, and the third waits.

`SYMMETRY` permutes requests, workers and interchangeable rows in the runs that
check invariants and action properties only, never in the runs with liveness.

## Fairness

Only the server's own steps are fair; a user owes nothing, and failures are
never required nor excluded. Fairness is stated where a liveness property is
checked: the runs `ledger`, `payroll_live`, `pool` and `pool_leak`.

* `GeneralLedger.FairSpec`: strong fairness of the steps of each request.
  PostgreSQL serves the waiters of a row lock in turn, so a step that is
  enabled again and again (the lock is free again and again) is taken. Weak
  fairness is not enough: two requests could hand the lock to each other.
* `PayrollRun.FairSpec`: weak fairness of each request's next step and of each
  worker's computation, and strong fairness of taking a job *of a given run*:
  BullMQ hands out waiting jobs in order, so the jobs of one run do not wait
  for ever while a worker is free again and again.
* `ConnectionPool.FairSpec`: weak fairness of `Grant` (pg-pool gives a free
  connection to the head of its queue), of the end of a query and of the end of
  an inner transaction (nothing inside it waits for the pool); strong fairness
  of the end of contexts and outer transactions. Handlers are finite programs:
  one that is served whenever it asks cannot query for ever, so a scope that
  may end again and again does end. With weak fairness a handler in the model
  might start one more query each time.

## Proofs

Every invariant, action property and refinement that a passing run checks is
also a theorem, for every value of the constants that meets the named assumption
of the module. Nothing is assumed about the number of rows, requests or workers
but that it is finite where things are counted or added up.

| Module | Theorem | Says |
|---|---|---|
| `GeneralLedgerProofs` | `TypeCorrect`, `PostingSigned`, `SerialPostingIsOnce`, `PostedApplied`, `BooksStayBalanced` | `[]TypeOK`, `[]PostingIsSigned`, `[]DoublePostingNeedsRace`, `[]PostedIsApplied`, `[]BooksBalance` |
| `PayrollRunProofs` | `TypeCorrect`, `OnlyApprovedRepay`, `LoansStop`, `FinalizedOnce`, `FinalizedIsJournalled`, `DeductionsAreExplained`, `BalancesAreRepayments` | `[]TypeOK`, `[]RepaymentsWereApproved`, `[]RepaymentStops`, `[]FinalizedTwiceNeedsRace`, `[]ProcessedIsJournalled`, `[]DeductedWasWithheld`, `[]BalanceIsRepayments` |
| `StockLedgerProofs` | `TypeCorrect`, `StockStaysPositive`, `NoLostUpdateUnderTheLock`, `RemainingFollowsMovements`, `IssuesConsumeInOrder` | `[]TypeOK`, `[]NeverNegative`, `[]BatchLockProtects`, `[]RemainingIsMoved`, `ConsumesInOrder` |
| `BillPaymentsProofs` | `TypeCorrect`, `PayableBillsAreExpensed`, `PaymentsAreNotInvented`, `PayingTwiceIsExplained`, `OnlyBatchesAreMissing` | `[]TypeOK`, `[]PayableIsExpensed`, `[]PaidNotInvented`, `[]PaidTwiceNeedsExport`, `[]MissingIsBatched` |
| `OrderFlowProofs` | `TypeCorrect`, `InvoicedHasDocuments`, `HalfInvoicedForGood`, `DeliveredIsIssued`, `ShippedTwiceIsExplained`, `OneOrderEach` | `[]TypeOK`, `[]InvoicedIsDocumented`, `[]HalfInvoicedStays`, `[]IssuedIsDelivered`, `[]ShippedTwiceNeedsFailure`, `[]OneOrderPerQuotation` |
| `PurchasingProofs` | `TypeCorrect`, `StockHasDocuments`, `SerialOrdersAgree`, `SubmittedHasBill` | `[]TypeOK`, `[]StockIsDocumented`, `[]OrderAgrees`, `[]SubmittedIsBooked` |
| `ComponentProofs`: pool | `PoolTypeCorrect`, `PoolSizeBoundsLoad`, `ExhaustionIsFinal` | `[]PoolTypeOK`, `[]ExhaustionNeedsLoad`, `ExhaustedForEver` |
| numbers | `NumbersTypeCorrect`, `NumbersAreConsecutive` | `[]SequenceTypeOK`, and `IsConsecutive`, the refinement of `ConsecutiveNumbers` |
| bank | `BankTypeCorrect`, `MarkedLinesAreMatched`, `OwnLineForEach` | `[]BankTypeOK`, `[]MarkedIsMatched`, `[]OwnLine` |
| leave | `LeaveTypeCorrect`, `ApprovalsAreDeducted`, `BalancesKeepChanges`, `BalancesOpenedOnce` | `[]TypeOK`, `[]ApprovedIsDeducted`, `[]ChangesAreKept`, `[]OneBalancePerYear` |
| `SumsProofs` | lemmas: `SumInt`, `SumAdd`, `SumPoint`, `SumZero`, `SumSame`, `SumChange` | the sum over a finite set is an integer, adds up, and changes by what one element changes |

**Assumptions.** Journals, accounts, runs, places, batches, bank
transactions, ledger lines, tenants' requests and jobs, and the requests that
pay bills, receive goods or decide leave are finite sets: a database has finitely many rows, a
process finitely many requests in flight, and a sum or a count over them has a
meaning only then. Identifiers of different tables are different
(`Quotes \cap Orders = {}` and the like), `None` is no entry, and every
place lies in a warehouse. Payments, ordered and received quantities, days and
configured numbers are positive integers, what a caller states of an order and
the rates are any integers; the statuses a caller may choose are those the enums
of the code have. No theorem assumes more in its statement.

None of the properties is inductive by itself, because a request may save today
what it checked long ago. The inductive invariants all add the same kind of
fact: *what a request in flight has in memory*.

* **`SignInv` and `RaceInv` (ledger).** A status in the table tells which
  signatures were saved, and so does the row a request is about to save: a
  posting in flight belongs to a cleared journal, an approval in flight to a
  reviewed one. Signatures are never taken away, so a stale save is harmless to
  `PostingIsSigned`. For `DoublePostingNeedsRace`: a journal nobody has raced
  on is held by one request at most, the row has one lock holder, and once such
  a journal reached the balances its status is POSTED or REJECTED, from which
  no posting starts.
* **`BalanceInv` (ledger).** Every entry that was let in, in the table or in a
  request's memory, balances up to the tolerance. The accounts a posting has
  read are as it read them, or both their currencies, old and new, are
  unsettled (`LookupsFresh`). So in a currency that is not unsettled a posting
  changes the sum of the balances by the difference of its own entry or, when
  the entry is of another currency, not at all: however postings interleave,
  also when a journal is applied twice, these books differ by no more than the
  tolerance for each entry applied.
* **`Approval` and `Instalments` (payroll).** A run is APPROVED, PROCESSED or
  PAID only after a saved approval, and so are the runs that requests in flight
  finalize or mark as paid: the worker's stale REVIEW needs no approval, and
  nothing else writes these statuses. `Instalments` bounds every version of a
  loan row: the saved one, the one a transaction has read and the one it has
  written. The bound holds for a stale version as for the current one, so
  saving a stale row keeps it. That is why the balance of a loan stops at its
  principal although concurrent finalizations lose repayments. What the repayment
  *rows* take stops there too as long as no two finalizations shared the loan;
  that half of `LoansStop` follows with `BalancesAreRepayments`.
* **`Turns` (payroll).** A run that nobody raced for, and whose job was not
  delivered again, is in one pair of hands: a request that has loaded it, one
  that will add its job, the queue, or a worker. What the holder was allowed to
  do it still is, and a finalized run is PROCESSED or PAID, from which nothing
  finalizes.
* **`Keeping` (payroll).** Of a loan that no two transactions held at once, the
  saved row is repaid by one instalment for each repayment recorded, summed over
  the runs; one transaction at most has read it, and the row that one has written
  differs from the saved one by the instalments it will commit.
* **`Announced`, `Heard` and `WithheldInTime` (payroll).** A finalized run has its
  event with the request that finalized it or among the lost ones, or the entry
  number of its period is taken, and it is taken by finalized runs only. An
  advance that was APPROVED before its payslip is in the set the worker read, so
  what finalization marks DEDUCTED was withheld or came too late.
  `updateAdvanceStatus` accepts any status: an advance whose last decision was a
  user's DEDUCTED is in `byHand`, and the theorem covers these callers as well.
* **`Checked` and `Locked` (stock).** No balance is negative because every
  *written* balance passed the check, the uncommitted ones of any transaction
  included. For a row that is only updated under the lock of its batch: the
  lock has one holder, only the holder has read or written the row, and what
  it has written differs from the committed balance by exactly the movements
  it will commit.
* **`Accounted` (stock).** Of a batch that no two transactions held at once, and
  that no issue took from two bins, the remaining quantity is the total of the
  movements over all places. What the
  transaction that holds it has in memory is that quantity and its own movements,
  the one included whose batch is saved and whose row is not. A transfer writes
  two rows whose movements cancel out; it holds no batch and leaves the total.
* **`Consuming` (stock).** For each row of the warehouse whose batch an issue holds
  alone it records how far the issue is with it: everything it found is still
  there, it is emptying the row, it has emptied it or found nothing in it, or it
  needs nothing after it. Only past emptied rows does it go on to the next batch
  of its order, whichever `Earlier` that is, so at its commit a batch that was
  touched has only empty ones before it.
* **`Consecutive` (numbers).** Undisturbed, the table has one row at most, its
  counter is the number that is due (`Due`: the one configured last and as many
  as were given out since), and the transaction that has the
  row locked holds that very counter in memory. Each step then maps to a step
  of `ConsecutiveNumbers` or leaves `issued` and `disturbed` alone.
* **`Expensed` and `Honest` (bills).** A batch, or a request that is making,
  exporting or finalizing one, has an item only for a bill that was APPROVED
  when it was found, and an approved bill has its expense, is getting it, or
  failed to get it. No row, in the table or in memory, says more is paid than
  was spent on the bill by now; what was spent only grows, so rows in memory
  stay honest as they age.
* **`BatchRaceIsSeen` and `CompletedOnce` (bills).** Two requests that hold a
  batch at once have raced for it. A batch that was neither raced for nor
  exported again is COMPLETED once it is finalized and in nobody's memory, so
  its status refuses a second finalization.
* **`BillRaceIsSeen`, `Exact` and `BookedOrDue` (bills).** Two requests with a
  bill in memory have raced for it. The row of a bill that nobody raced for, in
  the table and in memory, says exactly what was spent on it. What was recorded
  as a payment is booked, or will be by a request that has saved its payment
  and has not failed: the sum of what these requests owe is the difference. What
  a batch has paid is in the row and nowhere else, so it is exactly what the
  ledger lacks.
* **`Documents` and `OneInvoicing` (orders).** A number is invoiced once, and an
  invoicing that stops leaves the number taken. So at most one request of an
  order is past the invoice, and none once the order is invoiced or an earlier
  invoicing has stopped. Orders are overwritten by confirming and shipping with
  older rows, but no older row is INVOICED with a document missing.
* **`RaceIsSeen`, `IssuedOnce` and `LineAgrees` (orders).** Two requests that
  hold a row at the same time have raced for it. A delivery or an order that
  nobody has raced for has one holder, who therefore has the row itself in
  memory: a delivery whose stock is issued is no longer a draft, or its holder
  is past the issue, or its shipping has failed; the line in memory and the
  line in the table differ from the issued stock by what is still to be saved and
  by what deliveries of unknown lines took (`astray`).
* **`QuoteInv` (orders).** The versions of a quotation have one claim to an
  order between them: the version that is still open, or the request that has
  closed it and is about to insert the next version or the order, or the order.
  Each step hands the claim on, as long as no two requests held a version at
  once; a family of versions never gains a second one.
* **`StockInv` (procurement).** Receipts of unknown lines lock nothing, so several
  receipts of an order may be between their stock and their commit. The stock is
  ahead of the committed receipts by the sum of their quantities (`AheadOf`),
  unless one of them failed there.
* **`OrderInv` (procurement).** Of an order nobody has raced for, the columns in
  the table are those in memory, but for the ones the holder has changed, and
  both rows make sense: a status that claims a quantity has it, and the line says
  what is `due`, in memory with what the receipt in progress adds (`Fits`). A save
  writes the changed columns only, so it must hold for the mixture as well.
* **`Submission` and `Cancellation` (procurement).** The unique number lets one
  request at most be between finance's bill and the save, and while it is there
  the vendor bill can be neither submitted nor paid by another.
* **`LeaveKnown` (leave).** A step of a request writes only rows it has in memory
  (`OwnStep`), and a row that two requests have in memory is `raced`
  (`LeaveSeen`); so for as long as a balance or a leave is unraced, what a
  request has read of it is what the table holds (`Fresh`). The next two
  invariants of leave build on it.
* **`LeaveDecided` (leave).** A leave that is not raced for, reopened, left half
  decided or charged to nothing has been deducted once if it is APPROVED and not
  at all otherwise; the request that has saved the deduction is the one that
  will save the status.
* **`LeaveKept` (leave).** An unraced balance has the days of its quota and of
  the grants recorded on it, plus those of the grants whose request has raised
  the balance and not recorded them yet (a sum over the requests in flight), and
  its used days are those charged to it.
* **`LeaveOpened` (leave).** A request that found no balance of an account and a
  year is about to open one. Unless the pair is `contested`, no other request is,
  and there is still none in the table; so the one it inserts is the only one.
* **`Reconciling` (bank).** What two requests have decided to save is `shared`.
  For all other rows, what a request has read when it decided still holds when
  it commits: the transaction is unmatched, the line is not reconciled. So a
  marked line is that of a matched transaction, and counting the lines of an
  entry against the transactions matched with it gives each one its own.
* **`Kept` (pool).** A task in an inner transaction waits for nothing, and a
  task that waits for an inner transaction waits for nothing else. So whoever
  waits keeps a context and a transaction at most, and counting the connections
  of an exhausted pool bounds its size by the load. An exhausted pool stays so
  because nothing that holds a connection can take a step.

Read `PoolSizeBoundsLoad` the other way round: with no leak, a pool larger than
twice the number of requests plus the number of jobs served at the same time is
never exhausted, and `ServedUnlessExhausted` (model-checked) says that
exhaustion is the only way to wait for ever.

**Sums.** `BooksBalance`, `BalanceIsRepayments`, `RemainingIsMoved`,
`MissingIsBatched`, `StockIsDocumented` and `ChangesAreKept` are about sums, or their invariants are. `Sum`
is a fold, whose recursion takes the elements in an order nobody chose.
`SumsProofs` first shows that its recursive function exists, by well-founded
induction on the size of the subsets, and then derives the lemmas by induction
on the subsets themselves. The library's induction theorems take a predicate as
a parameter, which the provers do not instantiate; the statement to be proved is
therefore the membership in a *set* of subsets (`PickInduction`), a first-order
fact. The proofs about components only use the lemmas.

**Only model-checked.** Liveness (`RequestsEnd`, `ProcessingEnds`,
`ServedUnlessExhausted`): it needs fairness and `ENABLED`, which the prover does
not handle. Everything else the passing runs check is proved as well.

## Not modelled

`PROJECT.json` gives the reason for each component. In short:

* *Planned* (see below): receivables, attendance, authentication,
  manufacturing, point of sale, and the payslip computation as recursive
  functions.
* *Operations that cannot take effect as they are deployed.* Payment webhooks
  (`billing.controller.ts:165`) need the raw body of a request, which `main.ts:17`
  does not keep, so each is refused with 400 and no subscription changes.
  `completeStockCount` adjusts differences from counted quantities that no
  operation writes. `amendPO` saves nothing unless its body replaces the history it
  would store. The leave year-end job and the
  recurring invoices and journals insert rows without a tenant, which the
  tables refuse.
* *One operation on one row:* petty cash (whose opening balance
  `finance.service.ts:499-519` counts twice, once as the fund and once as its
  first transaction), requisitions, requests for quotation.
* *Rows without rules between them:* HR, recruitment, projects, fleet, support,
  users, catalogue data. The web application and the schema migrations, more
  than half of the repository's code, hold no transitions of the state kept by
  the API.
* *Input and output:* notifications, mail, SMS, chat, search, reports, AI,
  integrations, the web application, infrastructure.
* *The isolation of tenants* (row level security, session settings) is not a
  subject here; every module is the system as one tenant sees it.

Within the modelled parts: row creation where the table is empty at first
(stock balances, batches), floats (natural numbers stand for cents and units),
and the identities of people (who reviewed, who approved). Hazards that no
property covers carry a note in `PROJECT.json`.

## Findings

The run `pool_leak` exhibits a place where the code does something else than the
repository says of it, reached by ordinary calls:

* `tenant-connection.service.ts:73`: the query runner behind `getTenantManager`
  is never released, and `RecruitmentService.getRepo` (`recruitment.service.ts:49`)
  takes one for each repository it uses. Each request to the recruitment module
  leaves at least one connection checked out for good. The pool has no connection
  timeout, so the request after the last connection waits for ever; the
  architecture document (`NUROX_ERP_MASTER_ARCHITECTURE.md:1394`) gives 5000 ms.

The passing runs contain more departures: a property that reads "unless ..."
names each of them and shows that it is the only cause. The ones a reader will
want to know of:

| Where | What the code does | Named by |
|---|---|---|
| `finance.service.ts:938` | a posting between accounts of different currencies converts each line for itself, and nothing books the difference | `BooksBalance`, `unsettled` |
| `payment-batch.service.ts:168` | finalizing a batch pays its bills and books nothing, although `BUSINESS_LOGIC.md:9` says every payment must use the JournalService | `MissingIsBatched` |
| `inventory.service.ts:338` | LIFO issues oldest first, although the comment of `issueStock` (296) says "Handles FIFO/LIFO valuation": the second `orderBy` of the key replaces the first | `Earlier`, in `ConsumesInOrder` |
| `inventory.service.ts:362` | one issue from two bins saves their common batch twice and forgets what the first bin gave | `RemainingIsMoved`, `split` |
| `payroll.service.ts:493, 643` | a run sent back from REVIEW to PROCESSING gets a second payslip for everybody, and `finalizeRun` repays loans per payslip, not "per employee in this run" | `RepaymentStops` bounds the damage |
| `payment-batch.service.ts:135` | exporting a completed batch makes it SENT_TO_BANK again, and 'Batch is already completed' guards its finalization no longer | `PaidTwiceNeedsExport` |
| `inventory.service.ts:435` | two transfers of the same stock are both accepted: the source falls once, both destinations rise | `BatchLockProtects` holds for rows updated under the lock of the batch only |
| `sequence.service.ts:26` | the first two callers of a document type find no row to lock and both get number 1 | `IsConsecutive` until `disturbed` |
| `leave.service.ts:67` | "Check balance first" compares with a `totalDays` that the schema of the request (`attendance.schema.ts:134-144`) does not have, so "Insufficient leave balance" is never thrown | no property: `FindToApply` has no such guard |
| `leave.service.ts:84, 179` | an application with the id of an approved leave puts it back to PENDING with its days deducted; approving it again, or an approved leave, deducts the days again | `ApprovedIsDeducted`, `reopened` |
| `sales-order-flow.service.ts:504` | the stock of a delivery whose line id is unknown leaves and no line counts it | `IssuedIsDelivered`, `astray` |
| `procurement.service.ts:171, 274` | an order created again by its id is a draft with the quantities of the body, over its receipts; a receipt of an unknown line moves stock and no line | `OrderAgrees`, `due` |
| `sales-order-flow.service.ts:381` | an order whose invoicing stopped after the invoice can never be marked INVOICED | `HalfInvoicedStays` |
| `procurement.service.ts:280` | the stock of a receipt that is rolled back stays | `StockIsDocumented`, `broken` |
| `procurement.service.ts:740, 782` | a vendor bill whose submission stopped half way can never be submitted; a cancelled one stays payable in finance | `SubmittedIsBooked` |
| `finance.service.ts:1767` | matching a transaction by hand again leaves its first line reconciled with nothing | `MarkedIsMatched`, `rematched` |

## Plan

Done, in this order: `GeneralLedger`, `PayrollRun`, `StockLedger`,
`ConsecutiveNumbers` and `NumberSequence`, `BillPayments`, `ConnectionPool`,
`OrderFlow`, `LeaveBalances`, `Purchasing`, `BankReconciliation`, each with its
MC module and configuration, and proofs of all their safety properties.

Next, the model (in order of what most of the system depends on):

1. **Receivables**: `updateInvoiceStatus`, `convertProformaToInvoice`, credit
   notes and receipts, together with the vendor side as one open-item ledger; an
   abstract open-item account that both refine.
2. **Sessions and lockout**, **work orders** (stage by stage, on stock), **POS**,
   **attendance**.
3. **Payslips** as recursive functions against a reference definition.

The new parts extend the runs that exist where they share state, so that the
number of runs stays small.

Next, the proofs: those of the new parts, first of all that the receivables and
the payables both implement the open-item account.

## How to run

    tlc -config MCGeneralLedger.cfg MCGeneralLedger
    tlapm GeneralLedgerProofs.tla

and likewise for the other modules. The runs take from a second to two
minutes each with two workers; the proofs take some ten minutes in all,
`ComponentProofs` and `OrderFlowProofs` the longest. The modules need the TLA+
community modules (`Sums` uses `Folds`) and, for the proofs, the TLAPS library.
