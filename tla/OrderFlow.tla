----------------------------- MODULE OrderFlow -----------------------------
(***************************************************************************)
(* From a quotation to its sales order, its deliveries and its invoice:    *)
(* sales-order-flow.service.ts and resendQuotation.                        *)
(*                                                                         *)
(* No operation is a transaction.  Each loads rows without a lock, calls   *)
(* other services, which commit by themselves, and saves its rows one      *)
(* after the other as it has changed them in memory.  An order has one     *)
(* line, and so has a delivery: its lines are shipped one after the other  *)
(* and independently.  The line of a delivery need not name the line of    *)
(* its order.  removeInvoice deletes softly: the row of the invoice and    *)
(* its number stay, so an invoice that exists here may be a deleted one.   *)
(***************************************************************************)
EXTENDS Integers

CONSTANTS
    Quotes,      \* rows of quotations
    Orders,      \* rows of sales orders
    Deliveries,  \* rows of delivery orders
    Ordered,     \* the quantity of the line of every order
    Quantities,  \* the quantities callers deliver
    Created,     \* the statuses callers create a quotation in
    Requests,    \* requests the API may serve at the same time
    Calls,       \* the operations callers use
    MaxCalls     \* bound: requests that start

QuoteStatus == {"DRAFT", "SENT", "ACCEPTED", "REJECTED", "EXPIRED"}
OrderStatus == {"DRAFT", "CONFIRMED", "PARTIALLY_DELIVERED", "DELIVERED", "INVOICED"}
DeliveryStatus == {"DRAFT", "SHIPPED"}

ASSUME OrderAssumption ==
    /\ Quotes \cap Orders = {} /\ Quotes \cap Deliveries = {} /\ Orders \cap Deliveries = {}
    /\ Ordered \in Nat \ {0}
    /\ Quantities \subseteq Nat \ {0}
    /\ Created \subseteq QuoteStatus
    /\ Calls \subseteq {"send", "resend", "convert", "confirm", "deliver", "ship", "invoice"}
    /\ MaxCalls \in Nat

VARIABLES
    quotes,      \* the row of every quotation and the first version of it
    resent,      \* the quotations whose next version exists
    orders,      \* the row of every order with its line
    deliveries,  \* the row of every delivery order with its line
    issued,      \* the stock issued for the deliveries of an order
    invoices,    \* the orders whose invoice INV-<order number> exists
    taxed,       \* the orders with a tax document
    req,         \* the requests in progress
    calls,       \* how many requests have started
    \* history, read by the properties only
    raced,       \* rows two requests have held at the same time
    shipments,   \* how often the stock of a delivery was issued
    astray,      \* the part of issued for deliveries that name no line of the order
    broken,      \* deliveries and orders whose shipping failed half way
    halted       \* orders whose invoicing failed after the invoice

table == <<quotes, resent, orders, deliveries, issued, invoices, taxed>>
history == <<raced, shipments, astray, broken, halted>>
vars == <<table, req, calls, history>>

NoRow == [status |-> "NONE"]
QuoteRow == [status : QuoteStatus, first : Quotes]
OrderRow == [status : OrderStatus, quote : Quotes, delivered : Nat]
\* known: the soLineId of the delivery is that of the line of its order.
DeliveryRow == [status : DeliveryStatus, order : Orders, quantity : Nat, known : BOOLEAN]

Idle == [pc |-> "idle"]
QuoteRequest == [pc : {"send", "expire", "version", "accept", "order"}, quote : Quotes,
                 row : QuoteRow]
OrderRequest == [pc : {"confirm", "invoice", "tax", "mark"}, order : Orders, row : OrderRow]
DeliverRequest == [pc : {"deliver"}, order : Orders, quantity : Nat, known : BOOLEAN]
ShipRequest == [pc : {"issue", "line", "ship", "settle"}, delivery : Deliveries, order : Orders,
                row : OrderRow, quantity : Nat, known : BOOLEAN]
Request == {Idle} \cup QuoteRequest \cup OrderRequest \cup DeliverRequest \cup ShipRequest

TypeOK ==
    /\ quotes \in [Quotes -> QuoteRow \cup {NoRow}]
    /\ resent \subseteq Quotes
    /\ orders \in [Orders -> OrderRow \cup {NoRow}]
    /\ deliveries \in [Deliveries -> DeliveryRow \cup {NoRow}]
    /\ issued \in [Orders -> Nat]
    /\ invoices \subseteq Orders /\ taxed \subseteq Orders
    /\ req \in [Requests -> Request] /\ calls \in Nat
    /\ raced \subseteq Quotes \cup Orders \cup Deliveries
    /\ shipments \in [Deliveries -> Nat] /\ astray \in [Orders -> Nat]
    /\ broken \subseteq Orders \cup Deliveries /\ halted \subseteq Orders

Init ==
    /\ quotes = [q \in Quotes |-> NoRow]
    /\ resent = {}
    /\ orders = [o \in Orders |-> NoRow]
    /\ deliveries = [d \in Deliveries |-> NoRow]
    /\ issued = [o \in Orders |-> 0]
    /\ invoices = {} /\ taxed = {}
    /\ req = [r \in Requests |-> Idle] /\ calls = 0
    /\ raced = {} /\ broken = {} /\ halted = {}
    /\ shipments = [d \in Deliveries |-> 0] /\ astray = [o \in Orders |-> 0]

----------------------------------------------------------------------------
\* The rows a request has in memory and may still save.
Holds(r) ==
    CASE req[r].pc \in {"send", "expire", "accept"}            -> {req[r].quote}
      [] req[r].pc \in {"confirm", "invoice", "tax", "mark"}   -> {req[r].order}
      [] req[r].pc \in {"issue", "line", "ship", "settle"}     -> {req[r].delivery, req[r].order}
      [] OTHER                                                 -> {}

\* An idle request r loads some rows.
Begin(r, new, loaded) ==
    /\ req[r] = Idle
    /\ calls < MaxCalls  \* bound
    /\ calls' = calls + 1
    /\ req' = [req EXCEPT ![r] = new]
    /\ raced' = raced \cup {k \in loaded : \E p \in Requests \ {r} : k \in Holds(p)}
    /\ UNCHANGED <<table, shipments, astray, broken, halted>>

(* createQuotation: the caller chooses the status.                         *)
CreateQuotation(q) ==
    /\ quotes[q] = NoRow
    /\ \E s \in Created : quotes' = [quotes EXCEPT ![q] = [status |-> s, first |-> q]]
    /\ UNCHANGED <<resent, orders, deliveries, issued, invoices, taxed, req, calls, history>>

LoadQuote(r, q, pc, allowed) ==
    /\ quotes[q].status \in allowed
    /\ Begin(r, [pc |-> pc, quote |-> q, row |-> quotes[q]], {q})

SaveQuote(r, status, pc) ==
    LET q == req[r] IN
    /\ quotes' = [quotes EXCEPT ![q.quote] = [q.row EXCEPT !.status = status]]
    /\ req' = [req EXCEPT ![r] = IF pc = "idle" THEN Idle ELSE [q EXCEPT !.pc = pc]]
    /\ UNCHANGED <<resent, orders, deliveries, issued, invoices, taxed, calls, history>>

LoadToSend(r, q) == LoadQuote(r, q, "send", {"DRAFT"})
SaveSent(r) == req[r].pc = "send" /\ SaveQuote(r, "SENT", "idle")

(* resendQuotation: the next version has the status its predecessor had.   *)
LoadToResend(r, q) == LoadQuote(r, q, "expire", QuoteStatus)
SaveExpired(r) == req[r].pc = "expire" /\ SaveQuote(r, "EXPIRED", "version")

\* A mutant of NextVersion: the copy starts again as a draft.
NextVersionDraft(row) == [row EXCEPT !.status = "DRAFT"]
NextVersion(row) == row

CreateVersion(r, n) ==
    LET q == req[r] IN
    /\ q.pc = "version"
    /\ q.quote \notin resent
    /\ quotes[n] = NoRow
    /\ quotes' = [quotes EXCEPT ![n] = NextVersion(q.row)]
    /\ resent' = resent \cup {q.quote}
    /\ req' = [req EXCEPT ![r] = Idle]
    /\ UNCHANGED <<orders, deliveries, issued, invoices, taxed, calls, history>>

(* convertQuotationToSalesOrder: the quotation is saved before the order.  *)
LoadToConvert(r, q) == LoadQuote(r, q, "accept", {"DRAFT", "SENT"})
SaveAccepted(r) == req[r].pc = "accept" /\ SaveQuote(r, "ACCEPTED", "order")

CreateOrder(r, o) ==
    /\ req[r].pc = "order"
    /\ orders[o] = NoRow
    /\ orders' = [orders EXCEPT ![o] = [status |-> "DRAFT", quote |-> req[r].quote, delivered |-> 0]]
    /\ req' = [req EXCEPT ![r] = Idle]
    /\ UNCHANGED <<quotes, resent, deliveries, issued, invoices, taxed, calls, history>>

----------------------------------------------------------------------------
LoadOrder(r, o, pc, allowed) ==
    /\ orders[o].status \in allowed
    /\ Begin(r, [pc |-> pc, order |-> o, row |-> orders[o]], {o})

(* An order is saved with the lines it was loaded with.                    *)
SaveOrder(r, status) ==
    /\ orders' = [orders EXCEPT ![req[r].order] = [req[r].row EXCEPT !.status = status]]
    /\ req' = [req EXCEPT ![r] = Idle]
    /\ UNCHANGED <<quotes, resent, deliveries, issued, invoices, taxed, calls, history>>

LoadToConfirm(r, o) == LoadOrder(r, o, "confirm", {"DRAFT"})
SaveConfirmed(r) == req[r].pc = "confirm" /\ SaveOrder(r, "CONFIRMED")

(* createInvoiceFromSalesOrder.                                            *)
LoadToInvoice(r, o) ==
    LoadOrder(r, o, "invoice", {"CONFIRMED", "DELIVERED", "PARTIALLY_DELIVERED"})

\* A mutant of Numbered: an invoice of the same number is taken for this one.
NumberedAny(o) == TRUE
(* financeService.createInvoice refuses a number that exists.              *)
Numbered(o) == o \notin invoices

\* A mutant of AfterInvoice: the order is marked before the tax document.
AfterInvoiceMark == "mark"
AfterInvoice == "tax"

CreateInvoice(r) ==
    LET q == req[r] IN
    /\ q.pc = "invoice"
    /\ Numbered(q.order)
    /\ invoices' = invoices \cup {q.order}
    /\ req' = [req EXCEPT ![r].pc = AfterInvoice]
    /\ UNCHANGED <<quotes, resent, orders, deliveries, issued, taxed, calls, history>>

CreateMushak63(r) ==
    LET q == req[r] IN
    /\ q.pc = "tax"
    /\ taxed' = taxed \cup {q.order}
    /\ req' = [req EXCEPT ![r].pc = "mark"]
    /\ UNCHANGED <<quotes, resent, orders, deliveries, issued, invoices, calls, history>>

SaveInvoiced(r) == req[r].pc = "mark" /\ SaveOrder(r, "INVOICED")

----------------------------------------------------------------------------
(* createDeliveryOrder: no quantity is compared with the order's, and no   *)
(* soLineId is looked up.                                                  *)
LoadToDeliver(r, o) ==
    /\ orders[o].status \in {"CONFIRMED", "PARTIALLY_DELIVERED"}
    /\ \E n \in Quantities, k \in BOOLEAN :
          Begin(r, [pc |-> "deliver", order |-> o, quantity |-> n, known |-> k], {})

CreateDelivery(r, d) ==
    LET q == req[r] IN
    /\ q.pc = "deliver"
    /\ deliveries[d] = NoRow
    /\ deliveries' = [deliveries EXCEPT ![d] =
                        [status |-> "DRAFT", order |-> q.order, quantity |-> q.quantity,
                         known |-> q.known]]
    /\ req' = [req EXCEPT ![r] = Idle]
    /\ UNCHANGED <<quotes, resent, orders, issued, invoices, taxed, calls, history>>

\* A mutant of Shippable: the status of the delivery is not looked at.
ShippableAny(d) == deliveries[d] # NoRow
Shippable(d) == deliveries[d].status = "DRAFT"

(* shipDeliveryOrder loads the order and its lines with the delivery.      *)
LoadToShip(r, d) ==
    LET row == deliveries[d] IN
    /\ Shippable(d)
    /\ Begin(r, [pc |-> "issue", delivery |-> d, order |-> row.order, row |-> orders[row.order],
                 quantity |-> row.quantity, known |-> row.known], {d, row.order})

(* issueStock is a transaction of its own.                                 *)
IssueStock(r) ==
    LET q == req[r] IN
    /\ q.pc = "issue"
    /\ issued' = [issued EXCEPT ![q.order] = @ + q.quantity]
    /\ astray' = IF q.known THEN astray ELSE [astray EXCEPT ![q.order] = @ + q.quantity]
    /\ shipments' = [shipments EXCEPT ![q.delivery] = @ + 1]
    /\ req' = [req EXCEPT ![r].pc = "line"]
    /\ UNCHANGED <<quotes, resent, orders, deliveries, invoices, taxed, calls, raced, broken,
                   halted>>

\* A mutant of Shipped: the line keeps the last quantity only.
ShippedLast(row, n) == [row EXCEPT !.delivered = n]
Shipped(row, n) == [row EXCEPT !.delivered = @ + n]

(* The line is saved alone, with the quantity the loaded line had; nothing *)
(* is saved when the order has no line of that id.                         *)
SaveLine(r) ==
    LET q == req[r] IN
    /\ q.pc = "line"
    /\ \/ /\ q.known
          /\ orders' = [orders EXCEPT ![q.order].delivered = Shipped(q.row, q.quantity).delivered]
          /\ req' = [req EXCEPT ![r] = [q EXCEPT !.pc = "ship", !.row = Shipped(q.row, q.quantity)]]
       \/ /\ ~q.known
          /\ orders' = orders
          /\ req' = [req EXCEPT ![r].pc = "ship"]
    /\ UNCHANGED <<quotes, resent, deliveries, issued, invoices, taxed, calls, history>>

SaveShipped(r) ==
    LET q == req[r] IN
    /\ q.pc = "ship"
    /\ deliveries' = [deliveries EXCEPT ![q.delivery].status = "SHIPPED"]
    /\ req' = [req EXCEPT ![r].pc = "settle"]
    /\ UNCHANGED <<quotes, resent, orders, issued, invoices, taxed, calls, history>>

(* The status of the order follows its line, whatever it was.              *)
SaveDelivered(r) ==
    /\ req[r].pc = "settle"
    /\ SaveOrder(r, IF req[r].row.delivered >= Ordered THEN "DELIVERED" ELSE "PARTIALLY_DELIVERED")

----------------------------------------------------------------------------
(* A request that fails, or whose process dies, before its last save.      *)
Fail(r) ==
    LET q == req[r] IN
    /\ q # Idle
    /\ req' = [req EXCEPT ![r] = Idle]
    /\ broken' = broken \cup
         CASE q.pc = "line"               -> {q.delivery, q.order}
           [] q.pc \in {"ship", "settle"} -> {q.delivery}
           [] OTHER                       -> {}
    /\ halted' = IF q.pc \in {"tax", "mark"} THEN halted \cup {q.order} ELSE halted
    /\ UNCHANGED <<table, calls, raced, shipments, astray>>

Next ==
    \/ \E q \in Quotes : CreateQuotation(q)
    \/ \E r \in Requests :
          \/ \E q \in Quotes :
                \/ "send" \in Calls /\ LoadToSend(r, q)
                \/ "resend" \in Calls /\ LoadToResend(r, q)
                \/ "convert" \in Calls /\ LoadToConvert(r, q)
                \/ CreateVersion(r, q)
          \/ \E o \in Orders :
                \/ "confirm" \in Calls /\ LoadToConfirm(r, o)
                \/ "invoice" \in Calls /\ LoadToInvoice(r, o)
                \/ "deliver" \in Calls /\ LoadToDeliver(r, o)
                \/ CreateOrder(r, o)
          \/ \E d \in Deliveries : ("ship" \in Calls /\ LoadToShip(r, d)) \/ CreateDelivery(r, d)
          \/ SaveSent(r) \/ SaveExpired(r) \/ SaveAccepted(r) \/ SaveConfirmed(r)
          \/ CreateInvoice(r) \/ CreateMushak63(r) \/ SaveInvoiced(r)
          \/ IssueStock(r) \/ SaveLine(r) \/ SaveShipped(r) \/ SaveDelivered(r) \/ Fail(r)

Spec == Init /\ [][Next]_vars

----------------------------------------------------------------------------
At(o, pcs) == \E r \in Requests : req[r].pc \in pcs /\ req[r].order = o

(* However invoicing, shipping and confirming overwrite each other's row,  *)
(* an order that says INVOICED has its invoice, which somebody may have    *)
(* deleted softly since, and its tax document.                             *)
InvoicedIsDocumented ==
    \A o \in Orders : orders[o].status = "INVOICED" => o \in invoices /\ o \in taxed

(* createInvoiceFromSalesOrder commits the invoice first, and a retry      *)
(* meets its number: once an invoicing has stopped half way, no call ever  *)
(* marks the order INVOICED.                                               *)
HalfInvoicedStays == \A o \in halted : orders[o].status # "INVOICED"

(* What the line of an order says was delivered is the stock that was      *)
(* issued for the deliveries naming it: what deliveries with another line  *)
(* id took is missing from it and nothing else is, unless two requests     *)
(* held the order or a delivery at the same time, or a shipping stopped    *)
(* between the issue and the line.                                         *)
IssuedIsDelivered ==
    \A o \in Orders \ (raced \cup broken) :
        orders[o] # NoRow /\ ~At(o, {"line"}) => orders[o].delivered + astray[o] = issued[o]

(* Stock of a delivery is issued a second time only when two requests      *)
(* shipped it at once or a shipping stopped after the issue.               *)
ShippedTwiceNeedsFailure ==
    \A d \in Deliveries : shipments[d] > 1 => d \in raced \cup broken

(* Of a quotation and its later versions one order is made, unless two     *)
(* requests held one of them at the same time.                             *)
OneOrderPerQuotation ==
    \A o, p \in Orders :
        /\ o # p
        /\ orders[o] # NoRow /\ orders[p] # NoRow
        /\ quotes[orders[o].quote].first = quotes[orders[p].quote].first
        => \E q \in raced \cap Quotes : quotes[q].first = quotes[orders[o].quote].first
=============================================================================
