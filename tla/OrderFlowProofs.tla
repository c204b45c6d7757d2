-------------------------- MODULE OrderFlowProofs --------------------------
(***************************************************************************)
(* Theorems about OrderFlow for any number of quotations, orders,          *)
(* deliveries and requests.  They rest on five facts about the requests in *)
(* progress: the rows they name exist; of each order at most one request   *)
(* is past the invoice; two requests with a row in memory have raced for   *)
(* it; alone, the row in memory is as the stock was issued; and of the     *)
(* versions of a quotation one claim to an order is handed on.             *)
(***************************************************************************)
EXTENDS OrderFlow, TLAPS

Shipping == {"issue", "line", "ship", "settle"}
Invoicing == {"tax", "mark"}

Exist ==
    /\ \A d \in Deliveries : deliveries[d] # NoRow => orders[deliveries[d].order] # NoRow
    /\ \A r \in Requests : req[r].pc = "deliver" => orders[req[r].order] # NoRow
    /\ \A r \in Requests : req[r].pc \in Shipping =>
          orders[req[r].order] # NoRow /\ deliveries[req[r].delivery] # NoRow

TypeInv == TypeOK /\ Exist

----------------------------------------------------------------------------
LEMMA RowTypes ==
    /\ NoRow \notin QuoteRow /\ NoRow \notin OrderRow /\ NoRow \notin DeliveryRow
    /\ NoRow.status = "NONE"
    /\ \A row \in QuoteRow, s \in QuoteStatus : [row EXCEPT !.status = s] \in QuoteRow
    /\ \A row \in OrderRow : row.status \in OrderStatus /\ row.delivered \in Nat
    /\ \A row \in OrderRow, s \in OrderStatus :
          /\ [row EXCEPT !.status = s] \in OrderRow
          /\ [row EXCEPT !.status = s].status = s
          /\ [row EXCEPT !.status = s].delivered = row.delivered
    /\ \A row \in OrderRow, n \in Nat :
          /\ [row EXCEPT !.delivered = n] \in OrderRow
          /\ [row EXCEPT !.delivered = n].status = row.status
          /\ [row EXCEPT !.delivered = n].delivered = n
          /\ Shipped(row, n) \in OrderRow
          /\ Shipped(row, n).delivered = row.delivered + n
    /\ \A row \in DeliveryRow :
          /\ row.status \in DeliveryStatus /\ row.order \in Orders /\ row.quantity \in Nat
          /\ row.known \in BOOLEAN
          /\ [row EXCEPT !.status = "SHIPPED"] \in DeliveryRow
          /\ [row EXCEPT !.status = "SHIPPED"].order = row.order
          /\ [row EXCEPT !.status = "SHIPPED"].status = "SHIPPED"
  BY DEF NoRow, QuoteRow, OrderRow, DeliveryRow, DeliveryStatus, Shipped

LEMMA NoStatus ==
    /\ NoRow.status \notin QuoteStatus
    /\ NoRow.status \notin OrderStatus
    /\ NoRow.status \notin DeliveryStatus
  BY DEF NoRow, QuoteStatus, OrderStatus, DeliveryStatus

(* What is known of a request by its pc.                                   *)
LEMMA ReqByPc ==
    ASSUME TypeOK, NEW r \in Requests
    PROVE  /\ req[r].pc \in {"send", "expire", "version", "accept", "order"} =>
                 req[r] \in QuoteRequest
           /\ req[r].pc \in {"confirm", "invoice", "tax", "mark"} => req[r] \in OrderRequest
           /\ req[r].pc = "deliver" => req[r] \in DeliverRequest
           /\ req[r].pc \in Shipping => req[r] \in ShipRequest
           /\ req[r] = Idle => req[r].pc = "idle"
  <1> PICK q : q = req[r] OBVIOUS
  <1>1. q \in Request BY DEF TypeOK
  <1>2. q = Idle => q.pc = "idle" BY DEF Idle
  <1>3. q \in QuoteRequest => q.pc \in {"send", "expire", "version", "accept", "order"}
        BY DEF QuoteRequest
  <1>4. q \in OrderRequest => q.pc \in {"confirm", "invoice", "tax", "mark"} BY DEF OrderRequest
  <1>5. q \in DeliverRequest => q.pc = "deliver" BY DEF DeliverRequest
  <1>6. q \in ShipRequest => q.pc \in Shipping BY DEF ShipRequest, Shipping
  <1> QED BY <1>1, <1>2, <1>3, <1>4, <1>5, <1>6 DEF Request, Shipping

(* A step of one request keeps the others as they are.                     *)
LEMMA ReqStep ==
    ASSUME TypeOK, NEW r \in Requests, NEW new \in Request, req' = [req EXCEPT ![r] = new]
    PROVE  /\ req' \in [Requests -> Request]
           /\ req'[r] = new
           /\ \A p \in Requests \ {r} : req'[p] = req[p]
  BY DEF TypeOK

LEMMA BeginType ==
    ASSUME TypeOK, NEW r \in Requests, NEW new \in Request,
           NEW loaded \in SUBSET (Quotes \cup Orders \cup Deliveries), Begin(r, new, loaded)
    PROVE  /\ TypeOK'
           /\ req'[r] = new
           /\ \A p \in Requests \ {r} : req'[p] = req[p]
  <1>1. /\ req' \in [Requests -> Request]
        /\ req'[r] = new
        /\ \A p \in Requests \ {r} : req'[p] = req[p]
        BY ReqStep DEF Begin
  <1>2. calls' \in Nat BY OrderAssumption DEF Begin, TypeOK
  <1>3. raced' \subseteq Quotes \cup Orders \cup Deliveries BY DEF Begin, TypeOK
  <1> QED BY <1>1, <1>2, <1>3 DEF Begin, TypeOK, table

----------------------------------------------------------------------------
LEMMA TypeInit == Init => TypeInv
  <1> SUFFICES ASSUME Init PROVE TypeInv
      OBVIOUS
  <1>1. TypeOK BY DEF Init, TypeOK, Request
  <1>2. \A r \in Requests : req[r].pc = "idle" BY DEF Init, Idle
  <1> QED BY <1>1, <1>2 DEF TypeInv, Exist, Init, Shipping

LEMMA QuoteStepsType ==
    ASSUME TypeOK,
           \/ \E q \in Quotes : CreateQuotation(q)
           \/ \E r \in Requests :
                 \/ \E q \in Quotes :
                       LoadToSend(r, q) \/ LoadToResend(r, q) \/ LoadToConvert(r, q)
                          \/ CreateVersion(r, q)
                 \/ SaveSent(r) \/ SaveExpired(r) \/ SaveAccepted(r)
                 \/ \E o \in Orders : CreateOrder(r, o)
    PROVE  TypeOK'
  <1> USE OrderAssumption
  <1>1. ASSUME NEW q \in Quotes, CreateQuotation(q) PROVE TypeOK'
    <2> PICK s \in Created : quotes' = [quotes EXCEPT ![q] = [status |-> s, first |-> q]]
        BY <1>1 DEF CreateQuotation
    <2>1. [status |-> s, first |-> q] \in QuoteRow BY DEF QuoteRow
    <2>2. quotes' \in [Quotes -> QuoteRow \cup {NoRow}] BY <2>1 DEF TypeOK
    <2> QED BY <1>1, <2>2 DEF CreateQuotation, TypeOK, history
  <1>2. ASSUME NEW r \in Requests, NEW q \in Quotes, NEW pc \in {"send", "expire", "accept"},
               NEW allowed \in SUBSET QuoteStatus, LoadQuote(r, q, pc, allowed)
        PROVE  TypeOK'
    <2> DEFINE new == [pc |-> pc, quote |-> q, row |-> quotes[q]]
    <2>0. quotes[q].status \in QuoteStatus BY <1>2 DEF LoadQuote
    <2>1. quotes[q] \in QuoteRow BY <2>0, NoStatus DEF TypeOK
    <2>2. new \in Request BY <2>1 DEF QuoteRequest, Request
    <2>3. Begin(r, new, {q}) BY <1>2 DEF LoadQuote
    <2> HIDE DEF new
    <2> QED BY <2>2, <2>3, BeginType
  <1>3. ASSUME NEW r \in Requests, NEW s \in QuoteStatus, NEW pc \in {"idle", "version", "order"},
               req[r].pc \in {"send", "expire", "accept"}, SaveQuote(r, s, pc)
        PROVE  TypeOK'
    <2> PICK q : q = req[r] OBVIOUS
    <2>1. q \in QuoteRequest BY <1>3, ReqByPc
    <2>2. q.quote \in Quotes /\ q.row \in QuoteRow BY <2>1 DEF QuoteRequest
    <2>3. quotes' \in [Quotes -> QuoteRow \cup {NoRow}]
          BY <1>3, <2>2, RowTypes DEF SaveQuote, TypeOK
    <2>4. pc # "idle" => [q EXCEPT !.pc = pc] \in QuoteRequest BY <2>1 DEF QuoteRequest
    <2>5. req' \in [Requests -> Request] BY <1>3, <2>4 DEF SaveQuote, TypeOK, Request
    <2> QED BY <1>3, <2>3, <2>5 DEF SaveQuote, TypeOK, history
  <1>4. ASSUME NEW r \in Requests, NEW n \in Quotes, CreateVersion(r, n) PROVE TypeOK'
    <2>1. req[r] \in QuoteRequest BY <1>4, ReqByPc DEF CreateVersion
    <2>2. req[r].quote \in Quotes /\ req[r].row \in QuoteRow BY <2>1 DEF QuoteRequest
    <2>3. Idle \in Request BY DEF Request
    <2>4. quotes' \in [Quotes -> QuoteRow \cup {NoRow}]
          BY <1>4, <2>2 DEF CreateVersion, NextVersion, TypeOK
    <2> QED BY <1>4, <2>2, <2>3, <2>4 DEF CreateVersion, TypeOK, history
  <1>5. ASSUME NEW r \in Requests, NEW o \in Orders, CreateOrder(r, o) PROVE TypeOK'
    <2>1. req[r] \in QuoteRequest BY <1>5, ReqByPc DEF CreateOrder
    <2>2. [status |-> "DRAFT", quote |-> req[r].quote, delivered |-> 0] \in OrderRow
          BY <2>1 DEF QuoteRequest, OrderRow, OrderStatus
    <2>3. Idle \in Request BY DEF Request
    <2>4. orders' \in [Orders -> OrderRow \cup {NoRow}] BY <1>5, <2>2 DEF CreateOrder, TypeOK
    <2> QED BY <1>5, <2>3, <2>4 DEF CreateOrder, TypeOK, history
  <1>6. \A r \in Requests, q \in Quotes :
            LoadToSend(r, q) \/ LoadToResend(r, q) \/ LoadToConvert(r, q) => TypeOK'
        BY <1>2 DEF LoadToSend, LoadToResend, LoadToConvert, QuoteStatus
  <1>7. \A r \in Requests : SaveSent(r) \/ SaveExpired(r) \/ SaveAccepted(r) => TypeOK'
        BY <1>3 DEF SaveSent, SaveExpired, SaveAccepted, QuoteStatus
  <1> QED BY <1>1, <1>4, <1>5, <1>6, <1>7

LEMMA OrderStepsType ==
    ASSUME TypeOK, NEW r \in Requests,
           \/ \E o \in Orders : LoadToConfirm(r, o) \/ LoadToInvoice(r, o) \/ LoadToDeliver(r, o)
           \/ \E d \in Deliveries : CreateDelivery(r, d)
           \/ CreateInvoice(r) \/ CreateMushak63(r) \/ Fail(r)
    PROVE  TypeOK'
  <1> USE OrderAssumption
  <1> PICK q : q = req[r] OBVIOUS
  <1>1. ASSUME NEW o \in Orders, NEW pc \in {"confirm", "invoice"},
               NEW allowed \in SUBSET OrderStatus, LoadOrder(r, o, pc, allowed)
        PROVE  TypeOK'
    <2> DEFINE new == [pc |-> pc, order |-> o, row |-> orders[o]]
    <2>0. orders[o].status \in OrderStatus BY <1>1 DEF LoadOrder
    <2>1. orders[o] \in OrderRow BY <2>0, NoStatus DEF TypeOK
    <2>2. new \in Request BY <2>1 DEF OrderRequest, Request
    <2>3. Begin(r, new, {o}) BY <1>1 DEF LoadOrder
    <2> HIDE DEF new
    <2> QED BY <2>2, <2>3, BeginType
  <1>2. ASSUME NEW o \in Orders, LoadToDeliver(r, o) PROVE TypeOK'
    <2> PICK n \in Quantities, k \in BOOLEAN :
           Begin(r, [pc |-> "deliver", order |-> o, quantity |-> n, known |-> k], {})
        BY <1>2 DEF LoadToDeliver
    <2> DEFINE new == [pc |-> "deliver", order |-> o, quantity |-> n, known |-> k]
    <2>1. new \in Request BY DEF DeliverRequest, Request
    <2>2. Begin(r, new, {}) OBVIOUS
    <2> HIDE DEF new
    <2> QED BY <2>1, <2>2, BeginType
  <1>3. ASSUME NEW d \in Deliveries, CreateDelivery(r, d) PROVE TypeOK'
    <2>1. q \in DeliverRequest BY <1>3, ReqByPc DEF CreateDelivery
    <2>2. [status |-> "DRAFT", order |-> q.order, quantity |-> q.quantity,
           known |-> q.known] \in DeliveryRow
          BY <2>1 DEF DeliverRequest, DeliveryRow, DeliveryStatus
    <2>3. Idle \in Request BY DEF Request
    <2>4. deliveries' \in [Deliveries -> DeliveryRow \cup {NoRow}]
          BY <1>3, <2>2 DEF CreateDelivery, TypeOK
    <2> QED BY <1>3, <2>3, <2>4 DEF CreateDelivery, TypeOK, history
  <1>4. CASE CreateInvoice(r) \/ CreateMushak63(r)
    <2>1. q \in OrderRequest BY <1>4, ReqByPc DEF CreateInvoice, CreateMushak63
    <2>2. q.order \in Orders BY <2>1 DEF OrderRequest
    <2>3. \A pc \in {"tax", "mark"} : [q EXCEPT !.pc = pc] \in Request
          BY <2>1 DEF OrderRequest, Request
    <2>4. req' \in [Requests -> Request]
          BY <1>4, <2>3 DEF CreateInvoice, CreateMushak63, AfterInvoice, TypeOK
    <2>5. invoices' \subseteq Orders /\ taxed' \subseteq Orders
          BY <1>4, <2>2 DEF CreateInvoice, CreateMushak63, TypeOK
    <2> QED BY <1>4, <2>4, <2>5 DEF CreateInvoice, CreateMushak63, TypeOK, history
  <1>5. CASE Fail(r)
    <2>1. q.pc \in {"tax", "mark"} => q.order \in Orders BY ReqByPc DEF OrderRequest
    <2>2. q.pc \in {"line", "ship", "settle"} => q.order \in Orders /\ q.delivery \in Deliveries
          BY ReqByPc DEF ShipRequest, Shipping
    <2>3. halted' \subseteq Orders BY <1>5, <2>1 DEF Fail, TypeOK
    <2>4. broken' \subseteq Orders \cup Deliveries
      <3>1. CASE q.pc = "line" BY <1>5, <2>2, <3>1 DEF Fail, TypeOK
      <3>2. CASE q.pc \in {"ship", "settle"} BY <1>5, <2>2, <3>2 DEF Fail, TypeOK
      <3>3. CASE q.pc \notin {"line", "ship", "settle"} BY <1>5, <3>3 DEF Fail, TypeOK
      <3> QED BY <3>1, <3>2, <3>3
    <2>5. Idle \in Request BY DEF Request
    <2> QED BY <1>5, <2>3, <2>4, <2>5 DEF Fail, TypeOK, table
  <1>6. \A o \in Orders : LoadToConfirm(r, o) \/ LoadToInvoice(r, o) => TypeOK'
        BY <1>1 DEF LoadToConfirm, LoadToInvoice, OrderStatus
  <1> QED BY <1>2, <1>3, <1>4, <1>5, <1>6

LEMMA SaveOrderType ==
    ASSUME TypeOK, NEW r \in Requests, NEW s \in OrderStatus,
           req[r].pc \in {"confirm", "mark", "settle"}, SaveOrder(r, s)
    PROVE  /\ TypeOK'
           /\ req[r].order \in Orders /\ req[r].row \in OrderRow
  <1>1. req[r] \in OrderRequest \/ req[r] \in ShipRequest BY ReqByPc DEF Shipping
  <1>2. req[r].order \in Orders /\ req[r].row \in OrderRow
        BY <1>1 DEF OrderRequest, ShipRequest
  <1>3. orders' \in [Orders -> OrderRow \cup {NoRow}]
        BY <1>2, RowTypes DEF SaveOrder, TypeOK
  <1>4. Idle \in Request BY DEF Request
  <1> QED BY <1>2, <1>3, <1>4 DEF SaveOrder, TypeOK, history

LEMMA ShipStepsType ==
    ASSUME TypeInv, NEW r \in Requests,
           \/ \E d \in Deliveries : LoadToShip(r, d)
           \/ IssueStock(r) \/ SaveLine(r) \/ SaveShipped(r)
    PROVE  TypeOK'
  <1> USE OrderAssumption
  <1>0. TypeOK BY DEF TypeInv
  <1> PICK q : q = req[r] OBVIOUS
  <1>1. ASSUME NEW d \in Deliveries, LoadToShip(r, d) PROVE TypeOK'
    <2> DEFINE row == deliveries[d]
               new == [pc |-> "issue", delivery |-> d, order |-> row.order,
                       row |-> orders[row.order], quantity |-> row.quantity,
                       known |-> row.known]
    <2>1. row.status = "DRAFT" BY <1>1 DEF LoadToShip, Shippable
    <2>2. row \in DeliveryRow /\ row # NoRow BY <1>0, <2>1, NoStatus DEF TypeOK, DeliveryStatus
    <2>3. row.order \in Orders /\ row.quantity \in Nat /\ row.known \in BOOLEAN
          BY <2>2 DEF DeliveryRow
    <2>4. orders[row.order] # NoRow BY <2>2 DEF TypeInv, Exist
    <2>5. orders[row.order] \in OrderRow BY <1>0, <2>3, <2>4 DEF TypeOK
    <2>6. new \in Request BY <2>3, <2>5 DEF ShipRequest, Request
    <2>7. Begin(r, new, {d, row.order}) BY <1>1 DEF LoadToShip
    <2> HIDE DEF new, row
    <2> QED BY <1>0, <2>3, <2>6, <2>7, BeginType
  <1>2. CASE IssueStock(r)
    <2>1. q \in ShipRequest BY <1>0, <1>2, ReqByPc DEF IssueStock, Shipping
    <2>2. q.order \in Orders /\ q.delivery \in Deliveries /\ q.quantity \in Nat
          BY <2>1 DEF ShipRequest
    <2>3. [q EXCEPT !.pc = "line"] \in Request BY <2>1 DEF ShipRequest, Request
    <2>4. issued' \in [Orders -> Nat] /\ shipments' \in [Deliveries -> Nat]
          BY <1>0, <1>2, <2>2 DEF IssueStock, TypeOK
    <2>5. astray' \in [Orders -> Nat]
      <3>1. astray' = astray \/ astray' = [astray EXCEPT ![q.order] = @ + q.quantity]
            BY <1>2 DEF IssueStock
      <3> QED BY <1>0, <2>2, <3>1 DEF TypeOK
    <2> QED BY <1>0, <1>2, <2>3, <2>4, <2>5 DEF IssueStock, TypeOK
  <1>3. CASE SaveLine(r)
    <2>1. q \in ShipRequest BY <1>0, <1>3, ReqByPc DEF SaveLine, Shipping
    <2>2. q.order \in Orders /\ q.row \in OrderRow /\ q.quantity \in Nat
          BY <2>1 DEF ShipRequest
    <2>3. Shipped(q.row, q.quantity) \in OrderRow /\ Shipped(q.row, q.quantity).delivered \in Nat
          BY <2>2, RowTypes
    <2>4. /\ [q EXCEPT !.pc = "ship", !.row = Shipped(q.row, q.quantity)] \in Request
          /\ [q EXCEPT !.pc = "ship"] \in Request
          BY <2>1, <2>3 DEF ShipRequest, Request
    <2>5. orders[q.order] \in OrderRow
      <3>1. orders[q.order] # NoRow BY <1>3 DEF TypeInv, Exist, SaveLine, Shipping
      <3> QED BY <1>0, <2>2, <3>1 DEF TypeOK
    <2>6. orders' \in [Orders -> OrderRow \cup {NoRow}]
      <3> DEFINE row == [orders[q.order] EXCEPT !.delivered = Shipped(q.row, q.quantity).delivered]
      <3>1. row \in OrderRow BY <2>3, <2>5, RowTypes
      <3>2. orders' = orders \/ orders' = [orders EXCEPT ![q.order] = row]
            BY <1>3 DEF SaveLine
      <3> HIDE DEF row
      <3> QED BY <1>0, <2>2, <3>1, <3>2 DEF TypeOK
    <2>7. req' \in [Requests -> Request]
      <3>1. \E new \in Request : req' = [req EXCEPT ![r] = new] BY <1>3, <2>4 DEF SaveLine
      <3> QED BY <1>0, <3>1 DEF TypeOK
    <2> QED BY <1>0, <1>3, <2>6, <2>7 DEF SaveLine, TypeOK, history
  <1>4. CASE SaveShipped(r)
    <2>1. q \in ShipRequest BY <1>0, <1>4, ReqByPc DEF SaveShipped, Shipping
    <2>2. q.delivery \in Deliveries BY <2>1 DEF ShipRequest
    <2>3. [q EXCEPT !.pc = "settle"] \in Request BY <2>1 DEF ShipRequest, Request
    <2>4. deliveries[q.delivery] \in DeliveryRow
      <3>1. deliveries[q.delivery] # NoRow BY <1>4 DEF TypeInv, Exist, SaveShipped, Shipping
      <3> QED BY <1>0, <2>2, <3>1 DEF TypeOK
    <2>5. deliveries' \in [Deliveries -> DeliveryRow \cup {NoRow}]
          BY <1>0, <1>4, <2>2, <2>4, RowTypes DEF SaveShipped, TypeOK
    <2> QED BY <1>0, <1>4, <2>3, <2>5 DEF SaveShipped, TypeOK, history
  <1> QED BY <1>1, <1>2, <1>3, <1>4

----------------------------------------------------------------------------
\* The steps of request r, and the two kinds of steps of nobody.
Acts(r) ==
    \/ \E q \in Quotes :
          \/ LoadToSend(r, q) \/ LoadToResend(r, q) \/ LoadToConvert(r, q)
          \/ CreateVersion(r, q)
    \/ \E o \in Orders :
          \/ LoadToConfirm(r, o) \/ LoadToInvoice(r, o) \/ LoadToDeliver(r, o)
          \/ CreateOrder(r, o)
    \/ \E d \in Deliveries : LoadToShip(r, d) \/ CreateDelivery(r, d)
    \/ SaveSent(r) \/ SaveExpired(r) \/ SaveAccepted(r) \/ SaveConfirmed(r)
    \/ CreateInvoice(r) \/ CreateMushak63(r) \/ SaveInvoiced(r)
    \/ IssueStock(r) \/ SaveLine(r) \/ SaveShipped(r) \/ SaveDelivered(r) \/ Fail(r)

LEMMA NextActs ==
    ASSUME [Next]_vars
    PROVE  \/ \E q \in Quotes : CreateQuotation(q)
           \/ \E r \in Requests : Acts(r)
           \/ UNCHANGED vars
  BY DEF Next, Acts

LEMMA TypeOKNext == ASSUME TypeInv, [Next]_vars PROVE TypeOK'
  <1>0. TypeOK BY DEF TypeInv
  <1>1. ASSUME NEW q \in Quotes, CreateQuotation(q) PROVE TypeOK'
        BY <1>0, <1>1, QuoteStepsType
  <1>2. ASSUME NEW r \in Requests, Acts(r) PROVE TypeOK'
    <2>1. CASE SaveConfirmed(r) BY <1>0, <2>1, SaveOrderType DEF SaveConfirmed, OrderStatus
    <2>2. CASE SaveInvoiced(r) BY <1>0, <2>2, SaveOrderType DEF SaveInvoiced, OrderStatus
    <2>3. CASE SaveDelivered(r) BY <1>0, <2>3, SaveOrderType DEF SaveDelivered, OrderStatus
    <2> QED BY <1>0, <1>2, <2>1, <2>2, <2>3, QuoteStepsType, OrderStepsType, ShipStepsType DEF Acts
  <1>3. CASE UNCHANGED vars BY <1>0, <1>3 DEF vars, table, history, TypeOK
  <1> QED BY <1>1, <1>2, <1>3, NextActs

(* What a step of r does to the tables of orders and deliveries.           *)
LEMMA OrdersStep ==
    ASSUME TypeInv, NEW r \in Requests, Acts(r), NEW o \in Orders
    PROVE  \/ orders'[o] = orders[o]
           \/ CreateOrder(r, o)
           \/ SaveLine(r) /\ req[r].known /\ req[r].order = o
           \/ (SaveConfirmed(r) \/ SaveInvoiced(r) \/ SaveDelivered(r)) /\ req[r].order = o
  <1>0. TypeOK BY DEF TypeInv
  <1>1. CASE UNCHANGED orders BY <1>1
  <1>2. ASSUME NEW p \in Orders, CreateOrder(r, p) PROVE orders'[o] = orders[o] \/ p = o
        BY <1>0, <1>2 DEF CreateOrder, TypeOK
  <1>3. CASE SaveLine(r) BY <1>0, <1>3 DEF SaveLine, TypeOK
  <1>4. CASE SaveConfirmed(r) \/ SaveInvoiced(r) \/ SaveDelivered(r)
        BY <1>0, <1>4 DEF SaveConfirmed, SaveInvoiced, SaveDelivered, SaveOrder, TypeOK
  <1>5. \/ UNCHANGED orders
        \/ \E p \in Orders : CreateOrder(r, p)
        \/ SaveLine(r)
        \/ SaveConfirmed(r) \/ SaveInvoiced(r) \/ SaveDelivered(r)
        BY DEF Acts, LoadToSend, LoadToResend, LoadToConvert, LoadQuote, Begin, table, CreateVersion,
               LoadToConfirm, LoadToInvoice, LoadOrder, LoadToDeliver, LoadToShip, CreateDelivery,
               SaveSent, SaveExpired, SaveAccepted, SaveQuote, CreateInvoice, CreateMushak63,
               IssueStock, SaveShipped, Fail
  <1> QED BY <1>1, <1>2, <1>3, <1>4, <1>5

LEMMA DeliveriesStep ==
    ASSUME TypeInv, NEW r \in Requests, Acts(r), NEW d \in Deliveries
    PROVE  \/ deliveries'[d] = deliveries[d]
           \/ CreateDelivery(r, d)
           \/ SaveShipped(r) /\ req[r].delivery = d
  <1>0. TypeOK BY DEF TypeInv
  <1>1. CASE UNCHANGED deliveries BY <1>1
  <1>2. ASSUME NEW e \in Deliveries, CreateDelivery(r, e)
        PROVE  deliveries'[d] = deliveries[d] \/ e = d
        BY <1>0, <1>2 DEF CreateDelivery, TypeOK
  <1>3. CASE SaveShipped(r) BY <1>0, <1>3 DEF SaveShipped, TypeOK
  <1>4. \/ UNCHANGED deliveries
        \/ \E e \in Deliveries : CreateDelivery(r, e)
        \/ SaveShipped(r)
        BY DEF Acts, LoadToSend, LoadToResend, LoadToConvert, LoadQuote, Begin, table, CreateVersion,
               LoadToConfirm, LoadToInvoice, LoadOrder, LoadToDeliver, LoadToShip, CreateOrder,
               SaveSent, SaveExpired, SaveAccepted, SaveQuote, CreateInvoice, CreateMushak63,
               SaveConfirmed, SaveInvoiced, SaveDelivered, SaveOrder, IssueStock, SaveLine, Fail
  <1> QED BY <1>1, <1>2, <1>3, <1>4

(* What a step of r does to the requests: the others stay as they are, and *)
(* r becomes what its step names.                                          *)
LEMMA RequestsStep ==
    ASSUME TypeInv, NEW r \in Requests, Acts(r)
    PROVE  /\ \A p \in Requests \ {r} : req'[p] = req[p]
           /\ req'[r].pc = "deliver" => \E o \in Orders : LoadToDeliver(r, o)
           /\ req'[r].pc = "issue" => \E d \in Deliveries : LoadToShip(r, d)
           /\ req'[r].pc = "line" => IssueStock(r)
           /\ req'[r].pc = "ship" => SaveLine(r)
           /\ req'[r].pc = "settle" => SaveShipped(r)
           /\ req'[r].pc = "confirm" => \E o \in Orders : LoadToConfirm(r, o)
           /\ req'[r].pc = "invoice" => \E o \in Orders : LoadToInvoice(r, o)
           /\ req'[r].pc = "tax" => CreateInvoice(r)
           /\ req'[r].pc = "mark" => CreateMushak63(r)
           /\ req'[r].pc = "send" => \E x \in Quotes : LoadToSend(r, x)
           /\ req'[r].pc = "expire" => \E x \in Quotes : LoadToResend(r, x)
           /\ req'[r].pc = "accept" => \E x \in Quotes : LoadToConvert(r, x)
           /\ req'[r].pc = "version" => SaveExpired(r)
           /\ req'[r].pc = "order" => SaveAccepted(r)
  <1>0. TypeOK BY DEF TypeInv
  <1> PICK q : q = req[r] OBVIOUS
  <1>1. \A new : req' = [req EXCEPT ![r] = new] =>
           req'[r] = new /\ \A p \in Requests \ {r} : req'[p] = req[p]
        BY <1>0 DEF TypeOK
  <1>2. \A new, loaded : Begin(r, new, loaded) =>
           req'[r] = new /\ \A p \in Requests \ {r} : req'[p] = req[p]
        BY <1>1 DEF Begin
  <1>3. CASE \E x \in Quotes : LoadToSend(r, x) \/ LoadToResend(r, x) \/ LoadToConvert(r, x)
    <2> PICK x \in Quotes : LoadToSend(r, x) \/ LoadToResend(r, x) \/ LoadToConvert(r, x)
        BY <1>3
    <2>1. ASSUME NEW pc, NEW allowed, LoadQuote(r, x, pc, allowed)
          PROVE  req'[r].pc = pc /\ \A p \in Requests \ {r} : req'[p] = req[p]
          BY <1>2, <2>1 DEF LoadQuote
    <2>2. /\ LoadToSend(r, x) => req'[r].pc = "send"
          /\ LoadToResend(r, x) => req'[r].pc = "expire"
          /\ LoadToConvert(r, x) => req'[r].pc = "accept"
          /\ \A p \in Requests \ {r} : req'[p] = req[p]
          BY <2>1 DEF LoadToSend, LoadToResend, LoadToConvert
    <2> QED BY <2>2
  <1>4. CASE \/ \E x \in Quotes : CreateVersion(r, x)
             \/ \E o \in Orders : CreateOrder(r, o)
             \/ \E d \in Deliveries : CreateDelivery(r, d)
             \/ SaveConfirmed(r) \/ SaveInvoiced(r) \/ SaveDelivered(r) \/ Fail(r)
    <2>1. req' = [req EXCEPT ![r] = Idle]
          BY <1>4 DEF CreateVersion, CreateOrder, CreateDelivery, SaveConfirmed, SaveInvoiced,
                      SaveDelivered, SaveOrder, Fail
    <2>2. req'[r] = Idle /\ \A p \in Requests \ {r} : req'[p] = req[p] BY <1>1, <2>1
    <2>3. Idle.pc = "idle" BY DEF Idle
    <2> QED BY <2>2, <2>3
  <1>5. CASE SaveSent(r) \/ SaveExpired(r) \/ SaveAccepted(r)
    <2>1. q \in QuoteRequest BY <1>0, <1>5, ReqByPc DEF SaveSent, SaveExpired, SaveAccepted
    <2>2. \A pc \in {"version", "order"} : [q EXCEPT !.pc = pc].pc = pc
          BY <2>1 DEF QuoteRequest
    <2>3. /\ SaveSent(r) => req' = [req EXCEPT ![r] = Idle]
          /\ SaveExpired(r) => req' = [req EXCEPT ![r] = [q EXCEPT !.pc = "version"]]
          /\ SaveAccepted(r) => req' = [req EXCEPT ![r] = [q EXCEPT !.pc = "order"]]
          BY DEF SaveSent, SaveExpired, SaveAccepted, SaveQuote
    <2>4. Idle.pc = "idle" BY DEF Idle
    <2>5. /\ SaveSent(r) => req'[r].pc = "idle"
          /\ SaveExpired(r) => req'[r].pc = "version"
          /\ SaveAccepted(r) => req'[r].pc = "order"
          /\ \A p \in Requests \ {r} : req'[p] = req[p]
          BY <1>1, <1>5, <2>2, <2>3, <2>4
    <2> QED BY <1>5, <2>5
  <1>6. ASSUME NEW o \in Orders, LoadToConfirm(r, o) \/ LoadToInvoice(r, o) \/ LoadToDeliver(r, o)
        PROVE  /\ \A p \in Requests \ {r} : req'[p] = req[p]
               /\ LoadToConfirm(r, o) => req'[r].pc = "confirm"
               /\ LoadToInvoice(r, o) => req'[r].pc = "invoice"
               /\ LoadToDeliver(r, o) => req'[r].pc = "deliver"
    <2>1. ASSUME LoadToConfirm(r, o)
          PROVE  req'[r].pc = "confirm" /\ \A p \in Requests \ {r} : req'[p] = req[p]
          BY <1>2, <2>1 DEF LoadToConfirm, LoadOrder
    <2>2. ASSUME LoadToInvoice(r, o)
          PROVE  req'[r].pc = "invoice" /\ \A p \in Requests \ {r} : req'[p] = req[p]
          BY <1>2, <2>2 DEF LoadToInvoice, LoadOrder
    <2>3. ASSUME LoadToDeliver(r, o)
          PROVE  req'[r].pc = "deliver" /\ \A p \in Requests \ {r} : req'[p] = req[p]
      <3>1. PICK n \in Quantities, k \in BOOLEAN :
               Begin(r, [pc |-> "deliver", order |-> o, quantity |-> n, known |-> k], {})
            BY <2>3 DEF LoadToDeliver
      <3> QED BY <1>2, <3>1
    <2> QED BY <1>6, <2>1, <2>2, <2>3
  <1>7. ASSUME NEW d \in Deliveries, LoadToShip(r, d)
        PROVE  req'[r].pc = "issue" /\ \A p \in Requests \ {r} : req'[p] = req[p]
        BY <1>2, <1>7 DEF LoadToShip
  <1>8. CASE CreateInvoice(r) \/ CreateMushak63(r)
    <2>1. q \in OrderRequest BY <1>0, <1>8, ReqByPc DEF CreateInvoice, CreateMushak63
    <2>2. \A pc \in {"tax", "mark"} : [q EXCEPT !.pc = pc].pc = pc BY <2>1 DEF OrderRequest
    <2>3. CASE CreateInvoice(r)
          BY <1>1, <2>2, <2>3 DEF CreateInvoice, AfterInvoice
    <2>4. CASE CreateMushak63(r) BY <1>1, <2>2, <2>4 DEF CreateMushak63
    <2> QED BY <1>8, <2>3, <2>4
  <1>9. CASE IssueStock(r) \/ SaveLine(r) \/ SaveShipped(r)
    <2>1. q \in ShipRequest BY <1>0, <1>9, ReqByPc DEF IssueStock, SaveLine, SaveShipped, Shipping
    <2>2. \A pc \in {"line", "settle"} : [q EXCEPT !.pc = pc].pc = pc
          BY <2>1 DEF ShipRequest
    <2>3. CASE IssueStock(r) BY <1>1, <2>2, <2>3 DEF IssueStock
    <2>4. CASE SaveLine(r)
      <3> DEFINE new == [q EXCEPT !.pc = "ship", !.row = Shipped(q.row, q.quantity)]
             same == [q EXCEPT !.pc = "ship"]
      <3>1. new.pc = "ship" /\ same.pc = "ship" BY <2>1 DEF ShipRequest
      <3>2. req' = [req EXCEPT ![r] = new] \/ req' = [req EXCEPT ![r] = same]
            BY <2>4 DEF SaveLine
      <3> HIDE DEF new
      <3>3. req'[r].pc = "ship" /\ \A p \in Requests \ {r} : req'[p] = req[p]
            BY <1>1, <3>1, <3>2
      <3> QED BY <2>4, <3>3
    <2>5. CASE SaveShipped(r) BY <1>1, <2>2, <2>5 DEF SaveShipped
    <2> QED BY <1>9, <2>3, <2>4, <2>5
  <1> QED BY <1>3, <1>4, <1>5, <1>6, <1>7, <1>8, <1>9 DEF Acts

(* What a request keeps in memory from one of its steps to the next.       *)
LEMMA MemoryStep ==
    ASSUME TypeInv, NEW r \in Requests
    PROVE  /\ IssueStock(r) \/ SaveLine(r) \/ SaveShipped(r) =>
                 /\ req[r] \in ShipRequest
                 /\ req'[r].order = req[r].order
                 /\ req'[r].delivery = req[r].delivery
                 /\ req'[r].quantity = req[r].quantity
                 /\ req'[r].known = req[r].known
                 /\ req'[r].row = IF req[r].pc = "line" /\ req[r].known
                                  THEN Shipped(req[r].row, req[r].quantity)
                                  ELSE req[r].row
           /\ SaveLine(r) => req'[r].pc = "ship"
           /\ CreateInvoice(r) \/ CreateMushak63(r) =>
                 /\ req[r] \in OrderRequest
                 /\ req'[r].order = req[r].order
                 /\ req'[r].row = req[r].row
  <1>0. TypeOK BY DEF TypeInv
  <1> PICK q : q = req[r] OBVIOUS
  <1>1. \A new : req' = [req EXCEPT ![r] = new] => req'[r] = new BY <1>0 DEF TypeOK
  <1>2. ASSUME IssueStock(r) \/ SaveLine(r) \/ SaveShipped(r)
        PROVE  /\ q \in ShipRequest
               /\ req'[r].order = q.order
               /\ req'[r].delivery = q.delivery
               /\ req'[r].quantity = q.quantity
               /\ req'[r].known = q.known
               /\ SaveLine(r) => req'[r].pc = "ship"
               /\ req'[r].row = IF q.pc = "line" /\ q.known THEN Shipped(q.row, q.quantity)
                                                            ELSE q.row
    <2>1. q \in ShipRequest
          BY <1>0, <1>2, ReqByPc DEF IssueStock, SaveLine, SaveShipped, Shipping
    <2> DEFINE line == [q EXCEPT !.pc = "ship", !.row = Shipped(q.row, q.quantity)]
               pass(pc) == [q EXCEPT !.pc = pc]
    <2>2. /\ line.order = q.order /\ line.delivery = q.delivery /\ line.quantity = q.quantity
          /\ line.row = Shipped(q.row, q.quantity) /\ line.known = q.known
          /\ line.pc = "ship" /\ pass("ship").pc = "ship"
          BY <2>1 DEF ShipRequest
    <2>3. \A pc \in {"line", "ship", "settle"} :
             /\ pass(pc).order = q.order /\ pass(pc).delivery = q.delivery
             /\ pass(pc).quantity = q.quantity /\ pass(pc).row = q.row
             /\ pass(pc).known = q.known
          BY <2>1 DEF ShipRequest
    <2>4. /\ SaveLine(r) => /\ q.pc = "line"
                            /\ \/ q.known /\ req' = [req EXCEPT ![r] = line]
                               \/ ~q.known /\ req' = [req EXCEPT ![r] = pass("ship")]
          /\ IssueStock(r) => q.pc = "issue" /\ req' = [req EXCEPT ![r] = pass("line")]
          /\ SaveShipped(r) => q.pc = "ship" /\ req' = [req EXCEPT ![r] = pass("settle")]
          BY DEF SaveLine, IssueStock, SaveShipped
    <2> HIDE DEF line, pass
    <2> QED BY <1>1, <1>2, <2>1, <2>2, <2>3, <2>4
  <1>3. ASSUME CreateInvoice(r) \/ CreateMushak63(r)
        PROVE  /\ q \in OrderRequest
               /\ req'[r].order = q.order
               /\ req'[r].row = q.row
    <2>1. q \in OrderRequest BY <1>0, <1>3, ReqByPc DEF CreateInvoice, CreateMushak63
    <2> DEFINE pass(pc) == [q EXCEPT !.pc = pc]
    <2>2. \A pc \in {"tax", "mark"} : pass(pc).order = q.order /\ pass(pc).row = q.row
          BY <2>1 DEF OrderRequest
    <2>3. \E pc \in {"tax", "mark"} : req' = [req EXCEPT ![r] = pass(pc)]
          BY <1>3 DEF CreateInvoice, CreateMushak63, AfterInvoice
    <2> HIDE DEF pass
    <2> QED BY <1>1, <2>1, <2>2, <2>3
  <1> QED BY <1>2, <1>3

(* Rows are never deleted, and a delivery stays with its order.            *)
LEMMA RowsStay ==
    ASSUME TypeInv, NEW r \in Requests, Acts(r)
    PROVE  /\ \A o \in Orders : orders[o] # NoRow => orders'[o] # NoRow
           /\ \A d \in Deliveries : deliveries[d] # NoRow =>
                 deliveries'[d] # NoRow /\ deliveries'[d].order = deliveries[d].order
  <1>0. TypeOK BY DEF TypeInv
  <1>1. ASSUME NEW o \in Orders, orders[o] # NoRow PROVE orders'[o] # NoRow
    <2>0. orders[o] \in OrderRow BY <1>0, <1>1 DEF TypeOK
    <2>1. ASSUME SaveLine(r), req[r].known, req[r].order = o PROVE orders'[o] # NoRow
      <3>1. req[r].row \in OrderRow /\ req[r].quantity \in Nat
            BY <2>1, MemoryStep DEF ShipRequest
      <3>2. Shipped(req[r].row, req[r].quantity).delivered \in Nat BY <3>1, RowTypes
      <3>3. orders'[o] \in OrderRow
            BY <1>0, <2>0, <2>1, <3>2, RowTypes DEF SaveLine, TypeOK
      <3> QED BY <3>3, RowTypes
    <2>2. ASSUME NEW s \in OrderStatus, SaveOrder(r, s), req[r].order = o, req[r].row \in OrderRow
          PROVE  orders'[o] # NoRow
          BY <1>0, <2>2, RowTypes DEF SaveOrder, TypeOK
    <2>3. SaveConfirmed(r) => \E s \in OrderStatus : SaveOrder(r, s) /\ req[r].row \in OrderRow
          BY <1>0, SaveOrderType DEF SaveConfirmed, OrderStatus
    <2>4. SaveInvoiced(r) => \E s \in OrderStatus : SaveOrder(r, s) /\ req[r].row \in OrderRow
          BY <1>0, SaveOrderType DEF SaveInvoiced, OrderStatus
    <2>5. SaveDelivered(r) => \E s \in OrderStatus : SaveOrder(r, s) /\ req[r].row \in OrderRow
          BY <1>0, SaveOrderType DEF SaveDelivered, OrderStatus
    <2>6. ~CreateOrder(r, o) BY <1>1 DEF CreateOrder
    <2> QED BY <1>1, <2>1, <2>2, <2>3, <2>4, <2>5, <2>6, OrdersStep
  <1>2. ASSUME NEW d \in Deliveries, deliveries[d] # NoRow
        PROVE  deliveries'[d] # NoRow /\ deliveries'[d].order = deliveries[d].order
    <2>1. deliveries[d] \in DeliveryRow BY <1>0, <1>2 DEF TypeOK
    <2>2. ~CreateDelivery(r, d) BY <1>2 DEF CreateDelivery
    <2>3. ASSUME SaveShipped(r), req[r].delivery = d
          PROVE  deliveries'[d] # NoRow /\ deliveries'[d].order = deliveries[d].order
      <3>1. deliveries'[d] = [deliveries[d] EXCEPT !.status = "SHIPPED"]
            BY <1>0, <2>3 DEF SaveShipped, TypeOK
      <3> QED BY <2>1, <3>1, RowTypes
    <2> QED BY <1>2, <2>2, <2>3, DeliveriesStep
  <1> QED BY <1>1, <1>2

LEMMA ExistStep == ASSUME TypeInv, NEW r \in Requests, Acts(r), TypeOK' PROVE Exist'
  <1>0. TypeOK BY DEF TypeInv
  <1>1. ASSUME NEW d \in Deliveries, deliveries'[d] # NoRow
        PROVE  orders'[deliveries'[d].order] # NoRow
    <2>1. CASE deliveries[d] # NoRow
      <3>1. deliveries[d].order \in Orders BY <1>0, <2>1 DEF TypeOK, DeliveryRow
      <3>2. orders[deliveries[d].order] # NoRow BY <2>1 DEF TypeInv, Exist
      <3> QED BY <2>1, <3>1, <3>2, RowsStay
    <2>2. CASE CreateDelivery(r, d)
      <3>1. req[r] \in DeliverRequest BY <1>0, <2>2, ReqByPc DEF CreateDelivery
      <3>2. req[r].order \in Orders /\ orders[req[r].order] # NoRow
            BY <2>2, <3>1 DEF DeliverRequest, TypeInv, Exist, CreateDelivery
      <3>3. deliveries'[d].order = req[r].order BY <1>0, <2>2 DEF CreateDelivery, TypeOK
      <3> QED BY <3>2, <3>3, RowsStay
    <2>3. ASSUME SaveShipped(r), req[r].delivery = d PROVE deliveries[d] # NoRow
          BY <2>3 DEF SaveShipped, TypeInv, Exist, Shipping
    <2> QED BY <1>1, <2>1, <2>2, <2>3, DeliveriesStep
  <1>2. ASSUME NEW p \in Requests, req'[p].pc = "deliver" PROVE orders'[req'[p].order] # NoRow
    <2>1. CASE req'[p] = req[p]
      <3>1. req[p].order \in Orders /\ orders[req[p].order] # NoRow
            BY <1>0, <1>2, <2>1, ReqByPc DEF DeliverRequest, TypeInv, Exist
      <3> QED BY <2>1, <3>1, RowsStay
    <2>2. CASE p = r
      <3>1. PICK o \in Orders : LoadToDeliver(r, o) BY <1>2, <2>2, RequestsStep
      <3>2. orders[o] # NoRow BY <3>1 DEF LoadToDeliver, NoRow
      <3>3. PICK n \in Quantities, k \in BOOLEAN :
               Begin(r, [pc |-> "deliver", order |-> o, quantity |-> n, known |-> k], {})
            BY <3>1 DEF LoadToDeliver
      <3>4. req'[r].order = o BY <1>0, <3>3 DEF Begin, TypeOK
      <3> QED BY <2>2, <3>2, <3>4, RowsStay
    <2> QED BY <2>1, <2>2, RequestsStep
  <1>3. ASSUME NEW p \in Requests, req'[p].pc \in Shipping
        PROVE  orders'[req'[p].order] # NoRow /\ deliveries'[req'[p].delivery] # NoRow
    <2>0. ASSUME req[p].pc \in Shipping
          PROVE  /\ orders'[req[p].order] # NoRow /\ deliveries'[req[p].delivery] # NoRow
      <3>1. req[p].order \in Orders /\ req[p].delivery \in Deliveries
            BY <1>0, <2>0, ReqByPc DEF ShipRequest
      <3> QED BY <2>0, <3>1, RowsStay DEF TypeInv, Exist
    <2>1. CASE req'[p] = req[p] BY <1>3, <2>0, <2>1
    <2>2. ASSUME NEW d \in Deliveries, p = r, LoadToShip(r, d)
          PROVE  orders'[req'[p].order] # NoRow /\ deliveries'[req'[p].delivery] # NoRow
      <3>1. deliveries[d].status = "DRAFT" BY <2>2 DEF LoadToShip, Shippable
      <3>2. deliveries[d] # NoRow BY <3>1 DEF NoRow
      <3>3. deliveries[d].order \in Orders BY <1>0, <3>2 DEF TypeOK, DeliveryRow
      <3>4. orders[deliveries[d].order] # NoRow BY <3>2 DEF TypeInv, Exist
      <3>5. req'[r].order = deliveries[d].order /\ req'[r].delivery = d
            BY <1>0, <2>2 DEF LoadToShip, Begin, TypeOK
      <3> QED BY <2>2, <3>2, <3>3, <3>4, <3>5, RowsStay
    <2>3. ASSUME p = r, IssueStock(r) \/ SaveLine(r) \/ SaveShipped(r)
          PROVE  orders'[req'[p].order] # NoRow /\ deliveries'[req'[p].delivery] # NoRow
      <3>1. req[p].pc \in Shipping BY <2>3 DEF IssueStock, SaveLine, SaveShipped, Shipping
      <3> QED BY <2>0, <2>3, <3>1, MemoryStep
    <2> QED BY <1>3, <2>1, <2>2, <2>3, RequestsStep DEF Shipping
  <1> QED BY <1>1, <1>2, <1>3 DEF Exist

LEMMA TypeNext == TypeInv /\ [Next]_vars => TypeInv'
  <1> SUFFICES ASSUME TypeInv, [Next]_vars PROVE TypeInv'
      OBVIOUS
  <1>1. TypeOK' BY TypeOKNext
  <1>2. CASE \E r \in Requests : Acts(r) BY <1>1, <1>2, ExistStep DEF TypeInv
  <1>3. CASE \E q \in Quotes : CreateQuotation(q)
        BY <1>1, <1>3 DEF TypeInv, Exist, CreateQuotation
  <1>4. CASE UNCHANGED vars BY <1>1, <1>4 DEF TypeInv, Exist, vars, table
  <1> QED BY <1>2, <1>3, <1>4, NextActs

LEMMA AlwaysTyped == Spec => []TypeInv
  BY TypeInit, TypeNext, PTL DEF Spec

(* Every reachable state of the tables and the requests is well typed; a   *)
(* request in progress names rows that exist.                              *)
THEOREM TypeCorrect == Spec => []TypeOK
  <1>1. TypeInv => TypeOK BY DEF TypeInv
  <1> QED BY <1>1, AlwaysTyped, PTL

----------------------------------------------------------------------------
(* An INVOICED order has its documents, and a request past the invoice or  *)
(* past the tax document has left it behind.                               *)
Documents ==
    /\ \A o \in Orders : orders[o].status = "INVOICED" => o \in invoices /\ o \in taxed
    /\ \A r \in Requests : req[r].pc \in Invoicing => req[r].order \in invoices
    /\ \A r \in Requests : req[r].pc = "mark" => req[r].order \in taxed

(* Of each order at most one request is past the invoice, and none is of   *)
(* an order that is invoiced or whose invoicing has stopped half way.      *)
OneInvoicing ==
    /\ \A r, p \in Requests :
          /\ req[r].pc \in Invoicing
          /\ req[p].pc \in Invoicing
          /\ req[r].order = req[p].order
          => r = p
    /\ \A r \in Requests : req[r].pc \in Invoicing =>
          orders[req[r].order].status # "INVOICED" /\ req[r].order \notin halted
    /\ \A o \in halted : o \in invoices /\ orders[o].status # "INVOICED"

InvoiceInv == TypeInv /\ Documents /\ OneInvoicing

LEMMA StatusStep ==
    ASSUME TypeInv, NEW r \in Requests, Acts(r), NEW o \in Orders, orders'[o].status = "INVOICED"
    PROVE  orders[o].status = "INVOICED" \/ (SaveInvoiced(r) /\ req[r].order = o)
  <1>0. TypeOK BY DEF TypeInv
  <1>1. CASE orders'[o] = orders[o] BY <1>1
  <1>2. CASE CreateOrder(r, o)
    <2>1. orders'[o].status = "DRAFT" BY <1>0, <1>2 DEF CreateOrder, TypeOK
    <2> QED BY <2>1
  <1>3. CASE SaveLine(r) /\ req[r].known /\ req[r].order = o
    <2>1. req[r].row \in OrderRow /\ req[r].quantity \in Nat BY <1>3, MemoryStep DEF ShipRequest
    <2>2. Shipped(req[r].row, req[r].quantity).delivered \in Nat BY <2>1, RowTypes
    <2>3. orders[o] \in OrderRow
      <3>1. orders[o] # NoRow BY <1>3 DEF TypeInv, Exist, SaveLine, Shipping
      <3> QED BY <1>0, <3>1 DEF TypeOK
    <2>4. orders'[o] = [orders[o] EXCEPT !.delivered = Shipped(req[r].row, req[r].quantity).delivered]
          BY <1>0, <1>3 DEF SaveLine, TypeOK
    <2>5. orders'[o].status = orders[o].status BY <2>2, <2>3, <2>4, RowTypes
    <2> QED BY <2>5
  <1>4. CASE (SaveConfirmed(r) \/ SaveDelivered(r)) /\ req[r].order = o
    <2>1. PICK s \in {"CONFIRMED", "DELIVERED", "PARTIALLY_DELIVERED"} :
             req[r].pc \in {"confirm", "settle"} /\ SaveOrder(r, s)
          BY <1>4 DEF SaveConfirmed, SaveDelivered
    <2>2. req[r].row \in OrderRow BY <1>0, <2>1, SaveOrderType DEF OrderStatus
    <2>3. orders'[o] = [req[r].row EXCEPT !.status = s]
          BY <1>0, <1>4, <2>1 DEF SaveOrder, TypeOK
    <2>4. orders'[o].status = s BY <2>2, <2>3, RowTypes DEF OrderStatus
    <2> QED BY <2>4
  <1> QED BY <1>1, <1>2, <1>3, <1>4, OrdersStep

(* Only two steps add a document; none takes one away.                     *)
LEMMA PapersStep ==
    ASSUME TypeInv, NEW r \in Requests, Acts(r)
    PROVE  /\ invoices \subseteq invoices' /\ taxed \subseteq taxed'
           /\ \A o \in halted' :
                 o \in halted \/ (Fail(r) /\ req[r].pc \in Invoicing /\ o = req[r].order)
  <1>1. \/ CreateInvoice(r) \/ CreateMushak63(r) \/ Fail(r)
        \/ UNCHANGED <<invoices, taxed, halted>>
        BY DEF Acts, LoadToSend, LoadToResend, LoadToConvert, LoadQuote, Begin, table, CreateVersion,
               LoadToConfirm, LoadToInvoice, LoadOrder, LoadToDeliver, LoadToShip, CreateOrder,
               CreateDelivery, SaveSent, SaveExpired, SaveAccepted, SaveQuote, SaveConfirmed,
               SaveInvoiced, SaveDelivered, SaveOrder, IssueStock, SaveLine, SaveShipped, history
  <1>2. CASE CreateInvoice(r) BY <1>2 DEF CreateInvoice, history
  <1>3. CASE CreateMushak63(r) BY <1>3 DEF CreateMushak63, history
  <1>4. CASE Fail(r)
    <2>1. UNCHANGED <<invoices, taxed>> BY <1>4 DEF Fail, table
    <2>2. halted' = IF req[r].pc \in Invoicing THEN halted \cup {req[r].order} ELSE halted
          BY <1>4 DEF Fail, Invoicing
    <2>3. \A o \in halted' : o \in halted \/ (req[r].pc \in Invoicing /\ o = req[r].order)
          BY <2>2
    <2> QED BY <1>4, <2>1, <2>3
  <1>5. CASE UNCHANGED <<invoices, taxed, halted>> BY <1>5
  <1> QED BY <1>1, <1>2, <1>3, <1>4, <1>5

(* Who is past the invoice after a step was already, or has just made it.  *)
LEMMA InvoicingStep ==
    ASSUME TypeInv, NEW r \in Requests, Acts(r), NEW p \in Requests, req'[p].pc \in Invoicing
    PROVE  \/ req'[p] = req[p] /\ p # r
           \/ /\ p = r
              /\ req'[p].order = req[p].order
              /\ \/ req'[p].pc = "tax" /\ CreateInvoice(r)
                 \/ req'[p].pc = "mark" /\ CreateMushak63(r)
  <1>1. CASE p # r BY <1>1, RequestsStep
  <1>2. CASE p = r BY <1>2, RequestsStep, MemoryStep DEF Invoicing
  <1> QED BY <1>1, <1>2

LEMMA DocumentsStep ==
    ASSUME TypeInv, Documents, NEW r \in Requests, Acts(r)
    PROVE  Documents'
  <1>0. TypeOK BY DEF TypeInv
  <1>1. ASSUME NEW o \in Orders, orders'[o].status = "INVOICED"
       PROVE o \in invoices' /\ o \in taxed'
    <2>1. CASE orders[o].status = "INVOICED" BY <2>1, PapersStep DEF Documents
    <2>2. CASE SaveInvoiced(r) /\ req[r].order = o
          BY <2>2, PapersStep DEF Documents, SaveInvoiced, Invoicing
    <2> QED BY <1>1, <2>1, <2>2, StatusStep
  <1>2. ASSUME NEW p \in Requests, req'[p].pc \in Invoicing
        PROVE  req'[p].order \in invoices' /\ (req'[p].pc = "mark" => req'[p].order \in taxed')
    <2>1. CASE req'[p] = req[p] BY <1>2, <2>1, PapersStep DEF Documents
    <2>2. CASE p = r /\ req'[p].order = req[p].order /\ req'[p].pc = "tax" /\ CreateInvoice(r)
          BY <2>2 DEF CreateInvoice
    <2>3. CASE p = r /\ req'[p].order = req[p].order /\ CreateMushak63(r)
      <3>1. req[r].order \in invoices BY <2>3 DEF CreateMushak63, Documents, Invoicing
      <3> QED BY <2>3, <3>1 DEF CreateMushak63
    <2> QED BY <1>2, <2>1, <2>2, <2>3, InvoicingStep
  <1> QED BY <1>1, <1>2 DEF Documents, Invoicing

LEMMA OneInvoicingStep ==
    ASSUME TypeInv, Documents, OneInvoicing, NEW r \in Requests, Acts(r)
    PROVE  OneInvoicing'
  <1>0. TypeOK BY DEF TypeInv
  <1>1. ASSUME NEW p \in Requests, req'[p].pc \in Invoicing
        PROVE  \/ req[p].pc \in Invoicing /\ req'[p].order = req[p].order
               \/ p = r /\ CreateInvoice(r) /\ req'[p].order = req[p].order
                    /\ req[p].order \notin invoices
    <2>1. CreateMushak63(r) => req[r].pc \in Invoicing BY DEF CreateMushak63, Invoicing
    <2>2. CreateInvoice(r) => req[r].order \notin invoices BY DEF CreateInvoice, Numbered
    <2> QED BY <1>1, <2>1, <2>2, InvoicingStep
  <1>2. ASSUME NEW p \in Requests, NEW t \in Requests, req'[p].pc \in Invoicing,
               req'[t].pc \in Invoicing, req'[p].order = req'[t].order
        PROVE  p = t
    <2>1. CASE req[p].pc \in Invoicing /\ req[t].pc \in Invoicing
      <3>1. req'[p].order = req[p].order /\ req'[t].order = req[t].order BY <1>1, <1>2
      <3> QED BY <1>2, <2>1, <3>1 DEF OneInvoicing
    <2>2. CASE req[p].pc \notin Invoicing \/ req[t].pc \notin Invoicing
          BY <1>1, <1>2, <2>2 DEF Documents
    <2> QED BY <2>1, <2>2
  <1>3. ASSUME NEW p \in Requests, req'[p].pc \in Invoicing
        PROVE  orders'[req'[p].order].status # "INVOICED" /\ req'[p].order \notin halted'
    <2> PICK o : o = req'[p].order OBVIOUS
    <2>1. o = req[p].order /\ o \in Orders
      <3>1. req[p].pc \in Invoicing \/ (CreateInvoice(r) /\ p = r) BY <1>1, <1>3
      <3>2. req[p] \in OrderRequest BY <1>0, <3>1, ReqByPc DEF Invoicing, CreateInvoice
      <3> QED BY <1>1, <1>3, <3>2 DEF OrderRequest
    <2>2. orders[o].status # "INVOICED" /\ o \notin halted
          BY <1>1, <1>3, <2>1 DEF OneInvoicing, Documents
    <2>3. ~(SaveInvoiced(r) /\ req[r].order = o)
      <3>1. SUFFICES ASSUME SaveInvoiced(r), req[r].order = o PROVE FALSE
            OBVIOUS
      <3>2. req[r].pc = "mark" BY <3>1 DEF SaveInvoiced
      <3>3. p = r
            BY <1>1, <1>3, <2>1, <3>1, <3>2 DEF OneInvoicing, Documents, Invoicing
      <3>4. req'[r].pc \in Invoicing => CreateInvoice(r) \/ CreateMushak63(r)
            BY RequestsStep DEF Invoicing
      <3> QED BY <1>3, <3>2, <3>3, <3>4, <1>0
           DEF CreateInvoice, CreateMushak63, SaveInvoiced, SaveOrder, TypeOK, Idle, Invoicing
    <2>4. ~(Fail(r) /\ req[r].pc \in Invoicing /\ o = req[r].order)
      <3>1. SUFFICES ASSUME Fail(r), req[r].pc \in Invoicing, o = req[r].order PROVE FALSE
            OBVIOUS
      <3>2. p = r
            BY <1>1, <1>3, <2>1, <3>1 DEF OneInvoicing, Documents
      <3>3. req'[r] = Idle BY <1>0, <3>1 DEF Fail, TypeOK
      <3> QED BY <1>3, <3>2, <3>3 DEF Idle, Invoicing
    <2> QED BY <2>1, <2>2, <2>3, <2>4, StatusStep, PapersStep
  <1>4. ASSUME NEW o \in halted' PROVE o \in invoices' /\ orders'[o].status # "INVOICED"
    <2>1. CASE o \in halted
      <3>1. o \in Orders /\ o \in invoices /\ orders[o].status # "INVOICED"
            BY <1>0, <2>1 DEF OneInvoicing, TypeOK
      <3>2. ~(SaveInvoiced(r) /\ req[r].order = o)
            BY <2>1 DEF OneInvoicing, SaveInvoiced, Invoicing
      <3> QED BY <3>1, <3>2, StatusStep, PapersStep
    <2>2. CASE Fail(r) /\ req[r].pc \in Invoicing /\ o = req[r].order
      <3>1. UNCHANGED <<orders, invoices>> BY <2>2 DEF Fail, table
      <3> QED BY <2>2, <3>1 DEF OneInvoicing, Documents
    <2> QED BY <2>1, <2>2, PapersStep
  <1> QED BY <1>2, <1>3, <1>4 DEF OneInvoicing

LEMMA InvoiceNext == InvoiceInv /\ [Next]_vars => InvoiceInv'
  <1> SUFFICES ASSUME InvoiceInv, [Next]_vars PROVE InvoiceInv'
      OBVIOUS
  <1>1. TypeInv' BY TypeNext DEF InvoiceInv
  <1>2. CASE \E r \in Requests : Acts(r)
        BY <1>1, <1>2, DocumentsStep, OneInvoicingStep DEF InvoiceInv
  <1>3. CASE \E q \in Quotes : CreateQuotation(q)
        BY <1>1, <1>3 DEF InvoiceInv, Documents, OneInvoicing, CreateQuotation, history
  <1>4. CASE UNCHANGED vars
        BY <1>1, <1>4 DEF InvoiceInv, Documents, OneInvoicing, vars, table, history
  <1> QED BY <1>2, <1>3, <1>4, NextActs

LEMMA AlwaysInvoiced == Spec => []InvoiceInv
  <1>1. Init => InvoiceInv
    <2> SUFFICES ASSUME Init PROVE InvoiceInv
        OBVIOUS
    <2>1. \A r \in Requests : req[r].pc = "idle" BY DEF Init, Idle
    <2>2. \A o \in Orders : orders[o].status = "NONE" BY RowTypes DEF Init
    <2> QED BY <2>1, <2>2, TypeInit DEF Init, InvoiceInv, Documents, OneInvoicing, Invoicing
  <1> QED BY <1>1, InvoiceNext, PTL DEF Spec

(* confirmSalesOrder, shipDeliveryOrder and createInvoiceFromSalesOrder    *)
(* save the whole row of an order they loaded earlier: however they        *)
(* overwrite each other, an INVOICED order has its invoice and its tax     *)
(* document.                                                               *)
THEOREM InvoicedHasDocuments == Spec => []InvoicedIsDocumented
  <1>1. InvoiceInv => InvoicedIsDocumented BY DEF InvoiceInv, Documents, InvoicedIsDocumented
  <1> QED BY <1>1, AlwaysInvoiced, PTL

(* An invoicing that stopped after the invoice was committed is never made *)
(* up for: createInvoice refuses the number on every retry.                *)
THEOREM HalfInvoicedForGood == Spec => []HalfInvoicedStays
  <1>1. InvoiceInv => HalfInvoicedStays BY DEF InvoiceInv, OneInvoicing, HalfInvoicedStays
  <1> QED BY <1>1, AlwaysInvoiced, PTL

----------------------------------------------------------------------------
\* Request r has the row of order o, of delivery d, in memory.
HasOrder(r, o) ==
    req[r].pc \in {"confirm", "invoice", "tax", "mark"} \cup Shipping /\ req[r].order = o
HasDelivery(r, d) == req[r].pc \in Shipping /\ req[r].delivery = d

(* Two requests with the same row in memory have raced for it.             *)
RaceIsSeen ==
    \A r, p \in Requests :
        r # p =>
        /\ \A o \in Orders : HasOrder(r, o) /\ HasOrder(p, o) => o \in raced
        /\ \A d \in Deliveries : HasDelivery(r, d) /\ HasDelivery(p, d) => d \in raced

(* Alone and without a failure, the stock of a delivery is issued once:    *)
(* before it is, the request stands at the issue, and afterwards the       *)
(* delivery is shipped or about to be.                                     *)
IssuedOnce ==
    \A d \in Deliveries \ (raced \cup broken) :
        /\ shipments[d] <= 1
        /\ shipments[d] = 1 =>
              deliveries[d].status = "SHIPPED"
                 \/ \E r \in Requests : req[r].pc \in {"line", "ship"} /\ req[r].delivery = d
        /\ \A r \in Requests : req[r].pc = "issue" /\ req[r].delivery = d => shipments[d] = 0

ShipInv == TypeInv /\ RaceIsSeen /\ IssuedOnce

\* r loads the row of order o.
LoadsOrder(r, o) ==
    \/ LoadToConfirm(r, o) \/ LoadToInvoice(r, o)
    \/ \E d \in Deliveries : LoadToShip(r, d) /\ deliveries[d].order = o

LEMMA HoldsRow ==
    ASSUME TypeOK, NEW r \in Requests
    PROVE  /\ \A o \in Orders : HasOrder(r, o) => o \in Holds(r)
           /\ \A d \in Deliveries : HasDelivery(r, d) => d \in Holds(r)
  <1> PICK pc : pc = req[r].pc OBVIOUS
  <1>1. CASE pc \in {"confirm", "invoice", "tax", "mark"}
       BY <1>1 DEF Holds, HasOrder, HasDelivery, Shipping
  <1>2. CASE pc \in Shipping BY <1>2 DEF Holds, HasOrder, HasDelivery, Shipping
  <1> QED BY <1>1, <1>2 DEF HasOrder, HasDelivery

(* The history only grows, and only issueStock counts.                     *)
LEMMA HistoryStep ==
    ASSUME TypeInv, NEW r \in Requests, Acts(r)
    PROVE  /\ raced \subseteq raced' /\ broken \subseteq broken'
           /\ IssueStock(r) \/ UNCHANGED <<issued, shipments, astray>>
  <1>1. \A new, loaded : Begin(r, new, loaded) =>
           /\ raced \subseteq raced' /\ broken' = broken
           /\ UNCHANGED <<issued, shipments, astray>>
        BY DEF Begin, table
  <1>2. CASE \/ \E x \in Quotes : LoadToSend(r, x) \/ LoadToResend(r, x) \/ LoadToConvert(r, x)
             \/ \E o \in Orders :
                   LoadToConfirm(r, o) \/ LoadToInvoice(r, o) \/ LoadToDeliver(r, o)
             \/ \E d \in Deliveries : LoadToShip(r, d)
        BY <1>1, <1>2 DEF LoadToSend, LoadToResend, LoadToConvert, LoadQuote, LoadToConfirm,
                          LoadToInvoice, LoadOrder, LoadToDeliver, LoadToShip
  <1>3. Fail(r) => /\ raced \subseteq raced' /\ broken \subseteq broken'
                   /\ UNCHANGED <<issued, shipments, astray>>
        BY DEF Fail, table
  <1>4. IssueStock(r) => raced \subseteq raced' /\ broken \subseteq broken' BY DEF IssueStock
  <1>5. CASE \/ \E x \in Quotes : CreateVersion(r, x)
             \/ \E o \in Orders : CreateOrder(r, o)
             \/ \E d \in Deliveries : CreateDelivery(r, d)
             \/ SaveSent(r) \/ SaveExpired(r) \/ SaveAccepted(r) \/ SaveConfirmed(r)
             \/ CreateInvoice(r) \/ CreateMushak63(r) \/ SaveInvoiced(r)
             \/ SaveLine(r) \/ SaveShipped(r) \/ SaveDelivered(r)
        BY <1>5 DEF CreateVersion, CreateOrder, CreateDelivery, SaveSent, SaveExpired,
                    SaveAccepted, SaveQuote, SaveConfirmed, SaveInvoiced, SaveDelivered, SaveOrder,
                    CreateInvoice, CreateMushak63, SaveLine, SaveShipped, history
  <1> QED BY <1>2, <1>3, <1>4, <1>5 DEF Acts

(* A request that loads a row another has in memory makes it a raced one.  *)
LEMMA LoadStep ==
    ASSUME TypeInv, NEW r \in Requests
    PROVE  /\ \A o \in Orders : LoadsOrder(r, o) =>
                 /\ req'[r].pc \in {"confirm", "invoice", "issue"}
                 /\ req'[r].order = o /\ req'[r].row = orders[o]
                 /\ orders[o] # NoRow
                 /\ \A p \in Requests \ {r} : HasOrder(p, o) => o \in raced'
                 /\ UNCHANGED <<orders, deliveries, issued, astray, shipments, broken>>
           /\ \A d \in Deliveries : LoadToShip(r, d) =>
                 /\ LoadsOrder(r, deliveries[d].order) /\ deliveries[d].order \in Orders
                 /\ req'[r].pc = "issue" /\ req'[r].delivery = d
                 /\ \A p \in Requests \ {r} : HasDelivery(p, d) => d \in raced'
  <1>0. TypeOK BY DEF TypeInv
  <1>1. ASSUME NEW new, NEW loaded, Begin(r, new, loaded)
        PROVE  /\ req'[r] = new
               /\ \A p \in Requests \ {r}, k \in loaded : k \in Holds(p) => k \in raced'
               /\ UNCHANGED <<orders, deliveries, issued, astray, shipments, broken>>
        BY <1>0, <1>1 DEF Begin, table, TypeOK
  <1>2. ASSUME NEW o \in Orders, LoadToConfirm(r, o) \/ LoadToInvoice(r, o)
        PROVE  /\ req'[r].pc \in {"confirm", "invoice"}
               /\ req'[r].order = o /\ req'[r].row = orders[o]
               /\ orders[o] # NoRow
               /\ \A p \in Requests \ {r} : HasOrder(p, o) => o \in raced'
               /\ UNCHANGED <<orders, deliveries, issued, astray, shipments, broken>>
    <2>1. PICK pc \in {"confirm", "invoice"} :
             Begin(r, [pc |-> pc, order |-> o, row |-> orders[o]], {o})
          BY <1>2 DEF LoadToConfirm, LoadToInvoice, LoadOrder
    <2>2. orders[o].status \in {"DRAFT", "CONFIRMED", "DELIVERED", "PARTIALLY_DELIVERED"}
          BY <1>2 DEF LoadToConfirm, LoadToInvoice, LoadOrder
    <2>3. orders[o] # NoRow BY <2>2, RowTypes
    <2> DEFINE new == [pc |-> pc, order |-> o, row |-> orders[o]]
    <2>4. new.pc = pc /\ new.order = o /\ new.row = orders[o] OBVIOUS
    <2>5. Begin(r, new, {o}) BY <2>1
    <2> HIDE DEF new
    <2>6. /\ req'[r] = new
          /\ \A p \in Requests \ {r}, k \in {o} : k \in Holds(p) => k \in raced'
          /\ UNCHANGED <<orders, deliveries, issued, astray, shipments, broken>>
          BY <1>1, <2>5
    <2> QED BY <1>0, <2>3, <2>4, <2>6, HoldsRow
  <1>3. ASSUME NEW d \in Deliveries, LoadToShip(r, d)
        PROVE  /\ deliveries[d].order \in Orders
               /\ req'[r].pc = "issue" /\ req'[r].delivery = d
               /\ req'[r].order = deliveries[d].order
               /\ req'[r].row = orders[deliveries[d].order]
               /\ orders[deliveries[d].order] # NoRow
               /\ \A p \in Requests \ {r} :
                     /\ HasDelivery(p, d) => d \in raced'
                     /\ HasOrder(p, deliveries[d].order) => deliveries[d].order \in raced'
               /\ UNCHANGED <<orders, deliveries, issued, astray, shipments, broken>>
    <2> DEFINE row == deliveries[d]
               new == [pc |-> "issue", delivery |-> d, order |-> row.order,
                       row |-> orders[row.order], quantity |-> row.quantity,
                       known |-> row.known]
    <2>1. row.status = "DRAFT" BY <1>3 DEF LoadToShip, Shippable
    <2>2. row \in DeliveryRow /\ row # NoRow BY <1>0, <2>1, NoStatus DEF TypeOK, DeliveryStatus
    <2>3. row.order \in Orders BY <2>2 DEF DeliveryRow
    <2>4. orders[row.order] # NoRow BY <2>2 DEF TypeInv, Exist
    <2>5. /\ new.pc = "issue" /\ new.delivery = d /\ new.order = row.order
          /\ new.row = orders[row.order]
          OBVIOUS
    <2>6. Begin(r, new, {d, row.order}) BY <1>3 DEF LoadToShip
    <2> HIDE DEF new
    <2>7. /\ req'[r] = new
          /\ \A p \in Requests \ {r}, k \in {d, row.order} : k \in Holds(p) => k \in raced'
          /\ UNCHANGED <<orders, deliveries, issued, astray, shipments, broken>>
          BY <1>1, <2>6
    <2>8. /\ \A p \in Requests \ {r} : d \in Holds(p) => d \in raced'
          /\ \A p \in Requests \ {r} : row.order \in Holds(p) => row.order \in raced'
          BY <2>7
    <2> QED BY <1>0, <2>3, <2>4, <2>5, <2>7, <2>8, HoldsRow
  <1>4. ASSUME NEW o \in Orders, LoadsOrder(r, o)
        PROVE  /\ req'[r].pc \in {"confirm", "invoice", "issue"}
               /\ req'[r].order = o /\ req'[r].row = orders[o]
               /\ orders[o] # NoRow
               /\ \A p \in Requests \ {r} : HasOrder(p, o) => o \in raced'
               /\ UNCHANGED <<orders, deliveries, issued, astray, shipments, broken>>
    <2>1. CASE LoadToConfirm(r, o) \/ LoadToInvoice(r, o) BY <1>2, <2>1
    <2>2. CASE \E d \in Deliveries : LoadToShip(r, d) /\ deliveries[d].order = o
          BY <1>3, <2>2
    <2> QED BY <1>4, <2>1, <2>2 DEF LoadsOrder
  <1> QED BY <1>3, <1>4 DEF LoadsOrder

\* The steps with which r goes on with the order it has.
GoesOn(r) == CreateInvoice(r) \/ CreateMushak63(r) \/ IssueStock(r) \/ SaveLine(r) \/ SaveShipped(r)

(* Who has a row after a step had it before, or has just loaded it.        *)
LEMMA HasStep ==
    ASSUME TypeInv, NEW r \in Requests, Acts(r), NEW p \in Requests
    PROVE  /\ p # r => req'[p] = req[p]
           /\ \A o \in Orders : p = r /\ HasOrder(r, o)' =>
                 LoadsOrder(r, o) \/ (GoesOn(r) /\ HasOrder(r, o))
           /\ \A d \in Deliveries : p = r /\ HasDelivery(r, d)' =>
                 \/ LoadToShip(r, d)
                 \/ (IssueStock(r) \/ SaveLine(r) \/ SaveShipped(r)) /\ HasDelivery(r, d)
  <1>1. p # r => req'[p] = req[p] BY RequestsStep
  <1>2. /\ IssueStock(r) \/ SaveLine(r) \/ SaveShipped(r) => req[r].pc \in Shipping
        /\ CreateInvoice(r) \/ CreateMushak63(r) => req[r].pc \in {"invoice", "tax"}
        BY DEF IssueStock, SaveLine, SaveShipped, CreateInvoice, CreateMushak63, Shipping
  <1>3. \A o \in Orders : LoadToConfirm(r, o) \/ LoadToInvoice(r, o) => LoadsOrder(r, o)
        BY DEF LoadsOrder
  <1>4. ASSUME NEW o \in Orders, HasOrder(r, o)'
        PROVE  LoadsOrder(r, o) \/ (GoesOn(r) /\ HasOrder(r, o))
    <2>0. req'[r].pc \in {"confirm", "invoice", "tax", "mark"} \cup Shipping /\ req'[r].order = o
          BY <1>4 DEF HasOrder
    <2>1. CASE req'[r].pc = "confirm"
      <3>1. PICK x \in Orders : LoadToConfirm(r, x) BY <2>1, RequestsStep
      <3> QED BY <1>3, <2>0, <3>1, LoadStep
    <2>2. CASE req'[r].pc = "invoice"
      <3>1. PICK x \in Orders : LoadToInvoice(r, x) BY <2>2, RequestsStep
      <3> QED BY <1>3, <2>0, <3>1, LoadStep
    <2>3. CASE req'[r].pc = "issue"
      <3>1. PICK d \in Deliveries : LoadToShip(r, d) BY <2>3, RequestsStep
      <3> QED BY <2>0, <3>1, LoadStep
    <2>4. CASE req'[r].pc \in {"tax", "mark"}
      <3>1. CreateInvoice(r) \/ CreateMushak63(r) BY <2>4, RequestsStep
      <3> QED BY <1>2, <2>0, <3>1, MemoryStep DEF GoesOn, HasOrder
    <2>5. CASE req'[r].pc \in {"line", "ship", "settle"}
      <3>1. IssueStock(r) \/ SaveLine(r) \/ SaveShipped(r) BY <2>5, RequestsStep
      <3> QED BY <1>2, <2>0, <3>1, MemoryStep DEF GoesOn, HasOrder
    <2> QED BY <2>0, <2>1, <2>2, <2>3, <2>4, <2>5 DEF Shipping
  <1>5. ASSUME NEW d \in Deliveries, HasDelivery(r, d)'
        PROVE  \/ LoadToShip(r, d)
               \/ (IssueStock(r) \/ SaveLine(r) \/ SaveShipped(r)) /\ HasDelivery(r, d)
    <2>0. req'[r].pc \in Shipping /\ req'[r].delivery = d BY <1>5 DEF HasDelivery
    <2>1. CASE req'[r].pc = "issue"
      <3>1. PICK x \in Deliveries : LoadToShip(r, x) BY <2>1, RequestsStep
      <3> QED BY <2>0, <3>1, LoadStep
    <2>2. CASE req'[r].pc \in {"line", "ship", "settle"}
      <3>1. IssueStock(r) \/ SaveLine(r) \/ SaveShipped(r) BY <2>2, RequestsStep
      <3> QED BY <1>2, <2>0, <3>1, MemoryStep DEF HasDelivery
    <2> QED BY <2>0, <2>1, <2>2 DEF Shipping
  <1> QED BY <1>1, <1>4, <1>5

LEMMA RaceStep ==
    ASSUME TypeInv, RaceIsSeen, NEW r \in Requests, Acts(r)
    PROVE  RaceIsSeen'
  <1>1. ASSUME NEW p \in Requests \ {r}, NEW o \in Orders, HasOrder(r, o)', HasOrder(p, o)'
        PROVE  o \in raced'
    <2>1. HasOrder(p, o) BY <1>1, HasStep DEF HasOrder
    <2>2. CASE LoadsOrder(r, o) BY <2>1, <2>2, LoadStep
    <2>3. CASE HasOrder(r, o) BY <2>1, <2>3, HistoryStep DEF RaceIsSeen
    <2> QED BY <1>1, <2>2, <2>3, HasStep
  <1>2. ASSUME NEW p \in Requests \ {r}, NEW d \in Deliveries, HasDelivery(r, d)', HasDelivery(p, d)'
        PROVE  d \in raced'
    <2>1. HasDelivery(p, d) BY <1>2, HasStep DEF HasDelivery
    <2>2. CASE LoadToShip(r, d) BY <2>1, <2>2, LoadStep
    <2>3. CASE HasDelivery(r, d) BY <2>1, <2>3, HistoryStep DEF RaceIsSeen
    <2> QED BY <1>2, <2>2, <2>3, HasStep
  <1>3. ASSUME NEW p \in Requests \ {r}, NEW t \in Requests \ {r}, p # t
        PROVE  /\ \A o \in Orders : HasOrder(p, o)' /\ HasOrder(t, o)' => o \in raced'
               /\ \A d \in Deliveries : HasDelivery(p, d)' /\ HasDelivery(t, d)' => d \in raced'
    <2>1. /\ \A o \in Orders : HasOrder(p, o)' /\ HasOrder(t, o)'
                  => HasOrder(p, o) /\ HasOrder(t, o)
          /\ \A d \in Deliveries : HasDelivery(p, d)' /\ HasDelivery(t, d)' =>
                HasDelivery(p, d) /\ HasDelivery(t, d)
          BY HasStep DEF HasOrder, HasDelivery
    <2> QED BY <1>3, <2>1, HistoryStep DEF RaceIsSeen
  <1> SUFFICES ASSUME NEW p \in Requests, NEW t \in Requests, p # t
               PROVE  /\ \A o \in Orders : HasOrder(p, o)' /\ HasOrder(t, o)' => o \in raced'
                      /\ \A d \in Deliveries :
                            HasDelivery(p, d)' /\ HasDelivery(t, d)' => d \in raced'
      BY DEF RaceIsSeen
  <1>4. CASE p = r BY <1>1, <1>2, <1>4
  <1>5. CASE t = r BY <1>1, <1>2, <1>5
  <1> QED BY <1>3, <1>4, <1>5

LEMMA IssuedOnceStep ==
    ASSUME TypeInv, RaceIsSeen, IssuedOnce, NEW r \in Requests, Acts(r)
    PROVE  IssuedOnce'
  <1>0. TypeOK BY DEF TypeInv
  <1> SUFFICES ASSUME NEW d \in Deliveries, d \notin raced', d \notin broken'
               PROVE  /\ shipments'[d] <= 1
                      /\ shipments'[d] = 1 =>
                            deliveries'[d].status = "SHIPPED"
                               \/ \E p \in Requests :
                                     req'[p].pc \in {"line", "ship"} /\ req'[p].delivery = d
                      /\ \A p \in Requests :
                            req'[p].pc = "issue" /\ req'[p].delivery = d => shipments'[d] = 0
      BY DEF IssuedOnce
  <1>1. d \notin raced /\ d \notin broken BY HistoryStep
  <1>2. /\ shipments[d] <= 1 /\ shipments[d] \in Nat
        /\ shipments[d] = 1 =>
              deliveries[d].status = "SHIPPED"
                 \/ \E p \in Requests : req[p].pc \in {"line", "ship"} /\ req[p].delivery = d
        /\ \A p \in Requests : req[p].pc = "issue" /\ req[p].delivery = d => shipments[d] = 0
        BY <1>0, <1>1 DEF IssuedOnce, TypeOK
  <1>3. CASE IssueStock(r) /\ req[r].delivery = d
    <2>1. req[r].pc = "issue" BY <1>3 DEF IssueStock
    <2>2. shipments[d] = 0 BY <1>2, <1>3, <2>1
    <2>3. shipments'[d] = 1 BY <1>0, <1>3, <2>2 DEF IssueStock, TypeOK
    <2>4. req'[r].pc = "line" /\ req'[r].delivery = d
      <3>1. req'[r].delivery = d BY <1>3, MemoryStep
      <3>2. req[r] \in ShipRequest BY <1>3, MemoryStep
      <3> QED BY <1>0, <1>3, <3>1, <3>2 DEF IssueStock, TypeOK, ShipRequest
    <2>5. ASSUME NEW p \in Requests, req'[p].pc = "issue", req'[p].delivery = d PROVE FALSE
      <3>1. p # r BY <2>4, <2>5
      <3>2. HasDelivery(p, d) BY <2>5, <3>1, HasStep DEF HasDelivery, Shipping
      <3>3. HasDelivery(r, d) BY <1>3, <2>1 DEF HasDelivery, Shipping
      <3> QED BY <1>1, <3>1, <3>2, <3>3 DEF RaceIsSeen
    <2> QED BY <2>3, <2>4, <2>5
  <1>4. CASE ~(IssueStock(r) /\ req[r].delivery = d)
    <2>1. shipments'[d] = shipments[d]
      <3>1. CASE IssueStock(r) BY <1>0, <1>4, <3>1 DEF IssueStock, TypeOK
      <3> QED BY <3>1, HistoryStep
    <2>2. ASSUME shipments[d] = 1, deliveries[d].status = "SHIPPED"
          PROVE  deliveries'[d].status = "SHIPPED"
      <3>1. CASE SaveShipped(r) /\ req[r].delivery = d
        <4>1. deliveries[d] \in DeliveryRow BY <1>0, <2>2, NoStatus, RowTypes DEF TypeOK
        <4>2. deliveries'[d] = [deliveries[d] EXCEPT !.status = "SHIPPED"]
              BY <1>0, <3>1 DEF SaveShipped, TypeOK
        <4> QED BY <4>1, <4>2, RowTypes
      <3>2. ~CreateDelivery(r, d) BY <2>2, RowTypes DEF CreateDelivery
      <3> QED BY <2>2, <3>1, <3>2, DeliveriesStep
    <2>3. ASSUME NEW p \in Requests, req[p].pc \in {"line", "ship"}, req[p].delivery = d
          PROVE  \/ deliveries'[d].status = "SHIPPED"
                 \/ req'[p].pc \in {"line", "ship"} /\ req'[p].delivery = d
      <3>1. CASE p # r BY <2>3, <3>1, HasStep
      <3>2. CASE p = r /\ SaveLine(r)
        <4>1. req[r] \in ShipRequest /\ req'[r].delivery = d BY <2>3, <3>2, MemoryStep
        <4>2. req'[r].pc = "ship" BY <3>2, MemoryStep
        <4> QED BY <3>2, <4>1, <4>2
      <3>3. CASE p = r /\ SaveShipped(r)
        <4>1. deliveries[d] # NoRow BY <2>3 DEF TypeInv, Exist, Shipping
        <4>2. deliveries[d] \in DeliveryRow BY <1>0, <4>1 DEF TypeOK
        <4>3. deliveries'[d] = [deliveries[d] EXCEPT !.status = "SHIPPED"]
              BY <1>0, <2>3, <3>3 DEF SaveShipped, TypeOK
        <4> QED BY <4>2, <4>3, RowTypes
      <3>4. CASE p = r /\ Fail(r)
        <4>1. CASE req[r].pc = "line"
          <5>1. broken' = broken \cup {req[r].delivery, req[r].order} BY <3>4, <4>1 DEF Fail
          <5> QED BY <2>3, <3>4, <5>1
        <4>2. CASE req[r].pc = "ship"
          <5>1. broken' = broken \cup {req[r].delivery} BY <3>4, <4>2 DEF Fail
          <5> QED BY <2>3, <3>4, <5>1
        <4> QED BY <2>3, <3>4, <4>1, <4>2
      <3>5. ASSUME p = r, Acts(r) PROVE SaveLine(r) \/ SaveShipped(r) \/ Fail(r)
        <4>1. req[r].pc \in {"line", "ship"} /\ req[r] # Idle BY <2>3, <3>5 DEF Idle
        <4>2. \A new, loaded : ~Begin(r, new, loaded) BY <4>1 DEF Begin
        <4> QED BY <3>5, <4>1, <4>2
                DEF Acts, LoadToSend, LoadToResend, LoadToConvert, LoadQuote, CreateVersion,
                    LoadToConfirm, LoadToInvoice, LoadOrder, LoadToDeliver, LoadToShip, CreateOrder,
                    CreateDelivery, SaveSent, SaveExpired, SaveAccepted, SaveConfirmed, CreateInvoice,
                    CreateMushak63, SaveInvoiced, IssueStock, SaveDelivered
      <3> QED BY <3>1, <3>2, <3>3, <3>4, <3>5
    <2>4. ASSUME NEW p \in Requests, req'[p].pc = "issue", req'[p].delivery = d
          PROVE  shipments[d] = 0
      <3>1. CASE p # r BY <1>2, <2>4, <3>1, HasStep
      <3>2. CASE p = r
        <4>1. LoadToShip(r, d)
          <5>1. PICK x \in Deliveries : LoadToShip(r, x) BY <2>4, <3>2, RequestsStep
          <5> QED BY <2>4, <3>2, <5>1, LoadStep
        <4>2. deliveries[d].status = "DRAFT" BY <4>1 DEF LoadToShip, Shippable
        <4>3. ASSUME NEW t \in Requests, req[t].pc \in {"line", "ship"}, req[t].delivery = d
              PROVE  FALSE
          <5>1. HasDelivery(t, d) BY <4>3 DEF HasDelivery, Shipping
          <5>2. t # r BY <4>1, <4>3 DEF LoadToShip, Begin, Idle
          <5> QED BY <4>1, <5>1, <5>2, LoadStep
        <4> QED BY <1>2, <4>2, <4>3
      <3> QED BY <3>1, <3>2
    <2> QED BY <1>2, <2>1, <2>2, <2>3, <2>4
  <1> QED BY <1>3, <1>4

LEMMA ShipNext == ShipInv /\ [Next]_vars => ShipInv'
  <1> SUFFICES ASSUME ShipInv, [Next]_vars PROVE ShipInv'
      OBVIOUS
  <1>1. TypeInv' BY TypeNext DEF ShipInv
  <1>2. CASE \E r \in Requests : Acts(r)
        BY <1>1, <1>2, RaceStep, IssuedOnceStep DEF ShipInv
  <1>3. CASE \E q \in Quotes : CreateQuotation(q)
        BY <1>1, <1>3
        DEF ShipInv, RaceIsSeen, IssuedOnce, HasOrder, HasDelivery, CreateQuotation, history
  <1>4. CASE UNCHANGED vars
        BY <1>1, <1>4
        DEF ShipInv, RaceIsSeen, IssuedOnce, HasOrder, HasDelivery, vars, table, history
  <1> QED BY <1>2, <1>3, <1>4, NextActs

LEMMA AlwaysShipped == Spec => []ShipInv
  <1>1. Init => ShipInv
    <2> SUFFICES ASSUME Init PROVE ShipInv
        OBVIOUS
    <2>1. \A r \in Requests : req[r].pc = "idle" BY DEF Init, Idle
    <2> QED BY <2>1, TypeInit
            DEF Init, ShipInv, RaceIsSeen, IssuedOnce, HasOrder, HasDelivery, Shipping
  <1> QED BY <1>1, ShipNext, PTL DEF Spec

(* shipDeliveryOrder issues the stock before it saves that the delivery is *)
(* shipped: it does so a second time only when two requests shipped it at  *)
(* once or one stopped after the issue.                                    *)
THEOREM ShippedTwiceIsExplained == Spec => []ShippedTwiceNeedsFailure
  <1>1. ShipInv => ShippedTwiceNeedsFailure
        BY DEF ShipInv, TypeInv, TypeOK, IssuedOnce, ShippedTwiceNeedsFailure
  <1> QED BY <1>1, AlwaysShipped, PTL

----------------------------------------------------------------------------
(* Of an order no two requests held and no shipping left half way: its     *)
(* line, and the row a request has of it, says what was issued for it;     *)
(* between the issue and the save of the line it lacks the quantity just   *)
(* issued.                                                                 *)
Owed(r) == IF req[r].pc = "line" /\ req[r].known THEN req[r].quantity ELSE 0
Lacking(o) == \E r \in Requests : req[r].pc = "line" /\ req[r].known /\ req[r].order = o

LineSays(o) == orders[o].delivered + astray[o] = issued[o]
RowSays(r, o) == issued[o] = req[r].row.delivered + astray[o] + Owed(r)

LineAgrees ==
    \A o \in Orders \ (raced \cup broken) :
        /\ orders[o] = NoRow => issued[o] = 0 /\ astray[o] = 0
        /\ orders[o] # NoRow /\ ~Lacking(o) => LineSays(o)
        /\ \A r \in Requests : HasOrder(r, o) => RowSays(r, o)

LineInv == ShipInv /\ LineAgrees

LEMMA HeldRow ==
    ASSUME TypeOK, NEW r \in Requests, NEW o \in Orders, HasOrder(r, o)
    PROVE  req[r].row \in OrderRow /\ req[r].row.delivered \in Nat
  <1>1. req[r] \in OrderRequest \/ req[r] \in ShipRequest BY ReqByPc DEF HasOrder, Shipping
  <1>2. req[r].row \in OrderRow BY <1>1 DEF OrderRequest, ShipRequest
  <1> QED BY <1>2, RowTypes

(* The delivered quantity of an order changes only with the save of its    *)
(* line, and a save of the whole order restores the loaded one.            *)
LEMMA DeliveredStep ==
    ASSUME TypeInv, NEW r \in Requests, Acts(r), NEW o \in Orders
    PROVE  \/ orders'[o] = orders[o]
           \/ CreateOrder(r, o) /\ orders[o] = NoRow /\ orders'[o].delivered = 0
           \/ /\ SaveLine(r) /\ HasOrder(r, o) /\ req[r].pc = "line" /\ req[r].known
              /\ orders'[o].delivered = req[r].row.delivered + req[r].quantity
           \/ /\ HasOrder(r, o) /\ req[r].pc # "line" /\ req'[r] = Idle
              /\ orders'[o].delivered = req[r].row.delivered
              /\ UNCHANGED <<issued, astray, raced, broken>>
  <1>0. TypeOK BY DEF TypeInv
  <1>1. CASE CreateOrder(r, o)
    <2>1. orders'[o].delivered = 0 BY <1>0, <1>1 DEF CreateOrder, TypeOK
    <2> QED BY <1>1, <2>1 DEF CreateOrder
  <1>2. CASE SaveLine(r) /\ req[r].known /\ req[r].order = o
    <2>1. req[r].row \in OrderRow /\ req[r].quantity \in Nat BY <1>2, MemoryStep DEF ShipRequest
    <2>2. /\ Shipped(req[r].row, req[r].quantity).delivered = req[r].row.delivered + req[r].quantity
          /\ Shipped(req[r].row, req[r].quantity).delivered \in Nat
          BY <2>1, RowTypes
    <2>3. orders[o] \in OrderRow
      <3>1. orders[o] # NoRow BY <1>2 DEF TypeInv, Exist, SaveLine, Shipping
      <3> QED BY <1>0, <3>1 DEF TypeOK
    <2>4. orders'[o] = [orders[o] EXCEPT !.delivered = Shipped(req[r].row, req[r].quantity).delivered]
          BY <1>0, <1>2 DEF SaveLine, TypeOK
    <2>5. orders'[o].delivered = req[r].row.delivered + req[r].quantity
          BY <2>2, <2>3, <2>4, RowTypes
    <2>6. req[r].pc = "line" /\ HasOrder(r, o) BY <1>2 DEF SaveLine, HasOrder, Shipping
    <2> QED BY <1>2, <2>5, <2>6
  <1>3. CASE (SaveConfirmed(r) \/ SaveInvoiced(r) \/ SaveDelivered(r)) /\ req[r].order = o
    <2>1. PICK s \in OrderStatus : req[r].pc \in {"confirm", "mark", "settle"} /\ SaveOrder(r, s)
          BY <1>3 DEF SaveConfirmed, SaveInvoiced, SaveDelivered, OrderStatus
    <2>2. req[r].row \in OrderRow BY <1>0, <2>1, SaveOrderType
    <2>3. orders'[o] = [req[r].row EXCEPT !.status = s] BY <1>0, <1>3, <2>1 DEF SaveOrder, TypeOK
    <2>4. orders'[o].delivered = req[r].row.delivered BY <2>2, <2>3, RowTypes
    <2>5. /\ HasOrder(r, o) /\ req[r].pc # "line" /\ req'[r] = Idle
          /\ UNCHANGED <<issued, astray, raced, broken>>
          BY <1>0, <1>3, <2>1 DEF HasOrder, Shipping, SaveOrder, history, TypeOK
    <2> QED BY <2>4, <2>5
  <1> QED BY <1>1, <1>2, <1>3, OrdersStep

LEMMA LineAgreesStep ==
    ASSUME TypeInv, RaceIsSeen, LineAgrees, NEW r \in Requests, Acts(r)
    PROVE  LineAgrees'
  <1>0. TypeOK BY DEF TypeInv
  <1> SUFFICES ASSUME NEW o \in Orders, o \notin raced', o \notin broken'
               PROVE  /\ orders'[o] = NoRow => issued'[o] = 0 /\ astray'[o] = 0
                      /\ orders'[o] # NoRow /\ ~Lacking(o)'
                            => LineSays(o)'
                      /\ \A p \in Requests : HasOrder(p, o)' => RowSays(p, o)'
      BY DEF LineAgrees
  <1>1. o \notin raced /\ o \notin broken BY HistoryStep
  <1>2. /\ orders[o] = NoRow => issued[o] = 0 /\ astray[o] = 0
        /\ orders[o] # NoRow /\ ~Lacking(o) => LineSays(o)
        /\ \A p \in Requests : HasOrder(p, o) => RowSays(p, o)
        BY <1>1 DEF LineAgrees
  <1>3. \A p \in Requests : req[p].pc = "line" /\ req[p].order = o => HasOrder(p, o)
        BY DEF HasOrder, Shipping
  <1>4. \A p, t \in Requests : HasOrder(p, o) /\ HasOrder(t, o) => p = t
        BY <1>1 DEF RaceIsSeen
  <1>5. \A p \in Requests : HasOrder(p, o) => orders[o] # NoRow \/ req[p].pc \notin Shipping
        BY DEF HasOrder, TypeInv, Exist
  <1>6. ASSUME NEW p \in Requests, p # r, HasOrder(p, o)'
        PROVE  /\ HasOrder(p, o) /\ ~HasOrder(r, o) /\ req'[p] = req[p]
               /\ issued'[o] = issued[o] /\ astray'[o] = astray[o]
               /\ RowSays(p, o)' = RowSays(p, o)
    <2>1. req'[p] = req[p] BY <1>6, HasStep
    <2>2. HasOrder(p, o) BY <1>6, <2>1 DEF HasOrder
    <2>3. ~HasOrder(r, o) BY <1>4, <1>6, <2>2
    <2>4. ASSUME IssueStock(r) PROVE issued'[o] = issued[o] /\ astray'[o] = astray[o]
      <3>1. req[r].order # o BY <2>3, <2>4 DEF IssueStock, HasOrder, Shipping
      <3> QED BY <1>0, <2>4, <3>1 DEF IssueStock, TypeOK
    <2>5. Owed(p)' = Owed(p) BY <2>1 DEF Owed
    <2>6. issued'[o] = issued[o] /\ astray'[o] = astray[o] BY <2>4, HistoryStep
    <2>7. RowSays(p, o)' = RowSays(p, o) BY <2>1, <2>5, <2>6 DEF RowSays
    <2> QED BY <2>1, <2>2, <2>3, <2>6, <2>7
  <1>7. CASE ~HasOrder(r, o) /\ ~LoadsOrder(r, o)
    <2>1. issued'[o] = issued[o] /\ astray'[o] = astray[o]
      <3>1. CASE IssueStock(r)
        <4>1. req[r].order # o BY <1>7, <3>1 DEF IssueStock, HasOrder, Shipping
        <4> QED BY <1>0, <3>1, <4>1 DEF IssueStock, TypeOK
      <3> QED BY <3>1, HistoryStep
    <2>2. ~HasOrder(r, o)' BY <1>7, HasStep
    <2>3. \A p \in Requests : HasOrder(p, o)' <=> HasOrder(p, o)
          BY <1>7, <2>2, HasStep DEF HasOrder
    <2>4. Lacking(o)' <=> Lacking(o)
      <3>1. \A p \in Requests : req'[p].pc = "line" /\ req'[p].order = o => HasOrder(p, o)'
            BY DEF HasOrder, Shipping
      <3>2. \A p \in Requests : HasOrder(p, o) => req'[p] = req[p] BY <1>7, HasStep
      <3> QED BY <1>3, <2>3, <3>1, <3>2 DEF Lacking
    <2>5. \A p \in Requests : HasOrder(p, o)' => RowSays(p, o)' BY <1>2, <1>6, <1>7, <2>2
    <2>6. orders'[o] = orders[o] \/ (orders[o] = NoRow /\ orders'[o].delivered = 0)
          BY <1>7, DeliveredStep
    <2>7. ASSUME orders'[o] # NoRow, ~Lacking(o)' PROVE LineSays(o)'
      <3>1. CASE orders[o] = NoRow /\ orders'[o].delivered = 0
        <4>1. issued'[o] = 0 /\ astray'[o] = 0 BY <1>2, <2>1, <3>1
        <4> QED BY <3>1, <4>1 DEF LineSays
      <3>2. CASE orders'[o] = orders[o]
        <4>1. LineSays(o) BY <1>2, <2>4, <2>7, <3>2
        <4> QED BY <2>1, <3>2, <4>1 DEF LineSays
      <3> QED BY <2>6, <3>1, <3>2
    <2>8. orders'[o] = NoRow => issued'[o] = 0 /\ astray'[o] = 0 BY <1>2, <2>1, RowsStay
    <2> QED BY <2>5, <2>7, <2>8
  <1>8. CASE LoadsOrder(r, o)
    <2>1. /\ req'[r].pc \in {"confirm", "invoice", "issue"}
          /\ req'[r].row = orders[o] /\ orders[o] # NoRow
          /\ \A p \in Requests \ {r} : ~HasOrder(p, o)
          /\ orders' = orders /\ issued' = issued /\ astray' = astray
          BY <1>8, LoadStep
    <2>2. ~HasOrder(r, o)
          BY <1>0, <1>8, ReqByPc
               DEF LoadsOrder, LoadToConfirm, LoadToInvoice, LoadOrder, LoadToShip,
                                     Begin, HasOrder, Shipping
    <2>3. ~Lacking(o) BY <1>3, <2>1, <2>2 DEF Lacking
    <2>4. /\ orders[o].delivered + astray[o] = issued[o]
          /\ issued[o] \in Nat /\ astray[o] \in Nat
          BY <1>0, <1>2, <2>1, <2>3 DEF TypeOK, LineSays
    <2>5. \A p \in Requests : HasOrder(p, o)' => p = r BY <1>6, <2>1
    <2>6. Owed(r)' = 0 BY <2>1 DEF Owed
    <2>7. RowSays(r, o)' BY <2>1, <2>4, <2>6 DEF RowSays
    <2>8. LineSays(o)' BY <2>1, <2>4 DEF LineSays
    <2> QED BY <2>1, <2>5, <2>7, <2>8
  <1>9. CASE HasOrder(r, o)
    <2>0. /\ issued[o] = req[r].row.delivered + astray[o] + Owed(r)
          /\ astray[o] \in Nat
          /\ req[r].row.delivered \in Nat /\ req[r].row \in OrderRow
          /\ \A p \in Requests : p # r => ~HasOrder(p, o) /\ ~HasOrder(p, o)'
          BY <1>0, <1>2, <1>4, <1>6, <1>9, HeldRow DEF TypeOK, RowSays
    <2>00. \A p \in Requests : req'[p].pc = "line" /\ req'[p].order = o => HasOrder(p, o)'
           BY DEF HasOrder, Shipping
    <2>1. CASE IssueStock(r)
      <3>1. /\ req[r] \in ShipRequest /\ req'[r].order = o /\ req'[r].row = req[r].row
            /\ req'[r].quantity = req[r].quantity /\ req'[r].known = req[r].known
            /\ req[r].pc = "issue"
            BY <1>9, <2>1, MemoryStep DEF HasOrder, IssueStock
      <3>2. req'[r].pc = "line" BY <1>0, <2>1, <3>1 DEF IssueStock, TypeOK, ShipRequest
      <3>3. issued'[o] = issued[o] + req[r].quantity /\ req[r].quantity \in Nat
            BY <1>0, <1>9, <2>1, <3>1 DEF IssueStock, TypeOK, ShipRequest, HasOrder
      <3>4. issued'[o] = req'[r].row.delivered + astray'[o] + Owed(r)'
        <4>1. Owed(r) = 0 BY <3>1 DEF Owed
        <4>2. CASE req[r].known
          <5>1. astray' = astray BY <2>1, <4>2 DEF IssueStock
          <5>2. Owed(r)' = req[r].quantity BY <3>1, <3>2, <4>2 DEF Owed
          <5> QED BY <2>0, <3>1, <3>3, <4>1, <5>1, <5>2
        <4>3. CASE ~req[r].known
          <5>1. astray'[o] = astray[o] + req[r].quantity
                BY <1>0, <1>9, <2>1, <4>3 DEF IssueStock, TypeOK, HasOrder
          <5>2. Owed(r)' = 0 BY <3>1, <4>3 DEF Owed
          <5> QED BY <2>0, <3>1, <3>3, <4>1, <5>1, <5>2
        <4> QED BY <4>2, <4>3
      <3>5. ASSUME ~Lacking(o)' PROVE LineSays(o)'
        <4>1. ~req[r].known BY <3>1, <3>2, <3>5 DEF Lacking
        <4>2. ~Lacking(o) BY <1>3, <2>0, <3>1 DEF Lacking
        <4>3. astray'[o] = astray[o] + req[r].quantity
              BY <1>0, <1>9, <2>1, <4>1 DEF IssueStock, TypeOK, HasOrder
        <4>4. orders[o] # NoRow BY <1>5, <1>9, <3>1 DEF Shipping
        <4>5. orders[o].delivered \in Nat BY <1>0, <4>4, RowTypes DEF TypeOK
        <4>6. LineSays(o) BY <1>2, <4>2, <4>4
        <4>7. orders'[o] = orders[o] BY <2>1 DEF IssueStock
        <4> QED BY <2>0, <3>3, <4>3, <4>5, <4>6, <4>7 DEF LineSays
      <3>6. orders'[o] = orders[o] /\ orders[o] # NoRow
            BY <1>5, <1>9, <2>1, <3>1 DEF IssueStock, Shipping
      <3>7. RowSays(r, o)' BY <3>4 DEF RowSays
      <3> QED BY <2>0, <3>5, <3>6, <3>7
    <2>2. CASE SaveLine(r) /\ req[r].known
      <3>1. /\ req[r] \in ShipRequest /\ req'[r].row = Shipped(req[r].row, req[r].quantity)
            /\ req[r].pc = "line"
            BY <2>2, MemoryStep DEF SaveLine
      <3>2. req'[r].pc = "ship" BY <2>2, MemoryStep
      <3>3. issued'[o] = issued[o] /\ astray'[o] = astray[o] BY <2>2 DEF SaveLine, history
      <3>4. /\ issued[o] = req[r].row.delivered + astray[o] + req[r].quantity
            /\ issued[o] \in Nat /\ req[r].quantity \in Nat
            BY <1>0, <2>0, <2>2, <3>1 DEF ShipRequest, TypeOK, Owed
      <3>5. req[r].row \in OrderRow BY <2>0
      <3>6. /\ Shipped(req[r].row, req[r].quantity).delivered = req[r].row.delivered + req[r].quantity
             /\ Shipped(req[r].row, req[r].quantity).delivered \in Nat
             BY <3>4, <3>5, RowTypes
      <3>7. req'[r].row.delivered + astray[o] = issued[o] BY <2>0, <3>1, <3>4, <3>6
      <3>8. orders'[o].delivered + astray[o] = issued[o]
        <4>1. orders'[o] = [orders[o] EXCEPT !.delivered = Shipped(req[r].row, req[r].quantity).delivered]
              BY <1>0, <1>9, <2>2 DEF SaveLine, TypeOK, HasOrder
        <4>2. orders[o] \in OrderRow BY <1>0, <1>5, <1>9, <3>1 DEF TypeOK, Shipping
        <4>3. orders'[o].delivered = Shipped(req[r].row, req[r].quantity).delivered
              BY <3>6, <4>1, <4>2, RowTypes
        <4> QED BY <2>0, <3>4, <3>6, <4>3
      <3>9. orders'[o] # NoRow BY <1>5, <1>9, <3>1, RowsStay DEF Shipping
      <3>10. issued'[o] = req'[r].row.delivered + astray'[o] + Owed(r)'
        <4>1. Owed(r)' = 0 BY <3>2 DEF Owed
        <4>2. req'[r].row.delivered \in Nat BY <2>0, <3>1, <3>4, <3>6
        <4> QED BY <2>0, <3>3, <3>4, <3>7, <4>1, <4>2
      <3>11. \A p \in Requests : HasOrder(p, o)' => RowSays(p, o)' BY <2>0, <3>10 DEF RowSays
      <3>12. LineSays(o)' BY <3>3, <3>8 DEF LineSays
      <3> QED BY <3>9, <3>11, <3>12
    <2>3. CASE ~IssueStock(r) /\ ~SaveLine(r)
      <3>0. issued'[o] = issued[o] /\ astray'[o] = astray[o] BY <2>3, HistoryStep
      <3>1. ~LoadsOrder(r, o) \/ LoadsOrder(r, o) OBVIOUS
      <3>2. req[r].pc # "line"
        <4>1. SUFFICES ASSUME req[r].pc = "line" PROVE FALSE
              OBVIOUS
        <4>2. req[r] # Idle BY <4>1 DEF Idle
        <4>3. \A new, loaded : ~Begin(r, new, loaded) BY <4>2 DEF Begin
        <4>4. Fail(r)
              BY <2>3, <4>1, <4>3
              DEF Acts, LoadToSend, LoadToResend, LoadToConvert, LoadQuote, CreateVersion,
                  LoadToConfirm, LoadToInvoice, LoadOrder, LoadToDeliver, LoadToShip, CreateOrder,
                  CreateDelivery, SaveSent, SaveExpired, SaveAccepted, SaveConfirmed, CreateInvoice,
                  CreateMushak63, SaveInvoiced, SaveShipped, SaveDelivered
        <4>5. o \in broken' BY <1>9, <4>1, <4>4 DEF Fail, HasOrder
        <4> QED BY <4>5
      <3>3. issued[o] = req[r].row.delivered + astray[o]
        <4>1. Owed(r) = 0 BY <3>2 DEF Owed
        <4> QED BY <2>0, <4>1
      <3>4. ~Lacking(o) BY <1>3, <2>0, <3>2 DEF Lacking
      <3>5. ASSUME orders'[o] # NoRow PROVE LineSays(o)'
        <4>1. CASE orders'[o] = orders[o]
          <5>1. LineSays(o) BY <1>2, <3>4, <3>5, <4>1
          <5> QED BY <3>0, <4>1, <5>1 DEF LineSays
        <4>2. CASE CreateOrder(r, o) BY <1>9, <4>2 DEF CreateOrder, HasOrder, Shipping
        <4>3. CASE orders'[o].delivered = req[r].row.delivered BY <3>0, <3>3, <4>3 DEF LineSays
        <4> QED BY <2>3, <4>1, <4>2, <4>3, DeliveredStep
      <3>6. orders'[o] = NoRow => issued[o] = 0 /\ astray[o] = 0 BY <1>2, RowsStay
      <3>7. ASSUME HasOrder(r, o)'
            PROVE  RowSays(r, o)'
        <4>1. CreateInvoice(r) \/ CreateMushak63(r) \/ SaveShipped(r)
          <5>1. req[r] # Idle BY <1>9 DEF HasOrder, Shipping, Idle
          <5>2. ~LoadsOrder(r, o)
                BY <5>1 DEF LoadsOrder, LoadToConfirm, LoadToInvoice, LoadOrder, LoadToShip, Begin
          <5> QED BY <2>3, <3>7, <5>2, HasStep DEF GoesOn
        <4>2. req'[r].row = req[r].row BY <3>2, <4>1, MemoryStep
        <4>3. req'[r].pc # "line" BY <2>3, RequestsStep
        <4>4. Owed(r)' = 0 BY <4>3 DEF Owed
        <4> QED BY <2>0, <3>0, <3>3, <4>2, <4>4 DEF RowSays
      <3> QED BY <2>0, <3>0, <3>5, <3>6, <3>7
    <2>4. CASE SaveLine(r) /\ ~req[r].known
      <3>1. /\ req[r] \in ShipRequest /\ req'[r].row = req[r].row /\ req[r].pc = "line"
            /\ req'[r].order = req[r].order
            BY <2>4, MemoryStep DEF SaveLine
      <3>2. req'[r].pc = "ship" BY <2>4, MemoryStep
      <3>3. /\ issued'[o] = issued[o] /\ astray'[o] = astray[o] /\ orders'[o] = orders[o]
            BY <2>4 DEF SaveLine, history
      <3>4. Owed(r) = 0 /\ Owed(r)' = 0 BY <2>4, <3>2 DEF Owed
      <3>5. orders[o] # NoRow BY <1>5, <1>9, <3>1 DEF Shipping
      <3>6. ~Lacking(o) BY <1>3, <2>0, <2>4 DEF Lacking
      <3>7. issued'[o] = req'[r].row.delivered + astray'[o] + Owed(r)'
            BY <2>0, <3>1, <3>3, <3>4
      <3>8. \A p \in Requests : HasOrder(p, o)' => RowSays(p, o)' BY <2>0, <3>7 DEF RowSays
      <3>9. LineSays(o) BY <1>2, <3>5, <3>6
      <3>10. LineSays(o)' BY <3>3, <3>9 DEF LineSays
      <3> QED BY <3>3, <3>5, <3>8, <3>10
    <2> QED BY <2>1, <2>2, <2>3, <2>4
  <1> QED BY <1>7, <1>8, <1>9

LEMMA LineNext == LineInv /\ [Next]_vars => LineInv'
  <1> SUFFICES ASSUME LineInv, [Next]_vars PROVE LineInv'
      OBVIOUS
  <1>1. ShipInv' BY ShipNext DEF LineInv
  <1>2. CASE \E r \in Requests : Acts(r)
        BY <1>1, <1>2, LineAgreesStep DEF LineInv, ShipInv
  <1>3. CASE \E q \in Quotes : CreateQuotation(q)
        BY <1>1, <1>3 DEF LineInv, LineAgrees, LineSays, RowSays, HasOrder, Owed, Lacking,
                 CreateQuotation, history
  <1>4. CASE UNCHANGED vars
        BY <1>1, <1>4 DEF LineInv, LineAgrees, LineSays, RowSays, HasOrder, Owed, Lacking, vars,
                 table, history
  <1> QED BY <1>2, <1>3, <1>4, NextActs

(* shipDeliveryOrder adds to the line it loaded what it has issued: what   *)
(* the line says and what deliveries with another line id took make up     *)
(* what left the stock, unless two requests held the order at once or one  *)
(* stopped between the issue and the line.                                 *)
THEOREM DeliveredIsIssued == Spec => []IssuedIsDelivered
  <1>1. Init => LineInv
    <2> SUFFICES ASSUME Init PROVE LineInv
        OBVIOUS
    <2>1. \A r \in Requests : req[r].pc = "idle" BY DEF Init, Idle
    <2>2. RaceIsSeen /\ IssuedOnce
          BY <2>1 DEF Init, RaceIsSeen, IssuedOnce, HasOrder, HasDelivery, Shipping
    <2> QED BY <2>1, <2>2, TypeInit DEF Init, LineInv, ShipInv, LineAgrees, HasOrder, Shipping
  <1>2. LineInv => IssuedIsDelivered
    <2>1. \A o \in Orders : ~At(o, {"line"}) => ~Lacking(o) BY DEF At, Lacking
    <2> QED BY <2>1 DEF LineInv, LineAgrees, LineSays, IssuedIsDelivered
  <1> QED BY <1>1, <1>2, LineNext, PTL DEF Spec
----------------------------------------------------------------------------
Open == {"DRAFT", "SENT"}
Quoting == {"send", "expire", "version", "accept", "order"}

\* Request r has the row of quotation q in memory and will save it.
HasQuote(r, q) == req[r].pc \in {"send", "expire", "accept"} /\ req[r].quote = q

(* Every version has a first one, and every order its quotation.           *)
Ancestors ==
    /\ \A q \in Quotes : quotes[q] # NoRow => quotes[quotes[q].first] # NoRow
    /\ \A o \in Orders : orders[o] # NoRow => quotes[orders[o].quote] # NoRow
    /\ \A q \in raced \cap Quotes : quotes[q] # NoRow

(* What of the row in memory never changes in the table.                   *)
Remembered ==
    \A r \in Requests :
        /\ req[r].pc \in Quoting =>
              /\ quotes[req[r].quote] # NoRow
              /\ req[r].row.first = quotes[req[r].quote].first
        /\ req[r].pc \in {"send", "accept"} => req[r].row.status \in Open
        /\ \A o \in Orders : HasOrder(r, o) =>
              orders[o] # NoRow /\ req[r].row.quote = orders[o].quote

(* Who has a quotation alone has the row of the table.                     *)
Undivided ==
    \A r \in Requests, q \in Quotes : HasQuote(r, q) =>
        \/ q \in raced
        \/ /\ req[r].row = quotes[q]
           /\ \A p \in Requests : HasQuote(p, q) => p = r

Token == ({"quote"} \X Quotes) \cup ({"request"} \X Requests) \cup ({"order"} \X Orders)

(* Of the quotations with first version f: an open one may become an       *)
(* order, a request is about to make a version or an order, or there is an *)
(* order.                                                                  *)
Claims(f, t) ==
    LET k == t[2] IN
    \/ /\ t[1] = "quote"
       /\ quotes[k].status \in Open /\ quotes[k].first = f
    \/ /\ t[1] = "request" /\ req[k].pc = "version"
       /\ req[k].row.status \in Open /\ req[k].row.first = f
    \/ /\ t[1] = "request" /\ req[k].pc = "order"
       /\ quotes[req[k].quote].first = f
    \/ /\ t[1] = "order" /\ orders[k] # NoRow
       /\ quotes[orders[k].quote].first = f

OneClaim(f) == \A s, t \in Token : Claims(f, s) /\ Claims(f, t) => s = t

Calm(f) == \A q \in raced \cap Quotes : quotes[q].first # f

OneEach == \A f \in Quotes : Calm(f) => OneClaim(f)

QuoteInv == TypeInv /\ Ancestors /\ Remembered /\ Undivided /\ OneEach
----------------------------------------------------------------------------
LEMMA OpenRows ==
    /\ Open \subseteq QuoteStatus /\ NoRow.status \notin Open
    /\ \A row \in QuoteRow, s \in QuoteStatus :
          [row EXCEPT !.status = s].status = s /\ [row EXCEPT !.status = s].first = row.first
    /\ \A row \in OrderRow, s \in OrderStatus : [row EXCEPT !.status = s].quote = row.quote
    /\ \A row \in OrderRow, n \in Nat :
          /\ [row EXCEPT !.delivered = n].quote = row.quote
          /\ Shipped(row, n).quote = row.quote
  BY DEF Open, QuoteStatus, NoRow, QuoteRow, OrderRow, Shipped

LEMMA QuoteReq ==
    ASSUME TypeOK, NEW r \in Requests, req[r].pc \in Quoting
    PROVE  /\ req[r] \in QuoteRequest /\ req[r].quote \in Quotes /\ req[r].row \in QuoteRow
           /\ req[r].row.first \in Quotes
           /\ \A pc \in Quoting : /\ [req[r] EXCEPT !.pc = pc].pc = pc
                                  /\ [req[r] EXCEPT !.pc = pc].row = req[r].row
                                  /\ [req[r] EXCEPT !.pc = pc].quote = req[r].quote
  <1>1. req[r] \in QuoteRequest BY ReqByPc DEF Quoting
  <1>2. req[r].row \in QuoteRow /\ req[r].quote \in Quotes BY <1>1 DEF QuoteRequest
  <1> QED BY <1>1, <1>2 DEF QuoteRequest, QuoteRow

\* The three steps that save a quotation.
SavesQuote(r) == SaveSent(r) \/ SaveExpired(r) \/ SaveAccepted(r)

(* What a step of r does to the quotations.                                *)
LEMMA QuotesStep ==
    ASSUME TypeInv, NEW r \in Requests, Acts(r), NEW q \in Quotes
    PROVE  \/ quotes'[q] = quotes[q]
           \/ CreateVersion(r, q)
           \/ SavesQuote(r) /\ req[r].quote = q
  <1>0. TypeOK BY DEF TypeInv
  <1>1. CASE UNCHANGED quotes BY <1>1
  <1>2. ASSUME NEW n \in Quotes, CreateVersion(r, n) PROVE quotes'[q] = quotes[q] \/ n = q
        BY <1>0, <1>2 DEF CreateVersion, TypeOK
  <1>3. CASE SavesQuote(r)
        BY <1>0, <1>3 DEF SavesQuote, SaveSent, SaveExpired, SaveAccepted, SaveQuote, TypeOK
  <1>4. \/ UNCHANGED quotes
        \/ \E n \in Quotes : CreateVersion(r, n)
        \/ SavesQuote(r)
        BY DEF Acts, LoadToSend, LoadToResend, LoadToConvert, LoadQuote, Begin, table,
               LoadToConfirm, LoadToInvoice, LoadOrder, LoadToDeliver, LoadToShip, CreateOrder,
               CreateDelivery, SavesQuote, CreateInvoice, CreateMushak63, SaveConfirmed,
               SaveInvoiced, SaveDelivered, SaveOrder, IssueStock, SaveLine, SaveShipped, Fail
  <1> QED BY <1>1, <1>2, <1>3, <1>4

(* A save writes the row in memory with another status.                    *)
LEMMA SavedQuote ==
    ASSUME TypeInv, NEW r \in Requests, SavesQuote(r)
    PROVE  /\ req[r].pc \in {"send", "expire", "accept"}
           /\ req[r].quote \in Quotes /\ req[r].row \in QuoteRow
           /\ \E s \in QuoteStatus :
                 /\ quotes'[req[r].quote] = [req[r].row EXCEPT !.status = s]
                 /\ SaveSent(r) => s = "SENT"
                 /\ SaveExpired(r) => s = "EXPIRED"
                 /\ SaveAccepted(r) => s = "ACCEPTED"
           /\ quotes'[req[r].quote] \in QuoteRow
           /\ quotes'[req[r].quote].first = req[r].row.first
           /\ SaveSent(r) => req'[r].pc = "idle"
           /\ SaveExpired(r) \/ SaveAccepted(r) =>
                 /\ req'[r].quote = req[r].quote
                 /\ req'[r].row = req[r].row
           /\ SaveExpired(r) => req'[r].pc = "version"
           /\ SaveAccepted(r) => req'[r].pc = "order"
  <1>0. TypeOK BY DEF TypeInv
  <1>1. req[r].pc \in {"send", "expire", "accept"}
        BY DEF SavesQuote, SaveSent, SaveExpired, SaveAccepted
  <1>2. req[r].pc \in Quoting BY <1>1 DEF Quoting
  <1>3. /\ req[r].quote \in Quotes /\ req[r].row \in QuoteRow
        /\ \A pc \in Quoting : /\ [req[r] EXCEPT !.pc = pc].pc = pc
                               /\ [req[r] EXCEPT !.pc = pc].row = req[r].row
                               /\ [req[r] EXCEPT !.pc = pc].quote = req[r].quote
        BY <1>0, <1>2, QuoteReq
  <1>4. ASSUME NEW s, NEW pc, SaveQuote(r, s, pc)
        PROVE  quotes'[req[r].quote] = [req[r].row EXCEPT !.status = s]
        BY <1>0, <1>3, <1>4 DEF SaveQuote, TypeOK
  <1>5. \E s \in QuoteStatus :
           /\ quotes'[req[r].quote] = [req[r].row EXCEPT !.status = s]
           /\ SaveSent(r) => s = "SENT"
           /\ SaveExpired(r) => s = "EXPIRED"
           /\ SaveAccepted(r) => s = "ACCEPTED"
    <2>1. CASE SaveSent(r)
          BY <1>4, <2>1 DEF SaveSent, SaveExpired, SaveAccepted, QuoteStatus
    <2>2. CASE SaveExpired(r)
          BY <1>4, <2>2 DEF SaveSent, SaveExpired, SaveAccepted, QuoteStatus
    <2>3. CASE SaveAccepted(r)
          BY <1>4, <2>3 DEF SaveSent, SaveExpired, SaveAccepted, QuoteStatus
    <2> QED BY <2>1, <2>2, <2>3 DEF SavesQuote
  <1>6. quotes'[req[r].quote] \in QuoteRow /\ quotes'[req[r].quote].first = req[r].row.first
        BY <1>3, <1>5, OpenRows, RowTypes
  <1>7. ASSUME NEW new, req' = [req EXCEPT ![r] = new] PROVE req'[r] = new
        BY <1>0, <1>7 DEF TypeOK
  <1>8. SaveSent(r) => req'[r].pc = "idle"
    <2>1. SaveSent(r) => req' = [req EXCEPT ![r] = Idle] BY DEF SaveSent, SaveQuote
    <2>2. Idle.pc = "idle" BY DEF Idle
    <2> QED BY <1>7, <2>1, <2>2
  <1>9. SaveExpired(r) => /\ req'[r].pc = "version"
                          /\ req'[r].quote = req[r].quote /\ req'[r].row = req[r].row
        BY <1>3, <1>7 DEF SaveExpired, SaveQuote, Quoting
  <1>10. SaveAccepted(r) => /\ req'[r].pc = "order"
                            /\ req'[r].quote = req[r].quote /\ req'[r].row = req[r].row
        BY <1>3, <1>7 DEF SaveAccepted, SaveQuote, Quoting
  <1> QED BY <1>1, <1>3, <1>5, <1>6, <1>8, <1>9, <1>10

(* A new version is the row in memory.                                     *)
LEMMA NewVersion ==
    ASSUME TypeInv, NEW r \in Requests, NEW n \in Quotes, CreateVersion(r, n)
    PROVE  /\ req[r].pc = "version" /\ quotes[n] = NoRow
           /\ req[r].row \in QuoteRow /\ quotes'[n] = req[r].row
           /\ req'[r].pc = "idle"
  <1>0. TypeOK BY DEF TypeInv
  <1>1. req[r].row \in QuoteRow BY <1>0, QuoteReq DEF CreateVersion, Quoting
  <1>2. quotes'[n] = req[r].row BY <1>0 DEF CreateVersion, NextVersion, TypeOK
  <1>3. req'[r].pc = "idle" BY <1>0 DEF CreateVersion, Idle, TypeOK
  <1> QED BY <1>1, <1>2, <1>3 DEF CreateVersion

(* Quotations stay, and stay versions of the same one; orders stay with    *)
(* their quotation.                                                        *)
LEMMA QuotesStay ==
    ASSUME TypeInv, Remembered, NEW r \in Requests, Acts(r)
    PROVE  /\ \A q \in Quotes : quotes[q] # NoRow =>
                 quotes'[q] # NoRow /\ quotes'[q].first = quotes[q].first
           /\ \A o \in Orders : orders[o] # NoRow =>
                 orders'[o] # NoRow /\ orders'[o].quote = orders[o].quote
  <1>0. TypeOK BY DEF TypeInv
  <1>1. ASSUME NEW q \in Quotes, quotes[q] # NoRow
        PROVE  quotes'[q] # NoRow /\ quotes'[q].first = quotes[q].first
    <2>1. ~CreateVersion(r, q) BY <1>1 DEF CreateVersion
    <2>2. CASE SavesQuote(r) /\ req[r].quote = q
      <3>1. quotes'[q] \in QuoteRow /\ quotes'[q].first = req[r].row.first
            BY <2>2, SavedQuote
      <3>2. req[r].row.first = quotes[q].first
            BY <2>2, SavedQuote DEF Remembered, Quoting
      <3> QED BY <3>1, <3>2, RowTypes
    <2> QED BY <1>1, <2>1, <2>2, QuotesStep
  <1>2. ASSUME NEW o \in Orders, orders[o] # NoRow PROVE orders'[o].quote = orders[o].quote
    <2>0. orders[o] \in OrderRow BY <1>0, <1>2 DEF TypeOK
    <2>1. ~CreateOrder(r, o) BY <1>2 DEF CreateOrder
    <2>2. CASE SaveLine(r) /\ req[r].known /\ req[r].order = o
      <3>1. req[r].row \in OrderRow /\ req[r].quantity \in Nat
            BY <2>2, MemoryStep DEF ShipRequest
      <3>2. Shipped(req[r].row, req[r].quantity).delivered \in Nat BY <3>1, RowTypes
      <3>3. orders'[o] = [orders[o] EXCEPT !.delivered = Shipped(req[r].row, req[r].quantity).delivered]
            BY <1>0, <2>2 DEF SaveLine, TypeOK
      <3> QED BY <2>0, <3>2, <3>3, OpenRows
    <2>3. ASSUME NEW s \in OrderStatus, SaveOrder(r, s), req[r].order = o,
                 req[r].row \in OrderRow, HasOrder(r, o)
          PROVE  orders'[o].quote = orders[o].quote
      <3>1. orders'[o] = [req[r].row EXCEPT !.status = s]
            BY <1>0, <2>3 DEF SaveOrder, TypeOK
      <3>2. req[r].row.quote = orders[o].quote BY <2>3 DEF Remembered
      <3> QED BY <2>3, <3>1, <3>2, OpenRows
    <2>4. ASSUME req[r].order = o, SaveConfirmed(r) \/ SaveInvoiced(r) \/ SaveDelivered(r)
          PROVE  HasOrder(r, o) /\ \E s \in OrderStatus : SaveOrder(r, s) /\ req[r].row \in OrderRow
      <3>1. HasOrder(r, o)
            BY <2>4 DEF SaveConfirmed, SaveInvoiced, SaveDelivered, HasOrder, Shipping
      <3>2. CASE SaveConfirmed(r)
            BY <1>0, <3>1, <3>2, SaveOrderType DEF SaveConfirmed, OrderStatus
      <3>3. CASE SaveInvoiced(r)
            BY <1>0, <3>1, <3>3, SaveOrderType DEF SaveInvoiced, OrderStatus
      <3>4. CASE SaveDelivered(r)
            BY <1>0, <3>1, <3>4, SaveOrderType DEF SaveDelivered, OrderStatus
      <3> QED BY <2>4, <3>2, <3>3, <3>4
    <2> QED BY <1>2, <2>1, <2>2, <2>3, <2>4, OrdersStep
  <1> QED BY <1>1, <1>2, RowsStay

LEMMA LoadedQuote ==
    ASSUME TypeInv, NEW r \in Requests, NEW q \in Quotes, NEW pc \in {"send", "expire", "accept"},
           NEW allowed \in SUBSET QuoteStatus, LoadQuote(r, q, pc, allowed)
    PROVE  /\ req'[r].pc = pc /\ req'[r].quote = q /\ req'[r].row = quotes[q]
           /\ quotes[q].status \in allowed /\ quotes[q] # NoRow
           /\ UNCHANGED <<quotes, orders>>
           /\ \A p \in Requests : HasQuote(p, q) => p = r \/ q \in raced'
           /\ raced' \subseteq raced \cup {q} /\ req[r].pc = "idle"
  <1>0. TypeOK BY DEF TypeInv
  <1> DEFINE new == [pc |-> pc, quote |-> q, row |-> quotes[q]]
  <1>1. new.pc = pc /\ new.quote = q /\ new.row = quotes[q] OBVIOUS
  <1>2. Begin(r, new, {q}) /\ quotes[q].status \in allowed BY DEF LoadQuote
  <1> HIDE DEF new
  <1>3. /\ req'[r] = new /\ UNCHANGED <<quotes, orders>>
        /\ raced' = raced \cup {k \in {q} : \E p \in Requests \ {r} : k \in Holds(p)}
        BY <1>0, <1>2 DEF Begin, table, TypeOK
  <1>4. ASSUME NEW p \in Requests, HasQuote(p, q) PROVE q \in Holds(p)
        BY <1>4 DEF HasQuote, Holds
  <1>5. quotes[q] # NoRow BY <1>2, NoStatus
  <1>6. req[r].pc = "idle" BY <1>2 DEF Begin, Idle
  <1> QED BY <1>1, <1>2, <1>3, <1>4, <1>5, <1>6

(* A request that has come to something of a quotation has loaded it, or   *)
(* saved it before.                                                        *)
LEMMA QuoteLoads ==
    ASSUME TypeInv, NEW r \in Requests, Acts(r), req'[r].pc \in Quoting
    PROVE  \/ \E q \in Quotes, allowed \in SUBSET QuoteStatus :
                 /\ LoadQuote(r, q, req'[r].pc, allowed)
                 /\ req'[r].pc \in {"send", "expire", "accept"}
                 /\ req'[r].pc \in {"send", "accept"} => allowed \subseteq Open
           \/ SaveExpired(r) \/ SaveAccepted(r)
  <1>1. CASE req'[r].pc = "send"
    <2>1. PICK q \in Quotes : LoadToSend(r, q) BY <1>1, RequestsStep
    <2>2. {"DRAFT"} \in SUBSET QuoteStatus /\ {"DRAFT"} \subseteq Open BY DEF QuoteStatus, Open
    <2>3. LoadQuote(r, q, req'[r].pc, {"DRAFT"}) BY <1>1, <2>1 DEF LoadToSend
    <2> QED BY <1>1, <2>2, <2>3
  <1>2. CASE req'[r].pc = "accept"
    <2>1. PICK q \in Quotes : LoadToConvert(r, q) BY <1>2, RequestsStep
    <2>2. {"DRAFT", "SENT"} \in SUBSET QuoteStatus /\ {"DRAFT", "SENT"} \subseteq Open
          BY DEF QuoteStatus, Open
    <2>3. LoadQuote(r, q, req'[r].pc, {"DRAFT", "SENT"}) BY <1>2, <2>1 DEF LoadToConvert
    <2> QED BY <1>2, <2>2, <2>3
  <1>3. CASE req'[r].pc = "expire"
    <2>1. PICK q \in Quotes : LoadToResend(r, q) BY <1>3, RequestsStep
    <2>2. LoadQuote(r, q, req'[r].pc, QuoteStatus) BY <1>3, <2>1 DEF LoadToResend
    <2> QED BY <1>3, <2>2
  <1>4. CASE req'[r].pc \in {"version", "order"} BY <1>4, RequestsStep
  <1> QED BY <1>1, <1>2, <1>3, <1>4 DEF Quoting

(* A quotation that is new is its own first version.                       *)
LEMMA NewQuote ==
    ASSUME TypeInv, NEW q \in Quotes, CreateQuotation(q)
    PROVE  /\ quotes[q] = NoRow /\ quotes'[q] \in QuoteRow /\ quotes'[q].first = q
           /\ \A k \in Quotes \ {q} : quotes'[k] = quotes[k]
           /\ UNCHANGED <<orders, req, raced>>
  <1>0. TypeOK BY DEF TypeInv
  <1>1. PICK s \in Created : quotes' = [quotes EXCEPT ![q] = [status |-> s, first |-> q]]
        BY DEF CreateQuotation
  <1>2. s \in QuoteStatus BY OrderAssumption
  <1>3. quotes'[q] = [status |-> s, first |-> q] BY <1>0, <1>1 DEF TypeOK
  <1>4. quotes'[q] \in QuoteRow /\ quotes'[q].first = q BY <1>2, <1>3 DEF QuoteRow
  <1>5. \A k \in Quotes \ {q} : quotes'[k] = quotes[k] BY <1>0, <1>1 DEF TypeOK
  <1> QED BY <1>4, <1>5 DEF CreateQuotation, history

LEMMA RacedQuote ==
    ASSUME TypeInv, NEW r \in Requests, Acts(r), NEW q \in Quotes, q \in raced', q \notin raced
    PROVE  quotes[q] # NoRow
  <1>1. \A new, loaded : Begin(r, new, loaded) => q \in loaded BY DEF Begin
  <1>2. q \notin Orders /\ q \notin Deliveries BY OrderAssumption
  <1>3. ASSUME NEW k \in Quotes, LoadToSend(r, k) \/ LoadToResend(r, k) \/ LoadToConvert(r, k)
        PROVE  quotes[q] # NoRow
    <2>1. ASSUME NEW pc, NEW allowed \in SUBSET QuoteStatus, LoadQuote(r, k, pc, allowed)
          PROVE  quotes[q] # NoRow
          BY <1>1, <2>1, NoStatus DEF LoadQuote
    <2>2. {"DRAFT"} \in SUBSET QuoteStatus /\ {"DRAFT", "SENT"} \in SUBSET QuoteStatus
          BY DEF QuoteStatus
    <2> QED BY <1>3, <2>1, <2>2 DEF LoadToSend, LoadToResend, LoadToConvert
  <1>4. ASSUME NEW o \in Orders, LoadToConfirm(r, o) \/ LoadToInvoice(r, o) \/ LoadToDeliver(r, o)
        PROVE  FALSE
        BY <1>1, <1>2, <1>4 DEF LoadToConfirm, LoadToInvoice, LoadOrder, LoadToDeliver
  <1>5. ASSUME NEW d \in Deliveries, LoadToShip(r, d) PROVE FALSE
    <2>1. deliveries[d].order \in Orders
          BY <1>5, LoadStep
    <2> QED BY <1>1, <1>2, <1>5, <2>1 DEF LoadToShip
  <1>6. CASE UNCHANGED raced BY <1>6
  <1> QED BY <1>3, <1>4, <1>5, <1>6
          DEF Acts, CreateVersion, CreateOrder, CreateDelivery, SaveSent, SaveExpired,
              SaveAccepted, SaveQuote, SaveConfirmed, SaveInvoiced, SaveDelivered, SaveOrder,
              CreateInvoice, CreateMushak63, IssueStock, SaveLine, SaveShipped, Fail, history

LEMMA AncestorsStep ==
    ASSUME TypeInv, Ancestors, Remembered, NEW r \in Requests, Acts(r)
    PROVE  Ancestors'
  <1>0. TypeOK BY DEF TypeInv
  <1>a. ASSUME NEW q \in Quotes, quotes[q] # NoRow
        PROVE  quotes[q].first \in Quotes /\ quotes'[quotes[q].first] # NoRow
    <2>1. quotes[q].first \in Quotes BY <1>0, <1>a DEF TypeOK, QuoteRow
    <2> QED BY <1>a, <2>1, QuotesStay DEF Ancestors
  <1>1. ASSUME NEW q \in Quotes, quotes'[q] # NoRow PROVE quotes'[quotes'[q].first] # NoRow
    <2>1. CASE quotes[q] # NoRow BY <1>a, <2>1, QuotesStay
    <2>2. CASE CreateVersion(r, q)
      <3>1. /\ quotes[req[r].quote] # NoRow
            /\ req[r].row.first = quotes[req[r].quote].first
            BY <2>2, NewVersion DEF Remembered, Quoting
      <3>2. req[r].quote \in Quotes BY <1>0, <2>2, NewVersion, QuoteReq DEF Quoting
      <3>3. quotes'[q].first = quotes[req[r].quote].first BY <2>2, <3>1, NewVersion
      <3> QED BY <1>a, <3>1, <3>2, <3>3
    <2>3. CASE SavesQuote(r) /\ req[r].quote = q
      <3>1. quotes[q] # NoRow BY <2>3, SavedQuote DEF Remembered, Quoting
      <3> QED BY <2>1, <3>1
    <2> QED BY <1>1, <2>1, <2>2, <2>3, QuotesStep
  <1>2. ASSUME NEW o \in Orders, orders'[o] # NoRow PROVE quotes'[orders'[o].quote] # NoRow
    <2>1. CASE orders[o] # NoRow
      <3>1. orders[o].quote \in Quotes BY <1>0, <2>1 DEF TypeOK, OrderRow
      <3> QED BY <2>1, <3>1, QuotesStay DEF Ancestors
    <2>2. CASE CreateOrder(r, o)
      <3>1. req[r].quote \in Quotes /\ quotes[req[r].quote] # NoRow
            BY <1>0, <2>2, QuoteReq DEF CreateOrder, Remembered, Quoting
      <3>2. orders'[o].quote = req[r].quote BY <1>0, <2>2 DEF CreateOrder, TypeOK
      <3> QED BY <3>1, <3>2, QuotesStay
    <2>3. CASE (SaveLine(r) \/ SaveConfirmed(r) \/ SaveInvoiced(r) \/ SaveDelivered(r))
                  /\ req[r].order = o
      <3>1. HasOrder(r, o)
            BY <2>3 DEF HasOrder, SaveLine, SaveConfirmed, SaveInvoiced, SaveDelivered, Shipping
      <3> QED BY <2>1, <3>1 DEF Remembered
    <2> QED BY <1>2, <2>1, <2>2, <2>3, OrdersStep
  <1>3. ASSUME NEW q \in raced' \cap Quotes PROVE quotes'[q] # NoRow
        BY <1>3, RacedQuote, QuotesStay DEF Ancestors
  <1> QED BY <1>1, <1>2, <1>3 DEF Ancestors

LEMMA RememberedStep ==
    ASSUME TypeInv, Remembered, NEW r \in Requests, Acts(r)
    PROVE  Remembered'
  <1>0. TypeOK BY DEF TypeInv
  <1>1. ASSUME NEW p \in Requests \ {r}
        PROVE  /\ req'[p].pc \in Quoting =>
                     /\ quotes'[req'[p].quote] # NoRow
                     /\ req'[p].row.first = quotes'[req'[p].quote].first
               /\ req'[p].pc \in {"send", "accept"} => req'[p].row.status \in Open
               /\ \A o \in Orders : HasOrder(p, o)' =>
                     orders'[o] # NoRow /\ req'[p].row.quote = orders'[o].quote
    <2>1. req'[p] = req[p] BY RequestsStep
    <2>2. req[p].pc \in Quoting => req[p].quote \in Quotes BY <1>0, QuoteReq
    <2>3. \A o \in Orders : HasOrder(p, o)' => HasOrder(p, o) BY <2>1 DEF HasOrder
    <2> QED BY <2>1, <2>2, <2>3, QuotesStay DEF Remembered
  <1>2. ASSUME req'[r].pc \in Quoting
        PROVE  /\ quotes'[req'[r].quote] # NoRow
               /\ req'[r].row.first = quotes'[req'[r].quote].first
               /\ req'[r].pc \in {"send", "accept"} => req'[r].row.status \in Open
    <2>1. ASSUME NEW q \in Quotes, NEW allowed \in SUBSET QuoteStatus,
                 LoadQuote(r, q, req'[r].pc, allowed),
                 req'[r].pc \in {"send", "expire", "accept"},
                 req'[r].pc \in {"send", "accept"} => allowed \subseteq Open
          PROVE  /\ quotes'[req'[r].quote] # NoRow
                 /\ req'[r].row.first = quotes'[req'[r].quote].first
                 /\ req'[r].pc \in {"send", "accept"} => req'[r].row.status \in Open
          BY <2>1, LoadedQuote
    <2>2. CASE SaveExpired(r) \/ SaveAccepted(r)
      <3>1. /\ req[r].quote \in Quotes /\ req[r].pc \in Quoting
            /\ req'[r].quote = req[r].quote /\ req'[r].row = req[r].row
            /\ req'[r].pc \in {"version", "order"}
            BY <2>2, SavedQuote DEF SavesQuote, Quoting
      <3> QED BY <3>1, QuotesStay DEF Remembered
    <2> QED BY <1>2, <2>1, <2>2, QuoteLoads
  <1>3. ASSUME NEW o \in Orders, HasOrder(r, o)'
        PROVE  orders'[o] # NoRow /\ req'[r].row.quote = orders'[o].quote
    <2>1. CASE LoadsOrder(r, o) BY <2>1, LoadStep
    <2>2. CASE GoesOn(r) /\ HasOrder(r, o)
      <3>1. orders[o] # NoRow /\ req[r].row.quote = orders[o].quote BY <2>2 DEF Remembered
      <3>2. req'[r].row.quote = req[r].row.quote
        <4>1. CASE CreateInvoice(r) \/ CreateMushak63(r) BY <4>1, MemoryStep
        <4>2. CASE IssueStock(r) \/ SaveLine(r) \/ SaveShipped(r)
          <5>1. req[r] \in ShipRequest BY <4>2, MemoryStep
          <5>2. req[r].row \in OrderRow /\ req[r].quantity \in Nat BY <5>1 DEF ShipRequest
          <5> QED BY <4>2, <5>2, MemoryStep, OpenRows
        <4> QED BY <2>2, <4>1, <4>2 DEF GoesOn
      <3> QED BY <3>1, <3>2, QuotesStay
    <2> QED BY <1>3, <2>1, <2>2, HasStep
  <1>4. req'[r].pc \in {"send", "accept"} => req'[r].pc \in Quoting BY DEF Quoting
  <1> QED BY <1>1, <1>2, <1>3, <1>4 DEF Remembered

LEMMA UndividedStep ==
    ASSUME TypeInv, Remembered, Undivided, NEW r \in Requests, Acts(r)
    PROVE  Undivided'
  <1>0. raced \subseteq raced' BY HistoryStep
  <1>1. ASSUME NEW p \in Requests \ {r}, NEW q \in Quotes, HasQuote(p, q)' PROVE HasQuote(p, q)
        BY <1>1, RequestsStep DEF HasQuote
  <1>2. ASSUME NEW q \in Quotes, HasQuote(r, q)'
        PROVE  /\ req'[r].row = quotes'[q] /\ UNCHANGED quotes
               /\ \A p \in Requests \ {r} : HasQuote(p, q) => q \in raced'
    <2>1. req'[r].pc \in {"send", "expire", "accept"} /\ req'[r].quote = q
          BY <1>2 DEF HasQuote
    <2>2. req'[r].pc \in Quoting BY <2>1 DEF Quoting
    <2>3. ~SaveExpired(r) /\ ~SaveAccepted(r) BY <2>1, SavedQuote DEF SavesQuote
    <2>4. PICK k \in Quotes, allowed \in SUBSET QuoteStatus : LoadQuote(r, k, req'[r].pc, allowed)
          BY <2>2, <2>3, QuoteLoads
    <2> QED BY <2>1, <2>4, LoadedQuote
  <1> SUFFICES ASSUME NEW p \in Requests, NEW q \in Quotes, HasQuote(p, q)', q \notin raced'
               PROVE  /\ req'[p].row = quotes'[q]
                      /\ \A t \in Requests : HasQuote(t, q)' => t = p
      BY DEF Undivided
  <1>3. CASE p = r BY <1>1, <1>2, <1>3
  <1>4. CASE p # r
    <2>1. HasQuote(p, q) /\ req'[p] = req[p] BY <1>1, <1>4, RequestsStep
    <2>2. /\ req[p].row = quotes[q]
          /\ \A t \in Requests : HasQuote(t, q) => t = p
          BY <1>0, <2>1 DEF Undivided
    <2>3. ~HasQuote(r, q)' BY <1>2, <1>4, <2>1
    <2>4. quotes[q] # NoRow BY <2>1 DEF HasQuote, Remembered, Quoting
    <2>5. ~CreateVersion(r, q) BY <2>4 DEF CreateVersion
    <2>6. ~(SavesQuote(r) /\ req[r].quote = q) BY <1>4, <2>2, SavedQuote DEF HasQuote
    <2>7. quotes'[q] = quotes[q] BY <2>5, <2>6, QuotesStep
    <2> QED BY <1>1, <2>1, <2>2, <2>3, <2>7
  <1> QED BY <1>3, <1>4

(* Who claims after a step claimed before, but for what the step wrote.    *)
LEMMA ClaimStep ==
    ASSUME TypeInv, Ancestors, Remembered, NEW r \in Requests, Acts(r),
           NEW f, NEW t \in Token, Claims(f, t)'
    PROVE  \/ Claims(f, t)
           \/ t = <<"request", r>> /\ (SaveExpired(r) \/ SaveAccepted(r))
           \/ \E q \in Quotes : /\ t = <<"quote", q>>
                                /\ CreateVersion(r, q) \/ (SavesQuote(r) /\ req[r].quote = q)
           \/ \E o \in Orders : t = <<"order", o>> /\ CreateOrder(r, o)
  <1>0. TypeOK BY DEF TypeInv
  <1>1. ASSUME NEW q \in Quotes, t = <<"quote", q>>, quotes'[q] = quotes[q] PROVE Claims(f, t)
        BY <1>1 DEF Claims
  <1>2. ASSUME NEW p \in Requests \ {r}, t = <<"request", p>> PROVE Claims(f, t)
    <2>1. req'[p] = req[p] BY RequestsStep
    <2>2. CASE req[p].pc = "order"
      <3>1. /\ req[p].quote \in Quotes /\ quotes[req[p].quote] # NoRow
            BY <1>0, <2>2, QuoteReq DEF Remembered, Quoting
      <3>2. quotes'[req[p].quote].first = quotes[req[p].quote].first BY <3>1, QuotesStay
      <3> QED BY <1>2, <2>1, <2>2, <3>2 DEF Claims
    <2>3. CASE req[p].pc # "order" BY <1>2, <2>1, <2>3 DEF Claims
    <2> QED BY <2>2, <2>3
  <1>3. ASSUME t = <<"request", r>> PROVE SaveExpired(r) \/ SaveAccepted(r)
    <2>1. req'[r].pc = "version" \/ req'[r].pc = "order" BY <1>3 DEF Claims
    <2> QED BY <2>1, RequestsStep
  <1>4. ASSUME NEW o \in Orders, t = <<"order", o>>, ~CreateOrder(r, o) PROVE Claims(f, t)
    <2>1. orders'[o] # NoRow /\ quotes'[orders'[o].quote].first = f BY <1>4 DEF Claims
    <2>2. orders[o] # NoRow
      <3>1. CASE orders'[o] = orders[o] BY <2>1, <3>1
      <3>2. CASE (SaveLine(r) \/ SaveConfirmed(r) \/ SaveInvoiced(r) \/ SaveDelivered(r))
                    /\ req[r].order = o
        <4>1. HasOrder(r, o)
              BY <3>2 DEF HasOrder, SaveLine, SaveConfirmed, SaveInvoiced, SaveDelivered, Shipping
        <4> QED BY <4>1 DEF Remembered
      <3> QED BY <1>4, <3>1, <3>2, OrdersStep
    <2>3. orders'[o].quote = orders[o].quote BY <2>2, QuotesStay
    <2>4. orders[o].quote \in Quotes /\ quotes[orders[o].quote] # NoRow
          BY <1>0, <2>2 DEF TypeOK, OrderRow, Ancestors
    <2>5. quotes[orders[o].quote].first = f BY <2>1, <2>3, <2>4, QuotesStay
    <2> QED BY <1>4, <2>2, <2>5 DEF Claims
  <1>5. \/ \E q \in Quotes : t = <<"quote", q>>
        \/ \E p \in Requests : t = <<"request", p>>
        \/ \E o \in Orders : t = <<"order", o>>
        BY DEF Token
  <1> QED BY <1>1, <1>2, <1>3, <1>4, <1>5, QuotesStep

(* A claim that is handed on from a to b stays the only one.               *)
LEMMA HandedOn ==
    ASSUME NEW f, OneClaim(f), NEW a \in Token, NEW b \in Token,
           \A t \in Token : Claims(f, t)' => t = b \/ (Claims(f, t) /\ t # a),
           Claims(f, b)' => Claims(f, a)
    PROVE  OneClaim(f)'
  BY DEF OneClaim, Token

LEMMA NoNewClaim ==
    ASSUME NEW f, OneClaim(f), \A t \in Token : Claims(f, t)' => Claims(f, t)
    PROVE  OneClaim(f)'
  BY DEF OneClaim, Token

LEMMA OneClaimStep ==
    ASSUME TypeInv, Ancestors, Remembered, Undivided, NEW r \in Requests, Acts(r),
           NEW f \in Quotes, Calm(f), OneClaim(f)
    PROVE  OneClaim(f)'
  <1>0. TypeOK BY DEF TypeInv
  <1>a. /\ \A q \in Quotes : <<"quote", q>> \in Token
        /\ \A p \in Requests : <<"request", p>> \in Token
        /\ \A o \in Orders : <<"order", o>> \in Token
        BY DEF Token
  <1>1. ASSUME NEW n \in Quotes, CreateVersion(r, n) PROVE OneClaim(f)'
    <2> DEFINE a == <<"request", r>>
               b == <<"quote", n>>
    <2>1. req[r].pc = "version" /\ quotes'[n] = req[r].row /\ req'[r].pc = "idle"
          BY <1>1, NewVersion
    <2>2. ~Claims(f, a)' BY <2>1 DEF Claims
    <2>3. Claims(f, b)' => Claims(f, a) BY <2>1 DEF Claims
    <2>4. ~SavesQuote(r) /\ \A o \in Orders : ~CreateOrder(r, o)
          BY <2>1, SavedQuote DEF CreateOrder
    <2>5. \A q \in Quotes : CreateVersion(r, q) => q = n
      <3>1. SUFFICES ASSUME NEW q \in Quotes, CreateVersion(r, q), q # n PROVE FALSE
            OBVIOUS
      <3>2. quotes'[q] = NoRow BY <1>0, <1>1, <3>1 DEF CreateVersion, TypeOK
      <3> QED BY <3>1, <3>2, NewVersion, RowTypes
    <2>6. \A t \in Token : Claims(f, t)' => t = b \/ (Claims(f, t) /\ t # a)
          BY <2>2, <2>4, <2>5, ClaimStep DEF SavesQuote
    <2>7. a \in Token /\ b \in Token BY DEF Token
    <2> HIDE DEF a, b
    <2> QED BY <1>a, <2>3, <2>6, <2>7, HandedOn
  <1>2. ASSUME NEW o \in Orders, CreateOrder(r, o) PROVE OneClaim(f)'
    <2> DEFINE a == <<"request", r>>
               b == <<"order", o>>
    <2>1. /\ req[r].pc = "order" /\ orders[o] = NoRow /\ UNCHANGED quotes
          /\ orders' = [orders EXCEPT ![o] =
                          [status |-> "DRAFT", quote |-> req[r].quote, delivered |-> 0]]
          /\ req' = [req EXCEPT ![r] = Idle]
          BY <1>2 DEF CreateOrder
    <2>2. req'[r].pc = "idle" /\ orders'[o].quote = req[r].quote
          BY <1>0, <2>1 DEF Idle, TypeOK
    <2>3. ~Claims(f, a)' BY <2>2 DEF Claims
    <2>4. Claims(f, b)' => Claims(f, a) BY <2>1, <2>2 DEF Claims
    <2>5. ~SavesQuote(r) /\ \A q \in Quotes : ~CreateVersion(r, q)
          BY <2>1, SavedQuote DEF CreateVersion
    <2>6. \A p \in Orders : CreateOrder(r, p) => p = o
      <3>1. SUFFICES ASSUME NEW p \in Orders, CreateOrder(r, p), p # o PROVE FALSE
            OBVIOUS
      <3>2. orders[p] = NoRow BY <3>1 DEF CreateOrder
      <3>3. orders'[p] = orders[p] BY <1>0, <1>2, <3>1 DEF CreateOrder, TypeOK
      <3>4. orders'[p].status = "DRAFT" BY <1>0, <3>1 DEF CreateOrder, TypeOK
      <3> QED BY <3>2, <3>3, <3>4, RowTypes
    <2>7. \A t \in Token : Claims(f, t)' => t = b \/ (Claims(f, t) /\ t # a)
          BY <2>3, <2>5, <2>6, ClaimStep DEF SavesQuote
    <2>8. a \in Token /\ b \in Token BY DEF Token
    <2> HIDE DEF a, b
    <2> QED BY <1>a, <2>4, <2>7, <2>8, HandedOn
  <1>3. ASSUME SavesQuote(r) PROVE OneClaim(f)'
    <2> PICK q : q = req[r].quote OBVIOUS
    <2> DEFINE a == <<"quote", q>>
               b == <<"request", r>>
    <2>1. /\ q \in Quotes /\ HasQuote(r, q) /\ quotes[q] # NoRow
          /\ req[r].row.first = quotes[q].first
          /\ quotes'[q].first = quotes[q].first
          BY <1>3, SavedQuote DEF HasQuote, Remembered, Quoting
    <2>2. \A o \in Orders : ~CreateOrder(r, o)
          BY <1>3, SavedQuote DEF CreateOrder
    <2>3. \A n \in Quotes : ~CreateVersion(r, n)
          BY <1>3, SavedQuote DEF CreateVersion
    <2>4. \A t \in Token : Claims(f, t)' => Claims(f, t) \/ t = a \/ t = b
          BY <2>2, <2>3, ClaimStep
    <2>5. CASE quotes[q].first # f
      <3>1. ~Claims(f, a)' BY <2>1, <2>5 DEF Claims
      <3>2. ~Claims(f, b)' BY <1>3, <2>1, <2>5, SavedQuote DEF Claims, SavesQuote
      <3>3. \A t \in Token : Claims(f, t)' => Claims(f, t) BY <2>4, <3>1, <3>2
      <3> QED BY <3>3, NoNewClaim
    <2>6. CASE quotes[q].first = f
      <3>1. q \notin raced BY <2>1, <2>6 DEF Calm
      <3>2. req[r].row = quotes[q] BY <2>1, <3>1 DEF Undivided
      <3>3. CASE SaveSent(r)
        <4>1. quotes[q].status \in Open BY <3>2, <3>3 DEF SaveSent, Remembered
        <4>2. Claims(f, a) BY <2>6, <4>1 DEF Claims
        <4>3. ~Claims(f, b)' BY <3>3, SavedQuote DEF Claims, SavesQuote
        <4>4. \A t \in Token : Claims(f, t)' => Claims(f, t) BY <2>4, <4>2, <4>3
        <4> QED BY <4>4, NoNewClaim
      <3>4. CASE SaveExpired(r) \/ SaveAccepted(r)
        <4>1. quotes'[q].status \in {"EXPIRED", "ACCEPTED"}
          <5>1. PICK s \in QuoteStatus :
                   /\ quotes'[q] = [req[r].row EXCEPT !.status = s]
                   /\ SaveExpired(r) => s = "EXPIRED"
                   /\ SaveAccepted(r) => s = "ACCEPTED"
                BY <1>3, SavedQuote
          <5>2. quotes'[q].status = s BY <1>3, <5>1, SavedQuote, OpenRows
          <5> QED BY <3>4, <5>1, <5>2
        <4>2. ~Claims(f, a)' BY <4>1 DEF Claims, Open
        <4>3. ASSUME SaveExpired(r) PROVE Claims(f, b)' => Claims(f, a)
          <5>1. req'[r].pc = "version" /\ req'[r].row = req[r].row BY <1>3, <4>3, SavedQuote
          <5>2. Claims(f, b)' => quotes[q].status \in Open BY <3>2, <5>1 DEF Claims
          <5>3. quotes[q].status \in Open => Claims(f, a) BY <2>6 DEF Claims
          <5> QED BY <5>2, <5>3
        <4>4. ASSUME SaveAccepted(r) PROVE Claims(f, b)' => Claims(f, a)
          <5>1. quotes[q].status \in Open BY <3>2, <4>4 DEF SaveAccepted, Remembered
          <5>2. Claims(f, a) BY <2>6, <5>1 DEF Claims
          <5> QED BY <5>2
        <4>5. Claims(f, b)' => Claims(f, a)
          <5> HIDE DEF a, b
          <5> QED BY <3>4, <4>3, <4>4
        <4>6. \A t \in Token : Claims(f, t)' => t = b \/ (Claims(f, t) /\ t # a)
              BY <2>4, <4>2
        <4> HIDE DEF a, b
        <4> QED BY <1>a, <2>1, <4>5, <4>6, HandedOn DEF a, b
      <3> QED BY <1>3, <3>3, <3>4 DEF SavesQuote
    <2> QED BY <2>5, <2>6
  <1>4. CASE /\ ~SavesQuote(r)
             /\ \A q \in Quotes : ~CreateVersion(r, q)
             /\ \A o \in Orders : ~CreateOrder(r, o)
    <2>1. \A t \in Token : Claims(f, t)' => Claims(f, t) BY <1>4, ClaimStep DEF SavesQuote
    <2> QED BY <2>1, NoNewClaim
  <1> QED BY <1>1, <1>2, <1>3, <1>4

(* A new quotation is the first of its kind.                               *)
LEMMA CreatedStep ==
    ASSUME QuoteInv, NEW q \in Quotes, CreateQuotation(q)
    PROVE  Ancestors' /\ Remembered' /\ Undivided' /\ OneEach'
  <1>0. TypeOK BY DEF QuoteInv, TypeInv
  <1>1. /\ quotes[q] = NoRow /\ quotes'[q] \in QuoteRow /\ quotes'[q].first = q
        /\ \A k \in Quotes \ {q} : quotes'[k] = quotes[k]
        /\ orders' = orders /\ req' = req /\ raced' = raced
        BY NewQuote DEF QuoteInv
  <1>2. quotes'[q] # NoRow BY <1>1, RowTypes
  <1>3. \A k \in Quotes : quotes[k] # NoRow => k # q /\ quotes'[k] = quotes[k] BY <1>1
  <1>4. Ancestors'
    <2>1. ASSUME NEW k \in Quotes, quotes'[k] # NoRow PROVE quotes'[quotes'[k].first] # NoRow
      <3>1. CASE k = q BY <1>1, <1>2, <3>1
      <3>2. CASE k # q
        <4>1. quotes[k] # NoRow /\ quotes'[k] = quotes[k] BY <1>1, <2>1, <3>2
        <4>2. quotes[k].first \in Quotes BY <1>0, <4>1 DEF TypeOK, QuoteRow
        <4> QED BY <1>3, <4>1, <4>2 DEF QuoteInv, Ancestors
      <3> QED BY <3>1, <3>2
    <2>2. ASSUME NEW o \in Orders, orders[o] # NoRow PROVE quotes'[orders[o].quote] # NoRow
      <3>1. orders[o].quote \in Quotes BY <1>0, <2>2 DEF TypeOK, OrderRow
      <3> QED BY <1>3, <2>2, <3>1 DEF QuoteInv, Ancestors
    <2>3. \A k \in raced \cap Quotes : quotes'[k] # NoRow BY <1>3 DEF QuoteInv, Ancestors
    <2> QED BY <1>1, <2>1, <2>2, <2>3 DEF Ancestors
  <1>5. Remembered'
    <2>1. \A p \in Requests : req[p].pc \in Quoting => req[p].quote \in Quotes
          BY <1>0, QuoteReq
    <2>2. \A p \in Requests, o \in Orders : HasOrder(p, o)' => HasOrder(p, o)
          BY <1>1 DEF HasOrder
    <2> QED BY <1>1, <1>3, <2>1, <2>2 DEF QuoteInv, Remembered
  <1>6. Undivided'
    <2>1. \A p \in Requests, k \in Quotes : HasQuote(p, k)' => HasQuote(p, k)
          BY <1>1 DEF HasQuote
    <2>2. ASSUME NEW p \in Requests, NEW k \in Quotes, HasQuote(p, k) PROVE quotes'[k] = quotes[k]
          BY <1>3, <2>2 DEF HasQuote, QuoteInv, Remembered, Quoting
    <2> QED BY <1>1, <2>1, <2>2 DEF QuoteInv, Undivided
  <1>7. ASSUME NEW f \in Quotes, NEW t \in Token, Claims(f, t)'
        PROVE  IF f = q THEN t = <<"quote", q>> ELSE Claims(f, t)
    <2>1. ASSUME NEW k \in Quotes, t = <<"quote", k>>
          PROVE  IF f = q THEN k = q ELSE Claims(f, t)
      <3>1. quotes'[k].status \in Open /\ quotes'[k].first = f BY <1>7, <2>1 DEF Claims
      <3>2. CASE k = q BY <1>1, <3>1, <3>2
      <3>3. CASE k # q
        <4>1. quotes'[k] = quotes[k] BY <1>1, <3>3
        <4>2. quotes[k] # NoRow BY <3>1, <4>1, OpenRows
        <4>3. quotes[f] # NoRow BY <3>1, <4>1, <4>2 DEF QuoteInv, Ancestors
        <4> QED BY <1>1, <2>1, <3>1, <4>1, <4>3 DEF Claims
      <3> QED BY <3>2, <3>3
    <2>2. ASSUME NEW p \in Requests, t = <<"request", p>> PROVE f # q /\ Claims(f, t)
      <3>1. /\ req[p].pc \in {"version", "order"}
            /\ req[p].pc = "version" => req[p].row.first = f /\ req[p].row.status \in Open
            /\ req[p].pc = "order" => quotes'[req[p].quote].first = f
            BY <1>1, <1>7, <2>2 DEF Claims
      <3>2. /\ req[p].quote \in Quotes /\ quotes[req[p].quote] # NoRow
            /\ req[p].row.first = quotes[req[p].quote].first
            BY <1>0, <3>1, QuoteReq DEF QuoteInv, Remembered, Quoting
      <3>3. quotes'[req[p].quote] = quotes[req[p].quote] BY <1>3, <3>2
      <3>4. quotes[req[p].quote].first = f BY <3>1, <3>2, <3>3
      <3>5. quotes[f] # NoRow BY <3>2, <3>4 DEF QuoteInv, Ancestors
      <3> QED BY <1>1, <2>2, <3>1, <3>4, <3>5 DEF Claims
    <2>3. ASSUME NEW o \in Orders, t = <<"order", o>> PROVE f # q /\ Claims(f, t)
      <3>1. orders[o] # NoRow /\ quotes'[orders[o].quote].first = f
            BY <1>1, <1>7, <2>3 DEF Claims
      <3>2. orders[o].quote \in Quotes /\ quotes[orders[o].quote] # NoRow
            BY <1>0, <3>1 DEF TypeOK, OrderRow, QuoteInv, Ancestors
      <3>3. quotes[orders[o].quote].first = f BY <1>3, <3>1, <3>2
      <3>4. quotes[f] # NoRow BY <3>2, <3>3 DEF QuoteInv, Ancestors
      <3> QED BY <1>1, <2>3, <3>1, <3>3, <3>4 DEF Claims
    <2>4. \/ \E k \in Quotes : t = <<"quote", k>>
          \/ \E p \in Requests : t = <<"request", p>>
          \/ \E o \in Orders : t = <<"order", o>>
          BY DEF Token
    <2> QED BY <2>1, <2>2, <2>3, <2>4
  <1>8. ASSUME NEW f \in Quotes, Calm(f)' PROVE OneClaim(f)'
    <2>1. CASE f = q BY <1>7, <2>1 DEF OneClaim, Token
    <2>2. CASE f # q
      <3>1. Calm(f) BY <1>1, <1>3, <1>8 DEF Calm, QuoteInv, Ancestors
      <3>2. OneClaim(f) BY <3>1 DEF QuoteInv, OneEach
      <3> QED BY <1>7, <2>2, <3>2, NoNewClaim
    <2> QED BY <2>1, <2>2
  <1> QED BY <1>4, <1>5, <1>6, <1>8 DEF OneEach

LEMMA QuoteNext == QuoteInv /\ [Next]_vars => QuoteInv'
  <1> SUFFICES ASSUME QuoteInv, [Next]_vars PROVE QuoteInv'
      OBVIOUS
  <1>0. TypeInv /\ Ancestors /\ Remembered /\ Undivided /\ OneEach /\ TypeInv'
        BY TypeNext DEF QuoteInv
  <1>1. ASSUME NEW q \in Quotes, CreateQuotation(q) PROVE QuoteInv'
        BY <1>0, <1>1, CreatedStep DEF QuoteInv
  <1>2. ASSUME NEW r \in Requests, Acts(r) PROVE QuoteInv'
    <2>1. Ancestors' /\ Remembered' /\ Undivided'
          BY <1>0, <1>2, AncestorsStep, RememberedStep, UndividedStep
    <2>2. ASSUME NEW f \in Quotes, Calm(f)' PROVE OneClaim(f)'
      <3>1. Calm(f)
            BY <1>0, <1>2, <2>2, HistoryStep, QuotesStay DEF Calm, Ancestors
      <3>2. OneClaim(f) BY <1>0, <3>1 DEF OneEach
      <3> QED BY <1>0, <1>2, <3>1, <3>2, OneClaimStep
    <2> QED BY <1>0, <2>1, <2>2 DEF QuoteInv, OneEach
  <1>3. CASE UNCHANGED vars
    <2>1. UNCHANGED <<quotes, orders, req, raced>> BY <1>3 DEF vars, table, history
    <2>2. Ancestors' BY <1>0, <2>1 DEF Ancestors
    <2>3. Remembered' BY <1>0, <2>1 DEF Remembered, HasOrder
    <2>4. Undivided' BY <1>0, <2>1 DEF Undivided, HasQuote
    <2>5. OneEach' BY <1>0, <2>1 DEF OneEach, Calm, OneClaim, Claims
    <2> QED BY <1>0, <2>2, <2>3, <2>4, <2>5 DEF QuoteInv
  <1> QED BY <1>1, <1>2, <1>3, NextActs

(* Whoever sends, resends, converts and fails in between: of a quotation   *)
(* and its later versions one order is made, unless two requests held one  *)
(* of them at the same time.                                               *)
THEOREM OneOrderEach == Spec => []OneOrderPerQuotation
  <1>1. Init => QuoteInv
    <2> SUFFICES ASSUME Init PROVE QuoteInv
        OBVIOUS
    <2>1. \A r \in Requests : req[r].pc = "idle" BY DEF Init, Idle
    <2>2. Ancestors BY DEF Init, Ancestors
    <2>3. Remembered BY <2>1 DEF Remembered, Quoting, HasOrder, Shipping
    <2>4. Undivided BY <2>1 DEF Undivided, HasQuote
    <2>5. ASSUME NEW f, NEW t \in Token PROVE ~Claims(f, t)
          BY <2>1, OpenRows DEF Token, Claims, Init
    <2>6. OneEach BY <2>5 DEF OneEach, OneClaim
    <2> QED BY <2>2, <2>3, <2>4, <2>6, TypeInit DEF QuoteInv
  <1>2. QuoteInv => OneOrderPerQuotation
    <2> SUFFICES ASSUME QuoteInv, NEW o \in Orders, NEW p \in Orders, o # p,
                        orders[o] # NoRow, orders[p] # NoRow,
                        quotes[orders[o].quote].first = quotes[orders[p].quote].first
                 PROVE  \E q \in raced \cap Quotes :
                           quotes[q].first = quotes[orders[o].quote].first
        BY DEF OneOrderPerQuotation
    <2> DEFINE f == quotes[orders[o].quote].first
    <2>1. orders[o].quote \in Quotes /\ quotes[orders[o].quote] # NoRow
          BY DEF QuoteInv, TypeInv, TypeOK, OrderRow, Ancestors
    <2>2. f \in Quotes BY <2>1 DEF QuoteInv, TypeInv, TypeOK, QuoteRow
    <2>3. Claims(f, <<"order", o>>) /\ Claims(f, <<"order", p>>) BY DEF Claims
    <2>4. <<"order", o>> \in Token /\ <<"order", p>> \in Token BY DEF Token
    <2>5. <<"order", o>> # <<"order", p>> OBVIOUS
    <2>6. ~OneClaim(f) BY <2>3, <2>4, <2>5 DEF OneClaim
    <2>7. ~Calm(f) BY <2>2, <2>6 DEF QuoteInv, OneEach
    <2> QED BY <2>7 DEF Calm
  <1> QED BY <1>1, <1>2, QuoteNext, PTL DEF Spec
=============================================================================
