--------------------------- MODULE CatalogOrders ---------------------------
(***************************************************************************)
(* The order desk of a seller's WhatsApp catalog: CatalogOrdersService of  *)
(* src/src/modules/catalog/catalog-orders.service.ts, with the stock that  *)
(* CatalogService lets the seller edit.                                    *)
(*                                                                         *)
(* Every handler except confirm and reject first READS the order, decides, *)
(* and later WRITES the row by its id alone, with no transaction and no    *)
(* condition on what it read.  A handler is therefore a request with two   *)
(* steps: Begin... is its read and its checks, and the action named after  *)
(* the handler is its write.  Other requests run in between.  Confirm and  *)
(* reject write conditionally inside a transaction, which is one step.     *)
(*                                                                         *)
(* Handlers come from the seller's dashboard (catalog.controller.ts) and   *)
(* from WhatsApp jobs (collect-payment-screenshot node,                    *)
(* catalog-shipping-address handler), so they do overlap.                  *)
(***************************************************************************)
EXTENDS Integers, FiniteSets

CONSTANTS
  Orders,         \* ids of the orders that may be created
  Products,       \* ids of the seller's products
  Requests,       \* handler activations that may be in flight at once
  NoProduct,      \* NULL in CatalogOrder.productId
  NoRequest,      \* a free activation
  MaxStock,       \* bound on what the seller types into stock_quantity
  MaxEdits        \* bound on how often the seller edits a product

Ops == {"create", "attach", "confirm", "reject", "address", "ship", "deliver"}

Request == [op : Ops, order : Orders, product : Products \cup {NoProduct}]

ASSUME ConstantsOK ==
  /\ IsFiniteSet(Orders)
  /\ MaxStock \in Nat
  /\ MaxEdits \in Nat
  /\ NoProduct \notin Products
  /\ NoRequest \notin Request

VARIABLES
  order,          \* the catalog_orders rows, by id
  stock,          \* catalog_products.stock_quantity, by id
  listing,        \* whether a product is active, inactive or deleted
  request,        \* what each activation read, until it writes
  supplied,       \* history: units the seller ever put on sale, net of removals
  edits           \* number of product edits so far

vars == <<order, stock, listing, request, supplied, edits>>

-----------------------------------------------------------------------------
(* "none" is an id that has no row yet.  'cancelled' and 'completed' are     *)
(* declared by catalog-order.constants.ts and assigned by no code.           *)
OrderStatus == {"none", "pending_payment", "pending_verification", "confirmed",
                "ready_to_ship", "shipped", "delivered", "rejected"}

PaymentStatus == {"payment_pending", "payment_submitted", "payment_verified",
                  "payment_rejected"}

Fulfilment == {"confirmed", "ready_to_ship", "shipped", "delivered"}

(* A row, with the columns the handlers decide on.  'verified' says whether  *)
(* verifiedAt is set.  'deducted' is history: the stock units that confirm   *)
(* has taken for this order.                                                 *)
Row == [orderStatus   : OrderStatus,
        paymentStatus : PaymentStatus,
        productId     : Products \cup {NoProduct},
        address       : BOOLEAN,
        verified      : BOOLEAN,
        deducted      : Nat]

NoRow == [orderStatus |-> "none", paymentStatus |-> "payment_pending",
          productId |-> NoProduct, address |-> FALSE, verified |-> FALSE,
          deducted |-> 0]

Init ==
  /\ order = [o \in Orders |-> NoRow]
  /\ stock \in [Products -> 0..MaxStock]
  /\ listing = [p \in Products |-> "active"]
  /\ request = [r \in Requests |-> NoRequest]
  /\ supplied = stock
  /\ edits = 0

-----------------------------------------------------------------------------
(* Request r starts handler op on order o; p is the product id it read.      *)
Start(r, op, o, p) ==
  /\ request[r] = NoRequest
  /\ request' = [request EXCEPT ![r] = [op |-> op, order |-> o, product |-> p]]
  /\ UNCHANGED <<order, stock, listing, supplied, edits>>

(* Request r is at the write of handler op, and ends with this step.         *)
Finish(r, op) ==
  /\ request[r] # NoRequest
  /\ request[r].op = op
  /\ request' = [request EXCEPT ![r] = NoRequest]

(* create: the product must be active and in stock; stock is not deducted.   *)
BeginCreate(r, o, p) ==
  /\ order[o].orderStatus = "none"
  /\ \A q \in Requests : request[q] # NoRequest => request[q].order # o
  /\ listing[p] = "active"
  /\ stock[p] >= 1
  /\ Start(r, "create", o, p)

(* The insert fails on its foreign key when the product is gone by then.     *)
Create(r) ==
  /\ Finish(r, "create")
  /\ LET o == request[r].order
         p == request[r].product
     IN order' = IF listing[p] = "deleted" THEN order
                 ELSE [order EXCEPT ![o] =
                         [NoRow EXCEPT !.orderStatus = "pending_payment",
                                       !.productId = p]]
  /\ UNCHANGED <<stock, listing, supplied, edits>>

(* Mutant of Attach: the payment column is forgotten.                        *)
AttachStageOnly(r) ==
  /\ Finish(r, "attach")
  /\ order' = [order EXCEPT ![request[r].order].orderStatus = "pending_verification"]
  /\ UNCHANGED <<stock, listing, supplied, edits>>

(* attachScreenshot, from the dashboard or from an inbound WhatsApp image.   *)
BeginAttach(r, o) ==
  /\ order[o].orderStatus \in {"pending_payment", "pending_verification"}
  /\ Start(r, "attach", o, NoProduct)

Attach(r) ==
  /\ Finish(r, "attach")
  /\ order' = [order EXCEPT ![request[r].order] =
                 [@ EXCEPT !.paymentStatus = "payment_submitted",
                           !.orderStatus = "pending_verification"]]
  /\ UNCHANGED <<stock, listing, supplied, edits>>

-----------------------------------------------------------------------------
Awaiting(row) == /\ row.orderStatus = "pending_verification"
                 /\ row.paymentStatus = "payment_submitted"

(* confirm, first query of the transaction: the order and its product.       *)
BeginConfirm(r, o) ==
  /\ Awaiting(order[o])
  /\ order[o].productId # NoProduct
  /\ Start(r, "confirm", o, order[o].productId)

(* Mutant of Confirm: the stock is read and checked, and not taken.          *)
ConfirmKeepingStock(r) ==
  /\ Finish(r, "confirm")
  /\ LET o == request[r].order
     IN IF Awaiting(order[o]) /\ stock[request[r].product] >= 1
        THEN order' = [order EXCEPT ![o] =
                         [@ EXCEPT !.paymentStatus = "payment_verified",
                                   !.orderStatus = "confirmed",
                                   !.verified = TRUE,
                                   !.deducted = order[o].deducted + 1]]
        ELSE UNCHANGED order
  /\ UNCHANGED <<stock, listing, supplied, edits>>

(* The conditional claim of the order and the conditional decrement commit   *)
(* together; when either matches no row the transaction is rolled back.      *)
Confirm(r) ==
  /\ Finish(r, "confirm")
  /\ LET o == request[r].order
         p == request[r].product
     IN IF Awaiting(order[o]) /\ listing[p] # "deleted" /\ stock[p] >= 1
        THEN /\ order' = [order EXCEPT ![o] =
                            [@ EXCEPT !.paymentStatus = "payment_verified",
                                      !.orderStatus = "confirmed",
                                      !.verified = TRUE,
                                      !.deducted = order[o].deducted + 1]]
             /\ stock' = [stock EXCEPT ![p] = @ - 1]
        ELSE UNCHANGED <<order, stock>>
  /\ UNCHANGED <<listing, supplied, edits>>

BeginReject(r, o) ==
  /\ order[o].orderStatus # "none"
  /\ Start(r, "reject", o, NoProduct)

(* reject claims the order by its status, whatever its payment status.       *)
Reject(r) ==
  /\ Finish(r, "reject")
  /\ LET o == request[r].order
     IN order' = IF order[o].orderStatus = "pending_verification"
                 THEN [order EXCEPT ![o] =
                         [@ EXCEPT !.paymentStatus = "payment_rejected",
                                   !.orderStatus = "rejected",
                                   !.verified = TRUE]]
                 ELSE order
  /\ UNCHANGED <<stock, listing, supplied, edits>>

-----------------------------------------------------------------------------
(* setShippingAddress, from the dashboard or from the customer's reply.      *)
BeginAddress(r, o) ==
  /\ order[o].orderStatus \in {"confirmed", "ready_to_ship"}
  /\ Start(r, "address", o, NoProduct)

SetShippingAddress(r) ==
  /\ Finish(r, "address")
  /\ order' = [order EXCEPT ![request[r].order] =
                 [@ EXCEPT !.address = TRUE, !.orderStatus = "ready_to_ship"]]
  /\ UNCHANGED <<stock, listing, supplied, edits>>

(* Mutant of BeginShip: the address is not looked at.                        *)
BeginShipUnaddressed(r, o) ==
  /\ order[o].orderStatus \in {"ready_to_ship", "confirmed"}
  /\ Start(r, "ship", o, NoProduct)

(* shipOne, called by markShipped and once per item by bulkMarkShipped.      *)
BeginShip(r, o) ==
  /\ order[o].orderStatus \in {"ready_to_ship", "confirmed"}
  /\ order[o].address
  /\ Start(r, "ship", o, NoProduct)

Ship(r) ==
  /\ Finish(r, "ship")
  /\ order' = [order EXCEPT ![request[r].order].orderStatus = "shipped"]
  /\ UNCHANGED <<stock, listing, supplied, edits>>

(* Mutant of BeginDeliver: an order that is ready counts as on its way.      *)
BeginDeliverEarly(r, o) ==
  /\ order[o].orderStatus \in {"ready_to_ship", "shipped"}
  /\ Start(r, "deliver", o, NoProduct)

BeginDeliver(r, o) ==
  /\ order[o].orderStatus = "shipped"
  /\ Start(r, "deliver", o, NoProduct)

MarkDelivered(r) ==
  /\ Finish(r, "deliver")
  /\ order' = [order EXCEPT ![request[r].order].orderStatus = "delivered"]
  /\ UNCHANGED <<stock, listing, supplied, edits>>

-----------------------------------------------------------------------------
(* The seller edits a product: stock_quantity is an absolute value.          *)
UpdateProduct(p, n, state) ==
  /\ listing[p] # "deleted"
  /\ edits < MaxEdits
  /\ edits' = edits + 1
  /\ stock' = [stock EXCEPT ![p] = n]
  /\ supplied' = [supplied EXCEPT ![p] = @ + (n - stock[p])]
  /\ listing' = [listing EXCEPT ![p] = state]
  /\ UNCHANGED <<order, request>>

(* The rows that point to a deleted product lose it (onDelete: SetNull).     *)
DeleteProduct(p) ==
  /\ listing[p] # "deleted"
  /\ listing' = [listing EXCEPT ![p] = "deleted"]
  /\ order' = [o \in Orders |->
                 IF order[o].productId = p
                 THEN [order[o] EXCEPT !.productId = NoProduct]
                 ELSE order[o]]
  /\ UNCHANGED <<stock, request, supplied, edits>>

(* The process stops: what handlers read is lost, what they wrote is not.    *)
Crash ==
  /\ \E r \in Requests : request[r] # NoRequest
  /\ request' = [r \in Requests |-> NoRequest]
  /\ UNCHANGED <<order, stock, listing, supplied, edits>>

-----------------------------------------------------------------------------
Begin(r) ==
  \E o \in Orders :
    \/ \E p \in Products : BeginCreate(r, o, p)
    \/ BeginAttach(r, o)
    \/ BeginConfirm(r, o)
    \/ BeginReject(r, o)
    \/ BeginAddress(r, o)
    \/ BeginShip(r, o)
    \/ BeginDeliver(r, o)

Next ==
  \/ \E r \in Requests :
       \/ Begin(r)
       \/ Create(r)
       \/ Attach(r)
       \/ Confirm(r)
       \/ Reject(r)
       \/ SetShippingAddress(r)
       \/ Ship(r)
       \/ MarkDelivered(r)
  \/ \E p \in Products :
       \/ \E n \in 0..MaxStock, state \in {"active", "inactive"} :
            UpdateProduct(p, n, state)
       \/ DeleteProduct(p)
  \/ Crash

Spec == Init /\ [][Next]_vars

-----------------------------------------------------------------------------
TypeOK ==
  /\ order \in [Orders -> Row]
  /\ stock \in [Products -> Nat]
  /\ listing \in [Products -> {"active", "inactive", "deleted"}]
  /\ request \in [Requests -> Request \cup {NoRequest}]
  /\ supplied \in [Products -> Int]
  /\ edits \in Nat

(* The orders of product p that the seller owes, sends or has sent.          *)
Fulfilled(p) == {o \in Orders : /\ order[o].productId = p
                                /\ order[o].orderStatus \in Fulfilment}

(* The seller never promises more units than were put on sale: whatever      *)
(* handlers overlap, the paid orders of a product and the stock that is left *)
(* add up to no more than what was supplied (last-item race of confirm).     *)
NoOversell == \A p \in Products : Cardinality(Fulfilled(p)) + stock[p] <= supplied[p]

(* What the two status columns say together.                                 *)
Agree(row) ==
  \/ /\ row.orderStatus \in {"none", "pending_payment"}
     /\ row.paymentStatus = "payment_pending"
  \/ /\ row.orderStatus = "pending_verification"
     /\ row.paymentStatus = "payment_submitted"
  \/ /\ row.orderStatus = "rejected"
     /\ row.paymentStatus = "payment_rejected"
  \/ /\ row.orderStatus \in Fulfilment
     /\ row.paymentStatus = "payment_verified"

(* A stale screenshot has taken back what confirm had verified.              *)
Reopened(row) == row.deducted >= 1 /\ row.paymentStatus # "payment_verified"

(* The two status columns are written by different handlers, and address,    *)
(* ship and deliver write only the stage.  However requests overlap, the     *)
(* columns of an order agree, with one exception: an order that was          *)
(* confirmed, then put back by a stale screenshot, and then given a stage of *)
(* fulfilment by a handler that had read it while it was confirmed.          *)
StatusesAgree ==
  \A o \in Orders :
    \/ Agree(order[o])
    \/ Reopened(order[o]) /\ order[o].orderStatus \in Fulfilment

(* Nothing leaves without an address, and nothing is fulfilled for which     *)
(* confirm has not taken a unit of stock, even when a stale handler writes a *)
(* stage the order has already left.                                         *)
FulfilledIsBacked ==
  \A o \in Orders :
    /\ order[o].orderStatus \in Fulfilment => order[o].deducted >= 1
    /\ order[o].orderStatus \in Fulfilment \ {"confirmed"} => order[o].address

(* One order takes at most one unit ("claim the order before stock decrement *)
(* so two confirms cannot both win").  Holds while handlers do not overlap.  *)
DeductedOnce == \A o \in Orders : order[o].deducted <= 1

=============================================================================
