------------------------ MODULE CatalogOrdersProofs ------------------------
(***************************************************************************)
(* What holds of the order desk for any number of orders, products and     *)
(* overlapping handlers.                                                   *)
(***************************************************************************)
EXTENDS MCCatalogOrders, FiniteSetTheorems, TLAPS

USE ConstantsOK

(* The columns that a handler writes keep the row a row.                     *)
LEMMA RowPatched ==
  ASSUME NEW row \in Row, NEW ps \in PaymentStatus, NEW os \in OrderStatus, NEW n \in Nat
  PROVE  /\ [row EXCEPT !.paymentStatus = ps, !.orderStatus = os] \in Row
         /\ [row EXCEPT !.paymentStatus = ps, !.orderStatus = os, !.verified = TRUE] \in Row
         /\ [row EXCEPT !.paymentStatus = ps, !.orderStatus = os, !.verified = TRUE,
                        !.deducted = n] \in Row
         /\ [row EXCEPT !.address = TRUE, !.orderStatus = os] \in Row
<1>1. [row EXCEPT !.paymentStatus = ps, !.orderStatus = os] \in Row
  BY Zenon DEF Row
<1>2. [row EXCEPT !.paymentStatus = ps, !.orderStatus = os, !.verified = TRUE] \in Row
  BY Zenon DEF Row
<1>3. [row EXCEPT !.paymentStatus = ps, !.orderStatus = os, !.verified = TRUE,
                 !.deducted = n] \in Row
  BY Zenon DEF Row
<1>4. [row EXCEPT !.address = TRUE, !.orderStatus = os] \in Row
  BY Zenon DEF Row
<1>. QED
  BY <1>1, <1>2, <1>3, <1>4

(* The read step of a handler changes nothing but its own request.           *)
LEMMA StartTyped ==
  ASSUME TypeOK, NEW r \in Requests, NEW op \in Ops, NEW o \in Orders,
         NEW p \in Products \cup {NoProduct}, Start(r, op, o, p)
  PROVE  TypeOK'
  BY DEF TypeOK, Start, Request

LEMMA BeginTyped ==
  ASSUME TypeOK, NEW r \in Requests, Begin(r)
  PROVE  TypeOK'
<1>1. PICK o \in Orders, op \in Ops, p \in Products \cup {NoProduct} : Start(r, op, o, p)
  BY DEF Begin, BeginCreate, BeginAttach, BeginConfirm, BeginReject, BeginAddress,
         BeginShip, BeginDeliver, Ops, TypeOK, Row
<1>. QED
  BY <1>1, StartTyped

LEMMA TypePreserved ==
  ASSUME TypeOK, [Next]_vars
  PROVE  TypeOK'
<1>1. ASSUME NEW r \in Requests, Create(r)
      PROVE  TypeOK'
  <2>1. request[r].order \in Orders /\ request[r].product \in Products \cup {NoProduct}
    BY <1>1 DEF Create, Finish, TypeOK, Request
  <2>2. [NoRow EXCEPT !.orderStatus = "pending_payment", !.productId = request[r].product] \in Row
    BY <2>1 DEF NoRow, Row, OrderStatus, PaymentStatus
  <2>. QED
    BY <1>1, <2>1, <2>2 DEF Create, Finish, TypeOK
<1>2. ASSUME NEW r \in Requests, Attach(r)
      PROVE  TypeOK'
  <2>. DEFINE o == request[r].order
  <2>1. o \in Orders
    BY <1>2 DEF Attach, Finish, TypeOK, Request
  <2>2. [order[o] EXCEPT !.paymentStatus = "payment_submitted",
                          !.orderStatus = "pending_verification"] \in Row
    <3>1. order[o] \in Row /\ "payment_submitted" \in PaymentStatus /\ "pending_verification" \in OrderStatus
      BY <2>1 DEF TypeOK, OrderStatus, PaymentStatus
    <3>. QED
      BY <3>1, RowPatched
  <2>. QED
    BY <1>2, <2>1, <2>2 DEF Attach, Finish, TypeOK
<1>3. ASSUME NEW r \in Requests, Confirm(r)
      PROVE  TypeOK'
  <2>. DEFINE o == request[r].order
  <2>1. o \in Orders
    BY <1>3 DEF Confirm, Finish, TypeOK, Request
  <2>2. [order[o] EXCEPT !.paymentStatus = "payment_verified",
                          !.orderStatus = "confirmed",
                          !.verified = TRUE,
                          !.deducted = @ + 1] \in Row
    <3>1. order[o].deducted + 1 \in Nat
      BY <2>1 DEF TypeOK, Row
    <3>2. /\ order[o] \in Row
          /\ "payment_verified" \in PaymentStatus
          /\ "confirmed" \in OrderStatus
      BY <2>1 DEF TypeOK, OrderStatus, PaymentStatus
    <3>. QED
      BY <3>1, <3>2, RowPatched
  <2>. DEFINE p == request[r].product
  <2>3. CASE UNCHANGED <<order, stock>>
    BY <1>3, <2>3 DEF Confirm, Finish, TypeOK
  <2>4. CASE ~ UNCHANGED <<order, stock>>
    <3>1. /\ stock[p] >= 1
          /\ stock' = [stock EXCEPT ![p] = @ - 1]
          /\ order' = [order EXCEPT ![o] =
                         [order[o] EXCEPT !.paymentStatus = "payment_verified",
                                          !.orderStatus = "confirmed",
                                          !.verified = TRUE,
                                          !.deducted = @ + 1]]
      BY <1>3, <2>4 DEF Confirm
    <3>2. stock' \in [Products -> Nat]
      <4>1. ASSUME NEW q \in Products
            PROVE  (IF q = p THEN stock[p] - 1 ELSE stock[q]) \in Nat
        BY <3>1 DEF TypeOK
      <4>. QED
        BY <3>1, <4>1 DEF TypeOK
    <3>3. order' \in [Orders -> Row]
      BY <2>1, <2>2, <3>1 DEF TypeOK
    <3>. QED
      BY <1>3, <3>2, <3>3 DEF Confirm, Finish, TypeOK
  <2>. QED
    BY <2>3, <2>4
<1>4. ASSUME NEW r \in Requests, Reject(r)
      PROVE  TypeOK'
  <2>. DEFINE o == request[r].order
  <2>1. o \in Orders
    BY <1>4 DEF Reject, Finish, TypeOK, Request
  <2>2. [order[o] EXCEPT !.paymentStatus = "payment_rejected",
                          !.orderStatus = "rejected",
                          !.verified = TRUE] \in Row
    <3>1. order[o] \in Row /\ "payment_rejected" \in PaymentStatus /\ "rejected" \in OrderStatus
      BY <2>1 DEF TypeOK, OrderStatus, PaymentStatus
    <3>. QED
      BY <3>1, RowPatched
  <2>. QED
    BY <1>4, <2>1, <2>2 DEF Reject, Finish, TypeOK
<1>5. ASSUME NEW r \in Requests, SetShippingAddress(r)
      PROVE  TypeOK'
  <2>. DEFINE o == request[r].order
  <2>1. o \in Orders
    BY <1>5 DEF SetShippingAddress, Finish, TypeOK, Request
  <2>2. [order[o] EXCEPT !.address = TRUE, !.orderStatus = "ready_to_ship"] \in Row
    <3>1. order[o] \in Row /\ "payment_verified" \in PaymentStatus /\ "ready_to_ship" \in OrderStatus
      BY <2>1 DEF TypeOK, OrderStatus, PaymentStatus
    <3>. QED
      BY <3>1, RowPatched
  <2>. QED
    BY <1>5, <2>1, <2>2 DEF SetShippingAddress, Finish, TypeOK
<1>6. ASSUME NEW r \in Requests, Ship(r)
      PROVE  TypeOK'
  BY SMTT(30), <1>6 DEF Ship, Finish, TypeOK, Request, Row, OrderStatus
<1>7. ASSUME NEW r \in Requests, MarkDelivered(r)
      PROVE  TypeOK'
  BY <1>7 DEF MarkDelivered, Finish, TypeOK, Request, Row, OrderStatus
<1>8. ASSUME NEW p \in Products, NEW n \in 0..MaxStock,
             NEW state \in {"active", "inactive"}, UpdateProduct(p, n, state)
      PROVE  TypeOK'
  BY <1>8 DEF UpdateProduct, TypeOK
<1>9. ASSUME NEW p \in Products, DeleteProduct(p)
      PROVE  TypeOK'
  BY <1>9 DEF DeleteProduct, TypeOK, Row
<1>10. CASE Crash
  BY <1>10 DEF Crash, TypeOK
<1>11. CASE UNCHANGED vars
  BY <1>11 DEF vars, TypeOK
<1>. QED
  BY BeginTyped, <1>1, <1>2, <1>3, <1>4, <1>5, <1>6, <1>7, <1>8, <1>9, <1>10, <1>11
     DEF Next

LEMMA InitTyped == Init => TypeOK
  BY DEF Init, TypeOK, NoRow, Row, OrderStatus, PaymentStatus

THEOREM TypeCorrect == Spec => []TypeOK
<1>1. Init => TypeOK
  BY InitTyped
<1>2. TypeOK /\ [Next]_vars => TypeOK'
  BY TypePreserved
<1>. QED
  BY <1>1, <1>2, PTL DEF Spec

-----------------------------------------------------------------------------
(* What confirm does to the tables, column by column.                        *)
LEMMA ConfirmEffect ==
  ASSUME TypeOK, NEW r \in Requests, Confirm(r), ~ UNCHANGED <<order, stock>>
  PROVE  /\ request[r].order \in Orders
         /\ Awaiting(order[request[r].order])
         /\ stock[request[r].product] >= 1
         /\ stock' = [stock EXCEPT ![request[r].product] = @ - 1]
         /\ \A o \in Orders \ {request[r].order} : order'[o] = order[o]
         /\ LET old == order[request[r].order]
                new == order'[request[r].order]
            IN /\ new.orderStatus = "confirmed"
               /\ new.paymentStatus = "payment_verified"
               /\ new.productId = old.productId
               /\ new.address = old.address
               /\ new.deducted = old.deducted + 1
<1>. DEFINE o == request[r].order
            new == [order[o] EXCEPT !.paymentStatus = "payment_verified",
                                    !.orderStatus = "confirmed",
                                    !.verified = TRUE,
                                    !.deducted = order[o].deducted + 1]
<1>1. o \in Orders
  BY DEF Confirm, Finish, TypeOK, Request
<1>2. /\ Awaiting(order[o])
      /\ stock[request[r].product] >= 1
      /\ stock' = [stock EXCEPT ![request[r].product] = @ - 1]
      /\ order' = [order EXCEPT ![o] = new]
  BY DEF Confirm
<1>3. /\ new.orderStatus = "confirmed"
      /\ new.paymentStatus = "payment_verified"
      /\ new.productId = order[o].productId
      /\ new.address = order[o].address
      /\ new.deducted = order[o].deducted + 1
  BY <1>1 DEF TypeOK, Row
<1>. HIDE DEF new
<1>4. order'[o] = new /\ \A x \in Orders \ {o} : order'[x] = order[x]
  BY <1>1, <1>2 DEF TypeOK
<1>. QED
  BY <1>1, <1>2, <1>3, <1>4

-----------------------------------------------------------------------------
(* What a request in flight may rely on.  A new order's id belongs to its    *)
(* creator alone; what a handler checked and no other handler can take back  *)
(* still holds when it writes, although the stage itself may have changed.   *)
Reliable(r) ==
  LET q == request[r]
      row == order[q.order]
  IN /\ q.op = "create" =>
          /\ row.orderStatus = "none"
          /\ \A s \in Requests \ {r} : request[s] # NoRequest => request[s].order # q.order
     /\ q.op # "create" => row.orderStatus # "none"
     /\ q.op = "confirm" => /\ q.product \in Products
                            /\ row.productId \in {q.product, NoProduct}
     /\ q.op \in {"address", "ship", "deliver"} => row.deducted >= 1
     /\ q.op \in {"ship", "deliver"} => row.address

RequestsReliable == \A r \in Requests : request[r] # NoRequest => Reliable(r)

(* An order without a row has taken no stock.                                *)
NoneIsBlank == \A o \in Orders : order[o].orderStatus = "none" => order[o] = NoRow

(* How a handler that is not create may change a row.                        *)
Grows(old, new) ==
  /\ old.orderStatus # "none" => new.orderStatus # "none"
  /\ old.orderStatus = "none" => new = old
  /\ new.productId \in {old.productId, NoProduct}
  /\ new.deducted >= old.deducted
  /\ old.address => new.address

Creating(o) == \E r \in Requests : /\ request[r] # NoRequest
                                   /\ request[r].op = "create"
                                   /\ request[r].order = o

LEMMA CreateEffect ==
  ASSUME TypeOK, NEW r \in Requests, Create(r), order' # order
  PROVE  /\ request[r].order \in Orders
         /\ request[r].product \in Products \cup {NoProduct}
         /\ \A o \in Orders \ {request[r].order} : order'[o] = order[o]
         /\ LET new == order'[request[r].order]
            IN /\ new.orderStatus = "pending_payment"
               /\ new.productId = request[r].product
               /\ new.address = FALSE
               /\ new.deducted = 0
<1>. DEFINE o == request[r].order
            new == [NoRow EXCEPT !.orderStatus = "pending_payment",
                                 !.productId = request[r].product]
<1>1. o \in Orders /\ request[r].product \in Products \cup {NoProduct}
  BY DEF Create, Finish, TypeOK, Request
<1>2. order' = [order EXCEPT ![o] = new]
  BY DEF Create
<1>3. /\ new.orderStatus = "pending_payment"
      /\ new.productId = request[r].product
      /\ new.address = FALSE
      /\ new.deducted = 0
  BY DEF NoRow
<1>. HIDE DEF new
<1>4. order'[o] = new /\ \A x \in Orders \ {o} : order'[x] = order[x]
  BY <1>1, <1>2 DEF TypeOK
<1>. QED
  BY <1>1, <1>3, <1>4

(* Every step lets every row grow, except the creation of that row.          *)
LEMMA RowsGrow ==
  ASSUME TypeOK, RequestsReliable, NoneIsBlank, [Next]_vars, NEW o \in Orders,
         ~ Grows(order[o], order'[o])
  PROVE  \E r \in Requests : /\ Create(r)
                             /\ order' # order
                             /\ request[r].order = o
<1>. DEFINE G == Grows(order[o], order'[o])
<1>. order[o].productId \in Products \cup {NoProduct} /\ order[o].deducted \in Nat
  BY DEF TypeOK, Row
<1>1. CASE order' = order
  BY <1>1 DEF Grows
<1>2. ASSUME NEW r \in Requests, Create(r), order' # order
      PROVE  G \/ request[r].order = o
  <2>1. o # request[r].order => order'[o] = order[o]
    BY <1>2, CreateEffect
  <2>. QED
    BY <2>1 DEF Grows
<1>3. ASSUME NEW r \in Requests, Attach(r)
      PROVE  G
  BY <1>3 DEF Attach, Finish, Grows, TypeOK, Row, RequestsReliable, Reliable
<1>4. ASSUME NEW r \in Requests, Confirm(r)
      PROVE  G
  <2>1. CASE UNCHANGED <<order, stock>>
    BY <2>1 DEF Grows
  <2>2. CASE ~ UNCHANGED <<order, stock>>
    BY <1>4, <2>2, ConfirmEffect DEF Grows, Awaiting
  <2>. QED
    BY <2>1, <2>2
<1>5. ASSUME NEW r \in Requests, Reject(r)
      PROVE  G
  BY <1>5 DEF Reject, Grows, TypeOK, Row
<1>6. ASSUME NEW r \in Requests, SetShippingAddress(r)
      PROVE  G
  BY <1>6 DEF SetShippingAddress, Finish, Grows, TypeOK, Row, RequestsReliable, Reliable
<1>7. ASSUME NEW r \in Requests, Ship(r)
      PROVE  G
  BY <1>7 DEF Ship, Finish, Grows, TypeOK, Row, RequestsReliable, Reliable
<1>8. ASSUME NEW r \in Requests, MarkDelivered(r)
      PROVE  G
  BY SMTT(30), <1>8 DEF MarkDelivered, Finish, Grows, TypeOK, Row, RequestsReliable, Reliable
<1>9. ASSUME NEW p \in Products, DeleteProduct(p)
      PROVE  G
  <2>1. CASE order[o].productId = p
    BY <1>9, <2>1 DEF DeleteProduct, Grows, TypeOK, Row, NoneIsBlank, NoRow
  <2>2. CASE order[o].productId # p
    BY <1>9, <2>2 DEF DeleteProduct, Grows, TypeOK, Row
  <2>. QED
    BY <2>1, <2>2
<1>10. ASSUME NEW r \in Requests, Begin(r)
       PROVE  order' = order
  BY <1>10 DEF Begin, BeginCreate, BeginAttach, BeginConfirm, BeginReject, BeginAddress,
               BeginShip, BeginDeliver, Start
<1>11. CASE UNCHANGED order
  BY <1>1, <1>11
<1>. SUFFICES ASSUME ~ G
              PROVE  \E r \in Requests : /\ Create(r)
                                         /\ order' # order
                                         /\ request[r].order = o
  OBVIOUS
<1>. HIDE DEF G
<1>. QED
  BY <1>1, <1>2, <1>3, <1>4, <1>5, <1>6, <1>7, <1>8, <1>9, <1>10, <1>11
     DEF Next, UpdateProduct, Crash, vars

LEMMA BlankPreserved ==
  ASSUME TypeOK, RequestsReliable, NoneIsBlank, [Next]_vars
  PROVE  NoneIsBlank'
<1>. SUFFICES ASSUME NEW o \in Orders, order'[o].orderStatus = "none"
              PROVE  order'[o] = NoRow
  BY DEF NoneIsBlank, NoRow
<1>1. CASE Grows(order[o], order'[o])
  BY <1>1 DEF Grows, NoneIsBlank
<1>2. CASE ~ Grows(order[o], order'[o])
  BY <1>2, RowsGrow, CreateEffect
<1>. QED
  BY <1>1, <1>2

(* What a handler has read when its read step is done.                       *)
LEMMA BeginEffect ==
  ASSUME TypeOK, FulfilledIsBacked, NEW r \in Requests, Begin(r)
  PROVE  /\ order' = order
         /\ request[r] = NoRequest
         /\ request'[r] \in Request
         /\ \A s \in Requests \ {r} : request'[s] = request[s]
         /\ LET q == request'[r]
                row == order[q.order]
            IN /\ q.op = "create" =>
                    /\ row.orderStatus = "none"
                    /\ \A s \in Requests : request[s] # NoRequest => request[s].order # q.order
               /\ q.op # "create" => row.orderStatus # "none"
               /\ q.op = "confirm" => /\ q.product \in Products
                                      /\ row.productId = q.product
               /\ q.op \in {"address", "ship", "deliver"} => row.deducted >= 1
               /\ q.op \in {"ship", "deliver"} => row.address
<1>. DEFINE q == request'[r]
            Read(o, op, p) == /\ order' = order
                              /\ request[r] = NoRequest
                              /\ q \in Request
                              /\ q.op = op /\ q.order = o /\ q.product = p
                              /\ \A s \in Requests \ {r} : request'[s] = request[s]
<1>1. ASSUME NEW o \in Orders, NEW op \in Ops, NEW p \in Products \cup {NoProduct},
             Start(r, op, o, p)
      PROVE  Read(o, op, p)
  <2>1. /\ order' = order
        /\ request[r] = NoRequest
        /\ q = [op |-> op, order |-> o, product |-> p]
        /\ \A s \in Requests \ {r} : request'[s] = request[s]
    BY <1>1 DEF Start, TypeOK
  <2>2. [op |-> op, order |-> o, product |-> p] \in Request
    BY DEF Request
  <2>. QED
    BY <2>1, <2>2
<1>2. \A o \in Orders : order[o].productId \in Products \cup {NoProduct}
  BY DEF TypeOK, Row
<1>. HIDE DEF Read
<1>3. ASSUME NEW o \in Orders, NEW p \in Products, BeginCreate(r, o, p)
      PROVE  Read(o, "create", p)
  BY <1>1, <1>2, <1>3 DEF BeginCreate, Ops
<1>4. ASSUME NEW o \in Orders, BeginAttach(r, o)
      PROVE  Read(o, "attach", NoProduct)
  BY <1>1, <1>2, <1>4 DEF BeginAttach, Ops
<1>5. ASSUME NEW o \in Orders, BeginConfirm(r, o)
      PROVE  Read(o, "confirm", order[o].productId)
  BY <1>1, <1>2, <1>5 DEF BeginConfirm, Ops
<1>6. ASSUME NEW o \in Orders, BeginReject(r, o)
      PROVE  Read(o, "reject", NoProduct)
  BY <1>1, <1>2, <1>6 DEF BeginReject, Ops
<1>7. ASSUME NEW o \in Orders, BeginAddress(r, o)
      PROVE  Read(o, "address", NoProduct)
  BY <1>1, <1>2, <1>7 DEF BeginAddress, Ops
<1>8. ASSUME NEW o \in Orders, BeginShip(r, o)
      PROVE  Read(o, "ship", NoProduct)
  BY <1>1, <1>2, <1>8 DEF BeginShip, Ops
<1>9. ASSUME NEW o \in Orders, BeginDeliver(r, o)
      PROVE  Read(o, "deliver", NoProduct)
  BY <1>1, <1>2, <1>9 DEF BeginDeliver, Ops
<1>10. PICK o \in Orders : \/ \E p \in Products : BeginCreate(r, o, p)
                          \/ BeginAttach(r, o)
                          \/ BeginConfirm(r, o)
                          \/ BeginReject(r, o)
                          \/ BeginAddress(r, o)
                          \/ BeginShip(r, o)
                          \/ BeginDeliver(r, o)
  BY DEF Begin
<1>11. CASE \E p \in Products : BeginCreate(r, o, p)
  BY <1>3, <1>11 DEF Read, BeginCreate
<1>12. CASE BeginAttach(r, o)
  BY <1>4, <1>12 DEF Read, BeginAttach
<1>13. CASE BeginConfirm(r, o)
  BY <1>2, <1>5, <1>13 DEF Read, BeginConfirm, Awaiting
<1>14. CASE BeginReject(r, o)
  BY <1>6, <1>14 DEF Read, BeginReject
<1>15. CASE BeginAddress(r, o)
  BY <1>7, <1>15 DEF Read, BeginAddress, FulfilledIsBacked, Fulfilment
<1>16. CASE BeginShip(r, o)
  BY <1>8, <1>16 DEF Read, BeginShip, FulfilledIsBacked, Fulfilment
<1>17. CASE BeginDeliver(r, o)
  BY <1>9, <1>17 DEF Read, BeginDeliver, FulfilledIsBacked, Fulfilment
<1>. QED
  BY <1>10, <1>11, <1>12, <1>13, <1>14, <1>15, <1>16, <1>17

(* A step either leaves a request alone, ends it, or is its read step.       *)
LEMMA RequestSteps ==
  ASSUME TypeOK, [Next]_vars, NEW r \in Requests, request'[r] # NoRequest
  PROVE  request'[r] = request[r] \/ Begin(r)
<1>1. ASSUME NEW s \in Requests, Begin(s)
      PROVE  s = r \/ request'[r] = request[r]
  BY <1>1 DEF Begin, BeginCreate, BeginAttach, BeginConfirm, BeginReject, BeginAddress,
              BeginShip, BeginDeliver, Start, TypeOK
<1>2. ASSUME NEW s \in Requests, NEW op, Finish(s, op)
      PROVE  request'[r] = request[r]
  BY <1>2 DEF Finish, TypeOK
<1>3. CASE UNCHANGED request
  BY <1>3
<1>4. ~ Crash
  BY DEF Crash
<1>. QED
  BY <1>1, <1>2, <1>3, <1>4
     DEF Next, Create, Attach, Confirm, Reject, SetShippingAddress, Ship, MarkDelivered,
         UpdateProduct, DeleteProduct, vars

LEMMA ReliablePreserved ==
  ASSUME TypeOK, RequestsReliable, NoneIsBlank, FulfilledIsBacked, [Next]_vars
  PROVE  RequestsReliable'
<1>. SUFFICES ASSUME NEW r \in Requests, request'[r] # NoRequest
              PROVE  Reliable(r)'
  BY DEF RequestsReliable
<1>. DEFINE o == request'[r].order
<1>1. CASE request'[r] = request[r]
  <2>1. Reliable(r) /\ o \in Orders /\ request[r].op \in Ops
    BY <1>1 DEF RequestsReliable, TypeOK, Request
  <2>2. ASSUME NEW c \in Requests, Create(c)
        PROVE  request[c].order # o
    <3>1. c # r /\ request[c] # NoRequest /\ request[c].op = "create"
      BY <1>1, <2>2 DEF Create, Finish, TypeOK
    <3>. QED
      BY <1>1, <3>1 DEF RequestsReliable, Reliable
  <2>3. Grows(order[o], order'[o])
    BY <2>1, <2>2, RowsGrow
  <2>4. order[o].deducted \in Nat /\ order'[o].deducted \in Nat
    BY <2>1, TypePreserved DEF TypeOK, Row
  <2>5. ASSUME request[r].op = "create", NEW s \in Requests \ {r}, request'[s] # NoRequest
        PROVE  request'[s].order # o
    <3>1. CASE request'[s] = request[s]
      BY <1>1, <2>1, <2>5, <3>1 DEF Reliable
    <3>2. CASE Begin(s)
      BY <1>1, <2>1, <2>5, <3>2, BeginEffect DEF Reliable
    <3>. QED
      BY <2>5, <3>1, <3>2, RequestSteps
  <2>6. request[r].op = "create" => order'[o] = order[o]
    BY <1>1, <2>1, <2>3 DEF Grows, Reliable
  <2>. QED
    BY <1>1, <2>1, <2>3, <2>4, <2>5, <2>6 DEF Reliable, Grows
<1>2. CASE Begin(r)
  BY <1>2, BeginEffect DEF Reliable
<1>. QED
  BY <1>1, <1>2, RequestSteps

LEMMA BackedPreserved ==
  ASSUME TypeOK, RequestsReliable, NoneIsBlank, FulfilledIsBacked, [Next]_vars
  PROVE  FulfilledIsBacked'
<1>. DEFINE Backed(row) == /\ row.orderStatus \in Fulfilment => row.deducted >= 1
                           /\ row.orderStatus \in Fulfilment \ {"confirmed"} => row.address
<1>. \A o \in Orders : Backed(order[o]) /\ order[o].deducted \in Nat
  BY DEF FulfilledIsBacked, TypeOK, Row
<1>. SUFFICES ASSUME NEW o \in Orders, order'[o] # order[o]
              PROVE  Backed(order'[o])
  BY DEF FulfilledIsBacked
<1>1. ASSUME NEW r \in Requests, Begin(r)
      PROVE  FALSE
  BY <1>1, BeginEffect
<1>2. ASSUME NEW r \in Requests, Create(r)
      PROVE  Backed(order'[o])
  BY <1>2, CreateEffect DEF Fulfilment
<1>3. ASSUME NEW r \in Requests, Attach(r)
      PROVE  Backed(order'[o])
  BY <1>3 DEF Attach, TypeOK, Row, Fulfilment
<1>4. ASSUME NEW r \in Requests, Confirm(r)
      PROVE  Backed(order'[o])
  BY <1>4, ConfirmEffect DEF Fulfilment
<1>5. ASSUME NEW r \in Requests, Reject(r)
      PROVE  Backed(order'[o])
  BY <1>5 DEF Reject, TypeOK, Row, Fulfilment
<1>6. ASSUME NEW r \in Requests, SetShippingAddress(r)
      PROVE  Backed(order'[o])
  BY <1>6 DEF SetShippingAddress, Finish, TypeOK, Row, RequestsReliable, Reliable
<1>7. ASSUME NEW r \in Requests, Ship(r)
      PROVE  Backed(order'[o])
  BY <1>7 DEF Ship, Finish, TypeOK, Row, RequestsReliable, Reliable
<1>8. ASSUME NEW r \in Requests, MarkDelivered(r)
      PROVE  Backed(order'[o])
  BY <1>8 DEF MarkDelivered, Finish, TypeOK, Row, RequestsReliable, Reliable
<1>9. ASSUME NEW p \in Products, DeleteProduct(p)
      PROVE  Backed(order'[o])
  BY <1>9 DEF DeleteProduct, TypeOK, Row
<1>10. order' # order
  OBVIOUS
<1>. HIDE DEF Backed
<1>. QED
  BY <1>1, <1>2, <1>3, <1>4, <1>5, <1>6, <1>7, <1>8, <1>9, <1>10
     DEF Next, UpdateProduct, Crash, vars

(* Nothing leaves without an address or without a unit of stock taken for    *)
(* it, and the conjunction that makes this inductive.                        *)
Desk == TypeOK /\ RequestsReliable /\ NoneIsBlank /\ FulfilledIsBacked

LEMMA DeskInit == Init => Desk
BY InitTyped DEF Init, Desk, RequestsReliable, NoneIsBlank, FulfilledIsBacked, NoRow,
                 Fulfilment

LEMMA DeskStep == Desk /\ [Next]_vars => Desk'
BY TypePreserved, ReliablePreserved, BlankPreserved, BackedPreserved DEF Desk

LEMMA DeskInvariant == Spec => []Desk
BY DeskInit, DeskStep, PTL DEF Spec

THEOREM FulfilledAlwaysBacked == Spec => []FulfilledIsBacked
<1>1. Desk => FulfilledIsBacked
  BY DEF Desk
<1>. QED
  BY <1>1, DeskInvariant, PTL

(* The two status columns of an order agree, but for an order that a stale   *)
(* screenshot took back: the handlers that write the stage alone have read   *)
(* it of an order that was confirmed, so where the payment does not read     *)
(* verified at their write, it was reopened.                                 *)
LEMMA AgreementPreserved ==
  ASSUME Desk, StatusesAgree, [Next]_vars
  PROVE  StatusesAgree'
<1>. DEFINE Right(row) == Agree(row) \/ (Reopened(row) /\ row.orderStatus \in Fulfilment)
<1>. TypeOK /\ RequestsReliable
  BY DEF Desk
<1>. \A o \in Orders : Right(order[o]) /\ order[o] \in Row /\ order[o].deducted \in Nat
  BY DEF StatusesAgree, TypeOK, Row
<1>. SUFFICES ASSUME NEW o \in Orders, order'[o] # order[o]
              PROVE  Right(order'[o])
  BY DEF StatusesAgree
<1>1. ASSUME NEW r \in Requests, Begin(r)
      PROVE  FALSE
  BY <1>1, BeginEffect DEF Desk
<1>2. ASSUME NEW r \in Requests, Create(r)
      PROVE  Right(order'[o])
  <2>. DEFINE new == [NoRow EXCEPT !.orderStatus = "pending_payment",
                                   !.productId = request[r].product]
  <2>1. new.orderStatus = "pending_payment" /\ new.paymentStatus = "payment_pending"
    BY DEF NoRow
  <2>2. order' = order \/ order' = [order EXCEPT ![request[r].order] = new]
    BY <1>2 DEF Create
  <2>3. order'[o] = new
    <3>. HIDE DEF new
    <3>. QED
      BY <2>2 DEF TypeOK
  <2>. HIDE DEF new
  <2>. QED
    BY <2>1, <2>3 DEF Agree
<1>3. ASSUME NEW r \in Requests, Attach(r)
      PROVE  Right(order'[o])
  BY <1>3 DEF Attach, TypeOK, Row, Agree
<1>4. ASSUME NEW r \in Requests, Confirm(r)
      PROVE  Right(order'[o])
  BY <1>4, ConfirmEffect DEF Agree, Fulfilment
<1>5. ASSUME NEW r \in Requests, Reject(r)
      PROVE  Right(order'[o])
  BY <1>5 DEF Reject, TypeOK, Row, Agree
<1>6. ASSUME NEW r \in Requests, NEW op \in {"address", "ship", "deliver"}, Finish(r, op)
      PROVE  /\ request[r].order \in Orders
             /\ order[request[r].order].deducted >= 1
  BY <1>6 DEF Finish, TypeOK, Request, RequestsReliable, Reliable
<1>7. ASSUME order'[o].orderStatus \in Fulfilment,
             order'[o].paymentStatus = order[o].paymentStatus,
             order'[o].deducted = order[o].deducted,
             order[o].deducted >= 1
      PROVE  Right(order'[o])
  BY <1>7 DEF Agree, Reopened
<1>. HIDE DEF Right
<1>8. ASSUME NEW r \in Requests, SetShippingAddress(r)
      PROVE  Right(order'[o])
  BY <1>6, <1>7, <1>8 DEF SetShippingAddress, TypeOK, Row, Fulfilment
<1>9. ASSUME NEW r \in Requests, Ship(r)
      PROVE  Right(order'[o])
  BY <1>6, <1>7, <1>9 DEF Ship, TypeOK, Row, Fulfilment
<1>10. ASSUME NEW r \in Requests, MarkDelivered(r)
       PROVE  Right(order'[o])
  BY <1>6, <1>7, <1>10 DEF MarkDelivered, TypeOK, Row, Fulfilment
<1>11. ASSUME NEW p \in Products, DeleteProduct(p)
       PROVE  Right(order'[o])
  BY <1>11 DEF DeleteProduct, TypeOK, Row, Right, Agree, Reopened
<1>12. order' # order
  OBVIOUS
<1>. QED
  BY <1>1, <1>2, <1>3, <1>4, <1>5, <1>8, <1>9, <1>10, <1>11, <1>12
     DEF Next, UpdateProduct, Crash, vars

(* However handlers overlap, what an order's two columns say agrees, unless  *)
(* a stale screenshot put the order back after its confirmation and a stale  *)
(* address, shipment or delivery has moved its stage on since.               *)
THEOREM StatusesAlwaysAgree == Spec => []StatusesAgree
<1>1. Init => StatusesAgree
  BY DEF Init, NoRow, StatusesAgree, Agree
<1>2. Desk /\ StatusesAgree /\ [Next]_vars => StatusesAgree'
  BY AgreementPreserved
<1>. QED
  BY DeskInvariant, <1>1, <1>2, PTL DEF Spec

-----------------------------------------------------------------------------
(* The orders that confirm has taken stock for.  An order that a stale       *)
(* screenshot sends back to verification keeps its unit, so this set, unlike *)
(* Fulfilled(p), never shrinks while the product exists.                     *)
Consumed(p) == {o \in Orders : order[o].productId = p /\ order[o].deducted >= 1}

Ledger == \A p \in Products : Cardinality(Consumed(p)) + stock[p] <= supplied[p]

LEMMA ConsumedFinite ==
  ASSUME NEW p \in Products
  PROVE  IsFiniteSet(Consumed(p)) /\ Cardinality(Consumed(p)) \in Nat
  BY FS_Subset, FS_CardinalityType DEF Consumed

(* Only confirm adds to the orders that hold a unit.                         *)
LEMMA ConsumedShrinks ==
  ASSUME Desk, [Next]_vars, NEW p \in Products,
         \A o \in Orders : order'[o].deducted <= order[o].deducted
  PROVE  Cardinality(Consumed(p)') <= Cardinality(Consumed(p))
<1>1. ASSUME NEW o \in Orders, order'[o].deducted >= 1, order'[o].productId = p
      PROVE  order[o].productId = p /\ order[o].deducted >= 1
  <2>1. order[o].deducted \in Nat /\ order'[o].deducted \in Nat
    BY TypePreserved DEF Desk, TypeOK, Row
  <2>2. Grows(order[o], order'[o])
    <3>1. SUFFICES ASSUME ~ Grows(order[o], order'[o])
                   PROVE  FALSE
      OBVIOUS
    <3>2. PICK r \in Requests : Create(r) /\ order' # order /\ request[r].order = o
      BY <3>1, RowsGrow DEF Desk
    <3>3. order'[o].deducted = 0
      BY <3>2, CreateEffect DEF Desk
    <3>. QED
      BY <1>1, <3>3
  <2>. QED
    BY <1>1, <2>1, <2>2 DEF Grows
<1>2. Consumed(p)' \subseteq Consumed(p)
  BY <1>1 DEF Consumed
<1>. QED
  BY <1>2, ConsumedFinite, FS_Subset

LEMMA LedgerPreserved ==
  ASSUME Desk, Ledger, [Next]_vars
  PROVE  Ledger'
<1>. SUFFICES ASSUME NEW p \in Products
              PROVE  Cardinality(Consumed(p)') + stock'[p] <= supplied'[p]
  BY DEF Ledger
<1>. /\ Cardinality(Consumed(p)) + stock[p] <= supplied[p]
     /\ stock[p] \in Nat /\ supplied[p] \in Int
     /\ Cardinality(Consumed(p)) \in Nat
  BY ConsumedFinite DEF Ledger, Desk, TypeOK
<1>. IsFiniteSet(Consumed(p)') /\ Cardinality(Consumed(p)') \in Nat
  BY FS_Subset, FS_CardinalityType DEF Consumed
<1>1. ASSUME NEW r \in Requests, Confirm(r), ~ UNCHANGED <<order, stock>>
      PROVE  Cardinality(Consumed(p)') + stock'[p] <= supplied'[p]
  <2>. DEFINE o == request[r].order
              q == request[r].product
  <2>1. q \in Products /\ order[o].productId \in {q, NoProduct}
    BY <1>1 DEF Confirm, Finish, Desk, RequestsReliable, Reliable
  <2>2. supplied' = supplied
    BY <1>1 DEF Confirm
  <2>3. CASE q = p
    <3>1. stock'[p] = stock[p] - 1
      BY <1>1, <2>1, <2>3, ConfirmEffect DEF Desk, TypeOK
    <3>2. Consumed(p)' \subseteq Consumed(p) \cup {o}
      BY <1>1, ConfirmEffect DEF Consumed, Desk
    <3>3. /\ IsFiniteSet(Consumed(p) \cup {o})
          /\ Cardinality(Consumed(p) \cup {o}) <= Cardinality(Consumed(p)) + 1
      <4>1. /\ IsFiniteSet(Consumed(p) \cup {o})
            /\ \/ Cardinality(Consumed(p) \cup {o}) = Cardinality(Consumed(p))
               \/ Cardinality(Consumed(p) \cup {o}) = Cardinality(Consumed(p)) + 1
        BY ConsumedFinite, FS_AddElement, Zenon
      <4>. QED
        BY <4>1
    <3>4. Cardinality(Consumed(p)') <= Cardinality(Consumed(p) \cup {o})
      BY <3>2, <3>3, FS_Subset
    <3>. QED
      BY <2>2, <3>1, <3>3, <3>4, FS_CardinalityType
  <2>4. CASE q # p
    <3>1. stock'[p] = stock[p]
      BY <1>1, <2>1, <2>4, ConfirmEffect DEF Desk, TypeOK
    <3>2. Consumed(p)' \subseteq Consumed(p)
      BY <1>1, <2>1, <2>4, ConfirmEffect DEF Consumed, Desk
    <3>3. Cardinality(Consumed(p)') <= Cardinality(Consumed(p))
      BY <3>2, ConsumedFinite, FS_Subset
    <3>. QED
      BY <2>2, <3>1, <3>3
  <2>. QED
    BY <2>3, <2>4
<1>2. CASE \A o \in Orders : order'[o].deducted <= order[o].deducted
  <2>1. Cardinality(Consumed(p)') <= Cardinality(Consumed(p))
    BY <1>2, ConsumedShrinks
  <2>3. ASSUME NEW x \in Products, NEW n \in 0..MaxStock,
               NEW state \in {"active", "inactive"}, UpdateProduct(x, n, state)
        PROVE  stock'[p] - stock[p] = supplied'[p] - supplied[p]
    BY <2>3 DEF UpdateProduct, Desk, TypeOK
  <2>4. ASSUME NEW r \in Requests, Confirm(r)
        PROVE  UNCHANGED <<order, stock>>
    <3>1. order[request[r].order].deducted \in Nat
      BY <2>4 DEF Confirm, Finish, Desk, TypeOK, Row, Request
    <3>. QED
      BY <1>2, <2>4, <3>1, ConfirmEffect DEF Desk
  <2>5. stock'[p] \in Nat /\ supplied'[p] \in Int
    BY TypePreserved DEF Desk, TypeOK
  <2>6. stock'[p] - stock[p] = supplied'[p] - supplied[p]
    <3>1. CASE UNCHANGED <<stock, supplied>>
      BY <3>1
    <3>2. ASSUME NEW r \in Requests, Begin(r)
          PROVE  UNCHANGED <<stock, supplied>>
      BY <3>2 DEF Begin, BeginCreate, BeginAttach, BeginConfirm, BeginReject, BeginAddress,
                  BeginShip, BeginDeliver, Start
    <3>3. ASSUME NEW r \in Requests, Confirm(r)
          PROVE  UNCHANGED <<stock, supplied>>
      BY <2>4, <3>3 DEF Confirm
    <3>. QED
      BY <2>3, <3>1, <3>2, <3>3
         DEF Next, Create, Attach, Reject, SetShippingAddress, Ship, MarkDelivered,
             DeleteProduct, Crash, vars
  <2>. QED
    BY <2>1, <2>5, <2>6
<1>3. ASSUME \A r \in Requests : Confirm(r) => UNCHANGED <<order, stock>>,
             NEW o \in Orders
      PROVE  order'[o].deducted <= order[o].deducted
  <2>. order[o].deducted \in Nat
    BY DEF Desk, TypeOK, Row
  <2>1. CASE order' = order
    BY <2>1
  <2>2. ASSUME NEW r \in Requests, Begin(r)
        PROVE  order' = order
    BY <2>2, BeginEffect DEF Desk
  <2>3. ASSUME NEW r \in Requests, Create(r)
        PROVE  order'[o].deducted <= order[o].deducted
    <3>. SUFFICES ASSUME order' # order
                  PROVE  order'[o].deducted <= order[o].deducted
      BY <2>1
    <3>1. CASE o = request[r].order
      <4>1. order'[o].deducted = 0
        BY <2>3, <3>1, CreateEffect DEF Desk
      <4>. QED
        BY <4>1
    <3>2. CASE o # request[r].order
      <4>1. order'[o] = order[o]
        BY <2>3, <3>2, CreateEffect DEF Desk
      <4>. QED
        BY <4>1
    <3>. QED
      BY <3>1, <3>2
  <2>4. ASSUME NEW r \in Requests, Attach(r) \/ Reject(r) \/ SetShippingAddress(r)
        PROVE  order'[o].deducted = order[o].deducted
    <3>1. CASE Attach(r)
      BY <3>1 DEF Attach, Desk, TypeOK, Row
    <3>2. CASE Reject(r)
      BY <3>2 DEF Reject, Desk, TypeOK, Row
    <3>3. CASE SetShippingAddress(r)
      BY <3>3 DEF SetShippingAddress, Desk, TypeOK, Row
    <3>. QED
      BY <2>4, <3>1, <3>2, <3>3
  <2>5. ASSUME NEW r \in Requests, Ship(r) \/ MarkDelivered(r)
        PROVE  order'[o].deducted = order[o].deducted
    <3>1. CASE Ship(r)
      BY <3>1 DEF Ship, Desk, TypeOK, Row
    <3>2. CASE MarkDelivered(r)
      BY <3>2 DEF MarkDelivered, Desk, TypeOK, Row
    <3>. QED
      BY <2>5, <3>1, <3>2
  <2>6. ASSUME NEW x \in Products, DeleteProduct(x)
        PROVE  order'[o].deducted = order[o].deducted
    BY <2>6 DEF DeleteProduct, Desk, TypeOK, Row
  <2>. QED
    BY <1>3, <2>1, <2>2, <2>3, <2>4, <2>5, <2>6
       DEF Next, UpdateProduct, Crash, vars
<1>. QED
  BY <1>1, <1>2, <1>3

(* The last-item race of confirm, for any number of orders of a product and  *)
(* any overlap of the seller's and the customers' requests.                  *)
THEOREM NeverOversold == Spec => []NoOversell
<1>1. Init => Ledger
  <2>. SUFFICES ASSUME Init, NEW p \in Products
                PROVE  Cardinality(Consumed(p)) + stock[p] <= supplied[p]
    BY DEF Ledger
  <2>1. Consumed(p) = {}
    BY DEF Init, NoRow, Consumed
  <2>2. stock[p] \in Nat /\ supplied[p] = stock[p]
    BY DEF Init
  <2>. QED
    BY <2>1, <2>2, FS_EmptySet
<1>2. Desk /\ Ledger /\ [Next]_vars => Ledger'
  BY LedgerPreserved
<1>3. Desk /\ Ledger => NoOversell
  <2>. SUFFICES ASSUME Desk, Ledger, NEW p \in Products
                PROVE  Cardinality(Fulfilled(p)) + stock[p] <= supplied[p]
    BY DEF NoOversell
  <2>1. Fulfilled(p) \subseteq Consumed(p)
    BY DEF Fulfilled, Consumed, Desk, FulfilledIsBacked
  <2>2. Cardinality(Fulfilled(p)) <= Cardinality(Consumed(p))
    BY <2>1, ConsumedFinite, FS_Subset
  <2>3. /\ Cardinality(Fulfilled(p)) \in Nat /\ Cardinality(Consumed(p)) \in Nat
        /\ stock[p] \in Nat /\ supplied[p] \in Int
    BY <2>1, ConsumedFinite, FS_Subset, FS_CardinalityType DEF Desk, TypeOK
  <2>. QED
    BY <2>2, <2>3 DEF Ledger
<1>. QED
  BY <1>1, <1>2, <1>3, DeskInvariant, PTL DEF Spec

-----------------------------------------------------------------------------
(* Handlers that do not overlap.                                             *)
InFlight == {r \in Requests : request[r] # NoRequest}

(* What a handler read still holds at its write, when no other one may start *)
(* in between: only the seller's edits of products do.                       *)
Undisturbed(r) ==
  LET q == request[r]
      status == order[q.order].orderStatus
  IN /\ q.op = "create" => q.product \in Products
     /\ q.op = "attach" => status \in {"pending_payment", "pending_verification"}
     /\ q.op = "confirm" => \/ order[q.order].productId = q.product
                            \/ listing[q.product] = "deleted"
     /\ q.op = "address" => status \in {"confirmed", "ready_to_ship"}
     /\ q.op = "ship" => status = "ready_to_ship"
     /\ q.op = "deliver" => status = "shipped"

(* An address makes a confirmed order ready: no order that is still to be    *)
(* addressed has one, so that none is sent from the stage "confirmed".       *)
AddressMeansReady ==
  \A o \in Orders : order[o].orderStatus \in {"pending_payment", "pending_verification",
                                              "confirmed"}
                    => ~ order[o].address

(* An order gives up no unit it holds and takes none before its payment.     *)
TakenOnce ==
  \A o \in Orders :
    /\ order[o].deducted <= 1
    /\ order[o].orderStatus \in {"none", "pending_payment", "pending_verification"}
         => order[o].deducted = 0

OneByOne ==
  /\ IsFiniteSet(InFlight)
  /\ Cardinality(InFlight) <= 1
  /\ \A r \in InFlight : Undisturbed(r)
  /\ AddressMeansReady
  /\ TakenOnce

LEMMA OnlyOne ==
  ASSUME IsFiniteSet(InFlight), Cardinality(InFlight) <= 1,
         NEW r \in InFlight, NEW s \in InFlight
  PROVE  r = s
<1>. SUFFICES ASSUME r # s
              PROVE  FALSE
  OBVIOUS
<1>1. IsFiniteSet({r}) /\ Cardinality({r}) = 1
  BY FS_Singleton
<1>2. {r} \subseteq InFlight
  OBVIOUS
<1>3. Cardinality(InFlight) \in Nat /\ 1 <= Cardinality(InFlight)
  BY <1>1, <1>2, FS_Subset, FS_CardinalityType
<1>4. {r} = InFlight
  BY <1>1, <1>2, <1>3, FS_Subset
<1>. QED
  BY <1>4

LEMMA FlightStaysFinite ==
  ASSUME Desk, IsFiniteSet(InFlight), [Next]_vars
  PROVE  IsFiniteSet(InFlight')
<1>1. ASSUME NEW r \in Requests, Begin(r)
      PROVE  IsFiniteSet(InFlight')
  <2>1. InFlight' \subseteq InFlight \cup {r}
    BY <1>1, BeginEffect DEF InFlight, Desk
  <2>2. IsFiniteSet(InFlight \cup {r})
    BY FS_AddElement
  <2>. QED
    BY <2>1, <2>2, FS_Subset
<1>2. CASE \A r \in Requests : ~ Begin(r)
  <2>1. InFlight' \subseteq InFlight
    BY <1>2, RequestSteps DEF InFlight, Desk
  <2>. QED
    BY <2>1, FS_Subset
<1>. QED
  BY <1>1, <1>2

(* What a handler checks before it starts is what Undisturbed says.          *)
LEMMA FreshStart ==
  ASSUME Desk, AddressMeansReady, NEW r \in Requests, Begin(r)
  PROVE  Undisturbed(r)'
<1>. DEFINE q == request'[r]
<1>1. ASSUME NEW o \in Orders, NEW op \in Ops, NEW p \in Products \cup {NoProduct},
             Start(r, op, o, p)
      PROVE  /\ order' = order /\ listing' = listing
             /\ q.op = op /\ q.order = o /\ q.product = p
  <2>1. order' = order /\ listing' = listing /\ q = [op |-> op, order |-> o, product |-> p]
    BY <1>1 DEF Start, Desk, TypeOK
  <2>. QED
    BY <2>1
<1>2. \A o \in Orders : order[o].productId \in Products \cup {NoProduct}
  BY DEF Desk, TypeOK, Row
<1>3. PICK o \in Orders : \/ \E p \in Products : BeginCreate(r, o, p)
                          \/ BeginAttach(r, o)
                          \/ BeginConfirm(r, o)
                          \/ BeginReject(r, o)
                          \/ BeginAddress(r, o)
                          \/ BeginShip(r, o)
                          \/ BeginDeliver(r, o)
  BY DEF Begin
<1>4. CASE \E p \in Products : BeginCreate(r, o, p)
  BY <1>1, <1>4 DEF BeginCreate, Ops, Undisturbed
<1>5. CASE BeginAttach(r, o)
  BY <1>1, <1>5 DEF BeginAttach, Ops, Undisturbed
<1>6. CASE BeginConfirm(r, o)
  BY <1>1, <1>2, <1>6 DEF BeginConfirm, Ops, Undisturbed
<1>7. CASE BeginReject(r, o)
  BY <1>1, <1>7 DEF BeginReject, Ops, Undisturbed
<1>8. CASE BeginAddress(r, o)
  BY <1>1, <1>8 DEF BeginAddress, Ops, Undisturbed
<1>9. CASE BeginShip(r, o)
  BY <1>1, <1>9 DEF BeginShip, Ops, Undisturbed, AddressMeansReady
<1>10. CASE BeginDeliver(r, o)
  BY <1>1, <1>10 DEF BeginDeliver, Ops, Undisturbed
<1>. QED
  BY <1>3, <1>4, <1>5, <1>6, <1>7, <1>8, <1>9, <1>10

(* A handler that is alone finds what it read.                               *)
LEMMA UndisturbedPreserved ==
  ASSUME Desk, OneByOne, [Next]_vars, NEW r \in Requests, request'[r] # NoRequest
  PROVE  Undisturbed(r)'
<1>1. CASE Begin(r)
  BY <1>1, FreshStart DEF OneByOne
<1>2. CASE request'[r] = request[r]
  <2>1. r \in InFlight /\ Undisturbed(r)
    BY <1>2 DEF OneByOne, InFlight
  <2>2. ASSUME NEW s \in Requests, NEW op, Finish(s, op)
        PROVE  FALSE
    <3>1. s \in InFlight /\ request'[s] = NoRequest
      BY <2>2 DEF Finish, InFlight, Desk, TypeOK
    <3>2. s = r
      BY <2>1, <3>1, OnlyOne DEF OneByOne
    <3>. QED
      BY <3>1, <3>2
  <2>3. ASSUME NEW s \in Requests, Begin(s)
        PROVE  order' = order /\ listing' = listing
    BY <2>3 DEF Begin, BeginCreate, BeginAttach, BeginConfirm, BeginReject, BeginAddress,
                BeginShip, BeginDeliver, Start
  <2>4. CASE order' = order /\ listing' = listing
    BY <1>2, <2>1, <2>4 DEF Undisturbed
  <2>5. ASSUME NEW p \in Products, NEW n \in 0..MaxStock,
               NEW state \in {"active", "inactive"}, UpdateProduct(p, n, state)
        PROVE  Undisturbed(r)'
    <3>1. \A x \in Products : listing[x] = "deleted" => listing'[x] = "deleted"
      BY <2>5 DEF UpdateProduct, Desk, TypeOK
    <3>2. order' = order
      BY <2>5 DEF UpdateProduct
    <3>3. request[r].op = "confirm" => request[r].product \in Products
      BY <2>1 DEF Desk, RequestsReliable, Reliable, InFlight
    <3>. QED
      BY <1>2, <2>1, <3>1, <3>2, <3>3 DEF Undisturbed
  <2>6. ASSUME NEW p \in Products, DeleteProduct(p)
        PROVE  Undisturbed(r)'
    <3>. DEFINE o == request[r].order
    <3>1. o \in Orders /\ order[o] \in Row
      BY <2>1 DEF Desk, TypeOK, Request, InFlight
    <3>2. /\ order'[o].orderStatus = order[o].orderStatus
          /\ order'[o].productId = IF order[o].productId = p THEN NoProduct
                                                             ELSE order[o].productId
      BY <2>6, <3>1 DEF DeleteProduct, Row
    <3>3. listing' = [listing EXCEPT ![p] = "deleted"]
      BY <2>6 DEF DeleteProduct
    <3>4. request[r].op = "confirm" => request[r].product \in Products
      BY <2>1 DEF Desk, RequestsReliable, Reliable, InFlight
    <3>5. \A x \in Products : /\ listing[x] = "deleted" => listing'[x] = "deleted"
                              /\ x = p => listing'[x] = "deleted"
      BY <3>3 DEF Desk, TypeOK
    <3>. QED
      BY <1>2, <2>1, <3>2, <3>4, <3>5 DEF Undisturbed
  <2>7. ~ Crash
    BY DEF Crash
  <2>. QED
    BY <2>2, <2>3, <2>4, <2>5, <2>6, <2>7
       DEF Next, Create, Attach, Confirm, Reject, SetShippingAddress, Ship, MarkDelivered,
           vars
<1>. QED
  BY <1>1, <1>2, RequestSteps DEF Desk

LEMMA AddressPreserved ==
  ASSUME Desk, OneByOne, [Next]_vars
  PROVE  AddressMeansReady'
<1>. DEFINE Held(row) == row.orderStatus \in {"pending_payment", "pending_verification",
                                              "confirmed"}
                         => ~ row.address
<1>. \A o \in Orders : Held(order[o]) /\ order[o] \in Row
  BY DEF OneByOne, AddressMeansReady, Desk, TypeOK
<1>. SUFFICES ASSUME NEW o \in Orders, order'[o] # order[o]
              PROVE  Held(order'[o])
  BY DEF AddressMeansReady
<1>1. ASSUME NEW r \in Requests, Begin(r)
      PROVE  FALSE
  BY <1>1, BeginEffect DEF Desk
<1>2. ASSUME NEW r \in Requests, Create(r)
      PROVE  Held(order'[o])
  BY <1>2, CreateEffect DEF Desk
<1>3. ASSUME NEW r \in Requests, Attach(r)
      PROVE  Held(order'[o])
  <2>1. o = request[r].order /\ request[r].op = "attach" /\ r \in InFlight
    BY <1>3 DEF Attach, Finish, InFlight, Desk, TypeOK
  <2>2. order[o].orderStatus \in {"pending_payment", "pending_verification"}
    BY <2>1 DEF OneByOne, Undisturbed
  <2>3. order'[o].address = order[o].address
    BY <1>3, <2>1 DEF Attach, Desk, TypeOK, Row
  <2>. QED
    BY <2>2, <2>3
<1>4. ASSUME NEW r \in Requests, Confirm(r)
      PROVE  Held(order'[o])
  <2>1. ~ UNCHANGED <<order, stock>>
    OBVIOUS
  <2>2. o = request[r].order
    BY <1>4, <2>1, ConfirmEffect DEF Desk
  <2>3. Awaiting(order[o]) /\ order'[o].address = order[o].address
    BY <1>4, <2>1, <2>2, ConfirmEffect DEF Desk
  <2>. QED
    BY <2>3 DEF Awaiting
<1>5. ASSUME NEW r \in Requests, Reject(r)
      PROVE  Held(order'[o])
  BY <1>5 DEF Reject, Desk, TypeOK, Row
<1>6. ASSUME NEW r \in Requests, SetShippingAddress(r)
      PROVE  Held(order'[o])
  BY <1>6 DEF SetShippingAddress, Finish, Desk, TypeOK, Row
<1>7. ASSUME NEW r \in Requests, Ship(r)
      PROVE  Held(order'[o])
  BY <1>7 DEF Ship, Finish, Desk, TypeOK, Row
<1>8. ASSUME NEW r \in Requests, MarkDelivered(r)
      PROVE  Held(order'[o])
  BY <1>8 DEF MarkDelivered, Finish, Desk, TypeOK, Row
<1>9. ASSUME NEW p \in Products, DeleteProduct(p)
      PROVE  Held(order'[o])
  BY <1>9 DEF DeleteProduct, Desk, TypeOK, Row
<1>10. order' # order
  OBVIOUS
<1>. HIDE DEF Held
<1>. QED
  BY <1>1, <1>2, <1>3, <1>4, <1>5, <1>6, <1>7, <1>8, <1>9, <1>10
     DEF Next, UpdateProduct, Crash, vars

LEMMA TakenPreserved ==
  ASSUME Desk, OneByOne, [Next]_vars
  PROVE  TakenOnce'
<1>. DEFINE Held(row) == /\ row.deducted <= 1
                         /\ row.orderStatus \in {"none", "pending_payment",
                                                 "pending_verification"}
                              => row.deducted = 0
<1>. \A o \in Orders : Held(order[o]) /\ order[o] \in Row
  BY DEF OneByOne, TakenOnce, Desk, TypeOK
<1>. SUFFICES ASSUME NEW o \in Orders, order'[o] # order[o]
              PROVE  Held(order'[o])
  BY DEF TakenOnce
<1>1. ASSUME NEW r \in Requests, Begin(r)
      PROVE  FALSE
  BY <1>1, BeginEffect DEF Desk
<1>2. ASSUME NEW r \in Requests, Create(r)
      PROVE  Held(order'[o])
  <2>1. o = request[r].order
    BY <1>2, CreateEffect DEF Desk
  <2>2. order'[o].deducted = 0
    BY <1>2, <2>1, CreateEffect DEF Desk
  <2>. QED
    BY <2>2
<1>3. ASSUME NEW r \in Requests, Attach(r)
      PROVE  Held(order'[o])
  <2>1. o = request[r].order /\ request[r].op = "attach" /\ r \in InFlight
    BY <1>3 DEF Attach, Finish, InFlight, Desk, TypeOK
  <2>2. order[o].orderStatus \in {"pending_payment", "pending_verification"}
    BY <2>1 DEF OneByOne, Undisturbed
  <2>3. order'[o].deducted = order[o].deducted
    BY <1>3, <2>1 DEF Attach, Desk, TypeOK, Row
  <2>. QED
    BY <2>2, <2>3
<1>4. ASSUME NEW r \in Requests, Confirm(r)
      PROVE  Held(order'[o])
  <2>1. ~ UNCHANGED <<order, stock>>
    OBVIOUS
  <2>2. o = request[r].order
    BY <1>4, <2>1, ConfirmEffect DEF Desk
  <2>3. /\ Awaiting(order[o])
        /\ order'[o].deducted = order[o].deducted + 1
        /\ order'[o].orderStatus = "confirmed"
    BY <1>4, <2>1, <2>2, ConfirmEffect DEF Desk
  <2>. QED
    BY <2>3 DEF Awaiting
<1>5. ASSUME NEW r \in Requests, Reject(r)
      PROVE  Held(order'[o])
  BY <1>5 DEF Reject, Desk, TypeOK, Row
<1>6. ASSUME NEW r \in Requests, SetShippingAddress(r)
      PROVE  Held(order'[o])
  BY <1>6 DEF SetShippingAddress, Finish, Desk, TypeOK, Row
<1>7. ASSUME NEW r \in Requests, Ship(r)
      PROVE  Held(order'[o])
  BY <1>7 DEF Ship, Finish, Desk, TypeOK, Row
<1>8. ASSUME NEW r \in Requests, MarkDelivered(r)
      PROVE  Held(order'[o])
  BY <1>8 DEF MarkDelivered, Finish, Desk, TypeOK, Row
<1>9. ASSUME NEW p \in Products, DeleteProduct(p)
      PROVE  Held(order'[o])
  BY <1>9 DEF DeleteProduct, Desk, TypeOK, Row
<1>10. order' # order
  OBVIOUS
<1>. HIDE DEF Held
<1>. QED
  BY <1>1, <1>2, <1>3, <1>4, <1>5, <1>6, <1>7, <1>8, <1>9, <1>10
     DEF Next, UpdateProduct, Crash, vars

-----------------------------------------------------------------------------
(* The abstract state, as the desk's rows show it.                           *)
Stage == [o \in Orders |-> IF serial THEN order[o].orderStatus ELSE "none"]
Wanted == [o \in Orders |-> IF serial THEN order[o].productId ELSE NoProduct]

MCStep == [MCNext]_<<vars, serial>>
LifecycleStep == [Lifecycle!Next]_(Lifecycle!vars)

LEMMA SameRows ==
  ASSUME serial' = serial, \A o \in Orders : /\ order'[o].orderStatus = order[o].orderStatus
                                             /\ order'[o].productId = order[o].productId
  PROVE  Stage' = Stage /\ Wanted' = Wanted
BY DEF Stage, Wanted

LEMMA SameTables ==
  ASSUME serial' = serial, order' = order, stock' = stock
  PROVE  LifecycleStep
<1>1. Stage' = Stage /\ Wanted' = Wanted
  BY SameRows
<1>. QED
  BY <1>1 DEF LifecycleStep, Lifecycle!vars, Stage, Wanted

LEMMA OneRow ==
  ASSUME serial, serial', NEW o \in Orders,
         \A x \in Orders \ {o} : order'[x] = order[x]
  PROVE  /\ Stage' = [Stage EXCEPT ![o] = order'[o].orderStatus]
         /\ order'[o].productId = order[o].productId => Wanted' = Wanted
         /\ Wanted' = [Wanted EXCEPT ![o] = order'[o].productId]
BY DEF Stage, Wanted

(* A row that moves one stage forward, or not at all.                        *)
Forward == {<<"pending_payment", "pending_verification">>,
            <<"pending_verification", "rejected">>,
            <<"confirmed", "ready_to_ship">>,
            <<"ready_to_ship", "shipped">>,
            <<"shipped", "delivered">>}

LEMMA ForwardMaps ==
  ASSUME serial, serial', NEW o \in Orders, stock' = stock,
         \A x \in Orders \ {o} : order'[x] = order[x],
         order'[o].productId = order[o].productId,
         \/ order'[o].orderStatus = order[o].orderStatus
         \/ <<order[o].orderStatus, order'[o].orderStatus>> \in Forward
  PROVE  LifecycleStep
<1>1. CASE order'[o].orderStatus = order[o].orderStatus
  <2>1. Stage' = Stage /\ Wanted' = Wanted
    BY <1>1, SameRows
  <2>. QED
    BY <2>1 DEF LifecycleStep, Lifecycle!vars, Stage, Wanted
<1>2. CASE <<order[o].orderStatus, order'[o].orderStatus>> \in Forward
  <2>1. Stage' = [Stage EXCEPT ![o] = order'[o].orderStatus] /\ Wanted' = Wanted
    BY OneRow
  <2>2. Stage[o] = order[o].orderStatus
    BY DEF Stage
  <2>3. Lifecycle!Progress(o)
    BY <1>2, <2>1, <2>2 DEF Lifecycle!Progress, Lifecycle!Advance, Forward, Stage, Wanted
  <2>. QED
    BY <2>3 DEF LifecycleStep, Lifecycle!Next
<1>. QED
  BY <1>1, <1>2

LEMMA LifecycleActions ==
  ASSUME NEW o \in Orders, NEW p \in Products,
         Lifecycle!Place(o, p) \/ Lifecycle!Confirm(o)
  PROVE  LifecycleStep
  BY DEF LifecycleStep, Lifecycle!Next

LEMMA RestockMaps ==
  ASSUME NEW p \in Products, stock' \in [Products -> Nat],
         \A q \in Products \ {p} : stock'[q] = stock[q],
         Stage' = Stage, Wanted' = Wanted
  PROVE  LifecycleStep
<1>1. Lifecycle!Restock(p)
  BY DEF Lifecycle!Restock, Stage, Wanted
<1>. QED
  BY <1>1 DEF LifecycleStep, Lifecycle!Next

LEMMA PlaceMaps ==
  ASSUME Desk, OneByOne, serial, serial', NEW r \in Requests, Create(r),
         NEW o, request[r].order = o, NEW p, request[r].product = p
  PROVE  LifecycleStep
<1>1. stock' = stock
  BY DEF Create
<1>2. CASE order' = order
  BY <1>1, <1>2, SameTables
<1>3. CASE order' # order
  <2>1. /\ o \in Orders
        /\ \A x \in Orders \ {o} : order'[x] = order[x]
        /\ order'[o].orderStatus = "pending_payment"
        /\ order'[o].productId = p
    BY <1>3, CreateEffect DEF Desk
  <2>2. order[o].orderStatus = "none"
    BY DEF Create, Finish, Desk, RequestsReliable, Reliable
  <2>3. p \in Products
    BY DEF Create, Finish, OneByOne, Undisturbed, InFlight
  <2>4. /\ Stage' = [Stage EXCEPT ![o] = "pending_payment"]
        /\ Wanted' = [Wanted EXCEPT ![o] = p]
    BY <2>1, OneRow
  <2>5. Stage[o] = "none"
    BY <2>1, <2>2 DEF Stage
  <2>6. Lifecycle!Place(o, p)
    BY <1>1, <2>4, <2>5 DEF Lifecycle!Place, Lifecycle!Advance, Stage, Wanted
  <2>. QED
    BY <2>1, <2>3, <2>6, LifecycleActions
<1>. QED
  BY <1>2, <1>3

LEMMA ConfirmMaps ==
  ASSUME Desk, OneByOne, serial, serial', NEW r \in Requests, Confirm(r),
         NEW o, request[r].order = o, NEW p, request[r].product = p
  PROVE  LifecycleStep
<1>1. CASE UNCHANGED <<order, stock>>
  BY <1>1, SameTables
<1>2. CASE ~ UNCHANGED <<order, stock>>
  <2>1. /\ o \in Orders
        /\ order[o].orderStatus = "pending_verification"
        /\ stock[p] >= 1
        /\ stock' = [stock EXCEPT ![p] = @ - 1]
        /\ \A x \in Orders \ {o} : order'[x] = order[x]
        /\ order'[o].orderStatus = "confirmed"
        /\ order'[o].productId = order[o].productId
    BY <1>2, ConfirmEffect DEF Desk, Awaiting
  <2>2. order[o].productId = p /\ p \in Products
    <3>1. r \in InFlight /\ request[r].op = "confirm"
      BY DEF Confirm, Finish, InFlight
    <3>2. listing[p] # "deleted"
      BY <1>2 DEF Confirm
    <3>. QED
      BY <3>1, <3>2 DEF OneByOne, Undisturbed, Desk, RequestsReliable, Reliable, InFlight
  <2>3. Stage' = [Stage EXCEPT ![o] = "confirmed"] /\ Wanted' = Wanted
    BY <2>1, OneRow
  <2>4. Stage[o] = "pending_verification" /\ Wanted[o] = p
    BY <2>1, <2>2 DEF Stage, Wanted
  <2>5. Lifecycle!Confirm(o)
    BY <2>1, <2>2, <2>3, <2>4 DEF Lifecycle!Confirm, Lifecycle!Advance, Stage, Wanted
  <2>. QED
    BY <2>1, <2>2, <2>5, LifecycleActions
<1>. QED
  BY <1>1, <1>2

(* The other writes of handlers, with the stage that each finds.             *)
LEMMA ProgressMaps ==
  ASSUME Desk, OneByOne, serial, serial', NEW r \in Requests,
         \/ Attach(r) \/ Reject(r) \/ SetShippingAddress(r) \/ Ship(r) \/ MarkDelivered(r)
  PROVE  LifecycleStep
<1>. DEFINE o == request[r].order
<1>1. r \in InFlight /\ stock' = stock /\ o \in Orders /\ order[o] \in Row
  BY DEF Attach, Reject, SetShippingAddress, Ship, MarkDelivered, Finish, InFlight, Desk,
         TypeOK, Request
<1>2. Undisturbed(r)
  BY <1>1 DEF OneByOne
<1>3. CASE Attach(r)
  <2>1. /\ \A x \in Orders \ {o} : order'[x] = order[x]
        /\ order'[o].productId = order[o].productId
        /\ order'[o].orderStatus = "pending_verification"
    BY <1>1, <1>3 DEF Attach, Desk, TypeOK, Row
  <2>2. order[o].orderStatus \in {"pending_payment", "pending_verification"}
    BY <1>2, <1>3 DEF Attach, Finish, Undisturbed
  <2>. QED
    BY <1>1, <2>1, <2>2, ForwardMaps DEF Forward
<1>4. CASE Reject(r)
  <2>1. CASE order' = order
    BY <1>1, <2>1, SameTables
  <2>2. CASE order' # order
    <3>1. /\ order[o].orderStatus = "pending_verification"
          /\ \A x \in Orders \ {o} : order'[x] = order[x]
          /\ order'[o].productId = order[o].productId
          /\ order'[o].orderStatus = "rejected"
      BY <1>1, <1>4, <2>2 DEF Reject, Desk, TypeOK, Row
    <3>. QED
      BY <1>1, <3>1, ForwardMaps DEF Forward
  <2>. QED
    BY <2>1, <2>2
<1>5. CASE SetShippingAddress(r)
  <2>1. /\ \A x \in Orders \ {o} : order'[x] = order[x]
        /\ order'[o].productId = order[o].productId
        /\ order'[o].orderStatus = "ready_to_ship"
    BY <1>1, <1>5 DEF SetShippingAddress, Desk, TypeOK, Row
  <2>2. order[o].orderStatus \in {"confirmed", "ready_to_ship"}
    BY <1>2, <1>5 DEF SetShippingAddress, Finish, Undisturbed
  <2>. QED
    BY <1>1, <2>1, <2>2, ForwardMaps DEF Forward
<1>6. CASE Ship(r)
  <2>1. /\ \A x \in Orders \ {o} : order'[x] = order[x]
        /\ order'[o].productId = order[o].productId
        /\ order'[o].orderStatus = "shipped"
    BY <1>1, <1>6 DEF Ship, Desk, TypeOK, Row
  <2>2. order[o].orderStatus = "ready_to_ship"
    BY <1>2, <1>6 DEF Ship, Finish, Undisturbed
  <2>. QED
    BY <1>1, <2>1, <2>2, ForwardMaps DEF Forward
<1>7. CASE MarkDelivered(r)
  <2>1. /\ \A x \in Orders \ {o} : order'[x] = order[x]
        /\ order'[o].productId = order[o].productId
        /\ order'[o].orderStatus = "delivered"
    BY <1>1, <1>7 DEF MarkDelivered, Desk, TypeOK, Row
  <2>2. order[o].orderStatus = "shipped"
    BY <1>2, <1>7 DEF MarkDelivered, Finish, Undisturbed
  <2>. QED
    BY <1>1, <2>1, <2>2, ForwardMaps DEF Forward
<1>. QED
  BY <1>3, <1>4, <1>5, <1>6, <1>7

LEMMA ProductMaps ==
  ASSUME Desk, serial' = serial, NEW p \in Products,
         \/ DeleteProduct(p)
         \/ \E n \in 0..MaxStock, state \in {"active", "inactive"} : UpdateProduct(p, n, state)
  PROVE  LifecycleStep
<1>1. CASE DeleteProduct(p)
  <2>1. stock' = stock
    BY <1>1 DEF DeleteProduct
  <2>2. \A o \in Orders : /\ order'[o].orderStatus = order[o].orderStatus
                          /\ order'[o].productId = IF order[o].productId = p THEN NoProduct
                                                   ELSE order[o].productId
    BY <1>1 DEF DeleteProduct, Desk, TypeOK, Row
  <2>3. /\ Stage' = Stage
        /\ Wanted' = [o \in Orders |-> IF Wanted[o] = p THEN NoProduct ELSE Wanted[o]]
    BY <2>2 DEF Stage, Wanted
  <2>4. Lifecycle!Withdraw(p)
    BY <2>1, <2>3 DEF Lifecycle!Withdraw, Stage, Wanted
  <2>. QED
    BY <2>4 DEF LifecycleStep, Lifecycle!Next
<1>2. CASE \E n \in 0..MaxStock, state \in {"active", "inactive"} : UpdateProduct(p, n, state)
  <2>1. PICK n \in 0..MaxStock : stock' = [stock EXCEPT ![p] = n] /\ order' = order
    BY <1>2 DEF UpdateProduct
  <2>2. stock' \in [Products -> Nat] /\ \A q \in Products \ {p} : stock'[q] = stock[q]
    BY <2>1 DEF Desk, TypeOK
  <2>3. Stage' = Stage /\ Wanted' = Wanted
    BY <2>1, SameRows
  <2>. QED
    BY <2>2, <2>3, RestockMaps
<1>. QED
  BY <1>1, <1>2

(* Of overlapping handlers the mapping shows the stock alone.                *)
LEMMA OverlapMaps ==
  ASSUME Desk, Next, ~ serial, serial' = serial
  PROVE  LifecycleStep
<1>0. Stage' = Stage /\ Wanted' = Wanted
  BY DEF Stage, Wanted
<1>1. CASE stock' = stock
  BY <1>0, <1>1 DEF LifecycleStep, Lifecycle!vars, Stage, Wanted
<1>2. ASSUME NEW r \in Requests, Confirm(r), stock' # stock
      PROVE  LifecycleStep
  <2>. DEFINE p == request[r].product
  <2>1. p \in Products
    BY <1>2 DEF Confirm, Finish, Desk, RequestsReliable, Reliable
  <2>2. stock' = [stock EXCEPT ![p] = @ - 1]
    BY <1>2, ConfirmEffect DEF Desk
  <2>3. stock' \in [Products -> Nat]
    BY TypePreserved DEF Desk, TypeOK
  <2>4. \A q \in Products \ {p} : stock'[q] = stock[q]
    BY <2>1, <2>2 DEF Desk, TypeOK
  <2>. QED
    BY <1>0, <2>1, <2>3, <2>4, RestockMaps
<1>3. ASSUME NEW r \in Requests, Begin(r)
      PROVE  stock' = stock
  BY <1>3 DEF Begin, BeginCreate, BeginAttach, BeginConfirm, BeginReject, BeginAddress,
              BeginShip, BeginDeliver, Start
<1>4. ASSUME NEW p \in Products,
             \E n \in 0..MaxStock, state \in {"active", "inactive"} : UpdateProduct(p, n, state)
      PROVE  LifecycleStep
  BY <1>4, ProductMaps
<1>. QED
  BY <1>1, <1>2, <1>3, <1>4
     DEF Next, Create, Attach, Reject, SetShippingAddress, Ship, MarkDelivered,
         DeleteProduct, Crash

LEMMA StepMaps ==
  ASSUME Desk, serial => OneByOne, MCStep
  PROVE  LifecycleStep
<1>1. CASE UNCHANGED <<vars, serial>>
  BY <1>1, SameTables DEF vars
<1>2. CASE Next /\ serial' = serial /\ ~ serial
  BY <1>2, OverlapMaps
<1>3. CASE Next /\ serial' = serial /\ serial
  <2>1. ASSUME NEW r \in Requests, Begin(r)
        PROVE  order' = order /\ stock' = stock
    BY <2>1 DEF Begin, BeginCreate, BeginAttach, BeginConfirm, BeginReject, BeginAddress,
                BeginShip, BeginDeliver, Start
  <2>2. CASE order' = order /\ stock' = stock
    BY <1>3, <2>2, SameTables
  <2>3. ASSUME NEW r \in Requests, \/ Create(r) \/ Confirm(r) \/ Attach(r) \/ Reject(r)
                                   \/ SetShippingAddress(r) \/ Ship(r) \/ MarkDelivered(r)
        PROVE  LifecycleStep
    BY <1>3, <2>3, PlaceMaps, ConfirmMaps, ProgressMaps
  <2>4. ASSUME NEW p \in Products,
               \/ DeleteProduct(p)
               \/ \E n \in 0..MaxStock, state \in {"active", "inactive"} :
                    UpdateProduct(p, n, state)
        PROVE  LifecycleStep
    BY <1>3, <2>4, ProductMaps
  <2>. QED
    BY <1>3, <2>1, <2>2, <2>3, <2>4 DEF Next, Crash
<1>. QED
  BY <1>1, <1>2, <1>3 DEF MCStep, MCNext

Serial == Desk /\ (serial => OneByOne)

LEMMA SerialInvariant == MCSpec => []Serial
<1>1. MCInit => Serial
  <2>. SUFFICES ASSUME MCInit
                PROVE  Desk /\ OneByOne
    BY DEF Serial
  <2>1. Desk
    BY DeskInit DEF MCInit
  <2>2. InFlight = {}
    BY DEF MCInit, Init, InFlight
  <2>3. AddressMeansReady /\ TakenOnce
    BY DEF MCInit, Init, NoRow, AddressMeansReady, TakenOnce
  <2>. QED
    BY <2>1, <2>2, <2>3, FS_EmptySet DEF OneByOne
<1>2. Serial /\ MCStep => Serial'
  <2>. SUFFICES ASSUME Serial, MCStep
                PROVE  Serial'
    OBVIOUS
  <2>. Desk /\ (serial => OneByOne)
    BY DEF Serial
  <2>1. [Next]_vars /\ serial' = serial
    BY DEF MCStep, MCNext
  <2>2. Desk'
    BY <2>1, DeskStep
  <2>3. ASSUME serial
        PROVE  OneByOne'
    <3>1. OneByOne
      BY <2>3
    <3>2. IsFiniteSet(InFlight')
      BY <2>1, <3>1, FlightStaysFinite DEF OneByOne
    <3>3. Cardinality(InFlight') <= 1
      BY <2>3, <3>1 DEF MCStep, MCNext, OneByOne, InFlight, vars
    <3>4. \A r \in InFlight' : Undisturbed(r)'
      BY <2>1, <3>1, UndisturbedPreserved DEF InFlight
    <3>5. AddressMeansReady' /\ TakenOnce'
      BY <2>1, <3>1, AddressPreserved, TakenPreserved
    <3>. QED
      BY <3>2, <3>3, <3>4, <3>5 DEF OneByOne
  <2>. QED
    BY <2>1, <2>2, <2>3 DEF Serial
<1>. QED
  BY <1>1, <1>2, PTL DEF MCSpec, MCStep

(* The order desk refines the lifecycle: handlers that do not overlap are as *)
(* good as atomic ones, for any orders, products and edits of them between a *)
(* handler's read and its write, and wherever the process stops.             *)
THEOREM SerialIsAtomic == MCSpec => AtomicLifecycle
<1>1. MCInit => Lifecycle!Init
  <2>. SUFFICES ASSUME MCInit
                PROVE  Lifecycle!Init
    OBVIOUS
  <2>1. Stage = [o \in Orders |-> "none"] /\ Wanted = [o \in Orders |-> NoProduct]
    BY DEF MCInit, Init, NoRow, Stage, Wanted
  <2>2. stock \in [Products -> Nat]
    BY DEF MCInit, Init
  <2>. QED
    BY <2>1, <2>2 DEF Lifecycle!Init, Stage, Wanted
<1>2. Serial /\ MCStep => LifecycleStep
  BY StepMaps DEF Serial
<1>. QED
  BY <1>1, <1>2, SerialInvariant, PTL
     DEF MCSpec, MCStep, AtomicLifecycle, Lifecycle!Spec, LifecycleStep

(* Without overlap one order takes at most one unit of stock: what confirm's *)
(* comment promises ("so two confirms cannot both win") does hold of         *)
(* confirms, and run OrdersDoubleDeduct shows the overlap with a screenshot  *)
(* that breaks it.                                                           *)
THEOREM SerialDeductsOnce == MCSpec => [](serial => DeductedOnce)
<1>1. Serial => (serial => DeductedOnce)
  BY DEF Serial, OneByOne, TakenOnce, DeductedOnce
<1>. QED
  BY <1>1, SerialInvariant, PTL

=============================================================================
