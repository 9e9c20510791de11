--------------------------- MODULE OrderLifecycle ---------------------------
(***************************************************************************)
(* What the order desk promises a seller: an order moves through its       *)
(* stages one step at a time and never back, a verdict on its payment is   *)
(* given once, and every confirmation takes one unit that is there.        *)
(* CatalogOrders implements it as long as handlers do not overlap.         *)
(***************************************************************************)
EXTENDS Integers

CONSTANTS Orders, Products, NoProduct

VARIABLES stage,   \* where each order stands
          wanted,  \* the product each order is for
          units    \* units of each product the seller can still promise

vars == <<stage, wanted, units>>

Init ==
  /\ stage = [o \in Orders |-> "none"]
  /\ wanted = [o \in Orders |-> NoProduct]
  /\ units \in [Products -> Nat]

Advance(o, from, to) ==
  /\ stage[o] = from
  /\ stage' = [stage EXCEPT ![o] = to]

Place(o, p) ==
  /\ Advance(o, "none", "pending_payment")
  /\ wanted' = [wanted EXCEPT ![o] = p]
  /\ UNCHANGED units

Confirm(o) ==
  /\ Advance(o, "pending_verification", "confirmed")
  /\ wanted[o] # NoProduct
  /\ units[wanted[o]] >= 1
  /\ units' = [units EXCEPT ![wanted[o]] = @ - 1]
  /\ UNCHANGED wanted

(* The stages that only the seller's or the customer's word decides.         *)
Progress(o) ==
  /\ \/ Advance(o, "pending_payment", "pending_verification")
     \/ Advance(o, "pending_verification", "rejected")
     \/ Advance(o, "confirmed", "ready_to_ship")
     \/ Advance(o, "ready_to_ship", "shipped")
     \/ Advance(o, "shipped", "delivered")
  /\ UNCHANGED <<wanted, units>>

Restock(p) ==
  /\ units' \in [Products -> Nat]
  /\ \A q \in Products \ {p} : units'[q] = units[q]
  /\ UNCHANGED <<stage, wanted>>

Withdraw(p) ==
  /\ wanted' = [o \in Orders |-> IF wanted[o] = p THEN NoProduct ELSE wanted[o]]
  /\ UNCHANGED <<stage, units>>

Next ==
  \/ \E o \in Orders : \/ \E p \in Products : Place(o, p)
                       \/ Confirm(o)
                       \/ Progress(o)
  \/ \E p \in Products : Restock(p) \/ Withdraw(p)

Spec == Init /\ [][Next]_vars
=============================================================================
