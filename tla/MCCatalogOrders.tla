-------------------------- MODULE MCCatalogOrders --------------------------
(* CatalogOrders with the order desk's promise to refine.  "serial" is       *)
(* chosen once: handlers overlap, or none starts before the last one wrote.  *)
EXTENDS CatalogOrders

VARIABLE serial

MCInit == Init /\ serial \in BOOLEAN

MCNext ==
  /\ Next
  /\ serial => Cardinality({r \in Requests : request'[r] # NoRequest}) <= 1
  /\ UNCHANGED serial

MCSpec == MCInit /\ [][MCNext]_<<vars, serial>>

Lifecycle == INSTANCE OrderLifecycle
               WITH stage  <- [o \in Orders |-> IF serial THEN order[o].orderStatus
                                                          ELSE "none"],
                    wanted <- [o \in Orders |-> IF serial THEN order[o].productId
                                                          ELSE NoProduct],
                    units  <- stock

(* Handlers that do not overlap are as good as atomic ones: the read and the *)
(* write of catalog-orders.service.ts together are one step of the order's   *)
(* lifecycle.  (Of overlapping ones the mapping shows only the stock.)       *)
AtomicLifecycle == Lifecycle!Spec
=============================================================================
