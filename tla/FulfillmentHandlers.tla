------------------------ MODULE FulfillmentHandlers -------------------------
(***************************************************************************)
(* The other writers of an order: the vendor (OrderFulfillmentService),    *)
(* the admin (OrdersService.updateStatus), and the store suspension hold   *)
(* with its 30-day SLA (StoreSuspensionHoldService).  Each loads the order *)
(* with its items, decides on that copy, and saves the copy in a           *)
(* transaction of its own; none of them locks the row.                     *)
(***************************************************************************)
EXTENDS OrderState

AllCancelled == [s \in Stores |-> "cancelled"]
NoneHeld == [s \in Stores |-> "none"]

Derived(row) ==
    [row EXCEPT !.status = deriveOrderStatusFromFulfillment(row.status, Statuses(row))]

-----------------------------------------------------------------------------
(* Vendor: mark paid, acknowledge, ship; customer: confirm delivery        *)

(* Mutant: paidAt is left to persistOrderTransition.                       *)
MarkPaidUnstamped(r) ==
    /\ order.paymentMethod # "bank_transfer"
    /\ order.status = "pending_payment"
    /\ Start(r, "vendorPaid", "persist",
             [Idle EXCEPT !.ord = Derived([order EXCEPT !.status = "paid"])])
    /\ UNCHANGED <<rows, omise, attempts, lock, faults>>

(* "Paid" is derived, so that an order whose lines are all held lands on   *)
(* on_hold.  Payments and paymentReference are not touched.                *)
markVendorOrderPaid(r) ==
    /\ order.paymentMethod # "bank_transfer"
    /\ order.status = "pending_payment"
    /\ Start(r, "vendorPaid", "persist",
             [Idle EXCEPT !.ord = Derived([order EXCEPT !.status = "paid", !.paidAt = TRUE])])
    /\ UNCHANGED <<rows, omise, attempts, lock, faults>>

acknowledgeVendorOrder(r, s) ==
    /\ order.status \in {"paid", "processing"}
    /\ order.items[s] = "pending"
    /\ Start(r, "acknowledge", "persist",
             [Idle EXCEPT !.ord = Derived([order EXCEPT !.items[s] = "processing"])])
    /\ UNCHANGED <<rows, omise, attempts, lock, faults>>

(* Mutant: shipping does not derive the header.                            *)
ShipKeepsHeader(r, s) ==
    /\ order.status \in {"paid", "processing", "shipped"}
    /\ order.items[s] = "processing"
    /\ Start(r, "ship", "persist", [Idle EXCEPT !.ord = [order EXCEPT !.items[s] = "shipped"]])
    /\ UNCHANGED <<rows, omise, attempts, lock, faults>>

shipVendorOrder(r, s) ==
    /\ order.status \in {"paid", "processing", "shipped"}
    /\ order.items[s] = "processing"
    /\ Start(r, "ship", "persist",
             [Idle EXCEPT !.ord = Derived([order EXCEPT !.items[s] = "shipped"])])
    /\ UNCHANGED <<rows, omise, attempts, lock, faults>>

confirmOrderDelivered(r) ==
    /\ order.status = "shipped"
    /\ Statuses(order) \subseteq {"shipped", "delivered"}
    /\ Start(r, "deliver", "persist",
             [Idle EXCEPT !.ord = [order EXCEPT !.status = "delivered",
                                                !.items = [s \in Stores |-> "delivered"]]])
    /\ UNCHANGED <<rows, omise, attempts, lock, faults>>

(* The transaction behind these four.  It stamps paidAt whenever the       *)
(* status it saves is PAID.                                                *)
persistOrderTransition(r) ==
    LET row == loc[r].ord
    IN  /\ pc[r] = "persist"
        /\ OrderUnlocked
        /\ SaveWithItems([row EXCEPT !.paidAt = @ \/ row.status = "paid"])
        /\ Return(r)
        /\ UNCHANGED <<returned, pay, payMethod, omise, attempts, lock, faults>>

(* Public API: new tracking for a store's lines that are already shipped.  *)
(* (For pending or processing lines it is acknowledge and ship in turn.)   *)
(* Only the lines are saved, with the status they were loaded with.        *)
updateTrackingForPublicApi(r, s) ==
    /\ order.items[s] = "shipped"
    /\ Start(r, "tracking", "tr_commit", [Idle EXCEPT !.stores = {s}])
    /\ UNCHANGED <<rows, omise, attempts, lock, faults>>

SaveTracking(r) ==
    LET at(s, new, old) == IF s \in loc[r].stores THEN new ELSE old
    IN  /\ pc[r] = "tr_commit"
        /\ order' = [order EXCEPT
                !.items = [s \in Stores |-> at(s, "shipped", order.items[s])],
                !.heldFrom = [s \in Stores |-> at(s, "none", order.heldFrom[s])]]
        /\ Return(r)
        /\ UNCHANGED <<returned, pay, payMethod, omise, attempts, lock, faults>>

-----------------------------------------------------------------------------
(* cancelVendorOrder                                                       *)

VendorCancelRead(r) ==
    /\ Cardinality(Stores) = 1
    /\ ~orderHasHeldItems(order)
    /\ order.status \in VENDOR_CANCELLABLE_ORDER_STATUSES
    /\ Start(r, "vendorCancel", "vc_commit",
             [Idle EXCEPT !.ord = [order EXCEPT !.status = "cancelled",
                                                !.items = AllCancelled,
                                                !.heldFrom = NoneHeld]])
    /\ UNCHANGED <<rows, omise, attempts, lock, faults>>

(* Pending payments are read again inside the transaction and failed; the  *)
(* paymentReference the order was loaded with stays.                       *)
cancelVendorOrder(r) ==
    /\ pc[r] = "vc_commit"
    /\ OrderUnlocked
    /\ SaveWithItems(loc[r].ord)
    /\ restoreOrderStock
    /\ pay' = [n \in Attempt |-> IF pay[n] = "pending" THEN "failed" ELSE pay[n]]
    /\ Return(r)
    /\ UNCHANGED <<payMethod, omise, attempts, lock, faults>>

-----------------------------------------------------------------------------
(* OrdersService.updateStatus (admin)                                      *)

(* What the admin's transaction saves.  Cancelling or refunding an order   *)
(* with a hold cancels its lines; other transitions leave them alone.      *)
AdminRow(row, target) ==
    LET holdExit == /\ target \in TERMINAL_ORDER_STATUSES
                    /\ row.status = "on_hold" \/ orderHasHeldItems(row)
    IN  [row EXCEPT !.status = target,
                    !.paidAt = @ \/ target = "paid",
                    !.items = IF holdExit THEN AllCancelled ELSE @,
                    !.heldFrom = [s \in Stores |-> IF holdExit /\ row.items[s] = "on_hold"
                                                       THEN "none" ELSE row.heldFrom[s]]]

updateStatusRead(r, target) ==
    /\ ~(/\ order.paymentMethod = "bank_transfer"
         /\ order.status = "pending_payment"
         /\ target = "paid")
    /\ assertNotManualHoldTransition(order.status, target)
    /\ Start(r, "admin", "au_commit",
             [Idle EXCEPT !.ord = AdminRow(order, target), !.target = target])
    /\ UNCHANGED <<rows, omise, attempts, lock, faults>>

updateStatus(r) ==
    /\ pc[r] = "au_commit"
    /\ OrderUnlocked
    /\ SaveWithItems(loc[r].ord)
    /\ IF loc[r].target \in TERMINAL_ORDER_STATUSES
          THEN restoreOrderStock ELSE UNCHANGED returned
    /\ Return(r)
    /\ UNCHANGED <<pay, payMethod, omise, attempts, lock, faults>>

-----------------------------------------------------------------------------
(* Store suspension hold                                                   *)

(* The lines of stores in S, as row has them, over the lines now stored.   *)
SaveItems(S, row) ==
    order' = [order EXCEPT
        !.items = [s \in Stores |-> IF s \in S THEN row.items[s] ELSE order.items[s]],
        !.heldFrom = [s \in Stores |-> IF s \in S THEN row.heldFrom[s] ELSE order.heldFrom[s]]]

ApplyHoldRead(r, s) ==
    /\ order.status \in HOLD_ELIGIBLE_ORDER_STATUSES
    /\ order.items[s] \in HOLD_ELIGIBLE_FULFILLMENT
    /\ Start(r, "applyHold", "ha_commit", [Idle EXCEPT !.ord = order, !.stores = {s}])
    /\ UNCHANGED <<rows, omise, attempts, lock, faults>>

(* The store's lines are held and remember what they were; the header is   *)
(* saved only when the derived status differs.                             *)
applyHoldForOrder(r) ==
    LET l == loc[r]
        held == [l.ord EXCEPT
            !.items = [s \in Stores |-> IF s \in l.stores THEN "on_hold" ELSE l.ord.items[s]],
            !.heldFrom = [s \in Stores |-> IF s \in l.stores THEN l.ord.items[s]
                                                             ELSE l.ord.heldFrom[s]]]
    IN  /\ pc[r] = "ha_commit"
        /\ OrderUnlocked
        /\ IF Derived(held).status # l.ord.status
              THEN SaveWithItems(Derived(held)) ELSE SaveItems(l.stores, held)
        /\ Return(r)
        /\ UNCHANGED <<returned, pay, payMethod, omise, attempts, lock, faults>>

(* Restoring a line whose snapshot is missing throws: no step.             *)
RestoreHoldRead(r, s) ==
    /\ order.items[s] = "on_hold"
    /\ order.heldFrom[s] # "none"
    /\ Start(r, "restoreHold", "hr_commit", [Idle EXCEPT !.ord = order, !.stores = {s}])
    /\ UNCHANGED <<rows, omise, attempts, lock, faults>>

(* The header is saved when the derived status differs, and when an on_hold *)
(* header had no previousStatus (a column not kept here: either may be).   *)
restoreHoldForOrder(r) ==
    LET l == loc[r]
        freed == [l.ord EXCEPT
            !.items = [s \in Stores |-> IF s \in l.stores THEN l.ord.heldFrom[s]
                                                          ELSE l.ord.items[s]],
            !.heldFrom = [s \in Stores |-> IF s \in l.stores THEN "none"
                                                             ELSE l.ord.heldFrom[s]]]
        changed == Derived(freed).status # l.ord.status
    IN  /\ pc[r] = "hr_commit"
        /\ \/ /\ changed \/ l.ord.status = "on_hold"
              /\ OrderUnlocked
              /\ SaveWithItems(Derived(freed))
           \/ /\ ~changed
              /\ SaveItems(l.stores, freed)
        /\ Return(r)
        /\ UNCHANGED <<returned, pay, payMethod, omise, attempts, lock, faults>>

(* Some held lines are past the SLA; the order is loaded by the job.       *)
HoldSlaRead(r, S) ==
    /\ S # {}
    /\ \A s \in S : order.items[s] = "on_hold"
    /\ Start(r, "holdSla", "sla_commit", [Idle EXCEPT !.ord = order, !.stores = S])
    /\ UNCHANGED <<rows, omise, attempts, lock, faults>>

(* Mutant: a cancelled line keeps its snapshot.                            *)
HoldSlaKeepsSnapshot(l) ==
    Derived([l.ord EXCEPT
        !.items = [s \in Stores |-> IF s \in l.stores THEN "cancelled" ELSE l.ord.items[s]]])

(* Expired lines are cancelled, the status derived, and the total of an    *)
(* order still unpaid recomputed from the lines that remain.               *)
HoldSlaRow(l) ==
    LET row == Derived([l.ord EXCEPT
            !.items = [s \in Stores |-> IF s \in l.stores THEN "cancelled" ELSE l.ord.items[s]],
            !.heldFrom = [s \in Stores |-> IF s \in l.stores THEN "none" ELSE l.ord.heldFrom[s]]])
    IN  IF row.status = "pending_payment" THEN recomputeOrderPayableTotals(row) ELSE row

cancelExpiredHeldItemsForOrder(r) ==
    /\ pc[r] = "sla_commit"
    /\ OrderUnlocked
    /\ SaveWithItems(HoldSlaRow(loc[r]))
    /\ restoreItemStock(loc[r].stores)
    /\ Return(r)
    /\ UNCHANGED <<pay, payMethod, omise, attempts, lock, faults>>

-----------------------------------------------------------------------------
FulfillmentStart(r) ==
    \/ markVendorOrderPaid(r)
    \/ \E s \in Stores : \/ acknowledgeVendorOrder(r, s)
                         \/ shipVendorOrder(r, s)
                         \/ updateTrackingForPublicApi(r, s)
                         \/ ApplyHoldRead(r, s)
                         \/ RestoreHoldRead(r, s)
    \/ confirmOrderDelivered(r)
    \/ VendorCancelRead(r)
    \/ \E t \in AdminTargets : updateStatusRead(r, t)
    \/ \E S \in SUBSET Stores : HoldSlaRead(r, S)

FulfillmentStep(r) ==
    \/ persistOrderTransition(r)
    \/ SaveTracking(r)
    \/ cancelVendorOrder(r)
    \/ updateStatus(r)
    \/ applyHoldForOrder(r)
    \/ restoreHoldForOrder(r)
    \/ cancelExpiredHeldItemsForOrder(r)
=============================================================================
