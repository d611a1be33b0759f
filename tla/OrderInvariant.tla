--------------------------- MODULE OrderInvariant ---------------------------
(***************************************************************************)
(* The inductive invariant behind the theorems of OrderSystemProofs.  The  *)
(* safety properties are not inductive alone: a handler may be about to    *)
(* write from a copy it loaded long ago, so the invariant says of every    *)
(* copy in flight what makes writing it harmless.                          *)
(***************************************************************************)
EXTENDS OrderSystem

AdminStampsOnly == AdminTargets \cap {"processing", "shipped", "delivered"} = {}

(* A row, stored or loaded, references a payment that exists and carries   *)
(* the paidAt its status calls for.                                        *)
GoodRow(row) ==
    /\ row.paymentReference \in Attempt => pay[row.paymentReference] # "none"
    /\ AdminStampsOnly => StampedRow(row)

(* Only the holder of the row lock is between POST /charges and its commit, *)
(* and its attempt is the last one handed out and has no row yet.          *)
GoodCreate(r, p, l) ==
    /\ p = "cc_commit" <=> r \in lock
    /\ p = "cc_commit" => /\ l.pid = attempts
                          /\ l.cid = attempts
                          /\ pay[attempts] = "none"
    /\ (p = "cc_commit" /\ l.outcome = "successful") => Captured(l.cid)

(* The store suspension hold holds lines it found eligible, and restores   *)
(* lines it found with a snapshot.                                         *)
GoodHold(p, l) ==
    /\ p = "ha_commit" => \A s \in l.stores : l.ord.items[s] \in HOLD_ELIGIBLE_FULFILLMENT
    /\ p = "hr_commit" => \A s \in l.stores : l.ord.heldFrom[s] # "none"

(* What handler r loaded is still good to act on, at place p.              *)
GoodCopy(p, l) ==
    /\ GoodRow(l.ord)
    /\ \A n \in l.pays : pay[n] # "none"
    /\ p \in KnowsPayment \ {"cc_commit"} => pay[l.pid] # "none"
    /\ p \in KnowsCharge \ {"cc_commit"} => pay[l.cid] # "none"
    /\ p \in {"cc_paid", "wh_fetch", "wh_paid", "wh_failed"} => l.cid <= l.pid
    /\ p \in {"cc_paid", "wh_paid"} => Captured(l.cid)
    /\ p = "cb_commit" => payMethod[l.pid] = "bank_transfer"
    /\ GoodHold(p, l)

(* Attempts are handed out in order.                                       *)
FreshAttempts ==
    \A n \in Attempt : n > attempts => pay[n] = "none" /\ charge[n] = "none"

LockExclusive == \A q, r \in lock : q = r

(* The whole: what holds of the rows, and of every copy in flight.         *)
IndInv ==
    /\ TypeOK
    /\ FreshAttempts
    /\ LockExclusive
    /\ GoodRow(order)
    /\ PendingIsLatest
    /\ PaidHasEvidence
    /\ \A r \in Req : GoodCopy(pc[r], loc[r]) /\ GoodCreate(r, pc[r], loc[r])

-----------------------------------------------------------------------------
(* Snapshots of held lines: every copy in flight has them, as the row does. *)
RowHasSnapshots(row) ==
    \A s \in Stores : row.items[s] = "on_hold" <=> row.heldFrom[s] # "none"

SnapshotInv ==
    /\ RowHasSnapshots(order)
    /\ \A r \in Req : RowHasSnapshots(loc[r].ord)

-----------------------------------------------------------------------------
(* One handler at a time, and an admin who cancels or refunds only.        *)
Serial ==
    /\ \A q, r \in Req : q = r
    /\ AdminTargets \subseteq TERMINAL_ORDER_STATUSES

PaidPayments == {n \in Attempt : pay[n] = "paid"}
IsOver(row) == row.status \in TERMINAL_ORDER_STATUSES
IsBought(row) == row.status \notin TERMINAL_ORDER_STATUSES \cup {"pending_payment"}

(* A closed order has returned all of its stock and holds no line.         *)
OverIsReleased == IsOver(order) => returned = Stores /\ ~orderHasHeldItems(order)

(* A recorded payment is the newest one, and its order is bought.          *)
PaidIsLatest ==
    \A n \in PaidPayments : /\ order.status # "pending_payment"
                            /\ \A m \in Attempt : m > n => pay[m] = "none"

(* The referenced payment is the newest, an Omise payment, and has failed  *)
(* only when its charge has or its order is closed.                        *)
ReferenceIsLatest ==
    order.paymentReference \in Attempt =>
        LET n == order.paymentReference
        IN  /\ payMethod[n] \notin NonOmiseMethod
            /\ \A m \in Attempt : m > n => pay[m] = "none"
            /\ pay[n] = "failed" => charge[n] = "failed" \/ IsOver(order)

(* A bank transfer fails when another attempt follows or the order closes. *)
TransferStaysOpen ==
    \A n \in Attempt :
        (pay[n] = "failed" /\ payMethod[n] = "bank_transfer") =>
            IsOver(order) \/ \E m \in Attempt : m > n /\ pay[m] # "none"

SerialRows ==
    /\ PaidIsFunded
    /\ PendingChargeIsReferenced
    /\ PaidMatchesTotal
    /\ ReturnedStockIsNotOwed
    /\ OverIsReleased
    /\ PaidIsLatest
    /\ ReferenceIsLatest
    /\ TransferStaysOpen

(* Where the one handler under way has loaded the order as it still is.    *)
HasOrder == {"cc_phaseA", "cc_commit", "cc_paid", "wh_payment", "wh_fetch", "wh_paid",
             "wh_failed", "ex_commit", "cs_paid", "cs_list", "cs_commit", "cb_payment",
             "cb_commit", "ha_commit", "hr_commit", "sla_commit"}

(* What createCharge knows of its charge, and of the order it pays.        *)
SerialCreate(p, l) ==
    /\ p \in {"cc_phaseA", "cc_commit", "cc_paid"} => order.status = "pending_payment"
    /\ p \in {"cc_commit", "cc_paid"} =>
          /\ l.pid = l.cid
          /\ payMethod[l.pid] \notin NonOmiseMethod
          /\ amount[l.pid] = order.total
          /\ l.outcome \in {"failed", "successful"} => charge[l.pid] = l.outcome
    /\ p = "cc_commit" => payMethod[l.pid] = l.method
    /\ p = "cc_paid" => /\ pay[l.pid] = "pending"
                        /\ l.outcome = "successful"
                        /\ order.paymentReference = l.cid

(* What the webhook knows: the event still says what became of the charge, *)
(* the charge is the referenced one and its payment is the newest.         *)
SerialWebhook(p, l) ==
    /\ p \in {"wh_payment", "wh_fetch", "wh_paid", "wh_failed"} =>
          /\ l.cid = order.paymentReference
          /\ <<l.key, l.outcome>> \in OmiseEvents(l.cid)
    /\ p \in {"wh_fetch", "wh_paid", "wh_failed"} => l.pid = l.cid /\ ~WebhookIgnores(l, l.pid)
    /\ p = "wh_paid" => WebhookSettles(l) /\ pay[l.pid] = "pending"
    /\ p = "wh_failed" => charge[l.cid] = "failed"

(* What the sweeps and the admin's confirmation know.                      *)
SerialSweep(p, l) ==
    /\ p \in {"ex_order", "ex_commit"} => pay[l.pid] = "pending" /\ payMethod[l.pid] = "promptpay"
    /\ p \in {"cs_paid", "cs_list", "cs_commit", "cb_payment", "cb_commit"} =>
          order.status = "pending_payment"
    /\ p \in {"cs_paid", "cs_list", "cs_commit"} => ~orderHasHeldItems(order)
    /\ p = "cs_commit" => l.pays = PendingPayments
    /\ p = "cb_commit" => pay[l.pid] = "pending" /\ payMethod[l.pid] = "bank_transfer"

(* What the vendor, the admin and the hold are about to save.              *)
SerialFulfillment(p, l) ==
    /\ p \in {"persist", "vc_commit", "au_commit"} =>
          /\ l.ord.total = order.total
          /\ l.ord.paymentReference = order.paymentReference
    /\ p = "persist" => /\ IsBought(l.ord) /\ ~IsOver(order)
                        /\ \A s \in returned : l.ord.items[s] = "cancelled"
    /\ p \in {"vc_commit", "au_commit"} => IsOver(l.ord) /\ ~orderHasHeldItems(l.ord)
    /\ p = "au_commit" => l.target = l.ord.status
    /\ p = "tr_commit" => \A s \in l.stores : order.items[s] = "shipped"
    /\ p = "ha_commit" => /\ order.status \in HOLD_ELIGIBLE_ORDER_STATUSES
                          /\ \A s \in l.stores : order.items[s] \in HOLD_ELIGIBLE_FULFILLMENT
    /\ p \in {"hr_commit", "sla_commit"} =>
          ~IsOver(order) /\ \A s \in l.stores : order.items[s] = "on_hold"

SerialCopy(p, l) ==
    /\ p \in HasOrder => l.ord = order
    /\ SerialCreate(p, l)
    /\ SerialWebhook(p, l)
    /\ SerialSweep(p, l)
    /\ SerialFulfillment(p, l)

(* What holds of the rows, and of the copy of the one handler, between two *)
(* of its steps: nobody else writes meanwhile, only Omise moves on.        *)
SerialInv ==
    /\ IndInv
    /\ SerialRows
    /\ \A r \in Req : SerialCopy(pc[r], loc[r])

-----------------------------------------------------------------------------
(* The lines of an unpaid order wait, are held from waiting, or expired:   *)
(* nothing of it is processed or shipped before it is paid.                *)
UnpaidLinesWait ==
    order.status = "pending_payment" =>
        \A s \in Stores : /\ order.items[s] \in {"pending", "on_hold", "cancelled"}
                          /\ order.heldFrom[s] \in {"none", "pending"}

(* No webhook is under way, a charge is committed for an order without     *)
(* held lines, and the row the vendor saves has the header its lines say.  *)
HeaderCopy(p, l) ==
    /\ p \notin {"wh_payment", "wh_fetch", "wh_paid", "wh_failed"}
    /\ p \in {"cc_commit", "cc_paid"} => ~orderHasHeldItems(order)
    /\ p = "persist" => l.ord.status = Derived(l.ord).status

HeaderInv ==
    /\ HeaderFollowsItems
    /\ UnpaidLinesWait
    /\ \A r \in Req : HeaderCopy(pc[r], loc[r])
=============================================================================
