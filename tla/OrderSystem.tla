---------------------------- MODULE OrderSystem -----------------------------
(***************************************************************************)
(* One order of the marketplace and everyone who writes it: the customer   *)
(* paying, Omise's webhooks, the expiry scheduler, the vendor, the admin   *)
(* and the store suspension hold, interleaved at every await.  Omise       *)
(* settles charges on its own, and a handler may die between two steps.    *)
(***************************************************************************)
EXTENDS PaymentHandlers, FulfillmentHandlers

(* Omise (external): the customer pays a pending charge, it is refused, or *)
(* it expires.                                                             *)
OmiseSettles(n) ==
    /\ charge[n] = "pending"
    /\ \E s \in {"successful", "failed", "expired"} : charge' = [charge EXCEPT ![n] = s]
    /\ UNCHANGED <<rows, amount, attempts, lock, pc, loc, faults>>

(* A handler dies: an Omise call throws, the database aborts it (deadlock, *)
(* lost connection) or the instance crashes.  Its open transaction rolls   *)
(* back and its lock is released; what it committed stays.                 *)
HandlerDies(r) ==
    /\ pc[r] # "idle"
    /\ faults < MaxFaults
    /\ faults' = faults + 1
    /\ lock' = lock \ {r}
    /\ Return(r)
    /\ UNCHANGED <<rows, omise, attempts>>

Next ==
    \/ \E r \in Req : \/ PaymentStart(r)
                      \/ PaymentStep(r)
                      \/ FulfillmentStart(r)
                      \/ FulfillmentStep(r)
                      \/ HandlerDies(r)
    \/ \E n \in Attempt : OmiseSettles(n)

Spec == Init /\ [][Next]_vars

(* A handler under way goes on and the scheduler's interval keeps firing   *)
(* its sweeps, whatever else runs.  Nothing of the kind holds of Omise's   *)
(* events: the controller answers 200 also when the order was not found or *)
(* the charge could not be fetched, so Omise has no reason to repeat one.  *)
Fairness ==
    /\ \A r \in Req : WF_vars(PaymentStep(r) \/ FulfillmentStep(r))
    /\ SF_vars(\E r \in Req : StaleRead(r))
    /\ SF_vars(\E r \in Req, n \in Attempt : ExpireRead(r, n))

FairSpec == Spec /\ Fairness

-----------------------------------------------------------------------------
PaymentPC == {"cc_phaseA", "cc_lock", "cc_commit", "cc_paid",
              "wh_payment", "wh_fetch", "wh_paid", "wh_failed",
              "ex_order", "ex_commit", "ex_cancel",
              "cs_paid", "cs_list", "cs_commit", "cb_payment", "cb_commit"}
FulfillmentPC == {"persist", "tr_commit", "vc_commit", "au_commit",
                  "ha_commit", "hr_commit", "sla_commit"}

KnowsPayment == {"cc_commit", "cc_paid", "wh_fetch", "wh_paid", "wh_failed",
                 "ex_order", "ex_commit", "ex_cancel", "cb_commit"}
KnowsCharge == {"cc_commit", "cc_paid", "wh_payment", "wh_fetch", "wh_paid", "wh_failed"}

Local == [ord : OrderRow, pid : Attempt \cup {NoAttempt}, cid : Attempt \cup {NoAttempt},
          pays : SUBSET Attempt, method : PaymentMethod, key : EventKey,
          target : OrderStatus, outcome : ChargeStatus, stores : SUBSET Stores]

(* Every variable keeps its type, and a handler that is to write a payment *)
(* row or look at a charge knows which one.                                *)
TypeOK ==
    /\ order \in OrderRow
    /\ returned \subseteq Stores
    /\ pay \in [Attempt -> PaymentStatus]
    /\ payMethod \in [Attempt -> PaymentMethod]
    /\ charge \in [Attempt -> ChargeStatus]
    /\ amount \in [Attempt -> Nat]
    /\ attempts \in 0 .. MaxAttempts
    /\ lock \subseteq Req
    /\ pc \in [Req -> PaymentPC \cup FulfillmentPC \cup {"idle"}]
    /\ loc \in [Req -> Local]
    /\ faults \in 0 .. MaxFaults
    /\ \A r \in Req : /\ pc[r] \in KnowsPayment => loc[r].pid \in Attempt
                      /\ pc[r] \in KnowsCharge => loc[r].cid \in Attempt

(* createCharge supersedes under the row lock, so whatever else runs, the  *)
(* only payment that can be pending is the newest one: a customer never    *)
(* has two open attempts, and "the latest payment" that the webhook and    *)
(* the bank transfer confirmation pick is the open one if there is any.    *)
PendingIsLatest ==
    \A n \in PendingPayments : \A m \in Attempt : m > n => pay[m] = "none"

Captured(n) == charge[n] \in {"successful", "reversed"}

(* A payment is only ever marked paid on evidence: an admin confirmed the  *)
(* bank transfer it stands for, or Omise captured a charge of this order   *)
(* made no later than it.                                                  *)
PaidHasEvidence ==
    \A n \in Attempt : pay[n] = "paid" =>
        \/ payMethod[n] = "bank_transfer"
        \/ \E m \in 1 .. n : Captured(m)

(* One handler at a time: a paid payment's own charge was captured and not *)
(* given back, for the amount of that payment.                             *)
PaidIsFunded ==
    \A n \in Attempt : pay[n] = "paid" =>
        payMethod[n] = "bank_transfer" \/ charge[n] = "successful"

(* One handler at a time: the charge of a pending payment is the one the   *)
(* order's paymentReference names, so the webhook that reports it finds    *)
(* the order.                                                              *)
PendingChargeIsReferenced ==
    \A n \in PendingPayments :
        payMethod[n] \notin NonOmiseMethod => order.paymentReference = n

(* One handler at a time: what Omise captured for the order's referenced   *)
(* charge is what the order asks for, whenever it is recorded as payment.  *)
PaidMatchesTotal ==
    \A n \in Attempt :
        (pay[n] = "paid" /\ order.paymentReference = n) => amount[n] = order.total

(* Stock that went back on sale does not belong to a live line: a line     *)
(* whose stock was returned is cancelled, or its whole order is.           *)
ReturnedStockIsNotOwed ==
    order.status \notin TERMINAL_ORDER_STATUSES =>
        \A s \in returned : order.items[s] = "cancelled"

(* Payout commission depends on when an order was paid: a status that      *)
(* implies payment never comes without paidAt, as long as the admin does   *)
(* not set such a status by hand (updateStatus stamps paidAt for PAID      *)
(* only, hence the assumption on AdminTargets).                            *)
StampedRow(row) ==
    row.status \in {"paid", "processing", "on_hold", "shipped", "delivered"} => row.paidAt

PaidOrderHasPaidAt ==
    AdminTargets \cap {"processing", "shipped", "delivered"} = {} => StampedRow(order)

(* The header says what the lines say: deriveOrderStatusFromFulfillment    *)
(* would not change the status of a paid order.                            *)
HeaderFollowsItems == order.status = Derived(order).status

(* A line is on hold exactly when it remembers what it was, so that        *)
(* reactivating its store can restore it (HOLD_RESTORE_SNAPSHOT_MISSING    *)
(* never happens) and a restored line can be held again.                   *)
HeldLineHasSnapshot ==
    \A s \in Stores : order.items[s] = "on_hold" <=> order.heldFrom[s] # "none"

(* No handler marks a cancelled or refunded order PAID.                    *)
NeverInventedPaid ==
    [][(order.status \in TERMINAL_ORDER_STATUSES /\ order'.status = "paid")
         => \E r \in Req : pc[r] = "au_commit"]_vars

(* QR expiry fails the payment only: the step that writes it leaves the    *)
(* status of the order as it is.                                           *)
ExpiryFailsPaymentOnly ==
    [][(\E r \in Req : pc[r] = "ex_commit" /\ pc'[r] = "ex_cancel")
         => order'.status = order.status]_vars

-----------------------------------------------------------------------------
(* Liveness, under FairSpec.                                               *)

(* An unpaid order does not reserve its stock forever: it is paid,         *)
(* cancelled, or has lines on hold (which the sweep must skip).            *)
UnpaidOrderEnds ==
    (order.status = "pending_payment")
       ~> (order.status # "pending_payment" \/ orderHasHeldItems(order))

(* A webhook under way about charge n that has found the unpaid order by   *)
(* it; the charge was captured, for the amount the order asks.             *)
Heard(r, n) ==
    /\ pc[r] = "wh_payment" /\ loc[r].cid = n /\ loc[r].key = "charge.complete"
    /\ order.status = "pending_payment" /\ order.paymentReference = n
    /\ charge[n] = "successful" /\ amount[n] = order.total

(* One event is enough: money Omise captured is recorded by the first      *)
(* event that finds the order, or given back, whatever attempts, expiries, *)
(* holds and cancellations came before, and whatever Omise does meanwhile, *)
(* unless a handler dies or Omise does not answer.  An event that comes    *)
(* too early, or whose charge cannot be fetched, is dropped for good.      *)
HeardIsRecorded ==
    \A r \in Req, n \in Attempt, k \in 0 .. MaxFaults :
       (Heard(r, n) /\ faults = k) ~> (order.status = "paid" \/ charge[n] = "reversed" \/ faults # k)

(* A shipped order is delivered in the end, if its customer keeps trying   *)
(* to confirm the delivery and the hold SLA job keeps running.             *)
ShippedGetsDelivered == (order.status = "shipped") ~> (order.status # "shipped")

DeliverySpec ==
    /\ FairSpec
    /\ SF_vars(\E r \in Req : confirmOrderDelivered(r))
    /\ SF_vars(\E r \in Req, S \in SUBSET Stores : HoldSlaRead(r, S))

(* Every handler ends and no row lock is held for good: nobody waits for   *)
(* the lock of a handler that waits for them.                              *)
HandlersEnd == \A r \in Req : pc[r] # "idle" ~> pc[r] = "idle"
=============================================================================
