------------------------- MODULE OrderSystemProofs --------------------------
(***************************************************************************)
(* Theorems about OrderSystem, for every set of handlers, stores, payment  *)
(* methods and admin targets and for every bound.  IndInv (module          *)
(* OrderInvariant) is inductive; the properties follow from it.            *)
(*                                                                         *)
(* Most steps are alike: a handler reads, or commits a transaction that    *)
(* only fails or pays payments that exist.  SettlingStep shows once that   *)
(* such a step keeps IndInv; the three steps of createCharge that insert a *)
(* payment or call Omise under the lock are proved one by one.             *)
(*                                                                         *)
(* The second half is about one handler at a time: SerialInv, the          *)
(* properties that need it, and the refinement of OrderContract.           *)
(***************************************************************************)
EXTENDS OrderRefinement, FiniteSetTheorems, TLAPS

PC == PaymentPC \cup FulfillmentPC \cup {"idle"}

(* The well-formed rows and copies, as facts to cite.                      *)

(* An idle handler holds a fresh order that refers to no charge.           *)
LEMMA IdleType == Idle \in Local /\ Idle.ord.paymentReference = NoAttempt
                   /\ Idle.ord.status = "pending_payment" /\ Idle.pays = {}
BY DEF Idle, Local, OrderRow, OrderStatus, PaymentMethod, Reference, NoAttempt,
       HOLD_ELIGIBLE_FULFILLMENT, FulfillmentStatus, EventKey, ChargeStatus

(* Recomputing the total leaves reference, status and paidAt alone.        *)
LEMMA RecomputeType ==
  ASSUME NEW row \in OrderRow
  PROVE  /\ recomputeOrderPayableTotals(row) \in OrderRow
         /\ recomputeOrderPayableTotals(row).paymentReference = row.paymentReference
         /\ recomputeOrderPayableTotals(row).status = row.status
         /\ recomputeOrderPayableTotals(row).paidAt = row.paidAt
<1> DEFINE live == {s \in Stores : row.items[s] # "cancelled"}
<1>1. IsFiniteSet(live)
  BY FS_Subset, OrderStateAssumption
<1>2. Cardinality(live) \in Nat
  BY <1>1, FS_CardinalityType
<1>3. QED
  BY <1>2 DEF recomputeOrderPayableTotals, OrderRow

(* Deriving a status keeps its type and the paidAt it calls for.           *)
LEMMA DeriveType ==
  ASSUME NEW c \in OrderStatus, NEW S
  PROVE  deriveOrderStatusFromFulfillment(c, S) \in OrderStatus
BY DEF deriveOrderStatusFromFulfillment, OrderStatus, TERMINAL_ORDER_STATUSES

(* An order with a derived status is an order, and keeps its stamp.        *)
LEMMA DerivedRow ==
  ASSUME NEW row \in OrderRow
  PROVE  /\ Derived(row) \in OrderRow
         /\ Derived(row).paymentReference = row.paymentReference
         /\ StampedRow(row) => StampedRow(Derived(row))
<1>1. row.status \in OrderStatus
  BY DEF OrderRow
<1>2. deriveOrderStatusFromFulfillment(row.status, Statuses(row)) \in OrderStatus
  BY <1>1, DeriveType
<1>3. row.status \in {"pending_payment", "cancelled", "refunded"}
        => deriveOrderStatusFromFulfillment(row.status, Statuses(row)) = row.status
  BY DEF deriveOrderStatusFromFulfillment, TERMINAL_ORDER_STATUSES
<1>4. QED
  BY <1>1, <1>2, <1>3 DEF Derived, OrderRow, StampedRow, OrderStatus

-----------------------------------------------------------------------------
(* Payments only move from existing rows to failed, or to paid on evidence. *)
PaySettles ==
    \A n \in Attempt :
        \/ pay'[n] = pay[n]
        \/ pay[n] # "none" /\ pay'[n] = "failed"
        \/ /\ pay[n] # "none" /\ pay'[n] = "paid"
           /\ payMethod[n] = "bank_transfer" \/ \E m \in 1 .. n : Captured(m)

(* Omise moves on only with charges that exist, and keeps captures.        *)
ChargeMovesOn ==
    \A n \in Attempt :
        \/ charge'[n] = charge[n]
        \/ charge[n] # "none" /\ (Captured(n) => charge'[n] \in {"successful", "reversed"})

(* What such a step does to everything but the handler that takes it.      *)
SettlingRows ==
    /\ order' \in OrderRow
    /\ returned' \subseteq Stores
    /\ pay' \in [Attempt -> PaymentStatus]
    /\ charge' \in [Attempt -> ChargeStatus]
    /\ PaySettles
    /\ ChargeMovesOn
    /\ GoodRow(order)'
    /\ UNCHANGED <<payMethod, amount, attempts, lock>>
    /\ faults' \in 0 .. MaxFaults

(* Such a step keeps what the invariant says of the rows.                  *)
LEMMA SettlingGlobals ==
  ASSUME IndInv, SettlingRows
  PROVE  FreshAttempts' /\ LockExclusive' /\ PendingIsLatest' /\ PaidHasEvidence'
<1> USE DEF IndInv, TypeOK, SettlingRows
<1>1. FreshAttempts'
  BY DEF FreshAttempts, PaySettles, ChargeMovesOn
<1>2. LockExclusive'
  BY DEF LockExclusive
<1>3. PendingIsLatest'
  BY DEF PendingIsLatest, PendingPayments, PaySettles
<1>4. PaidHasEvidence'
  <2>1. \A m \in Attempt : Captured(m) => Captured(m)'
    BY DEF ChargeMovesOn, Captured
  <2>2. \A n \in Attempt : \A m \in 1 .. n : m \in Attempt
    BY OrderStateAssumption DEF Attempt
  <2>3. QED
    BY <2>1, <2>2 DEF PaidHasEvidence, PaySettles
<1>5. QED
  BY <1>1, <1>2, <1>3, <1>4

(* The copies of the handlers that do not move stay good.                  *)
LEMMA SettlingCopies ==
  ASSUME IndInv, SettlingRows, NEW q \in Req,
         pc'[q] = pc[q], loc'[q] = loc[q]
  PROVE  GoodCopy(pc[q], loc[q])' /\ GoodCreate(q, pc[q], loc[q])'
<1> USE DEF IndInv, TypeOK, SettlingRows
<1>1. loc[q] \in Local
  OBVIOUS
<1>2. \A n \in Attempt : pay[n] # "none" => pay'[n] # "none"
  BY DEF PaySettles
<1>3. \A n \in Attempt : Captured(n) => Captured(n)'
  BY DEF ChargeMovesOn, Captured
<1>4. GoodRow(loc[q].ord)'
  BY <1>1, <1>2 DEF GoodCopy, GoodRow, Local
<1>5. GoodCopy(pc[q], loc[q])'
  BY <1>1, <1>2, <1>3, <1>4 DEF GoodCopy, Local, KnowsPayment, KnowsCharge
<1>6. GoodCreate(q, pc[q], loc[q])'
  <2>1. pc[q] = "cc_commit" => attempts \in Attempt /\ loc[q].cid \in Attempt
    BY <1>1 DEF GoodCreate, KnowsPayment, KnowsCharge
  <2>2. QED
    BY <2>1, <1>3 DEF GoodCreate, PaySettles
<1>7. QED
  BY <1>5, <1>6

(* A handler that reads, or settles payments that exist, keeps IndInv.     *)
LEMMA SettlingStep ==
  ASSUME IndInv, SettlingRows, NEW r \in Req, NEW p \in PC \ {"cc_commit"}, NEW l \in Local,
         pc[r] # "cc_commit",
         pc' = [pc EXCEPT ![r] = p],
         loc' = [loc EXCEPT ![r] = l],
         p \in KnowsPayment => l.pid \in Attempt,
         p \in KnowsCharge => l.cid \in Attempt,
         GoodCopy(p, l)'
  PROVE  IndInv'
<1> USE DEF IndInv
<1>1. TypeOK'
  BY DEF TypeOK, SettlingRows, PC
<1>2. \A q \in Req \ {r} : pc'[q] = pc[q] /\ loc'[q] = loc[q]
  BY DEF TypeOK
<1>3. pc'[r] = p /\ loc'[r] = l
  BY DEF TypeOK
<1>4. ASSUME NEW q \in Req PROVE (GoodCopy(pc[q], loc[q]) /\ GoodCreate(q, pc[q], loc[q]))'
  <2>1. CASE q # r
    BY <2>1, <1>2, SettlingCopies
  <2>2. CASE q = r
    <3>1. GoodCopy(pc[q], loc[q])'
      BY <2>2, <1>3 DEF GoodCopy, GoodRow
    <3>2. r \notin lock' /\ pc'[r] # "cc_commit"
      BY <1>3 DEF GoodCreate, SettlingRows
    <3>3. GoodCreate(q, pc[q], loc[q])'
      BY <2>2, <3>2 DEF GoodCreate
    <3>4. QED
      BY <3>1, <3>3
  <2>3. QED
    BY <2>1, <2>2
<1>5. GoodRow(order)'
  BY DEF SettlingRows
<1>6. QED
  BY <1>1, <1>4, <1>5, SettlingGlobals

(* The rows stay as they are when a handler only reads.                    *)
LEMMA ReadStep ==
  ASSUME IndInv, NEW r \in Req, NEW p \in PC \ {"cc_commit"}, NEW l \in Local,
         pc[r] # "cc_commit",
         Goto(r, p, l),
         UNCHANGED <<rows, omise, attempts, lock, faults>>,
         p \in KnowsPayment => l.pid \in Attempt,
         p \in KnowsCharge => l.cid \in Attempt,
         GoodCopy(p, l)
  PROVE  IndInv'
<1>1. SettlingRows
  BY DEF SettlingRows, rows, omise, IndInv, TypeOK, PaySettles, ChargeMovesOn, GoodRow
<1>2. GoodCopy(p, l)'
  BY DEF GoodCopy, GoodRow, Captured, rows, omise
<1>3. QED
  BY <1>1, <1>2, SettlingStep DEF Goto

(* A handler that starts with a copy that is good keeps the invariant.     *)
LEMMA StartStep ==
  ASSUME IndInv, NEW r \in Req, NEW h, NEW p \in PC \ {"cc_commit"}, NEW l \in Local,
         Start(r, h, p, l),
         UNCHANGED <<rows, omise, attempts, lock, faults>>,
         p \in KnowsPayment => l.pid \in Attempt,
         p \in KnowsCharge => l.cid \in Attempt,
         GoodCopy(p, l)
  PROVE  IndInv'
BY ReadStep DEF Start, Goto

(* An idle handler has nothing to be wrong about.                          *)
LEMMA IdleGood == GoodCopy("idle", Idle)
BY IdleType DEF GoodCopy, GoodHold, GoodRow, StampedRow, NoAttempt, Attempt, KnowsPayment, KnowsCharge

(* That is so after any step.                                              *)
LEMMA IdleGoodNext == GoodCopy("idle", Idle)'
BY IdleType DEF GoodCopy, GoodHold, GoodRow, StampedRow, NoAttempt, Attempt, KnowsPayment, KnowsCharge

(* A handler that returns without having written keeps the invariant.      *)
LEMMA ReturnReads ==
  ASSUME IndInv, NEW r \in Req, pc[r] # "cc_commit",
         Return(r),
         UNCHANGED <<rows, omise, attempts, lock, faults>>
  PROVE  IndInv'
BY ReadStep, IdleGood, IdleType DEF Return, PC, KnowsPayment, KnowsCharge

(* A handler that settles payments and returns keeps the invariant.        *)
LEMMA ReturnSettles ==
  ASSUME IndInv, NEW r \in Req, pc[r] # "cc_commit",
         Return(r), SettlingRows
  PROVE  IndInv'
BY SettlingStep, IdleGoodNext, IdleType DEF Return, Goto, PC, KnowsPayment, KnowsCharge

-----------------------------------------------------------------------------
(* The handlers that start: each loads the order as it is.                 *)
LEMMA PaymentStarts ==
  ASSUME IndInv, NEW r \in Req, PaymentStart(r)
  PROVE  IndInv'
<1> USE DEF IndInv, TypeOK
<1>1. ASSUME NEW m \in CheckoutMethods, CreateChargeBegin(r, m) PROVE IndInv'
  <2> DEFINE l == [Idle EXCEPT !.ord = order, !.method = m]
  <2>1. l \in Local /\ l.ord = order /\ l.pays = {}
    BY IdleType, OrderStateAssumption DEF Local
  <2>2. GoodCopy("cc_phaseA", l)
    BY <2>1 DEF GoodCopy, GoodHold, KnowsPayment, KnowsCharge
  <2>3. QED
    BY <1>1, <2>1, <2>2, StartStep DEF CreateChargeBegin, PC, PaymentPC, KnowsPayment, KnowsCharge
<1>2. CASE WebhookOrder(r)
  <2> DEFINE n == order.paymentReference
  <2>1. PICK e \in OmiseEvents(n) :
           Start(r, "webhook", "wh_payment",
                 [Idle EXCEPT !.ord = order, !.cid = n, !.key = e[1], !.outcome = e[2]])
    BY <1>2 DEF WebhookOrder
  <2>2. e[1] \in EventKey /\ e[2] \in ChargeStatus
    BY <2>1 DEF OmiseEvents, EventKey, ChargeStatus
  <2> DEFINE l == [Idle EXCEPT !.ord = order, !.cid = n, !.key = e[1], !.outcome = e[2]]
  <2>3. n \in Attempt /\ pay[n] # "none"
    BY <1>2 DEF WebhookOrder, GoodRow
  <2>4. l \in Local /\ l.ord = order /\ l.pays = {} /\ l.cid = n
    BY IdleType, <2>2, <2>3 DEF Local
  <2>5. GoodCopy("wh_payment", l)
    BY <2>3, <2>4 DEF GoodCopy, GoodHold, KnowsPayment, KnowsCharge
  <2>6. QED
    BY <1>2, <2>1, <2>3, <2>4, <2>5, StartStep
    DEF WebhookOrder, PC, PaymentPC, KnowsPayment, KnowsCharge
<1>3. ASSUME NEW n \in Attempt, ExpireRead(r, n) PROVE IndInv'
  <2> DEFINE l == [Idle EXCEPT !.pid = n]
  <2>1. l \in Local /\ l.ord = Idle.ord /\ l.pays = {} /\ l.pid = n
    BY IdleType DEF Local
  <2>2. GoodCopy("ex_order", l)
    BY <1>3, <2>1, IdleGood DEF ExpireRead, GoodCopy, GoodHold, KnowsPayment, KnowsCharge
  <2>3. QED
    BY <1>3, <2>1, <2>2, StartStep DEF ExpireRead, PC, PaymentPC, KnowsPayment, KnowsCharge
<1> DEFINE l == [Idle EXCEPT !.ord = order]
<1>4. l \in Local /\ l.ord = order /\ l.pays = {}
  BY IdleType DEF Local
<1>5. GoodCopy("cs_paid", l) /\ GoodCopy("cb_payment", l)
  BY <1>4 DEF GoodCopy, GoodHold, KnowsPayment, KnowsCharge
<1>6. CASE StaleRead(r)
  BY <1>4, <1>5, <1>6, StartStep DEF StaleRead, PC, PaymentPC, KnowsPayment, KnowsCharge
<1>7. CASE ConfirmBankTransferOrder(r)
  BY <1>4, <1>5, <1>7, StartStep
  DEF ConfirmBankTransferOrder, PC, PaymentPC, KnowsPayment, KnowsCharge
<1>8. QED
  BY <1>1, <1>2, <1>3, <1>6, <1>7 DEF PaymentStart

(* A vendor, admin or hold handler only needs a good row to start with.    *)
LEMMA FulfillmentStartStep ==
  ASSUME IndInv, NEW r \in Req, NEW h, NEW p \in FulfillmentPC, NEW l \in Local,
         Start(r, h, p, l),
         UNCHANGED <<rows, omise, attempts, lock, faults>>,
         GoodRow(l.ord), l.pays = {}, GoodHold(p, l)
  PROVE  IndInv'
<1>1. p \in PC \ {"cc_commit"} /\ p \notin KnowsPayment /\ p \notin KnowsCharge
      /\ p \notin PaymentPC
  BY DEF PC, FulfillmentPC, PaymentPC, KnowsPayment, KnowsCharge
<1>2. GoodCopy(p, l)
  BY <1>1 DEF GoodCopy, PaymentPC
<1>3. QED
  BY <1>1, <1>2, StartStep

(* What such a handler starts with: a row, some stores, an admin's target. *)
LEMMA StartCopies ==
  ASSUME NEW row \in OrderRow, NEW t \in OrderStatus, NEW S \in SUBSET Stores
  PROVE  /\ [Idle EXCEPT !.ord = row] \in Local
         /\ [Idle EXCEPT !.ord = row].ord = row
         /\ [Idle EXCEPT !.ord = row].pays = {}
         /\ [Idle EXCEPT !.stores = S] \in Local
         /\ [Idle EXCEPT !.stores = S].ord = Idle.ord
         /\ [Idle EXCEPT !.stores = S].pays = {}
         /\ [Idle EXCEPT !.ord = row, !.target = t] \in Local
         /\ [Idle EXCEPT !.ord = row, !.target = t].ord = row
         /\ [Idle EXCEPT !.ord = row, !.target = t].pays = {}
         /\ [Idle EXCEPT !.ord = row, !.stores = S] \in Local
         /\ [Idle EXCEPT !.ord = row, !.stores = S].ord = row
         /\ [Idle EXCEPT !.ord = row, !.stores = S].pays = {}
BY IdleType DEF Local

(* The same of the handlers of fulfillment, admins and the hold.           *)
LEMMA FulfillmentStarts ==
  ASSUME IndInv, NEW r \in Req, FulfillmentStart(r)
  PROVE  IndInv'
<1>1. order \in OrderRow /\ GoodRow(order)
  BY DEF IndInv, TypeOK
<1>2. ASSUME NEW row \in OrderRow, row.paymentReference = order.paymentReference,
             AdminStampsOnly => StampedRow(row)
      PROVE  GoodRow(row)
  BY <1>1, <1>2 DEF GoodRow
<1>3. {"persist", "tr_commit", "vc_commit", "au_commit", "ha_commit", "hr_commit",
       "sla_commit"} \subseteq FulfillmentPC /\ "paid" \in OrderStatus
  BY DEF FulfillmentPC, OrderStatus
<1> USE DEF GoodHold
<1>4. CASE markVendorOrderPaid(r)
  <2> DEFINE paid == [order EXCEPT !.status = "paid", !.paidAt = TRUE]
             l == [Idle EXCEPT !.ord = Derived(paid)]
  <2>1. paid \in OrderRow /\ StampedRow(paid)
        /\ paid.paymentReference = order.paymentReference
    BY <1>1 DEF OrderRow, OrderStatus, StampedRow
  <2>2. Derived(paid) \in OrderRow /\ GoodRow(Derived(paid))
    BY <2>1, <1>2, DerivedRow
  <2>3. l \in Local /\ l.ord = Derived(paid) /\ l.pays = {}
    BY <2>2, <1>3, StartCopies
  <2>4. Start(r, "vendorPaid", "persist", l) /\ UNCHANGED <<rows, omise, attempts, lock, faults>>
    BY <1>4 DEF markVendorOrderPaid
  <2>5. QED
    BY <2>2, <2>3, <2>4, <1>3, FulfillmentStartStep
<1>5. ASSUME NEW s \in Stores, acknowledgeVendorOrder(r, s) PROVE IndInv'
  <2> DEFINE row == [order EXCEPT !.items[s] = "processing"]
             l == [Idle EXCEPT !.ord = Derived(row)]
  <2>1. row \in OrderRow /\ row.status = order.status /\ row.paidAt = order.paidAt
        /\ row.paymentReference = order.paymentReference
    BY <1>1 DEF OrderRow, FulfillmentStatus
  <2>2. Derived(row) \in OrderRow /\ GoodRow(Derived(row))
    BY <2>1, <1>1, <1>2, DerivedRow DEF GoodRow, StampedRow
  <2>3. l \in Local /\ l.ord = Derived(row) /\ l.pays = {}
    BY <2>2, <1>3, StartCopies
  <2>4. Start(r, "acknowledge", "persist", l) /\ UNCHANGED <<rows, omise, attempts, lock, faults>>
    BY <1>5 DEF acknowledgeVendorOrder
  <2>5. QED
    BY <2>2, <2>3, <2>4, <1>3, FulfillmentStartStep
<1>6. ASSUME NEW s \in Stores, shipVendorOrder(r, s) PROVE IndInv'
  <2> DEFINE row == [order EXCEPT !.items[s] = "shipped"]
             l == [Idle EXCEPT !.ord = Derived(row)]
  <2>1. row \in OrderRow /\ row.status = order.status /\ row.paidAt = order.paidAt
        /\ row.paymentReference = order.paymentReference
    BY <1>1 DEF OrderRow, FulfillmentStatus
  <2>2. Derived(row) \in OrderRow /\ GoodRow(Derived(row))
    BY <2>1, <1>1, <1>2, DerivedRow DEF GoodRow, StampedRow
  <2>3. l \in Local /\ l.ord = Derived(row) /\ l.pays = {}
    BY <2>2, <1>3, StartCopies
  <2>4. Start(r, "ship", "persist", l) /\ UNCHANGED <<rows, omise, attempts, lock, faults>>
    BY <1>6 DEF shipVendorOrder
  <2>5. QED
    BY <2>2, <2>3, <2>4, <1>3, FulfillmentStartStep
<1>7. CASE confirmOrderDelivered(r)
  <2> DEFINE row == [order EXCEPT !.status = "delivered",
                                  !.items = [s \in Stores |-> "delivered"]]
             l == [Idle EXCEPT !.ord = row]
  <2>1. row \in OrderRow /\ row.paymentReference = order.paymentReference
        /\ row.paidAt = order.paidAt
    BY <1>1 DEF OrderRow, OrderStatus, FulfillmentStatus
  <2>2. GoodRow(row)
    BY <1>7, <2>1, <1>1, <1>2 DEF GoodRow, StampedRow, confirmOrderDelivered
  <2>3. l \in Local /\ l.ord = row /\ l.pays = {}
    BY <2>1, <1>3, StartCopies
  <2>4. Start(r, "deliver", "persist", l) /\ UNCHANGED <<rows, omise, attempts, lock, faults>>
    BY <1>7 DEF confirmOrderDelivered
  <2>5. QED
    BY <2>2, <2>3, <2>4, <1>3, FulfillmentStartStep
<1>8. ASSUME NEW s \in Stores, updateTrackingForPublicApi(r, s) PROVE IndInv'
  <2> DEFINE l == [Idle EXCEPT !.stores = {s}]
  <2>1. l \in Local /\ l.ord = Idle.ord /\ l.pays = {}
    BY IdleType DEF Local
  <2>2. GoodRow(Idle.ord)
    BY IdleGood DEF GoodCopy
  <2>3. Start(r, "tracking", "tr_commit", l) /\ UNCHANGED <<rows, omise, attempts, lock, faults>>
    BY <1>8 DEF updateTrackingForPublicApi
  <2>4. QED
    BY <2>1, <2>2, <2>3, <1>3, FulfillmentStartStep
<1>9. CASE VendorCancelRead(r)
  <2> DEFINE row == [order EXCEPT !.status = "cancelled", !.items = AllCancelled,
                                  !.heldFrom = NoneHeld]
             l == [Idle EXCEPT !.ord = row]
  <2>1. row \in OrderRow /\ row.paymentReference = order.paymentReference
        /\ row.status = "cancelled"
    BY <1>1 DEF OrderRow, OrderStatus, FulfillmentStatus, AllCancelled, NoneHeld
  <2>2. GoodRow(row)
    BY <2>1, <1>2 DEF StampedRow
  <2>3. l \in Local /\ l.ord = row /\ l.pays = {}
    BY <2>1, <1>3, StartCopies
  <2>4. Start(r, "vendorCancel", "vc_commit", l) /\ UNCHANGED <<rows, omise, attempts, lock, faults>>
    BY <1>9 DEF VendorCancelRead
  <2>5. QED
    BY <2>2, <2>3, <2>4, <1>3, FulfillmentStartStep
<1>10. ASSUME NEW t \in AdminTargets, updateStatusRead(r, t) PROVE IndInv'
  <2> DEFINE row == AdminRow(order, t)
             l == [Idle EXCEPT !.ord = row, !.target = t]
  <2>1. t \in OrderStatus
    BY OrderStateAssumption
  <2>2. row \in OrderRow /\ row.paymentReference = order.paymentReference
        /\ row.status = t /\ row.paidAt = (order.paidAt \/ t = "paid")
    BY <1>1, <2>1 DEF OrderRow, FulfillmentStatus, AdminRow, AllCancelled, NoneHeld
  <2>3. AdminStampsOnly => StampedRow(row)
    BY <1>10, <2>2 DEF AdminStampsOnly, StampedRow, updateStatusRead,
       assertNotManualHoldTransition
  <2>4. GoodRow(row)
    BY <2>2, <2>3, <1>2
  <2>5. l \in Local /\ l.ord = row /\ l.pays = {}
    BY <2>1, <2>2, StartCopies
  <2>6. Start(r, "admin", "au_commit", l) /\ UNCHANGED <<rows, omise, attempts, lock, faults>>
    BY <1>10 DEF updateStatusRead
  <2>7. QED
    BY <2>4, <2>5, <2>6, <1>3, FulfillmentStartStep
<1>11. ASSUME NEW S \in SUBSET Stores
       PROVE  LET l == [Idle EXCEPT !.ord = order, !.stores = S]
              IN  l \in Local /\ GoodRow(l.ord) /\ l.pays = {}
  BY <1>1, <1>3, StartCopies
<1>12. ASSUME NEW s \in Stores, ApplyHoldRead(r, s) \/ RestoreHoldRead(r, s) PROVE IndInv'
  <2> DEFINE l == [Idle EXCEPT !.ord = order, !.stores = {s}]
  <2>1. l \in Local /\ GoodRow(l.ord) /\ l.pays = {}
    BY <1>11
  <2>2. l.ord = order /\ l.stores = {s}
    BY IdleType DEF Local
  <2>3. CASE ApplyHoldRead(r, s)
    <3>1. GoodHold("ha_commit", l)
      BY <2>2, <2>3 DEF ApplyHoldRead
    <3>2. Start(r, "applyHold", "ha_commit", l) /\ UNCHANGED <<rows, omise, attempts, lock, faults>>
      BY <2>3 DEF ApplyHoldRead
    <3>3. QED
      BY <2>1, <3>1, <3>2, <1>3, FulfillmentStartStep
  <2>4. CASE RestoreHoldRead(r, s)
    <3>1. GoodHold("hr_commit", l)
      BY <2>2, <2>4 DEF RestoreHoldRead
    <3>2. Start(r, "restoreHold", "hr_commit", l) /\ UNCHANGED <<rows, omise, attempts, lock, faults>>
      BY <2>4 DEF RestoreHoldRead
    <3>3. QED
      BY <2>1, <3>1, <3>2, <1>3, FulfillmentStartStep
  <2>5. QED
    BY <1>12, <2>3, <2>4
<1>13. ASSUME NEW S \in SUBSET Stores, HoldSlaRead(r, S) PROVE IndInv'
  <2> DEFINE l == [Idle EXCEPT !.ord = order, !.stores = S]
  <2>1. l \in Local /\ GoodRow(l.ord) /\ l.pays = {}
    BY <1>11
  <2>2. Start(r, "holdSla", "sla_commit", l) /\ UNCHANGED <<rows, omise, attempts, lock, faults>>
    BY <1>13 DEF HoldSlaRead
  <2>3. QED
    BY <2>1, <2>2, <1>3, FulfillmentStartStep
<1>14. QED
  BY <1>4, <1>5, <1>6, <1>7, <1>8, <1>9, <1>10, <1>12, <1>13 DEF FulfillmentStart

-----------------------------------------------------------------------------
(* A step that writes the order row and leaves the payments alone settles   *)
(* when what it writes is a good row.                                       *)
LEMMA OrderWriteSettles ==
  ASSUME IndInv, NEW row \in OrderRow, GoodRow(row),
         order' = row, returned' \subseteq Stores,
         UNCHANGED <<pay, payMethod, omise, attempts, lock, faults>>
  PROVE  SettlingRows
<1>1. GoodRow(order)'
  BY DEF GoodRow
<1>2. PaySettles /\ ChargeMovesOn
  BY DEF PaySettles, ChargeMovesOn, omise
<1>3. QED
  BY <1>1, <1>2 DEF SettlingRows, IndInv, TypeOK, omise

(* What a handler loaded, or a copy of it with other lines, is a good row.  *)
LEMMA SameHeaderIsGood ==
  ASSUME NEW row \in OrderRow, GoodRow(row), NEW new \in OrderRow,
         new.paymentReference = row.paymentReference,
         new.status = row.status, row.paidAt => new.paidAt
  PROVE  GoodRow(new) /\ GoodRow(Derived(new)) /\ Derived(new) \in OrderRow
<1>1. GoodRow(new)
  BY DEF GoodRow, StampedRow, OrderRow
<1>2. QED
  BY <1>1, DerivedRow DEF GoodRow

(* The steps of fulfillment, admins and the hold write stamped rows.       *)
LEMMA FulfillmentSteps ==
  ASSUME IndInv, NEW r \in Req, FulfillmentStep(r)
  PROVE  IndInv'
<1> DEFINE l == loc[r]
<1>1. /\ order \in OrderRow /\ GoodRow(order)
      /\ l \in Local /\ l.ord \in OrderRow /\ GoodRow(l.ord) /\ l.stores \subseteq Stores
      /\ returned \subseteq Stores
  BY DEF IndInv, TypeOK, GoodCopy, Local
<1>2. CASE persistOrderTransition(r)
  <2> DEFINE row == [l.ord EXCEPT !.paidAt = @ \/ l.ord.status = "paid"]
  <2>1. row \in OrderRow /\ GoodRow(row)
    <3>1. row \in OrderRow /\ row.paymentReference = l.ord.paymentReference
          /\ row.status = l.ord.status /\ (l.ord.paidAt => row.paidAt)
      BY <1>1 DEF OrderRow
    <3>2. QED
      BY <1>1, <3>1, SameHeaderIsGood
  <2>2. SettlingRows
    BY <1>1, <1>2, <2>1, OrderWriteSettles DEF persistOrderTransition, SaveWithItems
  <2>3. QED
    BY <1>2, <2>2, ReturnSettles DEF persistOrderTransition
<1>3. CASE SaveTracking(r)
  <2>1. order' \in OrderRow /\ order'.paymentReference = order.paymentReference
        /\ order'.status = order.status /\ order'.paidAt = order.paidAt
    BY <1>1, <1>3 DEF SaveTracking, OrderRow, FulfillmentStatus
  <2>2. GoodRow(order)'
    BY <1>1, <1>3, <2>1 DEF GoodRow, StampedRow, SaveTracking
  <2>3. SettlingRows
    BY <1>1, <1>3, <2>1, <2>2 DEF SettlingRows, SaveTracking, IndInv, TypeOK, PaySettles,
       ChargeMovesOn, omise
  <2>4. QED
    BY <1>3, <2>3, ReturnSettles DEF SaveTracking
<1>4. CASE cancelVendorOrder(r)
  <2>1. pay' \in [Attempt -> PaymentStatus] /\ PaySettles /\ ChargeMovesOn
    BY <1>4 DEF cancelVendorOrder, PaySettles, ChargeMovesOn, omise, PaymentStatus, IndInv, TypeOK
  <2>2. \A n \in Attempt : pay[n] # "none" => pay'[n] # "none"
    BY <2>1 DEF PaySettles
  <2>3. order' = l.ord /\ GoodRow(order)'
    BY <1>1, <1>4, <2>2 DEF cancelVendorOrder, SaveWithItems, GoodRow
  <2>4. SettlingRows
    BY <1>1, <1>4, <2>1, <2>3
    DEF SettlingRows, cancelVendorOrder, restoreOrderStock, omise, IndInv, TypeOK
  <2>5. QED
    BY <1>4, <2>4, ReturnSettles DEF cancelVendorOrder
<1>5. CASE updateStatus(r)
  <2>1. order' = l.ord /\ returned' \subseteq Stores
    BY <1>1, <1>5 DEF updateStatus, SaveWithItems, restoreOrderStock
  <2>2. SettlingRows
    BY <1>1, <1>5, <2>1, OrderWriteSettles DEF updateStatus
  <2>3. QED
    BY <1>5, <2>2, ReturnSettles DEF updateStatus
<1>6. ASSUME NEW row \in OrderRow, row.paymentReference = l.ord.paymentReference,
             row.status = l.ord.status, row.paidAt = l.ord.paidAt,
             pc[r] # "cc_commit", Return(r),
             order' = Derived(row) \/ SaveItems(l.stores, row),
             UNCHANGED <<returned, pay, payMethod, omise, attempts, lock, faults>>
      PROVE  IndInv'
  <2>1. GoodRow(Derived(row)) /\ Derived(row) \in OrderRow
    BY <1>1, <1>6, SameHeaderIsGood
  <2>2. CASE order' = Derived(row)
    <3>1. SettlingRows
      BY <1>1, <1>6, <2>1, <2>2, OrderWriteSettles
    <3>2. QED
      BY <1>6, <3>1, ReturnSettles
  <2>3. CASE SaveItems(l.stores, row)
    <3>1. order' \in OrderRow /\ order'.paymentReference = order.paymentReference
          /\ order'.status = order.status /\ order'.paidAt = order.paidAt
      BY <1>1, <2>3 DEF SaveItems, OrderRow
    <3>2. GoodRow(order)'
      BY <1>1, <1>6, <3>1 DEF GoodRow, StampedRow
    <3>3. SettlingRows
      BY <1>1, <1>6, <3>1, <3>2 DEF SettlingRows, IndInv, TypeOK, PaySettles, ChargeMovesOn, omise
    <3>4. QED
      BY <1>6, <3>3, ReturnSettles
  <2>4. QED
    BY <1>6, <2>2, <2>3
<1>7. CASE applyHoldForOrder(r)
  <2> DEFINE row == [l.ord EXCEPT
                !.items = [s \in Stores |-> IF s \in l.stores THEN "on_hold" ELSE l.ord.items[s]],
                !.heldFrom = [s \in Stores |-> IF s \in l.stores THEN l.ord.items[s]
                                                                 ELSE l.ord.heldFrom[s]]]
  <2>1. \A s \in l.stores : l.ord.items[s] \in HOLD_ELIGIBLE_FULFILLMENT
    BY <1>7 DEF IndInv, GoodCopy, GoodHold, applyHoldForOrder
  <2>2. row \in OrderRow /\ row.paymentReference = l.ord.paymentReference
        /\ row.status = l.ord.status /\ row.paidAt = l.ord.paidAt
    BY <1>1, <2>1 DEF OrderRow, FulfillmentStatus
  <2>3. /\ order' = Derived(row) \/ SaveItems(l.stores, row)
        /\ pc[r] # "cc_commit" /\ Return(r)
        /\ UNCHANGED <<returned, pay, payMethod, omise, attempts, lock, faults>>
    BY <1>7 DEF applyHoldForOrder, SaveWithItems
  <2>4. QED
    BY <2>2, <2>3, <1>6
<1>8. CASE restoreHoldForOrder(r)
  <2> DEFINE row == [l.ord EXCEPT
                !.items = [s \in Stores |-> IF s \in l.stores THEN l.ord.heldFrom[s]
                                                              ELSE l.ord.items[s]],
                !.heldFrom = [s \in Stores |-> IF s \in l.stores THEN "none"
                                                                 ELSE l.ord.heldFrom[s]]]
  <2>1. \A s \in l.stores : l.ord.heldFrom[s] # "none"
    BY <1>8 DEF IndInv, GoodCopy, GoodHold, restoreHoldForOrder
  <2>2. row \in OrderRow /\ row.paymentReference = l.ord.paymentReference
        /\ row.status = l.ord.status /\ row.paidAt = l.ord.paidAt
    BY <1>1, <2>1 DEF OrderRow, FulfillmentStatus, HOLD_ELIGIBLE_FULFILLMENT
  <2>3. /\ order' = Derived(row) \/ SaveItems(l.stores, row)
        /\ pc[r] # "cc_commit" /\ Return(r)
        /\ UNCHANGED <<returned, pay, payMethod, omise, attempts, lock, faults>>
    BY <1>8 DEF restoreHoldForOrder, SaveWithItems
  <2>4. QED
    BY <2>2, <2>3, <1>6
<1>9. CASE cancelExpiredHeldItemsForOrder(r)
  <2> DEFINE base == [l.ord EXCEPT
        !.items = [s \in Stores |-> IF s \in l.stores THEN "cancelled" ELSE l.ord.items[s]],
        !.heldFrom = [s \in Stores |-> IF s \in l.stores THEN "none" ELSE l.ord.heldFrom[s]]]
  <2>1. base \in OrderRow /\ base.paymentReference = l.ord.paymentReference
        /\ base.status = l.ord.status /\ base.paidAt = l.ord.paidAt
    BY <1>1 DEF OrderRow, FulfillmentStatus
  <2>2. GoodRow(Derived(base)) /\ Derived(base) \in OrderRow
    BY <1>1, <2>1, SameHeaderIsGood
  <2>3. /\ recomputeOrderPayableTotals(Derived(base)) \in OrderRow
        /\ GoodRow(recomputeOrderPayableTotals(Derived(base)))
    BY <2>2, RecomputeType, SameHeaderIsGood
  <2>4. HoldSlaRow(l) \in OrderRow /\ GoodRow(HoldSlaRow(l))
    BY <2>2, <2>3 DEF HoldSlaRow
  <2>5. SettlingRows
    BY <1>1, <1>9, <2>4, OrderWriteSettles
    DEF cancelExpiredHeldItemsForOrder, SaveWithItems, restoreItemStock
  <2>6. QED
    BY <1>9, <2>5, ReturnSettles DEF cancelExpiredHeldItemsForOrder
<1>10. QED
  BY <1>2, <1>3, <1>4, <1>5, <1>7, <1>8, <1>9 DEF FulfillmentStep

-----------------------------------------------------------------------------
(* The steps of the payment handlers that only read.                       *)
LEMMA PaymentReads ==
  ASSUME IndInv, NEW r \in Req,
         \/ CreateChargeReject(r) \/ WebhookPayment(r) \/ WebhookFetch(r) \/ ExpireOrder(r)
         \/ StalePaidCheck(r) \/ StalePayments(r) \/ ConfirmBankTransferPayment(r)
  PROVE  IndInv'
<1> DEFINE l == loc[r]
<1>1. /\ l \in Local /\ GoodCopy(pc[r], l)
      /\ order \in OrderRow /\ GoodRow(order)
      /\ pay \in [Attempt -> PaymentStatus]
      /\ pc[r] \in KnowsPayment => l.pid \in Attempt
      /\ pc[r] \in KnowsCharge => l.cid \in Attempt
  BY DEF IndInv, TypeOK
<1> USE DEF PC, PaymentPC, KnowsPayment, KnowsCharge
<1>2. CASE CreateChargeReject(r)
  BY <1>2, ReturnReads DEF CreateChargeReject
<1>3. CASE WebhookPayment(r)
  <2>1. CASE Return(r)
    BY <1>3, <2>1, ReturnReads DEF WebhookPayment
  <2>2. CASE ~ Return(r)
    <3>1. PICK n \in Attempt \cup {NoAttempt} :
             IsLatestPayment(n) /\ ~ WebhookIgnores(l, n)
             /\ Goto(r, "wh_fetch", [l EXCEPT !.pid = n])
      BY <1>3, <2>2 DEF WebhookPayment
    <3>2. n \in Attempt /\ pay[n] # "none"
      BY <3>1 DEF WebhookIgnores, IsLatestPayment
    <3> DEFINE k == [l EXCEPT !.pid = n]
    <3>3. k \in Local /\ k.ord = l.ord /\ k.pays = l.pays /\ k.pid = n /\ k.cid = l.cid
      BY <1>1, <3>2 DEF Local
    <3>4. l.cid \in Attempt /\ pay[l.cid] # "none"
      BY <1>1, <1>3 DEF WebhookPayment, GoodCopy
    <3>5. l.cid <= n
      BY <3>1, <3>2, <3>4, OrderStateAssumption DEF IsLatestPayment, Attempt
    <3>6. GoodCopy("wh_fetch", k)
      BY <1>1, <3>2, <3>3, <3>4, <3>5 DEF GoodCopy, GoodHold
    <3>7. QED
      BY <1>3, <3>1, <3>2, <3>3, <3>4, <3>6, ReadStep DEF WebhookPayment
  <2>3. QED
    BY <2>1, <2>2
<1>4. CASE WebhookFetch(r)
  <2>1. CASE Return(r)
    BY <1>4, <2>1, ReturnReads DEF WebhookFetch
  <2>2. CASE Goto(r, "wh_paid", l) /\ WebhookSettles(l)
    <3>1. GoodCopy("wh_paid", l)
      BY <1>1, <1>4, <2>2 DEF WebhookFetch, WebhookSettles, GoodCopy, GoodHold, Captured
    <3>2. QED
      BY <1>1, <1>4, <2>2, <3>1, ReadStep DEF WebhookFetch
  <2>3. CASE Goto(r, "wh_failed", l)
    <3>1. GoodCopy("wh_failed", l)
      BY <1>1, <1>4, <2>3 DEF WebhookFetch, GoodCopy, GoodHold
    <3>2. QED
      BY <1>1, <1>4, <2>3, <3>1, ReadStep DEF WebhookFetch
  <2>4. QED
    BY <1>4, <2>1, <2>2, <2>3 DEF WebhookFetch
<1>5. CASE ExpireOrder(r)
  <2>1. CASE Return(r)
    BY <1>5, <2>1, ReturnReads DEF ExpireOrder
  <2> DEFINE k == [l EXCEPT !.ord = order]
  <2>2. CASE Goto(r, "ex_commit", k)
    <3>1. k \in Local /\ k.ord = order /\ k.pays = l.pays /\ k.pid = l.pid
      BY <1>1 DEF Local
    <3>2. l.pid \in Attempt /\ GoodCopy("ex_commit", k)
      BY <1>1, <1>5, <3>1 DEF ExpireOrder, GoodCopy, GoodHold
    <3>3. QED
      BY <1>5, <2>2, <3>1, <3>2, ReadStep DEF ExpireOrder
  <2>3. QED
    BY <1>5, <2>1, <2>2 DEF ExpireOrder
<1>6. CASE StalePaidCheck(r)
  <2>1. CASE Return(r)
    BY <1>6, <2>1, ReturnReads DEF StalePaidCheck
  <2>2. CASE Goto(r, "cs_list", l)
    <3>1. GoodCopy("cs_list", l)
      BY <1>1 DEF GoodCopy, GoodHold
    <3>2. QED
      BY <1>1, <1>6, <2>2, <3>1, ReadStep DEF StalePaidCheck
  <2>3. QED
    BY <1>6, <2>1, <2>2 DEF StalePaidCheck
<1>7. CASE StalePayments(r)
  <2> DEFINE k == [l EXCEPT !.pays = PendingPayments]
  <2>1. k \in Local /\ k.ord = l.ord /\ k.pays = PendingPayments
    BY <1>1 DEF Local, PendingPayments
  <2>2. GoodCopy("cs_commit", k)
    BY <1>1, <2>1 DEF GoodCopy, GoodHold, PendingPayments
  <2>3. QED
    BY <1>7, <2>1, <2>2, ReadStep DEF StalePayments
<1>8. CASE ConfirmBankTransferPayment(r)
  <2>1. CASE Return(r)
    BY <1>8, <2>1, ReturnReads DEF ConfirmBankTransferPayment
  <2>2. CASE ~ Return(r)
    <3>1. PICK n \in Attempt \cup {NoAttempt} :
             IsLatestPayment(n) /\ ConfirmableBankTransfer(n)
             /\ Goto(r, "cb_commit", [l EXCEPT !.pid = n])
      BY <1>8, <2>2 DEF ConfirmBankTransferPayment
    <3>2. n \in Attempt /\ pay[n] # "none" /\ payMethod[n] = "bank_transfer"
      BY <3>1 DEF ConfirmableBankTransfer, IsLatestPayment
    <3> DEFINE k == [l EXCEPT !.pid = n]
    <3>3. k \in Local /\ k.ord = l.ord /\ k.pays = l.pays /\ k.pid = n
      BY <1>1, <3>2 DEF Local
    <3>4. GoodCopy("cb_commit", k)
      BY <1>1, <3>2, <3>3 DEF GoodCopy, GoodHold
    <3>5. QED
      BY <1>8, <3>1, <3>2, <3>3, <3>4, ReadStep DEF ConfirmBankTransferPayment
  <2>3. QED
    BY <2>1, <2>2
<1>9. QED
  BY <1>2, <1>3, <1>4, <1>5, <1>6, <1>7, <1>8

(* A transaction that settles payments and writes a good order row.        *)
LEMMA CommitSettles ==
  ASSUME IndInv, PaySettles, pay' \in [Attempt -> PaymentStatus],
         order' \in OrderRow, AdminStampsOnly => StampedRow(order'),
         order'.paymentReference \in Attempt => pay[order'.paymentReference] # "none",
         returned' \subseteq Stores,
         UNCHANGED <<payMethod, omise, attempts, lock, faults>>
  PROVE  SettlingRows
<1>1. GoodRow(order)'
  BY DEF GoodRow, PaySettles, AdminStampsOnly, StampedRow
<1>2. ChargeMovesOn
  BY DEF ChargeMovesOn, omise
<1>3. QED
  BY <1>1, <1>2 DEF SettlingRows, IndInv, TypeOK, omise

(* A payment is marked paid on evidence or failed, from a good copy.       *)
LEMMA PaymentCommits ==
  ASSUME IndInv, NEW r \in Req,
         \/ markOrderPaid(r) \/ WebhookFailCommit(r) \/ finalizeExpiredPayment(r)
         \/ cancelOrderRestoreStockAndFailPayments(r) \/ confirmBankTransferPaid(r)
  PROVE  IndInv'
<1> DEFINE l == loc[r]
<1>1. /\ l \in Local /\ GoodCopy(pc[r], l)
      /\ l.ord \in OrderRow /\ GoodRow(l.ord)
      /\ order \in OrderRow /\ GoodRow(order)
      /\ returned \subseteq Stores
      /\ pay \in [Attempt -> PaymentStatus]
      /\ pc[r] \in KnowsPayment => l.pid \in Attempt
      /\ pc[r] \in KnowsCharge => l.cid \in Attempt
  BY DEF IndInv, TypeOK, GoodCopy, Local
<1>2. NoAttempt \notin Attempt /\ BankReference \notin Attempt
      /\ NoAttempt \in Reference /\ BankReference \in Reference /\ Attempt \subseteq Reference
  BY OrderStateAssumption DEF NoAttempt, BankReference, Attempt, Reference
<1> USE DEF KnowsPayment, KnowsCharge
<1>3. CASE markOrderPaid(r)
  <2> DEFINE row == [l.ord EXCEPT !.status = "paid", !.paidAt = TRUE, !.paymentReference = l.cid]
  <2>1. l.pid \in Attempt /\ l.cid \in Attempt /\ l.cid <= l.pid /\ Captured(l.cid)
        /\ pay[l.cid] # "none" /\ pay[l.pid] # "none"
    BY <1>1, <1>3 DEF markOrderPaid, GoodCopy
  <2>2. l.cid \in 1 .. l.pid
    BY <2>1, OrderStateAssumption DEF Attempt
  <2>3. PaySettles /\ pay' \in [Attempt -> PaymentStatus]
    <3>1. pay' = [pay EXCEPT ![l.pid] = "paid"]
      BY <1>3 DEF markOrderPaid
    <3> QED BY <1>1, <2>1, <2>2, <3>1 DEF PaySettles, PaymentStatus
  <2>4. row \in OrderRow
    BY <1>1, <1>2, <2>1 DEF OrderRow, OrderStatus
  <2>5. order' \in OrderRow /\ order'.paymentReference = l.cid /\ order'.paidAt
    <3>1. order' = row \/ order' = [row EXCEPT !.items = order.items, !.heldFrom = order.heldFrom]
      BY <1>3 DEF markOrderPaid, SaveWithItems, SaveWithoutItems
    <3>2. row.paymentReference = l.cid /\ row.paidAt
      BY <1>1 DEF OrderRow
    <3> HIDE DEF row
    <3> QED BY <1>1, <2>4, <3>1, <3>2 DEF OrderRow
  <2>6. SettlingRows
    BY <1>1, <1>3, <2>1, <2>3, <2>5, CommitSettles DEF markOrderPaid, StampedRow
  <2>7. QED
    BY <1>3, <2>6, ReturnSettles DEF markOrderPaid
<1>4. ASSUME l.pid \in Attempt, pay[l.pid] # "none", pay' = [pay EXCEPT ![l.pid] = "failed"],
             \/ SaveWithoutItems([l.ord EXCEPT !.paymentReference = NoAttempt])
             \/ UNCHANGED order,
             UNCHANGED <<returned, payMethod, omise, attempts, lock, faults>>
      PROVE  SettlingRows
  <2>1. PaySettles /\ pay' \in [Attempt -> PaymentStatus]
    BY <1>1, <1>4 DEF PaySettles, PaymentStatus
  <2>2. CASE UNCHANGED order
    BY <1>1, <1>4, <2>1, <2>2, CommitSettles DEF GoodRow
  <2>3. CASE SaveWithoutItems([l.ord EXCEPT !.paymentReference = NoAttempt])
    <3>1. order' \in OrderRow /\ order'.status = l.ord.status /\ order'.paidAt = l.ord.paidAt
          /\ order'.paymentReference = NoAttempt
      BY <1>1, <1>2, <2>3 DEF SaveWithoutItems, OrderRow
    <3>2. AdminStampsOnly => StampedRow(order')
      BY <1>1, <3>1 DEF GoodRow, StampedRow
    <3>3. QED
      BY <1>1, <1>2, <1>4, <2>1, <3>1, <3>2, CommitSettles
  <2>4. QED
    BY <1>4, <2>2, <2>3
<1>5. CASE WebhookFailCommit(r)
  <2>1. SettlingRows
    BY <1>1, <1>4, <1>5 DEF WebhookFailCommit, GoodCopy
  <2>2. QED
    BY <1>5, <2>1, ReturnSettles DEF WebhookFailCommit
<1>6. CASE finalizeExpiredPayment(r)
  <2>1. SettlingRows
    BY <1>1, <1>4, <1>6 DEF finalizeExpiredPayment, GoodCopy
  <2>2. PICK k : k = [Idle EXCEPT !.pid = l.pid]
    OBVIOUS
  <2>3. k \in Local /\ k.ord = Idle.ord /\ k.pays = {} /\ k.pid = l.pid /\ l.pid \in Attempt
    BY <1>1, <1>6, <2>2, IdleType DEF Local, finalizeExpiredPayment
  <2>4. GoodRow(Idle.ord)'
    BY IdleGoodNext DEF GoodCopy
  <2>5. pay[l.pid] # "none" /\ pay'[l.pid] = "failed"
    BY <1>1, <1>6, <2>3 DEF finalizeExpiredPayment, GoodCopy
  <2>6. GoodCopy("ex_cancel", k)'
    BY <2>3, <2>4, <2>5 DEF GoodCopy, GoodHold, GoodRow
  <2>7. pc[r] # "cc_commit" /\ pc' = [pc EXCEPT ![r] = "ex_cancel"] /\ loc' = [loc EXCEPT ![r] = k]
    BY <1>6, <2>2 DEF finalizeExpiredPayment, Goto
  <2>8. "ex_cancel" \in PC \ {"cc_commit"}
    BY DEF PC, PaymentPC
  <2>9. QED
    BY <2>1, <2>3, <2>6, <2>7, <2>8, SettlingStep
<1>7. CASE cancelOrderRestoreStockAndFailPayments(r)
  <2>1. \A n \in l.pays : n \in Attempt /\ pay[n] # "none"
    BY <1>1 DEF GoodCopy, Local
  <2>2. PaySettles /\ pay' \in [Attempt -> PaymentStatus]
    BY <1>1, <1>7, <2>1 DEF cancelOrderRestoreStockAndFailPayments, PaySettles, PaymentStatus
  <2>3. order' \in OrderRow /\ order'.status = "cancelled" /\ order'.paymentReference = NoAttempt
    BY <1>1, <1>2, <1>7 DEF cancelOrderRestoreStockAndFailPayments, SaveWithItems, OrderRow, OrderStatus
  <2>4. StampedRow(order')
    BY <2>3 DEF StampedRow
  <2>5. SettlingRows
    BY <1>2, <1>7, <2>2, <2>3, <2>4, CommitSettles
    DEF cancelOrderRestoreStockAndFailPayments, restoreOrderStock
  <2>6. QED
    BY <1>7, <2>5, ReturnSettles DEF cancelOrderRestoreStockAndFailPayments
<1>8. CASE confirmBankTransferPaid(r)
  <2>1. l.pid \in Attempt /\ pay[l.pid] # "none" /\ payMethod[l.pid] = "bank_transfer"
    BY <1>1, <1>8 DEF confirmBankTransferPaid, GoodCopy
  <2>2. PaySettles /\ pay' \in [Attempt -> PaymentStatus]
    BY <1>1, <1>8, <2>1 DEF confirmBankTransferPaid, PaySettles, PaymentStatus
  <2>3. deriveOrderStatusFromFulfillment("paid", Statuses(l.ord)) \in OrderStatus
    BY DeriveType DEF OrderStatus
  <2>4. order' \in OrderRow /\ order'.paidAt /\ order'.paymentReference = BankReference
    BY <1>1, <1>2, <1>8, <2>3 DEF confirmBankTransferPaid, SaveWithItems, OrderRow
  <2>5. StampedRow(order')
    BY <2>4 DEF StampedRow
  <2>6. SettlingRows
    BY <1>1, <1>2, <1>8, <2>2, <2>4, <2>5, CommitSettles DEF confirmBankTransferPaid
  <2>7. QED
    BY <1>8, <2>6, ReturnSettles DEF confirmBankTransferPaid
<1>9. QED
  BY <1>3, <1>5, <1>6, <1>7, <1>8

(* The best-effort cancellations at Omise.                                 *)
LEMMA OmiseCancels ==
  ASSUME IndInv, NEW r \in Req,
         cancelPendingOmiseChargesForOrder(r) \/ ExpireCancelCharge(r)
  PROVE  IndInv'
<1> DEFINE l == loc[r]
<1>1. /\ l \in Local /\ GoodCopy(pc[r], l)
      /\ order \in OrderRow /\ GoodRow(order)
      /\ charge \in [Attempt -> ChargeStatus]
      /\ pc[r] \in KnowsPayment => l.pid \in Attempt
  BY DEF IndInv, TypeOK
<1>2. ASSUME NEW n \in Attempt, NEW m, NEW s \in cancelOmiseChargeBestEffort(n, m)
      PROVE  /\ s \in ChargeStatus
             /\ \/ s = charge[n]
                \/ charge[n] # "none" /\ (Captured(n) => s \in {"successful", "reversed"})
  BY <1>1 DEF cancelOmiseChargeBestEffort, ChargeStatus, Captured
<1>3. ASSUME charge' \in [Attempt -> ChargeStatus],
             \A n \in Attempt : charge'[n] = charge[n]
                \/ \E m : charge'[n] \in cancelOmiseChargeBestEffort(n, m),
             UNCHANGED <<rows, amount, attempts, lock, faults>>
      PROVE  SettlingRows
  <2>1. ChargeMovesOn
    BY <1>2, <1>3 DEF ChargeMovesOn
  <2>2. PaySettles /\ GoodRow(order)'
    BY <1>1, <1>3 DEF PaySettles, GoodRow, rows
  <2>3. QED
    BY <1>3, <2>1, <2>2 DEF SettlingRows, rows, IndInv, TypeOK
<1>4. CASE ExpireCancelCharge(r)
  <2>1. l.pid \in Attempt
    BY <1>1, <1>4 DEF ExpireCancelCharge, KnowsPayment
  <2>2. PICK s \in cancelOmiseChargeBestEffort(l.pid, "promptpay") :
           charge' = [charge EXCEPT ![l.pid] = s]
    BY <1>4 DEF ExpireCancelCharge
  <2>3. charge' \in [Attempt -> ChargeStatus]
    BY <1>1, <1>2, <2>1, <2>2
  <2>4. \A n \in Attempt : charge'[n] = charge[n]
           \/ \E m : charge'[n] \in cancelOmiseChargeBestEffort(n, m)
    BY <1>1, <2>1, <2>2
  <2>5. SettlingRows
    BY <1>3, <1>4, <2>3, <2>4 DEF ExpireCancelCharge
  <2>6. QED
    BY <1>4, <2>5, ReturnSettles DEF ExpireCancelCharge
<1>5. CASE cancelPendingOmiseChargesForOrder(r)
  <2> DEFINE withCharge == {n \in PendingPayments : payMethod[n] \notin NonOmiseMethod}
             targets == withCharge \cup
                 {n \in {l.ord.paymentReference} \cap Attempt : PendingPayments \ withCharge # {}}
             methodOf(n) == IF n \in withCharge THEN payMethod[n] ELSE "bank_transfer"
  <2>1. targets \subseteq Attempt
    BY DEF PendingPayments
  <2>2. PICK c \in [targets -> ChargeStatus] :
           /\ \A n \in targets : c[n] \in cancelOmiseChargeBestEffort(n, methodOf(n))
           /\ charge' = [n \in Attempt |-> IF n \in targets THEN c[n] ELSE charge[n]]
    BY <1>5 DEF cancelPendingOmiseChargesForOrder
  <2>3. charge' \in [Attempt -> ChargeStatus]
    BY <1>1, <2>1, <2>2
  <2>4. \A n \in Attempt : charge'[n] = charge[n]
           \/ \E m : charge'[n] \in cancelOmiseChargeBestEffort(n, m)
    BY <2>2
  <2>5. SettlingRows
    BY <1>3, <1>5, <2>3, <2>4 DEF cancelPendingOmiseChargesForOrder
  <2>6. PICK k : k = [l EXCEPT !.ord = Idle.ord]
    OBVIOUS
  <2>7. k \in Local /\ k.ord = Idle.ord /\ k.pays = l.pays
    BY <1>1, <2>6, IdleType DEF Local
  <2>8. GoodRow(Idle.ord)'
    BY IdleGoodNext DEF GoodCopy
  <2>9. \A n \in k.pays : pay'[n] # "none"
    BY <1>1, <1>5, <2>7 DEF GoodCopy, cancelPendingOmiseChargesForOrder, rows
  <2>10. GoodCopy("cc_lock", k)'
    BY <2>7, <2>8, <2>9 DEF GoodCopy, GoodHold, GoodRow, KnowsPayment, KnowsCharge
  <2>11. pc[r] # "cc_commit" /\ pc' = [pc EXCEPT ![r] = "cc_lock"] /\ loc' = [loc EXCEPT ![r] = k]
    BY <1>5, <2>6 DEF cancelPendingOmiseChargesForOrder, Goto
  <2>12. "cc_lock" \in PC \ {"cc_commit"} /\ "cc_lock" \notin KnowsPayment \cup KnowsCharge
    BY DEF PC, PaymentPC, KnowsPayment, KnowsCharge
  <2>13. QED
    BY <2>5, <2>7, <2>10, <2>11, <2>12, SettlingStep
<1>6. QED
  BY <1>4, <1>5

-----------------------------------------------------------------------------
(* createCharge under the lock, and a handler's death, one by one.         *)

(* No payment that exists disappears or changes its method, and what Omise  *)
(* captured stays captured.                                                 *)
Keeps ==
    \A n \in Attempt :
        /\ pay[n] # "none" => pay'[n] # "none" /\ payMethod'[n] = payMethod[n]
        /\ Captured(n) => Captured(n)'

(* What is known of a copy stays known when payments and charges are kept. *)
LEMMA KeptCopies ==
  ASSUME IndInv, Keeps, NEW q \in Req, pc'[q] = pc[q], loc'[q] = loc[q]
  PROVE  GoodCopy(pc[q], loc[q])'
<1>1. /\ loc[q] \in Local /\ GoodCopy(pc[q], loc[q])
      /\ pc[q] \in KnowsPayment => loc[q].pid \in Attempt
      /\ pc[q] \in KnowsCharge => loc[q].cid \in Attempt
  BY DEF IndInv, TypeOK
<1>2. GoodRow(loc[q].ord)'
  BY <1>1 DEF GoodCopy, GoodRow, Local, Keeps
<1>3. QED
  BY <1>1, <1>2 DEF GoodCopy, GoodHold, Local, KnowsPayment, KnowsCharge, Keeps

(* Nobody is between POST /charges and the commit when the lock is free.   *)
LEMMA NobodyCommits ==
  ASSUME IndInv, OrderUnlocked, NEW q \in Req
  PROVE  pc[q] # "cc_commit"
BY DEF IndInv, GoodCreate, OrderUnlocked

(* The next attempt is unused.                                             *)
LEMMA NextAttempt ==
  ASSUME IndInv, attempts < MaxAttempts
  PROVE  /\ attempts + 1 \in Attempt
         /\ pay[attempts + 1] = "none" /\ charge[attempts + 1] = "none"
         /\ attempts + 1 \in 0 .. MaxAttempts
BY OrderStateAssumption DEF IndInv, TypeOK, FreshAttempts, Attempt

(* Cash or transfer: the payment inserted is the latest, and alone open.   *)
LEMMA CreateNonOmiseStep ==
  ASSUME IndInv, NEW r \in Req, CreateNonOmisePayment(r)
  PROVE  IndInv'
<1> DEFINE n == attempts + 1
           m == loc[r].method
<1>1. /\ OrderUnlocked /\ attempts < MaxAttempts /\ pc[r] = "cc_lock"
      /\ pay' = [Unpaid EXCEPT ![n] = "pending"]
      /\ payMethod' = [payMethod EXCEPT ![n] = m]
      /\ amount' = [amount EXCEPT ![n] = order.total]
      /\ attempts' = n
      /\ order' = [order EXCEPT !.paymentMethod = m, !.paymentReference = NoAttempt]
      /\ pc' = [pc EXCEPT ![r] = "idle"] /\ loc' = [loc EXCEPT ![r] = Idle]
      /\ UNCHANGED <<returned, charge, lock, faults>>
  BY DEF CreateNonOmisePayment, LockForCreate, SaveWithItems, Return, Goto
<1>2. n \in Attempt /\ pay[n] = "none" /\ n \in 0 .. MaxAttempts
  BY <1>1, NextAttempt
<1>3. /\ order \in OrderRow /\ GoodRow(order) /\ loc[r] \in Local /\ m \in PaymentMethod
      /\ pay \in [Attempt -> PaymentStatus]
      /\ payMethod \in [Attempt -> PaymentMethod]
      /\ attempts \in 0 .. MaxAttempts
  BY DEF IndInv, TypeOK, Local
<1>4. /\ pay' \in [Attempt -> PaymentStatus] /\ pay'[n] = "pending"
      /\ \A k \in Attempt \ {n} : pay'[k] = IF pay[k] = "pending" THEN "failed" ELSE pay[k]
      /\ payMethod' \in [Attempt -> PaymentMethod]
      /\ \A k \in Attempt \ {n} : payMethod'[k] = payMethod[k]
  BY <1>1, <1>2, <1>3 DEF Unpaid, PaymentStatus
<1>5. /\ order' \in OrderRow /\ order'.paymentReference = NoAttempt
      /\ order'.status = order.status /\ order'.paidAt = order.paidAt
  BY <1>1, <1>3 DEF OrderRow, Reference
<1>6. GoodRow(order)'
  BY <1>3, <1>5 DEF GoodRow, StampedRow, NoAttempt, Attempt, AdminStampsOnly
<1>7. TypeOK'
  BY <1>1, <1>2, <1>4, <1>5, IdleType DEF IndInv, TypeOK, OrderRow, KnowsPayment, KnowsCharge
<1>8. FreshAttempts'
  BY <1>1, <1>2, <1>3, <1>4, OrderStateAssumption DEF FreshAttempts, IndInv, Attempt
<1>9. PendingIsLatest'
  BY <1>1, <1>3, <1>4, <1>8, OrderStateAssumption
  DEF PendingIsLatest, PendingPayments, FreshAttempts, Attempt
<1>10. PaidHasEvidence' /\ Keeps
  BY <1>1, <1>2, <1>4 DEF PaidHasEvidence, IndInv, Captured, Keeps
<1>11. ASSUME NEW q \in Req
       PROVE  (GoodCopy(pc[q], loc[q]) /\ GoodCreate(q, pc[q], loc[q]))'
  <2>1. pc'[q] # "cc_commit" /\ q \notin lock'
    BY <1>1, NobodyCommits DEF OrderUnlocked, IndInv, TypeOK
  <2>2. CASE q # r
    BY <1>1, <1>10, <2>1, <2>2, KeptCopies DEF GoodCreate, IndInv, TypeOK
  <2>3. CASE q = r
    <3>1. pc'[q] = "idle" /\ loc'[q] = Idle
      BY <1>1, <2>3 DEF IndInv, TypeOK
    <3>2. QED
      BY <2>1, <3>1, IdleGoodNext DEF GoodCreate, GoodCopy, GoodHold, GoodRow
  <2>4. QED
    BY <2>2, <2>3
<1>12. LockExclusive'
  BY <1>1 DEF IndInv, LockExclusive
<1>13. QED
  BY <1>6, <1>7, <1>8, <1>9, <1>10, <1>11, <1>12 DEF IndInv

(* The charge is created under the lock, for the last attempt.             *)
LEMMA PostOmiseStep ==
  ASSUME IndInv, NEW r \in Req, PostOmiseCharge(r)
  PROVE  IndInv'
<1> DEFINE n == attempts + 1
           m == loc[r].method
<1>1. PICK s \in {"pending", "failed", "successful"} :
          /\ charge' = [charge EXCEPT ![n] = s]
          /\ Goto(r, "cc_commit", [loc[r] EXCEPT !.ord = order, !.pid = n,
                                                 !.cid = n, !.outcome = s])
  BY DEF PostOmiseCharge
<1>2. PICK k : k = [loc[r] EXCEPT !.ord = order, !.pid = n, !.cid = n, !.outcome = s]
  OBVIOUS
<1>3. /\ OrderUnlocked /\ lock = {} /\ attempts < MaxAttempts
      /\ payMethod' = [payMethod EXCEPT ![n] = m]
      /\ amount' = [amount EXCEPT ![n] = order.total]
      /\ attempts' = n /\ lock' = {r}
      /\ pc' = [pc EXCEPT ![r] = "cc_commit"] /\ loc' = [loc EXCEPT ![r] = k]
      /\ UNCHANGED <<order, returned, pay, faults>>
  BY <1>1, <1>2 DEF PostOmiseCharge, LockForCreate, Goto, OrderUnlocked
<1>4. n \in Attempt /\ pay[n] = "none" /\ charge[n] = "none" /\ n \in 0 .. MaxAttempts
  BY <1>3, NextAttempt
<1>5. /\ order \in OrderRow /\ GoodRow(order)
      /\ loc[r] \in Local /\ m \in PaymentMethod /\ GoodCopy(pc[r], loc[r])
      /\ pay \in [Attempt -> PaymentStatus] /\ attempts \in 0 .. MaxAttempts
      /\ charge \in [Attempt -> ChargeStatus]
      /\ payMethod \in [Attempt -> PaymentMethod]
  BY DEF IndInv, TypeOK, Local
<1>6. /\ charge' \in [Attempt -> ChargeStatus] /\ charge'[n] = s
      /\ \A i \in Attempt \ {n} : charge'[i] = charge[i] /\ payMethod'[i] = payMethod[i]
      /\ payMethod' \in [Attempt -> PaymentMethod]
  BY <1>1, <1>3, <1>4, <1>5 DEF ChargeStatus
<1>7. /\ k \in Local /\ k.ord = order /\ k.pid = n /\ k.cid = n /\ k.outcome = s
      /\ k.pays = loc[r].pays
  BY <1>2, <1>4, <1>5 DEF Local, ChargeStatus
<1>8. TypeOK'
  BY <1>3, <1>4, <1>6, <1>7 DEF IndInv, TypeOK, OrderRow, PaymentPC
<1>9. FreshAttempts'
  BY <1>3, <1>4, <1>5, <1>6, OrderStateAssumption DEF FreshAttempts, IndInv, Attempt
<1>10. PaidHasEvidence' /\ Keeps
  <2>1. Keeps
    BY <1>3, <1>4, <1>6 DEF Keeps, Captured
  <2>2. \A i \in Attempt : \A j \in 1 .. i : j \in Attempt
    BY OrderStateAssumption DEF Attempt
  <2>3. QED
    BY <1>3, <2>1, <2>2 DEF Keeps, PaidHasEvidence, IndInv
<1>11. PendingIsLatest' /\ GoodRow(order)' /\ LockExclusive'
  BY <1>3, <1>5 DEF IndInv, PendingIsLatest, PendingPayments, GoodRow, LockExclusive
<1>12. ASSUME NEW q \in Req
       PROVE  (GoodCopy(pc[q], loc[q]) /\ GoodCreate(q, pc[q], loc[q]))'
  <2>1. CASE q # r
    <3>1. pc'[q] = pc[q] /\ loc'[q] = loc[q] /\ pc[q] # "cc_commit" /\ q \notin lock'
      BY <1>3, <2>1, NobodyCommits DEF IndInv, TypeOK
    <3>2. QED
      BY <1>10, <3>1, KeptCopies DEF GoodCreate
  <2>2. CASE q = r
    <3>1. pc'[q] = "cc_commit" /\ loc'[q] = k /\ q \in lock'
      BY <1>3, <2>2 DEF IndInv, TypeOK
    <3>2. GoodCopy(pc[q], loc[q])'
      BY <1>3, <1>5, <1>7, <1>11, <3>1 DEF GoodCopy, GoodHold, GoodRow
    <3>3. GoodCreate(q, pc[q], loc[q])'
      BY <1>3, <1>4, <1>6, <1>7, <3>1 DEF GoodCreate, Captured
    <3>4. QED
      BY <3>2, <3>3
  <2>3. QED
    BY <2>1, <2>2
<1>13. QED
  BY <1>8, <1>9, <1>10, <1>11, <1>12 DEF IndInv

(* The payment of that charge is inserted, and the lock released.          *)
LEMMA CommitOmiseStep ==
  ASSUME IndInv, NEW r \in Req, CommitOmiseCharge(r)
  PROVE  IndInv'
<1> DEFINE l == loc[r]
           n == l.pid
           row == [l.ord EXCEPT !.paymentMethod = l.method, !.paymentReference = n]
<1>1. /\ pc[r] = "cc_commit" /\ order' = row /\ lock' = lock \ {r}
      /\ pay' = [Unpaid EXCEPT ![n] = IF l.outcome = "failed" THEN "failed" ELSE "pending"]
      /\ UNCHANGED <<returned, payMethod, charge, amount, attempts, faults>>
      /\ \/ l.outcome = "successful" /\ Goto(r, "cc_paid", [l EXCEPT !.ord = row])
         \/ Return(r)
  BY DEF CommitOmiseCharge, SaveWithItems, omise
<1>2. /\ l \in Local /\ l.ord \in OrderRow /\ l.method \in PaymentMethod /\ GoodRow(l.ord)
      /\ GoodCopy(pc[r], l)
      /\ n \in Attempt /\ n = attempts /\ l.cid = n /\ pay[n] = "none"
      /\ l.outcome = "successful" => Captured(n)
      /\ r \in lock /\ pay \in [Attempt -> PaymentStatus]
  BY <1>1 DEF IndInv, TypeOK, GoodCopy, GoodCreate, Local, KnowsPayment
<1>3. /\ pay' \in [Attempt -> PaymentStatus] /\ pay'[n] \in {"failed", "pending"}
      /\ \A k \in Attempt \ {n} : pay'[k] = IF pay[k] = "pending" THEN "failed" ELSE pay[k]
  BY <1>1, <1>2 DEF Unpaid, PaymentStatus
<1>4. /\ row \in OrderRow /\ row.paymentReference = n
      /\ row.status = l.ord.status /\ row.paidAt = l.ord.paidAt
  BY <1>2 DEF OrderRow, Reference
<1>5. AdminStampsOnly => StampedRow(row)
  BY <1>2, <1>4 DEF GoodRow, StampedRow
<1>6. GoodRow(order)'
  BY <1>1, <1>3, <1>4, <1>5 DEF GoodRow, StampedRow, AdminStampsOnly
<1>7. FreshAttempts'
  BY <1>1, <1>2, <1>3, OrderStateAssumption DEF FreshAttempts, IndInv, Attempt
<1>8. PendingIsLatest'
  BY <1>1, <1>2, <1>3, <1>7, OrderStateAssumption
  DEF PendingIsLatest, PendingPayments, FreshAttempts, Attempt
<1>9. PaidHasEvidence' /\ Keeps
  BY <1>1, <1>2, <1>3 DEF PaidHasEvidence, IndInv, Captured, Keeps
<1>10. LockExclusive' /\ lock' = {}
  BY <1>1, <1>2 DEF IndInv, LockExclusive
<1>11. [l EXCEPT !.ord = row] \in Local /\ Idle \in Local
  BY <1>2, <1>4, IdleType DEF Local
<1>12. PICK p \in {"cc_paid", "idle"}, k \in Local :
          /\ pc' = [pc EXCEPT ![r] = p] /\ loc' = [loc EXCEPT ![r] = k]
          /\ p = "cc_paid" => l.outcome = "successful" /\ k = [l EXCEPT !.ord = row]
          /\ p = "idle" => k = Idle
  BY <1>1, <1>11 DEF Goto, Return
<1>13. p = "cc_paid" => k.pid = n /\ k.cid = n /\ k.ord = row /\ k.pays = l.pays
  BY <1>2, <1>12 DEF Local
<1>14. TypeOK'
  BY <1>1, <1>2, <1>3, <1>4, <1>12, <1>13 DEF IndInv, TypeOK, PaymentPC, KnowsPayment, KnowsCharge
<1>15. ASSUME NEW q \in Req
       PROVE  (GoodCopy(pc[q], loc[q]) /\ GoodCreate(q, pc[q], loc[q]))'
  <2>1. CASE q # r
    <3>1. pc'[q] = pc[q] /\ loc'[q] = loc[q] /\ q \notin lock'
      BY <1>10, <1>12, <2>1 DEF IndInv, TypeOK
    <3>2. pc[q] # "cc_commit"
      BY <1>2, <2>1 DEF IndInv, LockExclusive, GoodCreate
    <3>3. QED
      BY <1>9, <3>1, <3>2, KeptCopies DEF GoodCreate
  <2>2. CASE q = r
    <3>1. pc'[q] = p /\ loc'[q] = k /\ q \notin lock' /\ p # "cc_commit"
      BY <1>10, <1>12, <2>2 DEF IndInv, TypeOK
    <3>2. GoodCopy(pc[q], loc[q])'
      <4>1. CASE p = "idle"
        BY <1>12, <3>1, <4>1, IdleGoodNext DEF GoodCopy, GoodHold, GoodRow
      <4>2. CASE p = "cc_paid"
        <5>1. charge'[k.cid] \in {"successful", "reversed"}
          BY <1>1, <1>2, <1>12, <1>13, <4>2 DEF Captured
        <5>2. \A i \in k.pays : pay'[i] # "none"
          BY <1>2, <1>9, <1>13, <4>2 DEF Keeps, GoodCopy, Local
        <5>3. pay'[k.pid] # "none" /\ pay'[k.cid] # "none"
          BY <1>3, <1>13, <4>2
        <5>4. k.cid <= k.pid
          BY <1>2, <1>13, <4>2, OrderStateAssumption DEF Attempt
        <5>5. GoodRow(k.ord)'
          BY <1>1, <1>3, <1>4, <1>5, <1>13, <4>2 DEF GoodRow, StampedRow, AdminStampsOnly
        <5>6. GoodCopy("cc_paid", k)'
          BY <5>1, <5>2, <5>3, <5>4, <5>5 DEF GoodCopy, GoodHold, GoodRow, Captured
        <5>7. QED
          BY <3>1, <4>2, <5>6 DEF GoodCopy, GoodHold, GoodRow
      <4>3. QED
        BY <4>1, <4>2
    <3>3. GoodCreate(q, pc[q], loc[q])'
      BY <3>1 DEF GoodCreate
    <3>4. QED
      BY <3>2, <3>3
  <2>3. QED
    BY <2>1, <2>2
<1>16. QED
  BY <1>6, <1>7, <1>8, <1>9, <1>10, <1>14, <1>15 DEF IndInv

(* A handler that dies gives up its lock and its copy, and writes nothing. *)
LEMMA HandlerDiesStep ==
  ASSUME IndInv, NEW r \in Req, HandlerDies(r)
  PROVE  IndInv'
<1>1. /\ faults' \in 0 .. MaxFaults /\ lock' = lock \ {r}
      /\ pc' = [pc EXCEPT ![r] = "idle"] /\ loc' = [loc EXCEPT ![r] = Idle]
      /\ UNCHANGED <<order, returned, pay, payMethod, charge, amount, attempts>>
  BY OrderStateAssumption DEF HandlerDies, Return, Goto, rows, omise, IndInv, TypeOK
<1>2. TypeOK'
  BY <1>1, IdleType DEF IndInv, TypeOK, KnowsPayment, KnowsCharge
<1>3. FreshAttempts' /\ LockExclusive' /\ GoodRow(order)' /\ PendingIsLatest'
  BY <1>1 DEF IndInv, FreshAttempts, LockExclusive, GoodRow, PendingIsLatest, PendingPayments
<1>4. PaidHasEvidence' /\ Keeps
  BY <1>1 DEF IndInv, PaidHasEvidence, Captured, Keeps
<1>5. ASSUME NEW q \in Req
      PROVE  (GoodCopy(pc[q], loc[q]) /\ GoodCreate(q, pc[q], loc[q]))'
  <2>1. CASE q # r
    <3>1. pc'[q] = pc[q] /\ loc'[q] = loc[q] /\ (q \in lock' <=> q \in lock)
      BY <1>1, <2>1 DEF IndInv, TypeOK
    <3>2. QED
      BY <1>1, <1>4, <3>1, KeptCopies DEF GoodCreate, Captured, IndInv
  <2>2. CASE q = r
    <3>1. pc'[q] = "idle" /\ loc'[q] = Idle /\ q \notin lock'
      BY <1>1, <2>2 DEF IndInv, TypeOK
    <3>2. QED
      BY <3>1, IdleGoodNext DEF GoodCreate, GoodCopy, GoodHold, GoodRow
  <2>3. QED
    BY <2>1, <2>2
<1>6. QED
  BY <1>2, <1>3, <1>4, <1>5 DEF IndInv

(* Omise settles a pending charge.                                         *)
LEMMA OmiseSettlesStep ==
  ASSUME IndInv, NEW n \in Attempt, OmiseSettles(n)
  PROVE  IndInv'
<1>1. SettlingRows
  <2>1. PICK s \in {"successful", "failed", "expired"} : charge' = [charge EXCEPT ![n] = s]
    BY DEF OmiseSettles
  <2>2. charge' \in [Attempt -> ChargeStatus] /\ ChargeMovesOn
    BY <2>1 DEF OmiseSettles, IndInv, TypeOK, ChargeStatus, ChargeMovesOn, Captured
  <2>3. QED
    BY <2>2 DEF OmiseSettles, SettlingRows, rows, IndInv, TypeOK, PaySettles, GoodRow
<1>2. pc' = pc /\ loc' = loc
  BY DEF OmiseSettles
<1>3. \A q \in Req : (GoodCopy(pc[q], loc[q]) /\ GoodCreate(q, pc[q], loc[q]))'
  BY <1>1, <1>2, SettlingCopies
<1>4. TypeOK'
  BY <1>1, <1>2 DEF SettlingRows, IndInv, TypeOK
<1>5. QED
  BY <1>1, <1>3, <1>4, SettlingGlobals DEF SettlingRows, IndInv

-----------------------------------------------------------------------------
(* The invariant holds at first.                                           *)
LEMMA InitHolds == Init => IndInv
<1> SUFFICES ASSUME Init PROVE IndInv
  OBVIOUS
<1>1. PICK m \in CheckoutMethods :
         order = recomputeOrderPayableTotals([Idle.ord EXCEPT !.paymentMethod = m])
  BY DEF Init
<1> DEFINE row == [Idle.ord EXCEPT !.paymentMethod = m]
<1>2. row \in OrderRow /\ row.status = "pending_payment" /\ row.paymentReference = NoAttempt
  BY IdleType, OrderStateAssumption DEF Local, OrderRow
<1>3. order \in OrderRow /\ order.status = "pending_payment" /\ order.paymentReference = NoAttempt
  BY <1>1, <1>2, RecomputeType
<1>4. TypeOK
  BY <1>3, IdleType, OrderStateAssumption
  DEF Init, TypeOK, PaymentStatus, PaymentMethod, ChargeStatus, KnowsPayment, KnowsCharge
<1>5. GoodRow(order)
  BY <1>3 DEF GoodRow, StampedRow, NoAttempt, Attempt
<1>6. FreshAttempts /\ LockExclusive /\ PendingIsLatest /\ PaidHasEvidence
  BY DEF Init, FreshAttempts, LockExclusive, PendingIsLatest, PendingPayments, PaidHasEvidence
<1>7. \A r \in Req : GoodCopy(pc[r], loc[r]) /\ GoodCreate(r, pc[r], loc[r])
  BY IdleGood DEF Init, GoodCreate
<1>8. QED
  BY <1>4, <1>5, <1>6, <1>7 DEF IndInv

(* Every step keeps the invariant.                                         *)
LEMMA NextKeeps == IndInv /\ [Next]_vars => IndInv'
<1> SUFFICES ASSUME IndInv, [Next]_vars PROVE IndInv'
  OBVIOUS
<1>1. ASSUME NEW r \in Req, PaymentStart(r) \/ FulfillmentStart(r) PROVE IndInv'
  BY <1>1, PaymentStarts, FulfillmentStarts
<1>2. ASSUME NEW r \in Req, PaymentStep(r) PROVE IndInv'
  BY <1>2, PaymentReads, PaymentCommits, OmiseCancels, CreateNonOmiseStep, PostOmiseStep,
     CommitOmiseStep DEF PaymentStep
<1>3. ASSUME NEW r \in Req, FulfillmentStep(r) PROVE IndInv'
  BY <1>3, FulfillmentSteps
<1>4. ASSUME NEW r \in Req, HandlerDies(r) PROVE IndInv'
  BY <1>4, HandlerDiesStep
<1>5. ASSUME NEW n \in Attempt, OmiseSettles(n) PROVE IndInv'
  BY <1>5, OmiseSettlesStep
<1>6. CASE UNCHANGED vars
  BY <1>6 DEF vars, IndInv, TypeOK, FreshAttempts, LockExclusive, GoodRow, PendingIsLatest,
     PendingPayments, PaidHasEvidence, Captured, GoodCopy, GoodHold, GoodCreate
<1>7. QED
  BY <1>1, <1>2, <1>3, <1>4, <1>5, <1>6 DEF Next

-----------------------------------------------------------------------------
(* Whatever handlers interleave or die, what every handler loaded stays     *)
(* good to write: the inductive invariant holds of every reachable state.  *)
THEOREM InvariantHolds == Spec => []IndInv
BY InitHolds, NextKeeps, PTL DEF Spec

(* Every variable keeps its type; in particular a handler that is to write  *)
(* a payment or fetch a charge always knows which.                         *)
THEOREM TypeCorrect == Spec => []TypeOK
<1>1. IndInv => TypeOK
  BY DEF IndInv
<1>2. QED
  BY <1>1, InvariantHolds, PTL

(* createCharge never leaves two payments of an order open, and the open    *)
(* one is the newest, for any number of concurrent checkouts and writers.  *)
THEOREM OneOpenPayment == Spec => []PendingIsLatest
<1>1. IndInv => PendingIsLatest
  BY DEF IndInv
<1>2. QED
  BY <1>1, InvariantHolds, PTL

(* No interleaving marks a payment paid without a captured charge of this   *)
(* order or an admin's bank transfer confirmation.                         *)
THEOREM PaidOnEvidence == Spec => []PaidHasEvidence
<1>1. IndInv => PaidHasEvidence
  BY DEF IndInv
<1>2. QED
  BY <1>1, InvariantHolds, PTL

(* Unless the admin sets processing, shipped or delivered by hand, every    *)
(* order whose status implies payment carries its paidAt.                  *)
THEOREM PaidIsStamped == Spec => []PaidOrderHasPaidAt
<1>1. IndInv => PaidOrderHasPaidAt
  BY DEF IndInv, GoodRow, PaidOrderHasPaidAt, AdminStampsOnly
<1>2. QED
  BY <1>1, InvariantHolds, PTL

-----------------------------------------------------------------------------
(* Snapshots of held lines.  Every handler saves whole rows, or the lines   *)
(* of some stores, that kept line and snapshot in step when they were       *)
(* loaded, and changes both or neither.                                     *)

(* Snapshots are a matter of the lines alone.                              *)
LEMMA SameLines ==
  ASSUME NEW a, NEW b, a.items = b.items, a.heldFrom = b.heldFrom, RowHasSnapshots(a)
  PROVE  RowHasSnapshots(b)
BY DEF RowHasSnapshots

(* Deriving the status and recomputing the total leave the lines alone.    *)
LEMMA DerivedLines ==
  ASSUME NEW row \in OrderRow
  PROVE  /\ Derived(row).items = row.items /\ Derived(row).heldFrom = row.heldFrom
         /\ recomputeOrderPayableTotals(row).items = row.items
         /\ recomputeOrderPayableTotals(row).heldFrom = row.heldFrom
BY DEF Derived, recomputeOrderPayableTotals, OrderRow

(* An idle handler holds no line.                                          *)
LEMMA IdleSnapshots == RowHasSnapshots(Idle.ord)
BY DEF Idle, RowHasSnapshots

(* The handler that takes the step leaves a row and a copy in step.         *)
LEMMA SnapshotStep ==
  ASSUME TypeOK, SnapshotInv, NEW r \in Req, NEW l, RowHasSnapshots(l.ord),
         loc' = [loc EXCEPT ![r] = l], RowHasSnapshots(order')
  PROVE  SnapshotInv'
<1>1. ASSUME NEW q \in Req PROVE RowHasSnapshots(loc'[q].ord)
  <2>1. CASE q = r
    BY <2>1 DEF TypeOK
  <2>2. CASE q # r
    BY <2>2 DEF TypeOK, SnapshotInv
  <2>3. QED
    BY <2>1, <2>2
<1>2. QED
  BY <1>1 DEF SnapshotInv, RowHasSnapshots

(* A handler returns from a row in step.                                   *)
LEMMA SnapshotReturn ==
  ASSUME TypeOK, SnapshotInv, NEW r \in Req, Return(r), RowHasSnapshots(order')
  PROVE  SnapshotInv'
BY SnapshotStep, IdleSnapshots DEF Return, Goto

(* The handlers of payments load the row as it is.                         *)
LEMMA SnapshotPaymentStarts ==
  ASSUME TypeOK, SnapshotInv, NEW r \in Req, PaymentStart(r)
  PROVE  SnapshotInv'
<1>1. order' = order /\ RowHasSnapshots(order')
  BY DEF PaymentStart, CreateChargeBegin, WebhookOrder, ExpireRead, StaleRead,
     ConfirmBankTransferOrder, rows, SnapshotInv
<1>2. PICK k : loc' = [loc EXCEPT ![r] = k] /\ (k.ord = order \/ k.ord = Idle.ord)
  <2>1. ASSUME NEW m \in CheckoutMethods, CreateChargeBegin(r, m)
        PROVE  loc' = [loc EXCEPT ![r] = [Idle EXCEPT !.ord = order, !.method = m]]
               /\ [Idle EXCEPT !.ord = order, !.method = m].ord = order
    BY <2>1, IdleType DEF CreateChargeBegin, Start, Local
  <2>2. ASSUME WebhookOrder(r) PROVE \E k : loc' = [loc EXCEPT ![r] = k] /\ k.ord = order
    <3>1. PICK e : loc' = [loc EXCEPT ![r] = [Idle EXCEPT !.ord = order,
                       !.cid = order.paymentReference, !.key = e[1], !.outcome = e[2]]]
      BY <2>2 DEF WebhookOrder, Start
    <3>2. [Idle EXCEPT !.ord = order, !.cid = order.paymentReference,
                       !.key = e[1], !.outcome = e[2]].ord = order
      BY IdleType DEF Local
    <3>3. QED
      BY <3>1, <3>2
  <2>3. ASSUME NEW n \in Attempt, ExpireRead(r, n)
        PROVE  loc' = [loc EXCEPT ![r] = [Idle EXCEPT !.pid = n]]
               /\ [Idle EXCEPT !.pid = n].ord = Idle.ord
    BY <2>3, IdleType DEF ExpireRead, Start, Local
  <2>4. ASSUME StaleRead(r) \/ ConfirmBankTransferOrder(r)
        PROVE  loc' = [loc EXCEPT ![r] = [Idle EXCEPT !.ord = order]]
               /\ [Idle EXCEPT !.ord = order].ord = order
    BY <2>4, IdleType DEF StaleRead, ConfirmBankTransferOrder, Start, Local
  <2>5. QED
    BY <2>1, <2>2, <2>3, <2>4 DEF PaymentStart
<1>3. RowHasSnapshots(k.ord)
  BY <1>2, IdleSnapshots DEF SnapshotInv
<1>4. QED
  BY <1>1, <1>2, <1>3, SnapshotStep

(* The handlers of fulfillment, admins and the hold load the row as it is. *)
LEMMA SnapshotFulfillmentStarts ==
  ASSUME TypeOK, SnapshotInv, NEW r \in Req, FulfillmentStart(r)
  PROVE  SnapshotInv'
<1>1. order \in OrderRow /\ RowHasSnapshots(order)
  BY DEF TypeOK, SnapshotInv
<1>2. order' = order
  BY DEF FulfillmentStart, markVendorOrderPaid, acknowledgeVendorOrder, shipVendorOrder,
     updateTrackingForPublicApi, ApplyHoldRead, RestoreHoldRead, confirmOrderDelivered,
     VendorCancelRead, updateStatusRead, HoldSlaRead, rows
<1>3. ASSUME NEW row \in OrderRow, RowHasSnapshots(row), NEW h, NEW p, NEW t, NEW S,
             \/ Start(r, h, p, [Idle EXCEPT !.ord = row])
             \/ Start(r, h, p, [Idle EXCEPT !.stores = S])
             \/ Start(r, h, p, [Idle EXCEPT !.ord = row, !.target = t])
             \/ Start(r, h, p, [Idle EXCEPT !.ord = row, !.stores = S])
      PROVE  SnapshotInv'
  <2>1. /\ [Idle EXCEPT !.ord = row].ord = row
        /\ [Idle EXCEPT !.stores = S].ord = Idle.ord
        /\ [Idle EXCEPT !.ord = row, !.target = t].ord = row
        /\ [Idle EXCEPT !.ord = row, !.stores = S].ord = row
    BY IdleType DEF Local
  <2>2. PICK k : loc' = [loc EXCEPT ![r] = k] /\ k.ord \in {row, Idle.ord}
    BY <1>3, <2>1 DEF Start
  <2>3. RowHasSnapshots(k.ord)
    BY <1>3, <2>2, IdleSnapshots
  <2>4. QED
    BY <1>1, <1>2, <2>2, <2>3, SnapshotStep
<1>4. CASE markVendorOrderPaid(r)
  <2> DEFINE paid == [order EXCEPT !.status = "paid", !.paidAt = TRUE]
  <2>1. paid \in OrderRow /\ paid.items = order.items /\ paid.heldFrom = order.heldFrom
    BY <1>1 DEF OrderRow, OrderStatus
  <2>2. Derived(paid) \in OrderRow /\ RowHasSnapshots(Derived(paid))
    BY <1>1, <2>1, DerivedRow, DerivedLines, SameLines
  <2>3. Start(r, "vendorPaid", "persist", [Idle EXCEPT !.ord = Derived(paid)])
    BY <1>4 DEF markVendorOrderPaid
  <2>4. QED
    BY <1>3, <2>2, <2>3
<1>5. ASSUME NEW s \in Stores, NEW from \in HOLD_ELIGIBLE_FULFILLMENT,
             NEW to \in {"processing", "shipped"}, order.items[s] = from
      PROVE  LET row == [order EXCEPT !.items[s] = to]
             IN  Derived(row) \in OrderRow /\ RowHasSnapshots(Derived(row))
  <2> DEFINE row == [order EXCEPT !.items[s] = to]
  <2>1. row \in OrderRow /\ row.heldFrom = order.heldFrom
        /\ row.items = [order.items EXCEPT ![s] = to]
    BY <1>1, <1>5 DEF OrderRow, FulfillmentStatus
  <2>2. RowHasSnapshots(row)
    BY <1>1, <1>5, <2>1 DEF RowHasSnapshots, OrderRow, HOLD_ELIGIBLE_FULFILLMENT
  <2>3. QED
    BY <2>1, <2>2, DerivedRow, DerivedLines, SameLines
<1>6. ASSUME NEW s \in Stores, acknowledgeVendorOrder(r, s) PROVE SnapshotInv'
  <2>1. order.items[s] = "pending" /\ "pending" \in HOLD_ELIGIBLE_FULFILLMENT
    BY <1>6 DEF acknowledgeVendorOrder, HOLD_ELIGIBLE_FULFILLMENT
  <2>2. Start(r, "acknowledge", "persist",
              [Idle EXCEPT !.ord = Derived([order EXCEPT !.items[s] = "processing"])])
    BY <1>6 DEF acknowledgeVendorOrder
  <2>3. QED
    BY <1>3, <1>5, <2>1, <2>2
<1>7. ASSUME NEW s \in Stores, shipVendorOrder(r, s) PROVE SnapshotInv'
  <2>1. order.items[s] = "processing" /\ "processing" \in HOLD_ELIGIBLE_FULFILLMENT
    BY <1>7 DEF shipVendorOrder, HOLD_ELIGIBLE_FULFILLMENT
  <2>2. Start(r, "ship", "persist",
              [Idle EXCEPT !.ord = Derived([order EXCEPT !.items[s] = "shipped"])])
    BY <1>7 DEF shipVendorOrder
  <2>3. QED
    BY <1>3, <1>5, <2>1, <2>2
<1>8. CASE confirmOrderDelivered(r)
  <2> DEFINE row == [order EXCEPT !.status = "delivered",
                                  !.items = [s \in Stores |-> "delivered"]]
  <2>1. row \in OrderRow /\ row.heldFrom = order.heldFrom
        /\ row.items = [s \in Stores |-> "delivered"]
    BY <1>1 DEF OrderRow, OrderStatus, FulfillmentStatus
  <2>2. \A s \in Stores : order.items[s] # "on_hold"
    BY <1>8 DEF confirmOrderDelivered, Statuses
  <2>3. RowHasSnapshots(row)
    BY <1>1, <2>1, <2>2 DEF RowHasSnapshots
  <2>4. Start(r, "deliver", "persist", [Idle EXCEPT !.ord = row])
    BY <1>8 DEF confirmOrderDelivered
  <2>5. QED
    BY <1>3, <2>1, <2>3, <2>4
<1>9. ASSUME NEW s \in Stores,
             updateTrackingForPublicApi(r, s) \/ ApplyHoldRead(r, s) \/ RestoreHoldRead(r, s)
      PROVE  SnapshotInv'
  BY <1>1, <1>3, <1>9 DEF updateTrackingForPublicApi, ApplyHoldRead, RestoreHoldRead
<1>10. CASE VendorCancelRead(r)
  <2> DEFINE row == [order EXCEPT !.status = "cancelled", !.items = AllCancelled,
                                  !.heldFrom = NoneHeld]
  <2>1. row \in OrderRow /\ row.items = AllCancelled /\ row.heldFrom = NoneHeld
    BY <1>1 DEF OrderRow, OrderStatus, FulfillmentStatus, AllCancelled, NoneHeld
  <2>2. RowHasSnapshots(row)
    BY <2>1 DEF RowHasSnapshots, AllCancelled, NoneHeld
  <2>3. Start(r, "vendorCancel", "vc_commit", [Idle EXCEPT !.ord = row])
    BY <1>10 DEF VendorCancelRead
  <2>4. QED
    BY <1>3, <2>1, <2>2, <2>3
<1>11. ASSUME NEW t \in AdminTargets, updateStatusRead(r, t) PROVE SnapshotInv'
  <2> DEFINE row == AdminRow(order, t)
             holdExit == /\ t \in TERMINAL_ORDER_STATUSES
                         /\ order.status = "on_hold" \/ orderHasHeldItems(order)
  <2>1. row \in OrderRow
    BY <1>1, OrderStateAssumption
    DEF OrderRow, FulfillmentStatus, AdminRow, AllCancelled, NoneHeld
  <2>2. /\ row.items = IF holdExit THEN AllCancelled ELSE order.items
        /\ row.heldFrom = [s \in Stores |-> IF holdExit /\ order.items[s] = "on_hold"
                                               THEN "none" ELSE order.heldFrom[s]]
    BY <1>1 DEF AdminRow, OrderRow
  <2>3. Start(r, "admin", "au_commit", [Idle EXCEPT !.ord = row, !.target = t])
    BY <1>11 DEF updateStatusRead
  <2>4. RowHasSnapshots(row)
    <3>1. CASE holdExit
      BY <1>1, <2>2, <3>1 DEF RowHasSnapshots, AllCancelled
    <3>2. CASE ~holdExit
      BY <1>1, <2>2, <3>2 DEF RowHasSnapshots
    <3>3. QED
      BY <3>1, <3>2
  <2>5. QED
    BY <1>3, <2>1, <2>3, <2>4
<1>12. ASSUME NEW S \in SUBSET Stores, HoldSlaRead(r, S) PROVE SnapshotInv'
  BY <1>1, <1>3, <1>12 DEF HoldSlaRead
<1>13. QED
  BY <1>4, <1>6, <1>7, <1>8, <1>9, <1>10, <1>11, <1>12 DEF FulfillmentStart

(* The lines of some stores, from a copy in step, over a row in step.      *)
LEMMA MixedLines ==
  ASSUME NEW a, NEW b, NEW c, NEW S, RowHasSnapshots(a), RowHasSnapshots(b),
         c.items = [s \in Stores |-> IF s \in S THEN a.items[s] ELSE b.items[s]],
         c.heldFrom = [s \in Stores |-> IF s \in S THEN a.heldFrom[s] ELSE b.heldFrom[s]]
  PROVE  RowHasSnapshots(c)
BY DEF RowHasSnapshots

(* What is saved from a copy in step leaves a row in step.                 *)
LEMMA SavedLines ==
  ASSUME TypeOK, SnapshotInv, NEW row \in OrderRow, RowHasSnapshots(row), NEW S,
         order' = Derived(row) \/ SaveItems(S, row)
  PROVE  RowHasSnapshots(order')
<1>1. CASE order' = Derived(row)
  BY <1>1, DerivedLines, SameLines
<1>2. CASE SaveItems(S, row)
  <2>1. /\ order'.items = [s \in Stores |-> IF s \in S THEN row.items[s] ELSE order.items[s]]
        /\ order'.heldFrom = [s \in Stores |-> IF s \in S THEN row.heldFrom[s]
                                                          ELSE order.heldFrom[s]]
    BY <1>2 DEF SaveItems, TypeOK, OrderRow
  <2>2. QED
    BY <2>1, MixedLines DEF SnapshotInv
<1>3. QED
  BY <1>1, <1>2

(* A line is held together with its snapshot, and let go from it.          *)
LEMMA SnapshotFulfillmentSteps ==
  ASSUME IndInv, SnapshotInv, NEW r \in Req, FulfillmentStep(r)
  PROVE  SnapshotInv'
<1> DEFINE l == loc[r]
<1>1. /\ TypeOK /\ order \in OrderRow /\ RowHasSnapshots(order)
      /\ l \in Local /\ l.ord \in OrderRow /\ RowHasSnapshots(l.ord)
      /\ GoodHold(pc[r], l)
  BY DEF IndInv, TypeOK, SnapshotInv, Local, GoodCopy
<1>2. CASE persistOrderTransition(r)
  <2>1. order'.items = l.ord.items /\ order'.heldFrom = l.ord.heldFrom
    BY <1>1, <1>2 DEF persistOrderTransition, SaveWithItems, OrderRow
  <2>2. RowHasSnapshots(order')
    BY <1>1, <2>1, SameLines
  <2>3. QED
    BY <1>1, <1>2, <2>2, SnapshotReturn DEF persistOrderTransition
<1>3. CASE SaveTracking(r)
  <2>1. /\ order'.items = [s \in Stores |-> IF s \in l.stores THEN "shipped" ELSE order.items[s]]
        /\ order'.heldFrom = [s \in Stores |-> IF s \in l.stores THEN "none"
                                                                ELSE order.heldFrom[s]]
    BY <1>1, <1>3 DEF SaveTracking, OrderRow
  <2>2. RowHasSnapshots(order')
    BY <1>1, <2>1 DEF RowHasSnapshots
  <2>3. QED
    BY <1>1, <1>3, <2>2, SnapshotReturn DEF SaveTracking
<1>4. CASE cancelVendorOrder(r) \/ updateStatus(r)
  <2>1. order' = l.ord /\ Return(r)
    BY <1>4 DEF cancelVendorOrder, updateStatus, SaveWithItems
  <2>2. QED
    BY <1>1, <2>1, SnapshotReturn
<1>5. CASE applyHoldForOrder(r)
  <2> DEFINE row == [l.ord EXCEPT
                !.items = [s \in Stores |-> IF s \in l.stores THEN "on_hold" ELSE l.ord.items[s]],
                !.heldFrom = [s \in Stores |-> IF s \in l.stores THEN l.ord.items[s]
                                                                 ELSE l.ord.heldFrom[s]]]
  <2>1. \A s \in l.stores : l.ord.items[s] \in HOLD_ELIGIBLE_FULFILLMENT
    BY <1>1, <1>5 DEF GoodHold, applyHoldForOrder
  <2>2. /\ row \in OrderRow
        /\ row.items = [s \in Stores |-> IF s \in l.stores THEN "on_hold" ELSE l.ord.items[s]]
        /\ row.heldFrom = [s \in Stores |-> IF s \in l.stores THEN l.ord.items[s]
                                                              ELSE l.ord.heldFrom[s]]
    BY <1>1, <2>1 DEF OrderRow, FulfillmentStatus
  <2>3. RowHasSnapshots(row)
    BY <1>1, <2>1, <2>2 DEF RowHasSnapshots, HOLD_ELIGIBLE_FULFILLMENT
  <2>4. (order' = Derived(row) \/ SaveItems(l.stores, row)) /\ Return(r)
    BY <1>5 DEF applyHoldForOrder, SaveWithItems
  <2>5. QED
    BY <1>1, <2>2, <2>3, <2>4, SavedLines, SnapshotReturn
<1>6. CASE restoreHoldForOrder(r)
  <2> DEFINE row == [l.ord EXCEPT
                !.items = [s \in Stores |-> IF s \in l.stores THEN l.ord.heldFrom[s]
                                                              ELSE l.ord.items[s]],
                !.heldFrom = [s \in Stores |-> IF s \in l.stores THEN "none"
                                                                 ELSE l.ord.heldFrom[s]]]
  <2>1. \A s \in Stores : s \in l.stores => l.ord.heldFrom[s] \in HOLD_ELIGIBLE_FULFILLMENT
    BY <1>1, <1>6 DEF GoodHold, restoreHoldForOrder, OrderRow
  <2>2. /\ row \in OrderRow
        /\ row.items = [s \in Stores |-> IF s \in l.stores THEN l.ord.heldFrom[s]
                                                           ELSE l.ord.items[s]]
        /\ row.heldFrom = [s \in Stores |-> IF s \in l.stores THEN "none"
                                                              ELSE l.ord.heldFrom[s]]
    BY <1>1, <2>1 DEF OrderRow, FulfillmentStatus, HOLD_ELIGIBLE_FULFILLMENT
  <2>3. RowHasSnapshots(row)
    BY <1>1, <2>1, <2>2 DEF RowHasSnapshots, HOLD_ELIGIBLE_FULFILLMENT
  <2>4. (order' = Derived(row) \/ SaveItems(l.stores, row)) /\ Return(r)
    BY <1>6 DEF restoreHoldForOrder, SaveWithItems
  <2>5. QED
    BY <1>1, <2>2, <2>3, <2>4, SavedLines, SnapshotReturn
<1>7. CASE cancelExpiredHeldItemsForOrder(r)
  <2> DEFINE base == [l.ord EXCEPT
        !.items = [s \in Stores |-> IF s \in l.stores THEN "cancelled" ELSE l.ord.items[s]],
        !.heldFrom = [s \in Stores |-> IF s \in l.stores THEN "none" ELSE l.ord.heldFrom[s]]]
  <2>1. /\ base \in OrderRow
        /\ base.items = [s \in Stores |-> IF s \in l.stores THEN "cancelled" ELSE l.ord.items[s]]
        /\ base.heldFrom = [s \in Stores |-> IF s \in l.stores THEN "none"
                                                               ELSE l.ord.heldFrom[s]]
    BY <1>1 DEF OrderRow, FulfillmentStatus
  <2>2. RowHasSnapshots(base)
    BY <1>1, <2>1 DEF RowHasSnapshots
  <2>3. RowHasSnapshots(Derived(base)) /\ Derived(base) \in OrderRow
    BY <2>1, <2>2, DerivedRow, DerivedLines, SameLines
  <2>4. RowHasSnapshots(recomputeOrderPayableTotals(Derived(base)))
    BY <2>3, DerivedLines, SameLines
  <2>5. order' \in {Derived(base), recomputeOrderPayableTotals(Derived(base))} /\ Return(r)
    BY <1>7 DEF cancelExpiredHeldItemsForOrder, SaveWithItems, HoldSlaRow
  <2>6. QED
    BY <1>1, <2>3, <2>4, <2>5, SnapshotReturn
<1>8. QED
  BY <1>2, <1>3, <1>4, <1>5, <1>6, <1>7 DEF FulfillmentStep

(* The steps of payments leave lines and snapshots in step.                *)
LEMMA SnapshotPaymentSteps ==
  ASSUME TypeOK, SnapshotInv, NEW r \in Req, PaymentStep(r)
  PROVE  SnapshotInv'
<1> DEFINE l == loc[r]
<1>1. /\ order \in OrderRow /\ RowHasSnapshots(order)
      /\ l \in Local /\ l.ord \in OrderRow /\ RowHasSnapshots(l.ord)
  BY DEF TypeOK, SnapshotInv, Local
<1>2. ASSUME Return(r),
             \/ order'.items = order.items /\ order'.heldFrom = order.heldFrom
             \/ order'.items = l.ord.items /\ order'.heldFrom = l.ord.heldFrom
      PROVE  SnapshotInv'
  BY <1>1, <1>2, SameLines, SnapshotReturn
<1>3. ASSUME order' = order, NEW p, NEW k, Goto(r, p, k), k.ord \in {order, l.ord, Idle.ord}
      PROVE  SnapshotInv'
  BY <1>1, <1>3, IdleSnapshots, SnapshotStep DEF Goto
<1>4. /\ [l EXCEPT !.ord = Idle.ord].ord = Idle.ord /\ [l EXCEPT !.ord = order].ord = order
      /\ [l EXCEPT !.pays = PendingPayments].ord = l.ord
      /\ \A n : [l EXCEPT !.pid = n].ord = l.ord /\ [Idle EXCEPT !.pid = n].ord = Idle.ord
  BY <1>1, IdleType DEF Local
<1>5. CASE \/ cancelPendingOmiseChargesForOrder(r) \/ CreateChargeReject(r) \/ ExpireOrder(r)
           \/ ExpireCancelCharge(r) \/ StalePaidCheck(r) \/ StalePayments(r)
  <2>1. order' = order
    BY <1>5 DEF cancelPendingOmiseChargesForOrder, CreateChargeReject, ExpireOrder,
       ExpireCancelCharge, StalePaidCheck, StalePayments, rows
  <2>2. \/ Return(r) \/ Goto(r, "cs_list", l)
        \/ Goto(r, "cc_lock", [l EXCEPT !.ord = Idle.ord])
        \/ Goto(r, "ex_commit", [l EXCEPT !.ord = order])
        \/ Goto(r, "cs_commit", [l EXCEPT !.pays = PendingPayments])
    BY <1>5 DEF cancelPendingOmiseChargesForOrder, CreateChargeReject, ExpireOrder,
       ExpireCancelCharge, StalePaidCheck, StalePayments
  <2>3. CASE Return(r)
    BY <1>2, <2>1, <2>3
  <2>4. CASE ~ Return(r)
    <3>1. PICK p, k : Goto(r, p, k) /\ k.ord \in {order, l.ord, Idle.ord}
      BY <1>4, <2>2, <2>4, Zenon
    <3>2. QED
      BY <1>3, <2>1, <3>1
  <2>5. QED
    BY <2>3, <2>4
<1>6. CASE WebhookPayment(r) \/ ConfirmBankTransferPayment(r) \/ WebhookFetch(r)
  <2>1. order' = order
    BY <1>6 DEF WebhookPayment, ConfirmBankTransferPayment, WebhookFetch, rows
  <2>2. Return(r) \/ \E p, k : Goto(r, p, k) /\ k.ord = l.ord
    <3>1. ASSUME NEW n, NEW p, Goto(r, p, [l EXCEPT !.pid = n])
          PROVE  \E q, k : Goto(r, q, k) /\ k.ord = l.ord
      BY <1>4, <3>1, Zenon
    <3>2. CASE WebhookPayment(r) \/ ConfirmBankTransferPayment(r)
      BY <3>1, <3>2, Zenon DEF WebhookPayment, ConfirmBankTransferPayment
    <3>3. CASE WebhookFetch(r)
      BY <3>3 DEF WebhookFetch
    <3>4. QED
      BY <1>6, <3>2, <3>3
  <2>3. CASE Return(r)
    BY <1>2, <2>1, <2>3
  <2>4. CASE ~ Return(r)
    <3>1. PICK p, k : Goto(r, p, k) /\ k.ord = l.ord
      BY <2>2, <2>4
    <3>2. QED
      BY <1>3, <2>1, <3>1
  <2>5. QED
    BY <2>3, <2>4
<1>7. CASE CreateNonOmisePayment(r)
  <2>1. Return(r) /\ order'.items = order.items /\ order'.heldFrom = order.heldFrom
    BY <1>1, <1>7 DEF CreateNonOmisePayment, SaveWithItems, OrderRow
  <2>2. QED
    BY <1>2, <2>1
<1>8. CASE PostOmiseCharge(r)
  <2>1. PICK s : Goto(r, "cc_commit", [l EXCEPT !.ord = order, !.pid = attempts + 1,
                                                !.cid = attempts + 1, !.outcome = s])
    BY <1>8 DEF PostOmiseCharge
  <2>2. [l EXCEPT !.ord = order, !.pid = attempts + 1,
                  !.cid = attempts + 1, !.outcome = s].ord = order
    BY <1>1 DEF Local
  <2>3. order' = order
    BY <1>8 DEF PostOmiseCharge
  <2>4. QED
    BY <1>3, <2>1, <2>2, <2>3
<1>9. CASE CommitOmiseCharge(r)
  <2> DEFINE row == [l.ord EXCEPT !.paymentMethod = l.method, !.paymentReference = l.pid]
  <2>1. row.items = l.ord.items /\ row.heldFrom = l.ord.heldFrom
    BY <1>1 DEF OrderRow
  <2>2. order' = row /\ (Return(r) \/ Goto(r, "cc_paid", [l EXCEPT !.ord = row]))
    BY <1>9 DEF CommitOmiseCharge, SaveWithItems
  <2>3. [l EXCEPT !.ord = row].ord = row
    BY <1>1 DEF Local
  <2>4. RowHasSnapshots(row)
    BY <1>1, <2>1, SameLines
  <2>5. CASE Return(r)
    BY <2>2, <2>4, <2>5, SnapshotReturn
  <2>6. CASE ~ Return(r)
    <3>1. PICK k : loc' = [loc EXCEPT ![r] = k] /\ k.ord = row
      BY <2>2, <2>3, <2>6 DEF Goto
    <3>2. QED
      BY <2>2, <2>4, <3>1, SnapshotStep
  <2>7. QED
    BY <2>5, <2>6
<1>10. CASE markOrderPaid(r)
  <2>1. /\ Return(r)
        /\ \/ order'.items = order.items /\ order'.heldFrom = order.heldFrom
           \/ order'.items = l.ord.items /\ order'.heldFrom = l.ord.heldFrom
    BY <1>1, <1>10 DEF markOrderPaid, SaveWithItems, SaveWithoutItems, OrderRow
  <2>2. QED
    BY <1>2, <2>1
<1>11. CASE WebhookFailCommit(r)
  <2>1. Return(r) /\ order'.items = order.items /\ order'.heldFrom = order.heldFrom
    BY <1>1, <1>11 DEF WebhookFailCommit, SaveWithoutItems, OrderRow
  <2>2. QED
    BY <1>2, <2>1
<1>12. CASE finalizeExpiredPayment(r)
  <2>1. order'.items = order.items /\ order'.heldFrom = order.heldFrom
    BY <1>1, <1>12 DEF finalizeExpiredPayment, SaveWithoutItems, OrderRow
  <2>2. Goto(r, "ex_cancel", [Idle EXCEPT !.pid = l.pid])
    BY <1>12 DEF finalizeExpiredPayment
  <2>3. RowHasSnapshots(order')
    BY <1>1, <2>1, SameLines
  <2>4. QED
    BY <1>4, <2>2, <2>3, IdleSnapshots, SnapshotStep DEF Goto
<1>13. CASE cancelOrderRestoreStockAndFailPayments(r)
  BY <1>1, <1>2, <1>13 DEF cancelOrderRestoreStockAndFailPayments, SaveWithItems, OrderRow
<1>14. CASE confirmBankTransferPaid(r)
  BY <1>1, <1>2, <1>14 DEF confirmBankTransferPaid, SaveWithItems, OrderRow
<1>15. QED
  BY <1>5, <1>6, <1>7, <1>8, <1>9, <1>10, <1>11, <1>12, <1>13, <1>14 DEF PaymentStep

(* Every step keeps lines and snapshots in step.                           *)
LEMMA SnapshotNext == IndInv /\ SnapshotInv /\ [Next]_vars => SnapshotInv'
<1> SUFFICES ASSUME IndInv, SnapshotInv, [Next]_vars PROVE SnapshotInv'
  OBVIOUS
<1>1. TypeOK
  BY DEF IndInv
<1>2. ASSUME NEW r \in Req, \/ PaymentStart(r) \/ FulfillmentStart(r)
                            \/ PaymentStep(r) \/ FulfillmentStep(r)
      PROVE  SnapshotInv'
  BY <1>1, <1>2, SnapshotPaymentStarts, SnapshotFulfillmentStarts, SnapshotPaymentSteps,
     SnapshotFulfillmentSteps
<1>3. ASSUME NEW r \in Req, HandlerDies(r) PROVE SnapshotInv'
  BY <1>1, <1>3, SnapshotReturn DEF HandlerDies, rows, SnapshotInv
<1>4. ASSUME NEW n \in Attempt, OmiseSettles(n) PROVE SnapshotInv'
  BY <1>4 DEF OmiseSettles, rows, SnapshotInv
<1>5. CASE UNCHANGED vars
  BY <1>5 DEF vars, SnapshotInv
<1>6. QED
  BY <1>2, <1>3, <1>4, <1>5 DEF Next

(* However vendors, the admin, the hold, its SLA job and payments overlap   *)
(* and save whole copies, a line is on hold exactly when it remembers what  *)
(* it was: reactivating a store always finds what to restore.               *)
THEOREM HeldLinesCanBeRestored == Spec => []HeldLineHasSnapshot
<1>1. Init => SnapshotInv
  <2> SUFFICES ASSUME Init PROVE SnapshotInv
    OBVIOUS
  <2>1. PICK m : order = recomputeOrderPayableTotals([Idle.ord EXCEPT !.paymentMethod = m])
    BY DEF Init
  <2>2. order.items = Idle.ord.items /\ order.heldFrom = Idle.ord.heldFrom
    BY <2>1, IdleType DEF recomputeOrderPayableTotals, Local, OrderRow
  <2>3. QED
    BY <2>2, IdleSnapshots, SameLines DEF Init, SnapshotInv
<1>2. SnapshotInv => HeldLineHasSnapshot
  BY DEF SnapshotInv, RowHasSnapshots, HeldLineHasSnapshot
<1>3. QED
  BY <1>1, <1>2, SnapshotNext, InvariantHolds, PTL DEF Spec
-----------------------------------------------------------------------------
(***************************************************************************)
(* One handler at a time (Serial), for any number of stores and attempts:  *)
(* what two overlapping handlers can break (runs late_webhook and          *)
(* stale_expiry), one at a time they keep, and the order system implements *)
(* OrderContract.                                                          *)
(*                                                                         *)
(* Every step has one of seven effects on the rows and the charges.  From  *)
(* SerialInv, StepHasEffect finds the effect of a step; EffectKeepsRows    *)
(* and EffectImplements then argue about effects instead of handlers.      *)
(***************************************************************************)

(* Nothing is stored; charges settle or are cancelled, and a captured one  *)
(* is given back only while the order is unpaid.                           *)
ChargeEffect ==
    /\ UNCHANGED <<order, returned, pay>>
    /\ \A n \in Attempt : pay[n] # "none" =>
          /\ payMethod'[n] = payMethod[n]
          /\ amount'[n] = amount[n]
          /\ \/ charge'[n] = charge[n]
             \/ charge[n] = "pending"
             \/ charge[n] = "successful" /\ order.status = "pending_payment"

(* Attempt n is inserted and supersedes what was open.                     *)
OpensEffect(n) ==
    /\ n \in Attempt /\ pay[n] = "none"
    /\ \A m \in Attempt : m > n => pay[m] = "none"
    /\ order.status = "pending_payment" /\ order'.status = "pending_payment"
    /\ order'.items = order.items /\ order'.total = order.total
    /\ pay'[n] \in {"pending", "failed"}
    /\ \A k \in Attempt \ {n} :
          /\ pay'[k] = IF pay[k] = "pending" THEN "failed" ELSE pay[k]
          /\ payMethod'[k] = payMethod[k]
          /\ amount'[k] = amount[k]
    /\ \/ /\ order'.paymentReference = NoAttempt
          /\ pay'[n] = "pending" /\ payMethod'[n] \in NonOmiseMethod
       \/ /\ order'.paymentReference = n
          /\ payMethod'[n] \notin NonOmiseMethod
          /\ pay'[n] = "failed" => charge[n] = "failed"
    /\ UNCHANGED <<returned, charge>>

(* The open attempt n pays.                                                *)
PaysEffect(n) ==
    /\ n \in Attempt /\ pay[n] = "pending"
    /\ pay' = [pay EXCEPT ![n] = "paid"]
    /\ ~IsOver(order) /\ IsBought(order')
    /\ order'.items = order.items /\ order'.total = order.total
    /\ \/ /\ order'.paymentReference = n
          /\ payMethod[n] \notin NonOmiseMethod
          /\ charge[n] = "successful" /\ amount[n] = order.total
       \/ order'.paymentReference = BankReference /\ payMethod[n] = "bank_transfer"
    /\ UNCHANGED <<returned, payMethod, charge, amount>>

(* Attempt n, the newest, fails and is no longer referenced.               *)
FailsEffect(n) ==
    /\ n \in Attempt /\ pay[n] \in {"pending", "failed"}
    /\ \A m \in Attempt : m > n => pay[m] = "none"
    /\ payMethod[n] # "bank_transfer"
    /\ pay' = [pay EXCEPT ![n] = "failed"]
    /\ order' = [order EXCEPT !.paymentReference = NoAttempt]
    /\ UNCHANGED <<returned, payMethod, charge, amount>>

(* The order is closed and its stock returned.                             *)
ClosesEffect ==
    /\ IsOver(order') /\ ~orderHasHeldItems(order')
    /\ returned' = Stores
    /\ order'.total = order.total
    /\ \/ pay' = pay /\ order'.paymentReference = order.paymentReference
       \/ pay' = Unpaid /\ order'.paymentReference \in {order.paymentReference, NoAttempt}
    /\ UNCHANGED <<payMethod, charge, amount>>

(* Lines of the order, or the status they derive, change.                  *)
LinesEffect ==
    /\ order'.total = order.total
    /\ order'.paymentReference = order.paymentReference
    /\ \/ order'.items = order.items /\ order'.status = order.status
       \/ /\ ~IsOver(order) /\ ~IsOver(order')
          /\ order'.status = "pending_payment" => order.status = "pending_payment"
          /\ \A s \in returned : order'.items[s] = "cancelled"
    /\ UNCHANGED <<returned, pay, payMethod, charge, amount>>

(* The lines of the stores in S were held too long.                        *)
ExpiresEffect(S) ==
    /\ S \subseteq Stores
    /\ ~IsOver(order) /\ ~IsOver(order')
    /\ order'.status = "pending_payment" <=> order.status = "pending_payment"
    /\ order.status # "pending_payment" => order'.total = order.total
    /\ order'.paymentReference = order.paymentReference
    /\ returned' = returned \cup S
    /\ \A s \in returned' : order'.items[s] = "cancelled"
    /\ UNCHANGED <<pay, payMethod, charge, amount>>

Effect ==
    \/ ChargeEffect
    \/ \E n \in Attempt : OpensEffect(n) \/ PaysEffect(n) \/ FailsEffect(n)
    \/ ClosesEffect
    \/ LinesEffect
    \/ \E S \in SUBSET Stores : ExpiresEffect(S)

-----------------------------------------------------------------------------
(* Attempts are numbers, and neither null nor the bank's reference is one. *)
LEMMA AttemptFacts ==
  /\ Attempt \subseteq Nat
  /\ NoAttempt \notin Attempt /\ BankReference \notin Attempt
BY OrderStateAssumption DEF Attempt, NoAttempt, BankReference

(* At most one payment of the order is pending or paid.                    *)
LEMMA OneLivePayment ==
  ASSUME IndInv, SerialRows, NEW m \in Attempt, NEW n \in Attempt,
         pay[m] \in {"pending", "paid"}, pay[n] \in {"pending", "paid"}
  PROVE  m = n
BY AttemptFacts DEF IndInv, PendingIsLatest, PendingPayments, SerialRows, PaidIsLatest, PaidPayments

(* Omise moves; the rows stand.                                            *)
LEMMA ChargeKeepsRows ==
  ASSUME IndInv, SerialRows, ChargeEffect
  PROVE  SerialRows'
<1> USE DEF SerialRows, ChargeEffect
<1>1. PaidIsFunded'
  BY DEF PaidIsFunded, PaidIsLatest, PaidPayments
<1>2. PendingChargeIsReferenced' /\ PaidMatchesTotal' /\ ReturnedStockIsNotOwed'
  BY DEF PendingChargeIsReferenced, PendingPayments, PaidMatchesTotal, ReturnedStockIsNotOwed
<1>3. OverIsReleased' /\ PaidIsLatest'
  BY DEF OverIsReleased, IsOver, orderHasHeldItems, PaidIsLatest, PaidPayments
<1>4. ReferenceIsLatest'
  BY DEF ReferenceIsLatest, IndInv, GoodRow, IsOver
<1>5. TransferStaysOpen'
  BY DEF TransferStaysOpen, IsOver
<1>6. QED
  BY <1>1, <1>2, <1>3, <1>4, <1>5

(* An attempt opens.                                                       *)
LEMMA OpensKeepsRows ==
  ASSUME IndInv, SerialRows, NEW n \in Attempt, OpensEffect(n)
  PROVE  SerialRows'
<1> USE DEF SerialRows, OpensEffect
<1>1. \A k \in Attempt : pay[k] # "paid" /\ pay'[k] # "paid"
  BY DEF PaidIsLatest, PaidPayments
<1>2. PaidIsFunded' /\ PaidMatchesTotal' /\ PaidIsLatest'
  BY <1>1 DEF PaidIsFunded, PaidMatchesTotal, PaidIsLatest, PaidPayments
<1>3. PendingChargeIsReferenced'
  BY DEF PendingChargeIsReferenced, PendingPayments
<1>4. ReturnedStockIsNotOwed' /\ OverIsReleased'
  BY DEF ReturnedStockIsNotOwed, OverIsReleased, IsOver, TERMINAL_ORDER_STATUSES
<1>5. ReferenceIsLatest'
  BY AttemptFacts DEF ReferenceIsLatest
<1>6. TransferStaysOpen'
  <2> SUFFICES ASSUME NEW k \in Attempt, pay'[k] = "failed", payMethod'[k] = "bank_transfer"
               PROVE  \E m \in Attempt : m > k /\ pay'[m] # "none"
    BY DEF TransferStaysOpen
  <2>1. k # n
    BY DEF NonOmiseMethod
  <2>2. pay[k] # "none" /\ n > k
    BY <2>1, AttemptFacts
  <2>3. QED
    BY <2>2
<1>7. QED
  BY <1>2, <1>3, <1>4, <1>5, <1>6

(* The open attempt pays.                                                  *)
LEMMA PaysKeepsRows ==
  ASSUME IndInv, SerialRows, NEW n \in Attempt, PaysEffect(n)
  PROVE  SerialRows'
<1> USE DEF SerialRows, PaysEffect
<1>1. /\ pay'[n] = "paid"
      /\ \A k \in Attempt \ {n} : pay'[k] = pay[k] /\ pay[k] \notin {"pending", "paid"}
      /\ \A k \in Attempt : pay'[k] = "none" <=> pay[k] = "none"
      /\ \A m \in Attempt : m > n => pay[m] = "none"
  BY OneLivePayment DEF IndInv, TypeOK, PendingIsLatest, PendingPayments
<1>2. PaidIsFunded' /\ PaidMatchesTotal'
  BY <1>1, AttemptFacts DEF PaidIsFunded, PaidMatchesTotal
<1>3. PendingChargeIsReferenced' /\ PaidIsLatest'
  BY <1>1 DEF PendingChargeIsReferenced, PendingPayments, PaidIsLatest, PaidPayments, IsBought
<1>4. ReturnedStockIsNotOwed' /\ OverIsReleased'
  BY DEF ReturnedStockIsNotOwed, OverIsReleased, IsOver, IsBought
<1>5. ReferenceIsLatest'
  BY <1>1, AttemptFacts DEF ReferenceIsLatest
<1>6. TransferStaysOpen'
  BY <1>1 DEF TransferStaysOpen
<1>7. QED
  BY <1>2, <1>3, <1>4, <1>5, <1>6

(* The open attempt fails.                                                 *)
LEMMA FailsKeepsRows ==
  ASSUME IndInv, SerialRows, NEW n \in Attempt, FailsEffect(n)
  PROVE  SerialRows'
<1> USE DEF SerialRows, FailsEffect
<1>1. /\ order'.status = order.status /\ order'.items = order.items
      /\ order'.total = order.total /\ order'.paymentReference = NoAttempt
  BY DEF IndInv, TypeOK, OrderRow
<1>2. /\ pay'[n] = "failed" /\ \A k \in Attempt \ {n} : pay'[k] = pay[k]
      /\ \A k \in Attempt : pay'[k] = "none" <=> pay[k] = "none"
      /\ \A k \in Attempt \ {n} : pay[k] # "pending"
  BY AttemptFacts DEF IndInv, TypeOK, PendingIsLatest, PendingPayments
<1>3. PaidIsFunded' /\ PaidMatchesTotal' /\ PaidIsLatest'
  BY <1>1, <1>2, AttemptFacts DEF PaidIsFunded, PaidMatchesTotal, PaidIsLatest, PaidPayments
<1>4. PendingChargeIsReferenced' /\ ReferenceIsLatest'
  BY <1>1, <1>2, AttemptFacts DEF PendingChargeIsReferenced, PendingPayments, ReferenceIsLatest
<1>5. ReturnedStockIsNotOwed' /\ OverIsReleased'
  BY <1>1 DEF ReturnedStockIsNotOwed, OverIsReleased, IsOver, orderHasHeldItems
<1>6. TransferStaysOpen'
  BY <1>1, <1>2 DEF TransferStaysOpen, IsOver
<1>7. QED
  BY <1>3, <1>4, <1>5, <1>6

(* The order closes, its stock is returned and its open attempts fail.     *)
LEMMA ClosesKeepsRows ==
  ASSUME IndInv, SerialRows, ClosesEffect
  PROVE  SerialRows'
<1> USE DEF SerialRows, ClosesEffect
<1>1. /\ \A k \in Attempt : pay'[k] = "paid" <=> pay[k] = "paid"
      /\ \A k \in Attempt : pay'[k] = "none" <=> pay[k] = "none"
      /\ \A k \in Attempt : pay'[k] = "pending" => pay' = pay
  BY DEF Unpaid
<1>2. PaidIsFunded' /\ PaidMatchesTotal'
  BY <1>1, AttemptFacts DEF PaidIsFunded, PaidMatchesTotal
<1>3. PaidIsLatest'
  BY <1>1 DEF PaidIsLatest, PaidPayments, IsOver, TERMINAL_ORDER_STATUSES
<1>4. PendingChargeIsReferenced'
  <2> SUFFICES ASSUME NEW k \in Attempt, pay'[k] = "pending", payMethod'[k] \notin NonOmiseMethod
               PROVE  order'.paymentReference = k
    BY DEF PendingChargeIsReferenced, PendingPayments
  <2>1. pay' = pay /\ order'.paymentReference = order.paymentReference
    BY DEF Unpaid
  <2>2. QED
    BY <2>1 DEF PendingChargeIsReferenced, PendingPayments
<1>5. ReturnedStockIsNotOwed' /\ OverIsReleased'
  BY DEF ReturnedStockIsNotOwed, OverIsReleased, IsOver, orderHasHeldItems
<1>6. ReferenceIsLatest' /\ TransferStaysOpen'
  BY <1>1, AttemptFacts DEF ReferenceIsLatest, TransferStaysOpen, IsOver
<1>7. QED
  BY <1>2, <1>3, <1>4, <1>5, <1>6

(* Lines of an order move.                                                 *)
LEMMA LinesKeepsRows ==
  ASSUME IndInv, SerialRows, LinesEffect
  PROVE  SerialRows'
<1> USE DEF SerialRows, LinesEffect
<1>1. PaidIsFunded' /\ PaidMatchesTotal' /\ PendingChargeIsReferenced'
  BY DEF PaidIsFunded, PaidMatchesTotal, PendingChargeIsReferenced, PendingPayments
<1>2. PaidIsLatest'
  BY DEF PaidIsLatest, PaidPayments
<1>3. ReturnedStockIsNotOwed' /\ OverIsReleased'
  BY DEF ReturnedStockIsNotOwed, OverIsReleased, IsOver, orderHasHeldItems
<1>4. ReferenceIsLatest' /\ TransferStaysOpen'
  BY DEF ReferenceIsLatest, TransferStaysOpen, IsOver
<1>5. QED
  BY <1>1, <1>2, <1>3, <1>4

(* Lines held too long are cancelled, and their stock is returned.         *)
LEMMA ExpiresKeepsRows ==
  ASSUME IndInv, SerialRows, NEW S \in SUBSET Stores, ExpiresEffect(S)
  PROVE  SerialRows'
<1> USE DEF SerialRows, ExpiresEffect
<1>1. PaidIsFunded' /\ PaidMatchesTotal' /\ PendingChargeIsReferenced' /\ PaidIsLatest'
  BY DEF PaidIsFunded, PaidMatchesTotal, PendingChargeIsReferenced, PendingPayments,
     PaidIsLatest, PaidPayments
<1>2. ReturnedStockIsNotOwed' /\ OverIsReleased'
  BY DEF ReturnedStockIsNotOwed, OverIsReleased, IsOver
<1>3. ReferenceIsLatest' /\ TransferStaysOpen'
  BY DEF ReferenceIsLatest, TransferStaysOpen, IsOver
<1>4. QED
  BY <1>1, <1>2, <1>3

(* Whichever effect a step has, the rows still agree with each other.      *)
LEMMA EffectKeepsRows ==
  ASSUME IndInv, SerialRows, Effect
  PROVE  SerialRows'
BY ChargeKeepsRows, OpensKeepsRows, PaysKeepsRows, FailsKeepsRows, ClosesKeepsRows,
   LinesKeepsRows, ExpiresKeepsRows DEF Effect

-----------------------------------------------------------------------------
(* Which effect each step has.                                             *)

(* Deriving the status of an order that was bought keeps it bought.        *)
LEMMA DerivedIsBought ==
  ASSUME NEW current, NEW statuses,
         current \notin TERMINAL_ORDER_STATUSES, current # "pending_payment"
  PROVE  deriveOrderStatusFromFulfillment(current, statuses)
            \notin TERMINAL_ORDER_STATUSES \cup {"pending_payment"}
BY DEF deriveOrderStatusFromFulfillment, TERMINAL_ORDER_STATUSES

(* A step that writes nothing has the first effect.                        *)
LEMMA NothingIsACharge ==
  ASSUME UNCHANGED <<rows, omise>>
  PROVE  Effect
BY DEF Effect, ChargeEffect, rows, omise

(* A payment handler that starts writes nothing.                           *)
LEMMA PaymentStartEffect ==
  ASSUME NEW r \in Req, PaymentStart(r)
  PROVE  Effect
<1>1. UNCHANGED <<rows, omise>>
  BY DEF PaymentStart, CreateChargeBegin, WebhookOrder, ExpireRead, StaleRead,
     ConfirmBankTransferOrder
<1>2. QED
  BY <1>1, NothingIsACharge

(* Neither does one of fulfillment, of an admin or of the hold.            *)
LEMMA FulfillmentStartEffect ==
  ASSUME NEW r \in Req, FulfillmentStart(r)
  PROVE  Effect
<1>1. UNCHANGED <<rows, omise>>
  BY DEF FulfillmentStart, markVendorOrderPaid, acknowledgeVendorOrder, shipVendorOrder,
     updateTrackingForPublicApi, ApplyHoldRead, RestoreHoldRead, confirmOrderDelivered,
     VendorCancelRead, updateStatusRead, HoldSlaRead
<1>2. QED
  BY <1>1, NothingIsACharge

(* Omise gives a charge back only to createCharge, while the order is      *)
(* unpaid; the other changes are of pending charges.                       *)
LEMMA OmiseEffect ==
  ASSUME SerialInv, NEW r \in Req,
         \/ cancelPendingOmiseChargesForOrder(r)
         \/ PostOmiseCharge(r)
         \/ ExpireCancelCharge(r)
  PROVE  ChargeEffect
<1> SUFFICES /\ UNCHANGED <<order, returned, pay>>
             /\ \A n \in Attempt : pay[n] # "none" =>
                   /\ payMethod'[n] = payMethod[n]
                   /\ amount'[n] = amount[n]
                   /\ \/ charge'[n] = charge[n]
                      \/ charge[n] = "pending"
                      \/ charge[n] = "successful" /\ order.status = "pending_payment"
  BY DEF ChargeEffect
<1> USE DEF SerialInv, IndInv, TypeOK
<1>1. CASE cancelPendingOmiseChargesForOrder(r)
  <2>1. order.status = "pending_payment"
    BY <1>1 DEF cancelPendingOmiseChargesForOrder, SerialCopy, SerialCreate
  <2>2. UNCHANGED <<order, returned, pay, payMethod, amount>>
    BY <1>1 DEF cancelPendingOmiseChargesForOrder, rows
  <2>3. \A n \in Attempt : \/ charge'[n] = charge[n]
                           \/ charge[n] = "pending"
                           \/ charge[n] = "successful"
    BY <1>1 DEF cancelPendingOmiseChargesForOrder, cancelOmiseChargeBestEffort
  <2>4. QED
    BY <2>1, <2>2, <2>3
<1>2. CASE PostOmiseCharge(r)
  <2>1. attempts + 1 \in Attempt /\ pay[attempts + 1] = "none"
    <3>1. attempts < MaxAttempts
      BY <1>2, Zenon DEF PostOmiseCharge, LockForCreate
    <3>2. QED
      BY <3>1, NextAttempt
  <2>2. \A n \in Attempt \ {attempts + 1} :
           payMethod'[n] = payMethod[n] /\ amount'[n] = amount[n] /\ charge'[n] = charge[n]
    BY <1>2, <2>1 DEF PostOmiseCharge
  <2>3. UNCHANGED <<order, returned, pay>>
    BY <1>2 DEF PostOmiseCharge
  <2>4. QED
    BY <2>1, <2>2, <2>3
<1>3. CASE ExpireCancelCharge(r)
  <2>1. UNCHANGED <<order, returned, pay, payMethod, amount>>
    BY <1>3 DEF ExpireCancelCharge, rows
  <2>2. \A n \in Attempt : charge'[n] = charge[n] \/ charge[n] = "pending"
    BY <1>3 DEF ExpireCancelCharge, cancelOmiseChargeBestEffort
  <2>3. QED
    BY <2>1, <2>2
<1>4. QED
  BY <1>1, <1>2, <1>3

(* The commits of createCharge open an attempt.                            *)
LEMMA OpensStepEffect ==
  ASSUME SerialInv, NEW r \in Req, CreateNonOmisePayment(r) \/ CommitOmiseCharge(r)
  PROVE  \E n \in Attempt : OpensEffect(n)
<1> USE DEF SerialInv, IndInv, TypeOK
<1>1. CASE CreateNonOmisePayment(r)
  <2> DEFINE n == attempts + 1
  <2>1. /\ n \in Attempt /\ pay[n] = "none"
        /\ \A m \in Attempt : m > n => pay[m] = "none"
    BY <1>1, OrderStateAssumption
    DEF CreateNonOmisePayment, LockForCreate, FreshAttempts, Attempt
  <2>2. order.status = "pending_payment"
    BY <1>1 DEF CreateNonOmisePayment, LockForCreate, Payable, assertOrderPayableForCreate
  <2>3. /\ order'.status = order.status /\ order'.items = order.items
        /\ order'.total = order.total /\ order'.paymentReference = NoAttempt
    BY <1>1 DEF CreateNonOmisePayment, SaveWithItems, OrderRow
  <2>4. pay'[n] = "pending" /\ payMethod'[n] \in NonOmiseMethod
    BY <1>1, <2>1 DEF CreateNonOmisePayment, Unpaid
  <2>5. \A k \in Attempt \ {n} :
           /\ pay'[k] = IF pay[k] = "pending" THEN "failed" ELSE pay[k]
           /\ payMethod'[k] = payMethod[k]
           /\ amount'[k] = amount[k]
    BY <1>1, <2>1 DEF CreateNonOmisePayment, Unpaid
  <2>6. UNCHANGED <<returned, charge>>
    BY <1>1 DEF CreateNonOmisePayment
  <2>7. OpensEffect(n)
    BY <2>1, <2>2, <2>3, <2>4, <2>5, <2>6 DEF OpensEffect
  <2>8. QED
    BY <2>1, <2>7
<1>2. CASE CommitOmiseCharge(r)
  <2> DEFINE n == loc[r].pid
  <2>1. /\ n = attempts /\ n \in Attempt /\ pay[n] = "none"
        /\ \A m \in Attempt : m > n => pay[m] = "none"
    BY <1>2 DEF CommitOmiseCharge, GoodCreate, FreshAttempts, KnowsPayment
  <2>2. /\ order.status = "pending_payment" /\ loc[r].ord = order
        /\ payMethod[n] \notin NonOmiseMethod
        /\ loc[r].outcome = "failed" => charge[n] = "failed"
    BY <1>2 DEF CommitOmiseCharge, SerialCopy, SerialCreate, HasOrder
  <2>3. /\ order'.status = order.status /\ order'.items = order.items
        /\ order'.total = order.total /\ order'.paymentReference = n
    BY <1>2, <2>2 DEF CommitOmiseCharge, SaveWithItems, OrderRow
  <2>4. pay'[n] \in {"pending", "failed"} /\ (pay'[n] = "failed" => charge[n] = "failed")
    BY <1>2, <2>1, <2>2 DEF CommitOmiseCharge, Unpaid
  <2>5. \A k \in Attempt \ {n} :
           pay'[k] = IF pay[k] = "pending" THEN "failed" ELSE pay[k]
    BY <1>2, <2>1 DEF CommitOmiseCharge, Unpaid
  <2>6. UNCHANGED <<returned, payMethod, charge, amount>>
    BY <1>2 DEF CommitOmiseCharge, omise
  <2>7. OpensEffect(n)
    BY <2>1, <2>2, <2>3, <2>4, <2>5, <2>6 DEF OpensEffect
  <2>8. QED
    BY <2>1, <2>7
<1>3. QED
  BY <1>1, <1>2

(* The commits that mark an order as paid pay its open attempt.            *)
LEMMA PaysStepEffect ==
  ASSUME SerialInv, NEW r \in Req, markOrderPaid(r) \/ confirmBankTransferPaid(r)
  PROVE  \E n \in Attempt : PaysEffect(n)
<1> USE DEF SerialInv, IndInv, TypeOK
<1> DEFINE n == loc[r].pid
<1>1. CASE markOrderPaid(r)
  <2>1. n \in Attempt /\ n = loc[r].cid /\ loc[r].ord = order /\ pay[n] = "pending"
    BY <1>1 DEF markOrderPaid, SerialCopy, SerialCreate, SerialWebhook, HasOrder, KnowsPayment
  <2>2. /\ ~IsOver(order)
        /\ charge[n] = "successful" /\ amount[n] = order.total
        /\ payMethod[n] \notin NonOmiseMethod
    <3>1. CASE pc[r] = "cc_paid"
      BY <3>1, <2>1 DEF SerialCopy, SerialCreate, IsOver, TERMINAL_ORDER_STATUSES
    <3>2. CASE pc[r] = "wh_paid"
      <4>1. WebhookSettles(loc[r]) /\ ~WebhookIgnores(loc[r], n) /\ order.paymentReference = n
        BY <3>2, <2>1 DEF SerialCopy, SerialWebhook
      <4>2. ~IsOver(order) /\ charge[n] = "successful" /\ amount[n] = order.total
        BY <4>1, <2>1 DEF WebhookSettles, WebhookIgnores, IsOver
      <4>3. QED
        BY <4>1, <4>2, <2>1 DEF SerialRows, ReferenceIsLatest
    <3>3. QED
      BY <1>1, <3>1, <3>2 DEF markOrderPaid
  <2>3. /\ order'.status = "paid" /\ order'.items = order.items
        /\ order'.total = order.total /\ order'.paymentReference = n
    BY <1>1, <2>1, ZenonT(40) DEF markOrderPaid, SaveWithItems, SaveWithoutItems, OrderRow
  <2>4. IsBought(order')
    BY <2>3 DEF IsBought, TERMINAL_ORDER_STATUSES
  <2>5. pay' = [pay EXCEPT ![n] = "paid"] /\ UNCHANGED <<returned, payMethod, charge, amount>>
    BY <1>1 DEF markOrderPaid, omise
  <2>6. PaysEffect(n)
    BY <2>1, <2>2, <2>3, <2>4, <2>5 DEF PaysEffect
  <2>7. QED
    BY <2>1, <2>6
<1>2. CASE confirmBankTransferPaid(r)
  <2>1. /\ n \in Attempt /\ loc[r].ord = order /\ pay[n] = "pending"
        /\ payMethod[n] = "bank_transfer" /\ order.status = "pending_payment"
    BY <1>2 DEF confirmBankTransferPaid, SerialCopy, SerialSweep, HasOrder, KnowsPayment
  <2>2. /\ order'.status = deriveOrderStatusFromFulfillment("paid", Statuses(order))
        /\ order'.items = order.items
        /\ order'.total = order.total /\ order'.paymentReference = BankReference
    BY <1>2, <2>1 DEF confirmBankTransferPaid, SaveWithItems, OrderRow
  <2>3. ~IsOver(order) /\ IsBought(order')
    BY <2>1, <2>2, DerivedIsBought DEF IsOver, IsBought, TERMINAL_ORDER_STATUSES
  <2>4. pay' = [pay EXCEPT ![n] = "paid"] /\ UNCHANGED <<returned, payMethod, charge, amount>>
    BY <1>2 DEF confirmBankTransferPaid, omise
  <2>5. PaysEffect(n)
    BY <2>1, <2>2, <2>3, <2>4 DEF PaysEffect
  <2>6. QED
    BY <2>1, <2>5
<1>3. QED
  BY <1>1, <1>2

(* The commits of a failed charge and of an expired one fail an attempt.   *)
LEMMA FailsStepEffect ==
  ASSUME SerialInv, NEW r \in Req, WebhookFailCommit(r) \/ finalizeExpiredPayment(r)
  PROVE  \E n \in Attempt : FailsEffect(n)
<1> USE DEF SerialInv, IndInv, TypeOK
<1> DEFINE n == loc[r].pid
<1>1. /\ n \in Attempt /\ loc[r].ord = order /\ order.paymentReference = n
      /\ pay[n] \in {"pending", "failed"} /\ payMethod[n] \notin NonOmiseMethod
      /\ pc[r] = "wh_failed" => loc[r].cid = n
  <2>1. CASE WebhookFailCommit(r)
    <3>1. /\ n \in Attempt /\ loc[r].ord = order /\ order.paymentReference = n
          /\ charge[n] = "failed" /\ pay[n] # "none" /\ loc[r].cid = n
      BY <2>1 DEF WebhookFailCommit, SerialCopy, SerialWebhook, HasOrder, KnowsPayment, GoodCopy
    <3>2. payMethod[n] \notin NonOmiseMethod
      BY <3>1 DEF SerialRows, ReferenceIsLatest
    <3>3. pay[n] # "paid"
      BY <3>1, <3>2 DEF SerialRows, PaidIsFunded, NonOmiseMethod
    <3>4. QED
      BY <3>1, <3>2, <3>3 DEF PaymentStatus
  <2>2. CASE finalizeExpiredPayment(r)
    <3>1. /\ n \in Attempt /\ loc[r].ord = order /\ pc[r] = "ex_commit"
          /\ pay[n] = "pending" /\ payMethod[n] = "promptpay"
      BY <2>2 DEF finalizeExpiredPayment, SerialCopy, SerialSweep, HasOrder, KnowsPayment
    <3>2. order.paymentReference = n
      BY <3>1 DEF SerialRows, PendingChargeIsReferenced, PendingPayments, NonOmiseMethod
    <3>3. QED
      BY <3>1, <3>2 DEF NonOmiseMethod
  <2>3. QED
    BY <2>1, <2>2
<1>2. \A m \in Attempt : m > n => pay[m] = "none"
  BY <1>1 DEF SerialRows, ReferenceIsLatest
<1>3. order' = [order EXCEPT !.paymentReference = NoAttempt]
  <2>1. order' = [[order EXCEPT !.paymentReference = NoAttempt]
                     EXCEPT !.items = order.items, !.heldFrom = order.heldFrom]
    BY <1>1 DEF WebhookFailCommit, finalizeExpiredPayment, SaveWithoutItems
  <2>2. QED
    BY <2>1 DEF OrderRow
<1>4. pay' = [pay EXCEPT ![n] = "failed"] /\ UNCHANGED <<returned, payMethod, charge, amount>>
  BY DEF WebhookFailCommit, finalizeExpiredPayment, omise
<1>5. FailsEffect(n)
  BY <1>1, <1>2, <1>3, <1>4 DEF FailsEffect, NonOmiseMethod
<1>6. QED
  BY <1>1, <1>5

(* Cancellations, of the whole or of a last line, close the order.         *)
LEMMA ClosesStepEffect ==
  ASSUME SerialInv, Serial, NEW r \in Req,
         \/ cancelOrderRestoreStockAndFailPayments(r)
         \/ cancelVendorOrder(r)
         \/ updateStatus(r)
  PROVE  ClosesEffect
<1> USE DEF SerialInv, IndInv, TypeOK
<1>0. loc[r].ord \in OrderRow
  BY DEF Local
<1>1. CASE cancelOrderRestoreStockAndFailPayments(r)
  <2>1. /\ loc[r].ord = order /\ ~orderHasHeldItems(order) /\ loc[r].pays = PendingPayments
    BY <1>1 DEF cancelOrderRestoreStockAndFailPayments, SerialCopy, SerialSweep, HasOrder
  <2>2. /\ order'.status = "cancelled" /\ order'.items = order.items
        /\ order'.total = order.total /\ order'.paymentReference = NoAttempt
    BY <1>1, <2>1 DEF cancelOrderRestoreStockAndFailPayments, SaveWithItems, OrderRow
  <2>3. pay' = Unpaid
    BY <1>1, <2>1 DEF cancelOrderRestoreStockAndFailPayments, Unpaid, PendingPayments
  <2>4. returned' = Stores /\ UNCHANGED <<payMethod, charge, amount>>
    BY <1>1 DEF cancelOrderRestoreStockAndFailPayments, restoreOrderStock, omise
  <2>5. IsOver(order') /\ ~orderHasHeldItems(order')
    BY <2>1, <2>2 DEF IsOver, orderHasHeldItems, TERMINAL_ORDER_STATUSES
  <2>6. QED
    BY <2>2, <2>3, <2>4, <2>5 DEF ClosesEffect
<1>2. CASE cancelVendorOrder(r)
  <2>1. /\ loc[r].ord.total = order.total
        /\ loc[r].ord.paymentReference = order.paymentReference
        /\ IsOver(loc[r].ord) /\ ~orderHasHeldItems(loc[r].ord)
    BY <1>2 DEF cancelVendorOrder, SerialCopy, SerialFulfillment
  <2>2. /\ order' = loc[r].ord /\ pay' = Unpaid
        /\ returned' = Stores /\ UNCHANGED <<payMethod, charge, amount>>
    BY <1>2 DEF cancelVendorOrder, SaveWithItems, Unpaid, restoreOrderStock, omise
  <2>3. QED
    BY <2>1, <2>2 DEF ClosesEffect
<1>3. CASE updateStatus(r)
  <2>1. /\ loc[r].ord.total = order.total
        /\ loc[r].ord.paymentReference = order.paymentReference
        /\ IsOver(loc[r].ord) /\ ~orderHasHeldItems(loc[r].ord)
        /\ loc[r].target = loc[r].ord.status
    BY <1>3 DEF updateStatus, SerialCopy, SerialFulfillment
  <2>2. /\ order' = loc[r].ord /\ pay' = pay
        /\ returned' = Stores /\ UNCHANGED <<payMethod, charge, amount>>
    BY <1>3, <2>1 DEF updateStatus, SaveWithItems, IsOver, restoreOrderStock, omise
  <2>3. QED
    BY <2>1, <2>2 DEF ClosesEffect
<1>4. QED
  BY <1>1, <1>2, <1>3

(* The derived status of an order that is not over: unpaid stays unpaid,   *)
(* bought stays bought, and it is not over.                                *)
LEMMA DerivedStage ==
  ASSUME NEW row \in OrderRow, ~IsOver(row)
  PROVE  /\ ~IsOver(Derived(row))
         /\ Derived(row).status = "pending_payment" <=> row.status = "pending_payment"
         /\ Derived(row).total = row.total
<1>1. /\ Derived(row).status = deriveOrderStatusFromFulfillment(row.status, Statuses(row))
      /\ Derived(row).total = row.total
  BY DEF Derived, OrderRow
<1>2. CASE row.status = "pending_payment"
  BY <1>1, <1>2 DEF deriveOrderStatusFromFulfillment, TERMINAL_ORDER_STATUSES, IsOver
<1>3. CASE row.status # "pending_payment"
  BY <1>1, <1>3, DerivedIsBought DEF IsOver
<1>4. QED
  BY <1>1, <1>2, <1>3

(* Saving the lines of the stores in S, none of them a line whose stock    *)
(* was returned, with or without the header.                               *)
LEMMA SavedLinesEffect ==
  ASSUME SerialInv, NEW S, NEW row \in OrderRow, ~IsOver(order),
         row.status = order.status, row.total = order.total,
         row.paymentReference = order.paymentReference,
         \A s \in Stores \ S : row.items[s] = order.items[s],
         \A s \in S : order.items[s] # "cancelled",
         order' = Derived(row) \/ SaveItems(S, row),
         UNCHANGED <<returned, pay, payMethod, charge, amount>>
  PROVE  LinesEffect
<1> USE DEF SerialInv, IndInv, TypeOK
<1>1. \A s \in returned : order.items[s] = "cancelled" /\ row.items[s] = "cancelled"
  BY DEF SerialRows, ReturnedStockIsNotOwed, IsOver
<1>2. CASE order' = Derived(row)
  <2>1. ~IsOver(row)
    BY DEF IsOver
  <2>2. /\ ~IsOver(order')
        /\ order'.status = "pending_payment" => order.status = "pending_payment"
        /\ order'.total = order.total /\ order'.paymentReference = order.paymentReference
        /\ order'.items = row.items
    BY <1>2, <2>1, DerivedStage, DerivedRow, DerivedLines
  <2>3. QED
    BY <1>1, <2>2 DEF LinesEffect
<1>3. CASE SaveItems(S, row)
  <2>1. /\ order'.status = order.status /\ order'.total = order.total
        /\ order'.paymentReference = order.paymentReference
        /\ order'.items = [s \in Stores |-> IF s \in S THEN row.items[s] ELSE order.items[s]]
    BY <1>3 DEF SaveItems, OrderRow
  <2>2. \A s \in returned : order'.items[s] = "cancelled"
    BY <1>1, <2>1
  <2>3. QED
    BY <2>1, <2>2 DEF LinesEffect, IsOver
<1>4. QED
  BY <1>2, <1>3

(* Acknowledging, shipping, tracking, delivery and holds move lines.       *)
LEMMA LinesStepEffect ==
  ASSUME SerialInv, NEW r \in Req,
         \/ persistOrderTransition(r)
         \/ SaveTracking(r)
         \/ applyHoldForOrder(r)
         \/ restoreHoldForOrder(r)
  PROVE  LinesEffect
<1> DEFINE l == loc[r]
<1>1. /\ TypeOK /\ order \in OrderRow /\ l \in Local /\ l.ord \in OrderRow
      /\ SerialCopy(pc[r], l) /\ GoodHold(pc[r], l)
  BY DEF SerialInv, IndInv, TypeOK, Local, GoodCopy
<1>2. CASE persistOrderTransition(r)
  <2>1. /\ l.ord.total = order.total /\ l.ord.paymentReference = order.paymentReference
        /\ IsBought(l.ord) /\ ~IsOver(order) /\ \A s \in returned : l.ord.items[s] = "cancelled"
    BY <1>1, <1>2 DEF persistOrderTransition, SerialCopy, SerialFulfillment
  <2>2. /\ order'.items = l.ord.items /\ order'.status = l.ord.status
        /\ order'.total = l.ord.total /\ order'.paymentReference = l.ord.paymentReference
    BY <1>1, <1>2 DEF persistOrderTransition, SaveWithItems, OrderRow
  <2>3. UNCHANGED <<returned, pay, payMethod, charge, amount>>
    BY <1>2 DEF persistOrderTransition, omise
  <2>4. QED
    BY <2>1, <2>2, <2>3 DEF LinesEffect, IsBought, IsOver
<1>3. CASE SaveTracking(r)
  <2>1. \A s \in l.stores : order.items[s] = "shipped"
    BY <1>1, <1>3 DEF SaveTracking, SerialCopy, SerialFulfillment
  <2>2. /\ order'.items = [s \in Stores |-> IF s \in l.stores THEN "shipped" ELSE order.items[s]]
        /\ order'.status = order.status /\ order'.total = order.total
        /\ order'.paymentReference = order.paymentReference
    BY <1>1, <1>3 DEF SaveTracking, OrderRow
  <2>3. order'.items = order.items
    BY <1>1, <2>1, <2>2 DEF OrderRow
  <2>4. UNCHANGED <<returned, pay, payMethod, charge, amount>>
    BY <1>3 DEF SaveTracking, omise
  <2>5. QED
    BY <2>2, <2>3, <2>4 DEF LinesEffect
<1>4. CASE applyHoldForOrder(r)
  <2> DEFINE row == [l.ord EXCEPT
                !.items = [s \in Stores |-> IF s \in l.stores THEN "on_hold" ELSE l.ord.items[s]],
                !.heldFrom = [s \in Stores |-> IF s \in l.stores THEN l.ord.items[s]
                                                                 ELSE l.ord.heldFrom[s]]]
  <2>1. /\ l.ord = order /\ order.status \in HOLD_ELIGIBLE_ORDER_STATUSES
        /\ \A s \in l.stores : order.items[s] \in HOLD_ELIGIBLE_FULFILLMENT
    BY <1>1, <1>4 DEF applyHoldForOrder, SerialCopy, SerialFulfillment, HasOrder
  <2>2. /\ row \in OrderRow /\ row.status = order.status /\ row.total = order.total
        /\ row.paymentReference = order.paymentReference
        /\ \A s \in Stores \ l.stores : row.items[s] = order.items[s]
    BY <1>1, <2>1 DEF OrderRow, FulfillmentStatus
  <2>3. ~IsOver(order) /\ \A s \in l.stores : order.items[s] # "cancelled"
    BY <2>1 DEF IsOver, HOLD_ELIGIBLE_ORDER_STATUSES, HOLD_ELIGIBLE_FULFILLMENT,
       TERMINAL_ORDER_STATUSES
  <2>4. /\ order' = Derived(row) \/ SaveItems(l.stores, row)
        /\ UNCHANGED <<returned, pay, payMethod, charge, amount>>
    BY <1>4 DEF applyHoldForOrder, SaveWithItems, omise
  <2>5. QED
    BY <2>2, <2>3, <2>4, SavedLinesEffect
<1>5. CASE restoreHoldForOrder(r)
  <2> DEFINE row == [l.ord EXCEPT
                !.items = [s \in Stores |-> IF s \in l.stores THEN l.ord.heldFrom[s]
                                                              ELSE l.ord.items[s]],
                !.heldFrom = [s \in Stores |-> IF s \in l.stores THEN "none"
                                                                 ELSE l.ord.heldFrom[s]]]
  <2>1. /\ l.ord = order /\ ~IsOver(order)
        /\ \A s \in l.stores : order.items[s] = "on_hold"
    BY <1>1, <1>5 DEF restoreHoldForOrder, SerialCopy, SerialFulfillment, HasOrder
  <2>2. \A s \in Stores : s \in l.stores => l.ord.heldFrom[s] \in HOLD_ELIGIBLE_FULFILLMENT
    BY <1>1, <1>5 DEF GoodHold, restoreHoldForOrder, OrderRow
  <2>3. /\ row \in OrderRow /\ row.status = order.status /\ row.total = order.total
        /\ row.paymentReference = order.paymentReference
        /\ \A s \in Stores \ l.stores : row.items[s] = order.items[s]
    BY <1>1, <2>1, <2>2 DEF OrderRow, FulfillmentStatus, HOLD_ELIGIBLE_FULFILLMENT
  <2>4. /\ order' = Derived(row) \/ SaveItems(l.stores, row)
        /\ UNCHANGED <<returned, pay, payMethod, charge, amount>>
    BY <1>5 DEF restoreHoldForOrder, SaveWithItems, omise
  <2>5. QED
    BY <2>1, <2>3, <2>4, SavedLinesEffect
<1>6. QED
  BY <1>2, <1>3, <1>4, <1>5

(* The SLA job cancels lines held too long.                                *)
LEMMA ExpiresStepEffect ==
  ASSUME SerialInv, NEW r \in Req, cancelExpiredHeldItemsForOrder(r)
  PROVE  \E S \in SUBSET Stores : ExpiresEffect(S)
<1> DEFINE l == loc[r]
           base == [l.ord EXCEPT
              !.items = [s \in Stores |-> IF s \in l.stores THEN "cancelled" ELSE l.ord.items[s]],
              !.heldFrom = [s \in Stores |-> IF s \in l.stores THEN "none" ELSE l.ord.heldFrom[s]]]
<1>1. /\ order \in OrderRow /\ l.stores \in SUBSET Stores /\ returned \subseteq Stores
      /\ l.ord = order /\ ~IsOver(order)
  BY DEF SerialInv, IndInv, TypeOK, Local, cancelExpiredHeldItemsForOrder, SerialCopy,
     SerialFulfillment, HasOrder
<1>2. /\ base \in OrderRow
      /\ base.items = [s \in Stores |-> IF s \in l.stores THEN "cancelled" ELSE order.items[s]]
      /\ base.status = order.status /\ base.total = order.total
      /\ base.paymentReference = order.paymentReference
  BY <1>1 DEF OrderRow, FulfillmentStatus
<1>3. /\ Derived(base) \in OrderRow /\ ~IsOver(Derived(base))
      /\ Derived(base).status = "pending_payment" <=> order.status = "pending_payment"
      /\ Derived(base).total = order.total
      /\ Derived(base).paymentReference = order.paymentReference
      /\ Derived(base).items = base.items
  BY <1>1, <1>2, DerivedStage, DerivedRow, DerivedLines DEF IsOver
<1>4. /\ recomputeOrderPayableTotals(Derived(base)).status = Derived(base).status
      /\ recomputeOrderPayableTotals(Derived(base)).paymentReference = order.paymentReference
      /\ recomputeOrderPayableTotals(Derived(base)).items = base.items
  BY <1>3, RecomputeType, DerivedLines
<1>5. order' = IF Derived(base).status = "pending_payment"
                  THEN recomputeOrderPayableTotals(Derived(base)) ELSE Derived(base)
  BY DEF cancelExpiredHeldItemsForOrder, SaveWithItems, HoldSlaRow
<1>6. /\ ~IsOver(order')
      /\ order'.status = "pending_payment" <=> order.status = "pending_payment"
      /\ order.status # "pending_payment" => order'.total = order.total
      /\ order'.paymentReference = order.paymentReference
      /\ order'.items = base.items
  BY <1>3, <1>4, <1>5 DEF IsOver
<1>7. returned' = returned \cup l.stores /\ UNCHANGED <<pay, payMethod, charge, amount>>
  BY DEF cancelExpiredHeldItemsForOrder, restoreItemStock, omise
<1>8. \A s \in returned' : order'.items[s] = "cancelled"
  BY <1>1, <1>2, <1>6, <1>7 DEF SerialInv, SerialRows, ReturnedStockIsNotOwed, IsOver
<1>9. ExpiresEffect(l.stores)
  BY <1>1, <1>6, <1>7, <1>8 DEF ExpiresEffect
<1>10. QED
  BY <1>1, <1>9

(* Every step has one of the effects.                                      *)
LEMMA StepHasEffect ==
  ASSUME Serial, SerialInv, [Next]_vars
  PROVE  Effect
<1>1. CASE UNCHANGED vars
  BY <1>1, NothingIsACharge DEF vars, rows, omise
<1>2. CASE \E n \in Attempt : OmiseSettles(n)
  <2>1. ChargeEffect
    BY <1>2 DEF OmiseSettles, ChargeEffect, rows, SerialInv, IndInv, TypeOK
  <2>2. QED
    BY <2>1 DEF Effect
<1>3. ASSUME NEW r \in Req,
             PaymentStart(r) \/ FulfillmentStart(r) \/ HandlerDies(r)
      PROVE  Effect
  BY <1>3, PaymentStartEffect, FulfillmentStartEffect, NothingIsACharge DEF HandlerDies
<1>4. ASSUME NEW r \in Req, PaymentStep(r)
      PROVE  Effect
  <2>1. CASE \/ CreateChargeReject(r) \/ WebhookPayment(r) \/ WebhookFetch(r) \/ ExpireOrder(r)
             \/ StalePaidCheck(r) \/ StalePayments(r) \/ ConfirmBankTransferPayment(r)
    <3>1. UNCHANGED <<rows, omise>>
      BY <2>1 DEF CreateChargeReject, WebhookPayment, WebhookFetch, ExpireOrder,
         StalePaidCheck, StalePayments, ConfirmBankTransferPayment
    <3>2. QED
      BY <3>1, NothingIsACharge
  <2>2. CASE \/ cancelPendingOmiseChargesForOrder(r) \/ PostOmiseCharge(r)
             \/ ExpireCancelCharge(r)
    BY <2>2, OmiseEffect DEF Effect
  <2>3. CASE CreateNonOmisePayment(r) \/ CommitOmiseCharge(r)
    BY <2>3, OpensStepEffect DEF Effect
  <2>4. CASE markOrderPaid(r) \/ confirmBankTransferPaid(r)
    BY <2>4, PaysStepEffect DEF Effect
  <2>5. CASE WebhookFailCommit(r) \/ finalizeExpiredPayment(r)
    BY <2>5, FailsStepEffect DEF Effect
  <2>6. CASE cancelOrderRestoreStockAndFailPayments(r)
    BY <2>6, ClosesStepEffect DEF Effect
  <2>7. QED
    BY <1>4, <2>1, <2>2, <2>3, <2>4, <2>5, <2>6 DEF PaymentStep
<1>5. ASSUME NEW r \in Req, FulfillmentStep(r)
      PROVE  Effect
  <2>1. CASE cancelVendorOrder(r) \/ updateStatus(r)
    BY <2>1, ClosesStepEffect DEF Effect
  <2>2. CASE \/ persistOrderTransition(r) \/ SaveTracking(r)
             \/ applyHoldForOrder(r) \/ restoreHoldForOrder(r)
    BY <2>2, LinesStepEffect DEF Effect
  <2>3. CASE cancelExpiredHeldItemsForOrder(r)
    BY <2>3, ExpiresStepEffect DEF Effect
  <2>4. QED
    BY <1>5, <2>1, <2>2, <2>3 DEF FulfillmentStep
<1>6. QED
  BY <1>1, <1>2, <1>3, <1>4, <1>5 DEF Next

-----------------------------------------------------------------------------
(* What the one handler knows after its step.                              *)

CopiesHold == \A r \in Req : SerialCopy(pc[r], loc[r])

(* The one handler's copy is all there is to look at.                      *)
LEMMA CopyStep ==
  ASSUME Serial, TypeOK, NEW r \in Req, NEW p, NEW k, SerialCopy(p, k)',
         pc' = [pc EXCEPT ![r] = p], loc' = [loc EXCEPT ![r] = k]
  PROVE  CopiesHold'
<1>1. pc'[r] = p /\ loc'[r] = k
  BY DEF TypeOK
<1>2. SerialCopy(pc[r], loc[r])'
  BY <1>1 DEF SerialCopy, SerialCreate, SerialWebhook, SerialSweep, SerialFulfillment
<1>3. QED
  BY <1>2 DEF CopiesHold, Serial

(* A step that stores nothing leaves what holds of a copy as it is.        *)
LEMMA CopyRead ==
  ASSUME NEW p, NEW k, SerialCopy(p, k), UNCHANGED <<rows, omise>>
  PROVE  SerialCopy(p, k)'
BY DEF SerialCopy, SerialCreate, SerialWebhook, SerialSweep, SerialFulfillment, rows, omise,
   IsOver, IsBought, orderHasHeldItems, PendingPayments, OmiseEvents, WebhookIgnores,
   WebhookSettles

(* A step that writes nothing, and goes on with a copy that is the row.    *)
LEMMA CopyReadStep ==
  ASSUME Serial, TypeOK, NEW r \in Req, NEW p, NEW k, SerialCopy(p, k),
         pc' = [pc EXCEPT ![r] = p], loc' = [loc EXCEPT ![r] = k], UNCHANGED <<rows, omise>>
  PROVE  CopiesHold'
BY CopyRead, CopyStep

(* Places where a handler knows nothing that must still be so.             *)
LEMMA CopyFree ==
  ASSUME NEW k
  PROVE  /\ SerialCopy("idle", k) /\ SerialCopy("cc_lock", k) /\ SerialCopy("ex_cancel", k)
         /\ SerialCopy("idle", k)' /\ SerialCopy("cc_lock", k)' /\ SerialCopy("ex_cancel", k)'
BY DEF SerialCopy, SerialCreate, SerialWebhook, SerialSweep, SerialFulfillment, HasOrder

(* A handler that returns knows nothing.                                   *)
LEMMA CopyReturn ==
  ASSUME Serial, TypeOK, NEW r \in Req, Return(r)
  PROVE  CopiesHold'
<1>1. PICK k : k = Idle
  OBVIOUS
<1>2. pc' = [pc EXCEPT ![r] = "idle"] /\ loc' = [loc EXCEPT ![r] = k]
  BY <1>1 DEF Return, Goto
<1>3. SerialCopy("idle", k)'
  BY CopyFree
<1>4. QED
  BY <1>2, <1>3, CopyStep

(* Payment handlers start with the row as it is.                           *)
LEMMA CopyPaymentStarts ==
  ASSUME Serial, SerialInv, NEW r \in Req, PaymentStart(r)
  PROVE  CopiesHold'
<1>1. TypeOK
  BY DEF SerialInv, IndInv
<1>2. ASSUME NEW h, NEW p, NEW k, SerialCopy(p, k), Start(r, h, p, k),
             UNCHANGED <<rows, omise>>
      PROVE  CopiesHold'
  BY <1>1, <1>2, CopyReadStep DEF Start
<1> USE DEF SerialCopy, SerialCreate, SerialWebhook, SerialSweep, SerialFulfillment, HasOrder
<1>3. ASSUME NEW m \in CheckoutMethods, CreateChargeBegin(r, m)
      PROVE  CopiesHold'
  <2>1. PICK k : k = [Idle EXCEPT !.ord = order, !.method = m]
    OBVIOUS
  <2>2. k.ord = order /\ order.status = "pending_payment"
    BY <1>3, <2>1 DEF Idle, CreateChargeBegin, Payable, assertOrderPayableForCreate
  <2>3. SerialCopy("cc_phaseA", k)
    BY <2>2
  <2>4. Start(r, "createCharge", "cc_phaseA", k) /\ UNCHANGED <<rows, omise>>
    BY <1>3, <2>1 DEF CreateChargeBegin
  <2>5. QED
    BY <1>2, <2>3, <2>4
<1>4. CASE WebhookOrder(r)
  <2>1. PICK e \in OmiseEvents(order.paymentReference) :
           Start(r, "webhook", "wh_payment",
                [Idle EXCEPT !.ord = order, !.cid = order.paymentReference,
                             !.key = e[1], !.outcome = e[2]])
    BY <1>4 DEF WebhookOrder
  <2>2. PICK k : k = [Idle EXCEPT !.ord = order, !.cid = order.paymentReference,
                                  !.key = e[1], !.outcome = e[2]]
    OBVIOUS
  <2>3. /\ k.ord = order /\ k.cid = order.paymentReference
        /\ k.key = e[1] /\ k.outcome = e[2]
    BY <2>2 DEF Idle
  <2>4. <<e[1], e[2]>> = e
    BY <2>1 DEF OmiseEvents
  <2>5. SerialCopy("wh_payment", k)
    BY <2>1, <2>3, <2>4
  <2>6. Start(r, "webhook", "wh_payment", k) /\ UNCHANGED <<rows, omise>>
    BY <1>4, <2>1, <2>2 DEF WebhookOrder
  <2>7. QED
    BY <1>2, <2>5, <2>6
<1>5. ASSUME NEW n \in Attempt, ExpireRead(r, n)
      PROVE  CopiesHold'
  <2>1. PICK k : k = [Idle EXCEPT !.pid = n]
    OBVIOUS
  <2>2. k.pid = n /\ pay[n] = "pending" /\ payMethod[n] = "promptpay"
    BY <1>5, <2>1 DEF Idle, ExpireRead
  <2>3. SerialCopy("ex_order", k)
    BY <2>2
  <2>4. Start(r, "expiry", "ex_order", k) /\ UNCHANGED <<rows, omise>>
    BY <1>5, <2>1 DEF ExpireRead
  <2>5. QED
    BY <1>2, <2>3, <2>4
<1>6. CASE StaleRead(r) \/ ConfirmBankTransferOrder(r)
  <2>1. PICK k : k = [Idle EXCEPT !.ord = order]
    OBVIOUS
  <2>2. k.ord = order /\ order.status = "pending_payment"
    BY <1>6, <2>1 DEF Idle, StaleRead, ConfirmBankTransferOrder
  <2>3. CASE StaleRead(r)
    <3>1. SerialCopy("cs_paid", k)
      BY <2>2, <2>3 DEF StaleRead
    <3>2. Start(r, "stale", "cs_paid", k) /\ UNCHANGED <<rows, omise>>
      BY <2>1, <2>3 DEF StaleRead
    <3>3. QED
      BY <1>2, <3>1, <3>2
  <2>4. CASE ConfirmBankTransferOrder(r)
    <3>1. SerialCopy("cb_payment", k)
      BY <2>2
    <3>2. Start(r, "bankTransfer", "cb_payment", k) /\ UNCHANGED <<rows, omise>>
      BY <2>1, <2>4 DEF ConfirmBankTransferOrder
    <3>3. QED
      BY <1>2, <3>1, <3>2
  <2>5. QED
    BY <1>6, <2>3, <2>4
<1>7. QED
  BY <1>3, <1>4, <1>5, <1>6 DEF PaymentStart

(* What a vendor's or the customer's transition is about to save.          *)
LEMMA BoughtCopy ==
  ASSUME SerialInv, NEW row, IsBought(row), NEW k, k.ord = row, ~IsOver(order),
         row.total = order.total, row.paymentReference = order.paymentReference,
         \A s \in returned : row.items[s] = "cancelled"
  PROVE  SerialCopy("persist", k)
BY DEF SerialCopy, SerialCreate, SerialWebhook, SerialSweep, SerialFulfillment, HasOrder

(* An order that was bought stays bought whatever its lines derive.        *)
LEMMA BoughtDerived ==
  ASSUME NEW row \in OrderRow, IsBought(row)
  PROVE  /\ IsBought(Derived(row)) /\ Derived(row).total = row.total
         /\ Derived(row).paymentReference = row.paymentReference
         /\ Derived(row).items = row.items
BY DerivedStage, DerivedRow, DerivedLines DEF IsBought, IsOver

(* A live line becomes another.                                            *)
LEMMA BoughtLine ==
  ASSUME SerialInv, IsBought(order), NEW s \in Stores, order.items[s] # "cancelled",
         NEW to \in FulfillmentStatus, NEW k,
         k.ord = Derived([order EXCEPT !.items[s] = to])
  PROVE  SerialCopy("persist", k)
<1> DEFINE row == [order EXCEPT !.items[s] = to]
<1>1. order \in OrderRow /\ returned \subseteq Stores /\ ~IsOver(order)
  BY DEF SerialInv, IndInv, TypeOK, IsBought, IsOver
<1>2. /\ row \in OrderRow /\ row.status = order.status /\ row.total = order.total
      /\ row.paymentReference = order.paymentReference
      /\ row.items = [order.items EXCEPT ![s] = to]
  BY <1>1 DEF OrderRow
<1>3. \A q \in returned : row.items[q] = "cancelled"
  BY <1>1, <1>2 DEF SerialInv, SerialRows, ReturnedStockIsNotOwed, IsOver, OrderRow
<1>4. IsBought(row)
  BY <1>2 DEF IsBought
<1>5. /\ IsBought(Derived(row)) /\ Derived(row).total = order.total
      /\ Derived(row).paymentReference = order.paymentReference
      /\ Derived(row).items = row.items
  BY <1>2, <1>4, BoughtDerived
<1>6. k.ord = Derived(row) /\ \A q \in returned : Derived(row).items[q] = "cancelled"
  BY <1>3, <1>5
<1> HIDE DEF row
<1>7. QED
  BY <1>1, <1>5, <1>6, BoughtCopy

(* The other handlers start with the row as it is.                         *)
LEMMA CopyFulfillmentStarts ==
  ASSUME Serial, SerialInv, NEW r \in Req, FulfillmentStart(r)
  PROVE  CopiesHold'
<1>1. TypeOK /\ order \in OrderRow /\ returned \subseteq Stores
  BY DEF SerialInv, IndInv, TypeOK
<1>2. ASSUME NEW h, NEW p, NEW k, SerialCopy(p, k), Start(r, h, p, k),
             UNCHANGED <<rows, omise>>
      PROVE  CopiesHold'
  BY <1>1, <1>2, CopyReadStep DEF Start
<1>3. UNCHANGED <<rows, omise>>
  BY DEF FulfillmentStart, markVendorOrderPaid, acknowledgeVendorOrder, shipVendorOrder,
     updateTrackingForPublicApi, ApplyHoldRead, RestoreHoldRead, confirmOrderDelivered,
     VendorCancelRead, updateStatusRead, HoldSlaRead
<1>4. ~IsOver(order) => \A s \in returned : order.items[s] = "cancelled"
  BY DEF SerialInv, SerialRows, ReturnedStockIsNotOwed, IsOver
<1>5. ASSUME NEW s \in Stores, order.items[s] = "on_hold"
      PROVE  ~IsOver(order)
  BY <1>5 DEF SerialInv, SerialRows, OverIsReleased, orderHasHeldItems
<1>6. CASE markVendorOrderPaid(r)
  <2> DEFINE row == [order EXCEPT !.status = "paid", !.paidAt = TRUE]
  <2>1. /\ row \in OrderRow /\ IsBought(row) /\ row.items = order.items
        /\ row.total = order.total /\ row.paymentReference = order.paymentReference
    BY <1>1 DEF OrderRow, OrderStatus, IsBought, TERMINAL_ORDER_STATUSES
  <2>2. ~IsOver(order)
    BY <1>6 DEF markVendorOrderPaid, IsOver, TERMINAL_ORDER_STATUSES
  <2>3. PICK k : k = [Idle EXCEPT !.ord = Derived(row)]
    OBVIOUS
  <2>4. k.ord = Derived(row)
    BY <2>3 DEF Idle
  <2>5. /\ IsBought(Derived(row)) /\ Derived(row).total = order.total
        /\ Derived(row).paymentReference = order.paymentReference
        /\ \A s \in returned : Derived(row).items[s] = "cancelled"
    BY <1>4, <2>1, <2>2, BoughtDerived
  <2>6. SerialCopy("persist", k)
    BY <2>2, <2>4, <2>5, BoughtCopy
  <2>7. Start(r, "vendorPaid", "persist", k)
    BY <1>6, <2>3 DEF markVendorOrderPaid
  <2>8. QED
    BY <1>2, <1>3, <2>6, <2>7
<1>7. ASSUME NEW s \in Stores, acknowledgeVendorOrder(r, s)
      PROVE  CopiesHold'
  <2>1. PICK k : k = [Idle EXCEPT !.ord = Derived([order EXCEPT !.items[s] = "processing"])]
    OBVIOUS
  <2>2. k.ord = Derived([order EXCEPT !.items[s] = "processing"])
    BY <2>1 DEF Idle
  <2>3. IsBought(order) /\ order.items[s] # "cancelled" /\ "processing" \in FulfillmentStatus
    BY <1>7 DEF acknowledgeVendorOrder, IsBought, TERMINAL_ORDER_STATUSES, FulfillmentStatus
  <2>4. SerialCopy("persist", k)
    BY <2>2, <2>3, BoughtLine
  <2>5. Start(r, "acknowledge", "persist", k)
    BY <1>7, <2>1 DEF acknowledgeVendorOrder
  <2>6. QED
    BY <1>2, <1>3, <2>4, <2>5
<1>8. ASSUME NEW s \in Stores, shipVendorOrder(r, s)
      PROVE  CopiesHold'
  <2>1. PICK k : k = [Idle EXCEPT !.ord = Derived([order EXCEPT !.items[s] = "shipped"])]
    OBVIOUS
  <2>2. k.ord = Derived([order EXCEPT !.items[s] = "shipped"])
    BY <2>1 DEF Idle
  <2>3. IsBought(order) /\ order.items[s] # "cancelled" /\ "shipped" \in FulfillmentStatus
    BY <1>8 DEF shipVendorOrder, IsBought, TERMINAL_ORDER_STATUSES, FulfillmentStatus
  <2>4. SerialCopy("persist", k)
    BY <2>2, <2>3, BoughtLine
  <2>5. Start(r, "ship", "persist", k)
    BY <1>8, <2>1 DEF shipVendorOrder
  <2>6. QED
    BY <1>2, <1>3, <2>4, <2>5
<1>9. CASE confirmOrderDelivered(r)
  <2> DEFINE row == [order EXCEPT !.status = "delivered",
                                  !.items = [s \in Stores |-> "delivered"]]
  <2>1. /\ row.status = "delivered" /\ row.total = order.total
        /\ row.paymentReference = order.paymentReference
    BY <1>1 DEF OrderRow
  <2>2. ~IsOver(order) /\ IsBought(row)
    BY <1>9, <2>1 DEF confirmOrderDelivered, IsOver, IsBought, TERMINAL_ORDER_STATUSES
  <2>3. \A s \in Stores : order.items[s] # "cancelled"
    BY <1>9 DEF confirmOrderDelivered, Statuses
  <2>4. returned = {}
    BY <1>1, <1>4, <2>2, <2>3
  <2>5. PICK k : k = [Idle EXCEPT !.ord = row]
    OBVIOUS
  <2>6. k.ord = row
    BY <2>5 DEF Idle
  <2> HIDE DEF row
  <2>7. SerialCopy("persist", k)
    BY <2>1, <2>2, <2>4, <2>6, BoughtCopy
  <2>8. Start(r, "deliver", "persist", k)
    BY <1>9, <2>5 DEF confirmOrderDelivered, row
  <2>9. QED
    BY <1>2, <1>3, <2>7, <2>8
<1> USE DEF SerialCopy, SerialCreate, SerialWebhook, SerialSweep, SerialFulfillment, HasOrder
<1>10. ASSUME NEW s \in Stores, updateTrackingForPublicApi(r, s)
       PROVE  CopiesHold'
  <2>1. PICK k : k = [Idle EXCEPT !.stores = {s}]
    OBVIOUS
  <2>2. k.stores = {s} /\ order.items[s] = "shipped"
    BY <1>10, <2>1 DEF Idle, updateTrackingForPublicApi
  <2>3. SerialCopy("tr_commit", k)
    BY <2>2
  <2>4. Start(r, "tracking", "tr_commit", k)
    BY <1>10, <2>1 DEF updateTrackingForPublicApi
  <2>5. QED
    BY <1>2, <1>3, <2>3, <2>4
<1>11. ASSUME NEW s \in Stores, ApplyHoldRead(r, s)
       PROVE  CopiesHold'
  <2>1. PICK k : k = [Idle EXCEPT !.ord = order, !.stores = {s}]
    OBVIOUS
  <2>2. /\ k.ord = order /\ k.stores = {s} /\ order.status \in HOLD_ELIGIBLE_ORDER_STATUSES
        /\ order.items[s] \in HOLD_ELIGIBLE_FULFILLMENT
    BY <1>11, <2>1 DEF Idle, ApplyHoldRead
  <2>3. SerialCopy("ha_commit", k)
    BY <2>2
  <2>4. Start(r, "applyHold", "ha_commit", k)
    BY <1>11, <2>1 DEF ApplyHoldRead
  <2>5. QED
    BY <1>2, <1>3, <2>3, <2>4
<1>12. ASSUME NEW s \in Stores, RestoreHoldRead(r, s)
       PROVE  CopiesHold'
  <2>1. PICK k : k = [Idle EXCEPT !.ord = order, !.stores = {s}]
    OBVIOUS
  <2>2. k.ord = order /\ k.stores = {s} /\ order.items[s] = "on_hold"
    BY <1>12, <2>1 DEF Idle, RestoreHoldRead
  <2>3. SerialCopy("hr_commit", k)
    BY <1>5, <2>2
  <2>4. Start(r, "restoreHold", "hr_commit", k)
    BY <1>12, <2>1 DEF RestoreHoldRead
  <2>5. QED
    BY <1>2, <1>3, <2>3, <2>4
<1>13. ASSUME NEW S \in SUBSET Stores, HoldSlaRead(r, S)
       PROVE  CopiesHold'
  <2>1. PICK k : k = [Idle EXCEPT !.ord = order, !.stores = S]
    OBVIOUS
  <2>2. k.ord = order /\ k.stores = S /\ S # {} /\ \A s \in S : order.items[s] = "on_hold"
    BY <1>13, <2>1 DEF Idle, HoldSlaRead
  <2>3. SerialCopy("sla_commit", k)
    BY <1>5, <2>2
  <2>4. Start(r, "holdSla", "sla_commit", k)
    BY <1>13, <2>1 DEF HoldSlaRead
  <2>5. QED
    BY <1>2, <1>3, <2>3, <2>4
<1>14. CASE VendorCancelRead(r)
  <2> DEFINE row == [order EXCEPT !.status = "cancelled", !.items = AllCancelled,
                                  !.heldFrom = NoneHeld]
  <2>1. /\ row.status = "cancelled" /\ row.items = AllCancelled /\ row.total = order.total
        /\ row.paymentReference = order.paymentReference
    BY <1>1 DEF OrderRow
  <2>2. IsOver(row) /\ ~orderHasHeldItems(row)
    BY <2>1 DEF IsOver, orderHasHeldItems, TERMINAL_ORDER_STATUSES, AllCancelled
  <2>3. PICK k : k = [Idle EXCEPT !.ord = row]
    OBVIOUS
  <2>4. k.ord = row
    BY <2>3 DEF Idle
  <2> HIDE DEF row
  <2>5. SerialCopy("vc_commit", k)
    BY <2>1, <2>2, <2>4
  <2>6. Start(r, "vendorCancel", "vc_commit", k)
    BY <1>14, <2>3 DEF VendorCancelRead, row
  <2>7. QED
    BY <1>2, <1>3, <2>5, <2>6
<1>15. ASSUME NEW t \in AdminTargets, updateStatusRead(r, t)
       PROVE  CopiesHold'
  <2> DEFINE row == AdminRow(order, t)
  <2>1. /\ row.status = t /\ row.total = order.total
        /\ row.paymentReference = order.paymentReference
        /\ t \in TERMINAL_ORDER_STATUSES
        /\ row.items = IF order.status = "on_hold" \/ orderHasHeldItems(order)
                          THEN AllCancelled ELSE order.items
    BY <1>1 DEF AdminRow, OrderRow, Serial
  <2>2. IsOver(row) /\ ~orderHasHeldItems(row)
    BY <2>1 DEF IsOver, orderHasHeldItems, AllCancelled
  <2>3. PICK k : k = [Idle EXCEPT !.ord = row, !.target = t]
    OBVIOUS
  <2>4. k.ord = row /\ k.target = t
    BY <2>3 DEF Idle
  <2> HIDE DEF row
  <2>5. SerialCopy("au_commit", k)
    BY <2>1, <2>2, <2>4
  <2>6. Start(r, "admin", "au_commit", k)
    BY <1>15, <2>3 DEF updateStatusRead, row
  <2>7. QED
    BY <1>2, <1>3, <2>5, <2>6
<1>16. QED
  BY <1>6, <1>7, <1>8, <1>9, <1>10, <1>11, <1>12, <1>13, <1>14, <1>15 DEF FulfillmentStart

(* Handlers that read on.                                                  *)
LEMMA CopyPaymentReads ==
  ASSUME Serial, SerialInv, NEW r \in Req,
         \/ WebhookPayment(r) \/ WebhookFetch(r) \/ ExpireOrder(r)
         \/ StalePaidCheck(r) \/ StalePayments(r) \/ ConfirmBankTransferPayment(r)
  PROVE  CopiesHold'
<1> DEFINE l == loc[r]
<1>1. /\ TypeOK /\ l \in Local /\ SerialCopy(pc[r], l)
      /\ pc[r] \in KnowsCharge => l.cid \in Attempt
      /\ pay \in [Attempt -> PaymentStatus]
  BY DEF SerialInv, IndInv, TypeOK
<1>2. ASSUME NEW p, NEW k, SerialCopy(p, k), Goto(r, p, k), UNCHANGED <<rows, omise>>
      PROVE  CopiesHold'
  BY <1>1, <1>2, CopyReadStep DEF Goto
<1>3. ASSUME Return(r) PROVE CopiesHold'
  BY <1>1, <1>3, CopyReturn
<1>4. UNCHANGED <<rows, omise>>
  BY DEF WebhookPayment, WebhookFetch, ExpireOrder, StalePaidCheck, StalePayments,
     ConfirmBankTransferPayment
<1> USE DEF SerialCopy, SerialCreate, SerialWebhook, SerialSweep, SerialFulfillment, HasOrder
<1>5. CASE WebhookPayment(r)
  <2>1. PICK n \in Attempt \cup {NoAttempt} :
           /\ IsLatestPayment(n)
           /\ IF WebhookIgnores(l, n) THEN Return(r)
                                      ELSE Goto(r, "wh_fetch", [l EXCEPT !.pid = n])
    BY <1>5 DEF WebhookPayment
  <2>2. /\ l.cid \in Attempt /\ l.cid = order.paymentReference /\ l.ord = order
        /\ <<l.key, l.outcome>> \in OmiseEvents(l.cid)
    BY <1>1, <1>5 DEF WebhookPayment, KnowsCharge
  <2>3. pay[l.cid] # "none" /\ \A m \in Attempt : m > l.cid => pay[m] = "none"
    BY <2>2 DEF SerialInv, SerialRows, ReferenceIsLatest, IndInv, GoodRow
  <2>4. n = l.cid
    BY <2>1, <2>2, <2>3, AttemptFacts DEF IsLatestPayment, NoAttempt
  <2>5. CASE WebhookIgnores(l, n)
    BY <1>3, <2>1, <2>5
  <2>6. CASE ~WebhookIgnores(l, n)
    <3>1. PICK k : k = [l EXCEPT !.pid = n]
      OBVIOUS
    <3>2. /\ k.pid = n /\ k.cid = l.cid /\ k.ord = l.ord
          /\ k.key = l.key /\ k.outcome = l.outcome
      BY <1>1, <3>1 DEF Local
    <3>3. ~WebhookIgnores(k, n)
      BY <2>6, <3>2 DEF WebhookIgnores
    <3>4. k.ord = order /\ SerialWebhook("wh_fetch", k)
      BY <2>2, <2>4, <3>2, <3>3
    <3>5. SerialCopy("wh_fetch", k)
      BY <2>2, <2>4, <3>2, <3>4
    <3>6. QED
      BY <1>2, <1>4, <2>1, <2>6, <3>1, <3>5, ZenonT(30)
  <2>7. QED
    BY <2>5, <2>6
<1>6. CASE WebhookFetch(r)
  <2>1. /\ l.cid \in Attempt /\ l.cid = order.paymentReference /\ l.ord = order
        /\ <<l.key, l.outcome>> \in OmiseEvents(l.cid)
        /\ l.pid = l.cid /\ ~WebhookIgnores(l, l.pid)
    BY <1>1, <1>6 DEF WebhookFetch, KnowsCharge
  <2>2. PICK k : k = l
    OBVIOUS
  <2>3. CASE WebhookSettles(l)
    <3>1. pay[l.cid] # "none" /\ pay[l.cid] # "paid" /\ ~IsOver(order)
      BY <2>1, <2>3 DEF SerialInv, IndInv, GoodRow, WebhookIgnores, WebhookSettles, IsOver
    <3>2. pay[l.cid] # "failed"
      BY <2>1, <2>3, <3>1 DEF SerialInv, SerialRows, ReferenceIsLatest, WebhookSettles
    <3>3. pay[l.pid] = "pending"
      BY <1>1, <2>1, <3>1, <3>2 DEF PaymentStatus
    <3>4. SerialCopy("wh_paid", k)
      BY <2>1, <2>2, <2>3, <3>3
    <3>5. Goto(r, "wh_paid", k)
      BY <1>6, <2>2, <2>3 DEF WebhookFetch, WebhookSettles
    <3>6. QED
      BY <1>2, <1>4, <3>4, <3>5
  <2>4. CASE ~WebhookSettles(l) /\ (l.key = "charge.fail" \/ charge[l.cid] = "failed")
    <3>1. charge[l.cid] = "failed"
      BY <2>1, <2>4 DEF OmiseEvents
    <3>2. SerialCopy("wh_failed", k)
      BY <2>1, <2>2, <3>1
    <3>3. Goto(r, "wh_failed", k)
      BY <1>6, <2>2, <2>4 DEF WebhookFetch
    <3>4. QED
      BY <1>2, <1>4, <3>2, <3>3
  <2>5. CASE ~WebhookSettles(l) /\ ~(l.key = "charge.fail" \/ charge[l.cid] = "failed")
    <3>1. Return(r)
      BY <1>6, <2>5 DEF WebhookFetch
    <3>2. QED
      BY <1>3, <3>1
  <2>6. QED
    BY <2>3, <2>4, <2>5
<1>7. CASE ExpireOrder(r)
  <2>1. pay[l.pid] = "pending" /\ payMethod[l.pid] = "promptpay"
    BY <1>1, <1>7 DEF ExpireOrder
  <2>2. PICK k : k = [l EXCEPT !.ord = order]
    OBVIOUS
  <2>3. k.ord = order /\ k.pid = l.pid
    BY <1>1, <2>2 DEF Local
  <2>4. SerialCopy("ex_commit", k)
    BY <2>1, <2>3
  <2>5. Return(r) \/ Goto(r, "ex_commit", k)
    BY <1>7, <2>2 DEF ExpireOrder
  <2>6. QED
    BY <1>2, <1>3, <1>4, <2>4, <2>5
<1>8. CASE StalePaidCheck(r)
  <2>1. l.ord = order /\ order.status = "pending_payment" /\ ~orderHasHeldItems(order)
    BY <1>1, <1>8 DEF StalePaidCheck
  <2>2. PICK k : k = l
    OBVIOUS
  <2>3. SerialCopy("cs_list", k)
    BY <2>1, <2>2
  <2>4. Return(r) \/ Goto(r, "cs_list", k)
    BY <1>8, <2>2 DEF StalePaidCheck
  <2>5. QED
    BY <1>2, <1>3, <1>4, <2>3, <2>4
<1>9. CASE StalePayments(r)
  <2>1. l.ord = order /\ order.status = "pending_payment" /\ ~orderHasHeldItems(order)
    BY <1>1, <1>9 DEF StalePayments
  <2>2. PICK k : k = [l EXCEPT !.pays = PendingPayments]
    OBVIOUS
  <2>3. k.ord = order /\ k.pays = PendingPayments
    BY <1>1, <2>1, <2>2 DEF Local
  <2>4. SerialCopy("cs_commit", k)
    BY <2>1, <2>3
  <2>5. Goto(r, "cs_commit", k)
    BY <1>9, <2>2 DEF StalePayments
  <2>6. QED
    BY <1>2, <1>4, <2>4, <2>5
<1>10. CASE ConfirmBankTransferPayment(r)
  <2>1. PICK n \in Attempt \cup {NoAttempt} :
           /\ IsLatestPayment(n)
           /\ IF ConfirmableBankTransfer(n) THEN Goto(r, "cb_commit", [l EXCEPT !.pid = n])
                                            ELSE Return(r)
    BY <1>10 DEF ConfirmBankTransferPayment
  <2>2. l.ord = order /\ order.status = "pending_payment"
    BY <1>1, <1>10 DEF ConfirmBankTransferPayment
  <2>3. CASE ConfirmableBankTransfer(n)
    <3>1. n \in Attempt /\ pay[n] # "paid" /\ pay[n] # "none" /\ payMethod[n] = "bank_transfer"
      BY <2>1, <2>3 DEF ConfirmableBankTransfer, IsLatestPayment
    <3>2. pay[n] # "failed"
      BY <2>1, <2>2, <3>1
      DEF SerialInv, SerialRows, TransferStaysOpen, IsLatestPayment, IsOver, TERMINAL_ORDER_STATUSES
    <3>3. pay[n] = "pending"
      BY <1>1, <3>1, <3>2 DEF PaymentStatus
    <3>4. PICK k : k = [l EXCEPT !.pid = n]
      OBVIOUS
    <3>5. k.ord = order /\ k.pid = n
      BY <1>1, <2>2, <3>4 DEF Local
    <3>6. SerialCopy("cb_commit", k)
      BY <2>2, <3>1, <3>3, <3>5
    <3>7. QED
      BY <1>2, <1>4, <2>1, <2>3, <3>4, <3>6
  <2>4. CASE ~ConfirmableBankTransfer(n)
    BY <1>3, <2>1, <2>4
  <2>5. QED
    BY <2>3, <2>4
<1>11. QED
  BY <1>5, <1>6, <1>7, <1>8, <1>9, <1>10

(* createCharge: from the charge at Omise to its commit, and on to paid.   *)
LEMMA CopyCreates ==
  ASSUME Serial, SerialInv, NEW r \in Req, PostOmiseCharge(r) \/ CommitOmiseCharge(r)
  PROVE  CopiesHold'
<1> DEFINE l == loc[r]
<1>1. /\ TypeOK /\ l \in Local /\ SerialCopy(pc[r], l) /\ order \in OrderRow
      /\ pc[r] \in KnowsPayment => l.pid \in Attempt
      /\ pay \in [Attempt -> PaymentStatus]
      /\ charge \in [Attempt -> ChargeStatus]
      /\ payMethod \in [Attempt -> PaymentMethod]
      /\ amount \in [Attempt -> Nat]
  BY DEF SerialInv, IndInv, TypeOK
<1> USE DEF SerialCopy, SerialCreate, SerialWebhook, SerialSweep, SerialFulfillment, HasOrder
<1>2. CASE PostOmiseCharge(r)
  <2> DEFINE n == attempts + 1
             m == l.method
  <2>1. PICK s \in ChargeStatus :
           /\ charge' = [charge EXCEPT ![n] = s]
           /\ Goto(r, "cc_commit", [l EXCEPT !.ord = order, !.pid = n,
                                             !.cid = n, !.outcome = s])
    BY <1>2 DEF PostOmiseCharge, ChargeStatus
  <2>2. /\ m \notin NonOmiseMethod /\ Payable /\ attempts < MaxAttempts
        /\ payMethod' = [payMethod EXCEPT ![n] = m]
        /\ amount' = [amount EXCEPT ![n] = order.total]
        /\ order' = order
    BY <1>2, Zenon DEF PostOmiseCharge, LockForCreate
  <2>3. n \in Attempt /\ order.status = "pending_payment"
    BY <2>2, NextAttempt DEF SerialInv, Payable, assertOrderPayableForCreate
  <2>4. PICK k : k = [l EXCEPT !.ord = order, !.pid = n, !.cid = n, !.outcome = s]
    OBVIOUS
  <2>5. k.ord = order /\ k.pid = n /\ k.cid = n /\ k.outcome = s /\ k.method = m
    BY <1>1, <2>4 DEF Local
  <2>6. payMethod'[k.pid] = m /\ amount'[k.pid] = order.total /\ charge'[k.pid] = s
    BY <1>1, <2>1, <2>2, <2>3, <2>5
  <2>7. SerialCopy("cc_commit", k)'
    BY <2>2, <2>3, <2>5, <2>6
  <2>8. pc' = [pc EXCEPT ![r] = "cc_commit"] /\ loc' = [loc EXCEPT ![r] = k]
    BY <2>1, <2>4 DEF Goto
  <2>9. QED
    BY <1>1, <2>7, <2>8, CopyStep
<1>3. CASE CommitOmiseCharge(r)
  <2> DEFINE n == l.pid
             row == [l.ord EXCEPT !.paymentMethod = l.method, !.paymentReference = n]
  <2>1. /\ n \in Attempt /\ n = l.cid /\ l.ord = order /\ order.status = "pending_payment"
        /\ payMethod[n] \notin NonOmiseMethod /\ amount[n] = order.total
        /\ l.outcome = "successful" => charge[n] = "successful"
    BY <1>1, <1>3 DEF CommitOmiseCharge, KnowsPayment
  <2>2. CASE l.outcome = "successful"
    <3>1. PICK k : k = [l EXCEPT !.ord = row]
      OBVIOUS
    <3>2. k.ord = row /\ k.pid = n /\ k.cid = n /\ k.outcome = "successful"
      BY <1>1, <2>1, <2>2, <3>1 DEF Local
    <3>3. order' = row /\ UNCHANGED <<payMethod, charge, amount>>
      BY <1>3 DEF CommitOmiseCharge, SaveWithItems, omise
    <3>4. row.status = "pending_payment" /\ row.total = order.total /\ row.paymentReference = n
      BY <1>1, <2>1 DEF OrderRow
    <3>5. pay'[n] = "pending"
      BY <1>3, <2>1, <2>2 DEF CommitOmiseCharge, Unpaid
    <3> HIDE DEF row
    <3>6. SerialCopy("cc_paid", k)'
      BY <2>1, <2>2, <3>2, <3>3, <3>4, <3>5
    <3>7. pc' = [pc EXCEPT ![r] = "cc_paid"] /\ loc' = [loc EXCEPT ![r] = k]
      BY <1>3, <2>2, <3>1 DEF CommitOmiseCharge, Goto, row
    <3>8. QED
      BY <1>1, <3>6, <3>7, CopyStep
  <2>3. CASE l.outcome # "successful"
    <3>1. Return(r)
      BY <1>3, <2>3 DEF CommitOmiseCharge
    <3>2. QED
      BY <1>1, <3>1, CopyReturn
  <2>4. QED
    BY <2>2, <2>3
<1>4. QED
  BY <1>2, <1>3

(* Omise moves only charges it has not told anyone about.                  *)
LEMMA CopyOmiseSettles ==
  ASSUME SerialInv, NEW n \in Attempt, OmiseSettles(n)
  PROVE  CopiesHold'
<1>1. /\ UNCHANGED <<order, returned, pay, payMethod, amount, pc, loc>>
      /\ charge \in [Attempt -> ChargeStatus]
      /\ \A m \in Attempt : charge[m] # "pending" => charge'[m] = charge[m]
  BY DEF OmiseSettles, rows, SerialInv, IndInv, TypeOK
<1> SUFFICES ASSUME NEW r \in Req
             PROVE  SerialCopy(pc[r], loc[r])'
  BY DEF CopiesHold
<1> DEFINE p == pc[r]
           l == loc[r]
<1>2. /\ SerialCopy(p, l)
      /\ p \in KnowsPayment => l.pid \in Attempt
      /\ p \in KnowsCharge => l.cid \in Attempt
      /\ p' = p /\ l' = l
  BY <1>1 DEF SerialInv, IndInv, TypeOK
<1>3. p \in HasOrder => l.ord = order'
  BY <1>1, <1>2 DEF SerialCopy
<1>4. SerialCreate(p, l)'
  BY <1>1, <1>2 DEF SerialCopy, SerialCreate, KnowsPayment
<1>5. SerialWebhook(p, l)'
  <2>1. ASSUME p \in {"wh_payment", "wh_fetch", "wh_paid", "wh_failed"}
        PROVE  /\ l.cid \in Attempt /\ charge[l.cid] # "pending"
               /\ OmiseEvents(l.cid)' = OmiseEvents(l.cid)
    <3>1. l.cid \in Attempt /\ <<l.key, l.outcome>> \in OmiseEvents(l.cid)
      BY <1>2, <2>1 DEF SerialCopy, SerialWebhook, KnowsCharge
    <3>2. charge[l.cid] # "pending"
      BY <3>1 DEF OmiseEvents
    <3>3. charge'[l'.cid] = charge[l.cid]
      BY <1>1, <1>2, <3>1, <3>2
    <3>4. QED
      BY <3>1, <3>2, <3>3 DEF OmiseEvents
  <2>2. WebhookIgnores(l, l.pid)' <=> WebhookIgnores(l, l.pid)
    BY <1>1, <1>2 DEF WebhookIgnores
  <2>3. p \in {"wh_paid", "wh_failed"} => charge'[l'.cid] = charge[l.cid]
    BY <1>1, <1>2, <2>1
  <2>4. QED
    BY <1>1, <1>2, <2>1, <2>2, <2>3 DEF SerialCopy, SerialWebhook, WebhookSettles
<1>6. SerialSweep(p, l)' /\ SerialFulfillment(p, l)'
  BY <1>1, <1>2 DEF SerialCopy, SerialSweep, SerialFulfillment, orderHasHeldItems,
     PendingPayments, IsBought, IsOver
<1>7. QED
  BY <1>2, <1>3, <1>4, <1>5, <1>6 DEF SerialCopy

(* Every step leaves the handler with a copy that is the row.              *)
LEMMA CopiesNext ==
  ASSUME Serial, SerialInv, [Next]_vars
  PROVE  CopiesHold'
<1>1. TypeOK
  BY DEF SerialInv, IndInv
<1>2. CASE UNCHANGED vars
  BY <1>2 DEF vars, SerialInv, CopiesHold, SerialCopy, SerialCreate, SerialWebhook,
     SerialSweep, SerialFulfillment, IsOver, IsBought, orderHasHeldItems, PendingPayments,
     OmiseEvents, WebhookIgnores, WebhookSettles
<1>3. CASE \E n \in Attempt : OmiseSettles(n)
  BY <1>3, CopyOmiseSettles
<1>4. ASSUME NEW r \in Req, PaymentStart(r) \/ FulfillmentStart(r) \/ HandlerDies(r)
      PROVE  CopiesHold'
  BY <1>1, <1>4, CopyPaymentStarts, CopyFulfillmentStarts, CopyReturn DEF HandlerDies
<1>5. ASSUME NEW r \in Req, PaymentStep(r)
      PROVE  CopiesHold'
  <2>1. CASE \/ WebhookPayment(r) \/ WebhookFetch(r) \/ ExpireOrder(r)
             \/ StalePaidCheck(r) \/ StalePayments(r) \/ ConfirmBankTransferPayment(r)
    BY <2>1, CopyPaymentReads
  <2>2. CASE PostOmiseCharge(r) \/ CommitOmiseCharge(r)
    BY <2>2, CopyCreates
  <2>3. CASE \/ CreateChargeReject(r) \/ CreateNonOmisePayment(r) \/ markOrderPaid(r)
             \/ WebhookFailCommit(r) \/ ExpireCancelCharge(r)
             \/ cancelOrderRestoreStockAndFailPayments(r) \/ confirmBankTransferPaid(r)
    <3>1. Return(r)
      BY <2>3 DEF CreateChargeReject, CreateNonOmisePayment, markOrderPaid, WebhookFailCommit,
         ExpireCancelCharge, cancelOrderRestoreStockAndFailPayments, confirmBankTransferPaid
    <3>2. QED
      BY <1>1, <3>1, CopyReturn
  <2>4. CASE cancelPendingOmiseChargesForOrder(r) \/ finalizeExpiredPayment(r)
    <3>1. PICK p, k : p \in {"cc_lock", "ex_cancel"} /\ Goto(r, p, k)
      BY <2>4 DEF cancelPendingOmiseChargesForOrder, finalizeExpiredPayment
    <3>2. SerialCopy(p, k)'
      BY <3>1, CopyFree
    <3>3. QED
      BY <1>1, <3>1, <3>2, CopyStep DEF Goto
  <2>5. QED
    BY <1>5, <2>1, <2>2, <2>3, <2>4 DEF PaymentStep
<1>6. ASSUME NEW r \in Req, FulfillmentStep(r)
      PROVE  CopiesHold'
  <2>1. Return(r)
    BY <1>6 DEF FulfillmentStep, persistOrderTransition, SaveTracking, cancelVendorOrder,
       updateStatus, applyHoldForOrder, restoreHoldForOrder, cancelExpiredHeldItemsForOrder
  <2>2. QED
    BY <1>1, <2>1, CopyReturn
<1>7. QED
  BY <1>2, <1>3, <1>4, <1>5, <1>6 DEF Next

-----------------------------------------------------------------------------
(* Every effect is a step of the contract, or none.                        *)

(* The three stages of the contract are the statuses of the order.         *)
LEMMA StageOf ==
  ASSUME NEW row
  PROVE  /\ Stage(row) = "unpaid" <=> row.status = "pending_payment"
         /\ Stage(row) = "over" <=> IsOver(row)
         /\ Stage(row) = "bought" <=> IsBought(row)
         /\ Stage(row) \in {"unpaid", "over", "bought"}
BY DEF Stage, IsOver, IsBought, TERMINAL_ORDER_STATUSES

(* Every effect is a step of the contract, or none.                        *)
LEMMA EffectImplements ==
  ASSUME SerialInv, Effect
  PROVE  [Contract!Next]_(Contract!vars)
<1> DEFINE paid == {n \in Attempt : pay[n] = "paid"}
           stage == Stage(order)
<1>1. IndInv /\ SerialRows
  BY DEF SerialInv
<1>2. stage' = Stage(order')
  BY DEF Stage
<1>3. ASSUME stage' = stage, PendingPayments' = PendingPayments, paid' = paid, returned' = returned
      PROVE  Contract!vars' = Contract!vars
  BY <1>3 DEF Contract!vars
<1>4. CASE ChargeEffect
  BY <1>2, <1>3, <1>4 DEF ChargeEffect, PendingPayments
<1>5. ASSUME NEW n \in Attempt, OpensEffect(n)
      PROVE  Contract!Try(n)
  <2>1. stage = "unpaid" /\ stage' = stage /\ returned' = returned
    BY <1>2, <1>5, StageOf DEF OpensEffect
  <2>2. paid = {}
    BY <1>1, <1>5 DEF OpensEffect, SerialRows, PaidIsLatest, PaidPayments
  <2>3. \A m \in PendingPayments : m < n
    BY <1>5, AttemptFacts DEF OpensEffect, PendingPayments
  <2>4. \A k \in Attempt \ {n} : pay'[k] # "pending" /\ pay'[k] # "paid"
    BY <1>5, <2>2 DEF OpensEffect
  <2>5. PendingPayments' \in {{n}, {}}
    <3>1. PendingPayments' = IF pay'[n] = "pending" THEN {n} ELSE {}
      BY <2>4 DEF PendingPayments
    <3>2. QED
      BY <3>1
  <2>6. paid' = paid
    BY <1>5, <2>2, <2>4 DEF OpensEffect
  <2>7. QED
    BY <2>1, <2>2, <2>3, <2>5, <2>6 DEF Contract!Try
<1>6. ASSUME NEW n \in Attempt, PaysEffect(n)
      PROVE  Contract!Pay(n)
  <2>1. stage # "over" /\ stage' = "bought" /\ returned' = returned
    BY <1>2, <1>6, StageOf DEF PaysEffect
  <2>2. n \in PendingPayments /\ paid = {}
    BY <1>1, <1>6, OneLivePayment DEF PaysEffect, PendingPayments
  <2>3. pay'[n] = "paid" /\ \A k \in Attempt \ {n} : pay'[k] = pay[k]
    BY <1>1, <1>6 DEF PaysEffect, IndInv, TypeOK
  <2>4. PendingPayments' = PendingPayments \ {n}
    BY <2>3 DEF PendingPayments
  <2>5. paid' = {n}
    BY <2>2, <2>3
  <2>6. QED
    BY <2>1, <2>2, <2>4, <2>5 DEF Contract!Pay
<1>7. ASSUME NEW n \in Attempt, FailsEffect(n)
      PROVE  Contract!GiveUp(n) \/ Contract!vars' = Contract!vars
  <2>1. order'.status = order.status
    BY <1>1, <1>7 DEF FailsEffect, IndInv, TypeOK, OrderRow
  <2>2. stage' = stage /\ returned' = returned
    BY <1>2, <1>7, <2>1 DEF FailsEffect, Stage
  <2>3. pay'[n] = "failed" /\ \A k \in Attempt \ {n} : pay'[k] = pay[k]
    BY <1>1, <1>7 DEF FailsEffect, IndInv, TypeOK
  <2>4. PendingPayments' = PendingPayments \ {n} /\ paid' = paid
    BY <1>7, <2>3 DEF PendingPayments, FailsEffect
  <2>5. CASE pay[n] = "pending"
    BY <2>2, <2>4, <2>5 DEF Contract!GiveUp, PendingPayments
  <2>6. CASE pay[n] # "pending"
    BY <1>3, <2>2, <2>4, <2>6 DEF PendingPayments
  <2>7. QED
    BY <2>5, <2>6
<1>8. CASE ClosesEffect
  <2>1. stage' = "over" /\ returned' = Stores
    BY <1>2, <1>8, StageOf DEF ClosesEffect
  <2>2. PendingPayments' \subseteq PendingPayments /\ paid' = paid
    BY <1>8 DEF ClosesEffect, PendingPayments, Unpaid
  <2>3. QED
    BY <2>1, <2>2 DEF Contract!Close, Contract!Next
<1>9. CASE LinesEffect
  <2>1. PendingPayments' = PendingPayments /\ paid' = paid /\ returned' = returned
    BY <1>9 DEF LinesEffect, PendingPayments
  <2>2. stage' = stage \/ (stage = "unpaid" /\ stage' = "bought")
    BY <1>2, <1>9, StageOf DEF LinesEffect, IsOver, IsBought
  <2>3. QED
    BY <1>3, <2>1, <2>2 DEF Contract!SettleByHand, Contract!Next
<1>10. ASSUME NEW S \in SUBSET Stores, ExpiresEffect(S)
       PROVE  Contract!Release(S)
  <2>1. PendingPayments' = PendingPayments /\ paid' = paid
    BY <1>10 DEF ExpiresEffect, PendingPayments
  <2>2. stage # "over" /\ stage' = stage
    BY <1>2, <1>10, StageOf DEF ExpiresEffect
  <2>3. QED
    BY <1>10, <2>1, <2>2 DEF Contract!Release, ExpiresEffect
<1>11. QED
  BY <1>4, <1>5, <1>6, <1>7, <1>8, <1>9, <1>10 DEF Effect, Contract!Next

-----------------------------------------------------------------------------
(* The invariant of one handler at a time holds at first.                  *)
LEMMA SerialInit == Init => SerialInv
<1> SUFFICES ASSUME Init PROVE SerialInv
  OBVIOUS
<1>1. IndInv
  BY InitHolds
<1>2. /\ order.paymentReference = NoAttempt /\ order.status = "pending_payment"
      /\ returned = {} /\ \A n \in Attempt : pay[n] = "none"
  BY DEF Init, recomputeOrderPayableTotals, Idle
<1>3. SerialRows
  BY <1>2, AttemptFacts
  DEF SerialRows, PaidIsFunded, PendingChargeIsReferenced, PaidMatchesTotal, PendingPayments,
      ReturnedStockIsNotOwed, OverIsReleased, IsOver, TERMINAL_ORDER_STATUSES, PaidIsLatest,
      PaidPayments, ReferenceIsLatest, TransferStaysOpen
<1>4. \A r \in Req : SerialCopy(pc[r], loc[r])
  BY CopyFree DEF Init
<1>5. QED
  BY <1>1, <1>3, <1>4 DEF SerialInv

(* Every step keeps it.                                                    *)
LEMMA SerialNext ==
  ASSUME Serial, SerialInv, [Next]_vars
  PROVE  SerialInv'
<1>1. IndInv /\ SerialRows
  BY DEF SerialInv
<1>2. IndInv'
  BY <1>1, NextKeeps
<1>3. SerialRows'
  BY <1>1, StepHasEffect, EffectKeepsRows
<1>4. CopiesHold'
  BY CopiesNext
<1>5. QED
  BY <1>2, <1>3, <1>4 DEF SerialInv, CopiesHold

(* One handler at a time, whatever the stores, the attempts, the methods   *)
(* and the handlers that die: everything the handler under way loaded is   *)
(* still so when it acts on it.                                            *)
THEOREM SerialInvariant ==
  ASSUME Serial
  PROVE  Spec => []SerialInv
<1>1. SerialInv /\ [Next]_vars => SerialInv'
  BY SerialNext
<1>2. QED
  BY <1>1, SerialInit, PTL DEF Spec

(* markOrderPaid and confirmBankTransferPaid record money that is there:   *)
(* one handler at a time, a payment is paid when its own charge was        *)
(* captured and not given back, or an admin confirmed the transfer.        *)
THEOREM PaidOnOwnCharge ==
  ASSUME Serial
  PROVE  Spec => []PaidIsFunded
<1>1. SerialInv => PaidIsFunded
  BY DEF SerialInv, SerialRows
<1>2. QED
  BY <1>1, SerialInvariant, PTL

(* One handler at a time the webhook finds the order of a pending charge:  *)
(* createCharge, expiry and the failing webhook keep paymentReference in   *)
(* step with the pending payment.                                          *)
THEOREM WebhookFindsOrder ==
  ASSUME Serial
  PROVE  Spec => []PendingChargeIsReferenced
<1>1. SerialInv => PendingChargeIsReferenced
  BY DEF SerialInv, SerialRows
<1>2. QED
  BY <1>1, SerialInvariant, PTL

(* One handler at a time the amount of a recorded Omise payment is what    *)
(* the order asks, although the hold SLA recomputes the total of an unpaid *)
(* order: the webhook compares the two.                                    *)
THEOREM PaidInFull ==
  ASSUME Serial
  PROVE  Spec => []PaidMatchesTotal
<1>1. SerialInv => PaidMatchesTotal
  BY DEF SerialInv, SerialRows
<1>2. QED
  BY <1>1, SerialInvariant, PTL

(* One handler at a time stock is not sold twice: what the sweep, the      *)
(* vendor, the admin or the hold SLA returned belongs to no live line.     *)
THEOREM StockIsNotSoldTwice ==
  ASSUME Serial
  PROVE  Spec => []ReturnedStockIsNotOwed
<1>1. SerialInv => ReturnedStockIsNotOwed
  BY DEF SerialInv, SerialRows
<1>2. QED
  BY <1>1, SerialInvariant, PTL

(* One handler at a time the order system implements its contract: every   *)
(* step of every handler, of Omise and of a dying handler is one of        *)
(* OrderContract's steps on the stage of the order, its open and its paid  *)
(* attempts and its returned stock, or none.                               *)
THEOREM RefinesContract ==
  ASSUME Serial
  PROVE  Spec => ImplementsContract
<1>1. ASSUME Init PROVE Contract!Init
  <2>1. /\ order.status = "pending_payment" /\ returned = {}
        /\ \A n \in Attempt : pay[n] = "none"
    BY <1>1 DEF Init, recomputeOrderPayableTotals, Idle
  <2>2. Stage(order) = "unpaid"
    BY <2>1, StageOf
  <2>3. QED
    BY <2>1, <2>2 DEF Contract!Init, PendingPayments
<1>2. SerialInv /\ [Next]_vars => [Contract!Next]_(Contract!vars)
  BY StepHasEffect, EffectImplements
<1>3. QED
  BY <1>1, <1>2, SerialInvariant, PTL DEF Spec, ImplementsContract, Contract!Spec

-----------------------------------------------------------------------------
(* The header follows the lines: Shop's order fulfillment keeps it, as     *)
(* every writer derives the status it saves from the lines it saves.       *)

Follows(row) == row.status = deriveOrderStatusFromFulfillment(row.status, Statuses(row))

(* A line of an unpaid order, and what it was before it was held.          *)
Waits(item, heldFrom) ==
    item \in {"pending", "on_hold", "cancelled"} /\ heldFrom \in {"none", "pending"}

(* What a step does to the header: nothing, or the order closes, is bought *)
(* with the status its lines derive, or stays unpaid with waiting lines.   *)
HeaderEffect ==
    \/ /\ order'.status = order.status
       /\ order'.items = order.items
       /\ order'.heldFrom = order.heldFrom
    \/ IsOver(order')
    \/ IsBought(order') /\ Follows(order')
    \/ /\ order'.status = "pending_payment"
       /\ \A s \in Stores : Waits(order'.items[s], order'.heldFrom[s])

(* Deriving a status that is derived changes nothing.                      *)
LEMMA DerivedTwice ==
  ASSUME NEW current, NEW statuses
  PROVE  LET d == deriveOrderStatusFromFulfillment(current, statuses)
         IN  deriveOrderStatusFromFulfillment(d, statuses) = d
BY DEF deriveOrderStatusFromFulfillment, TERMINAL_ORDER_STATUSES

(* A row follows its lines when its status is the derived one.             *)
LEMMA FollowsDerived ==
  ASSUME NEW row \in OrderRow
  PROVE  /\ Follows(row) <=> row.status = Derived(row).status
         /\ Follows(Derived(row))
<1>1. Derived(row).status = deriveOrderStatusFromFulfillment(row.status, Statuses(row))
  BY DEF Derived, OrderRow
<1>2. Statuses(Derived(row)) = Statuses(row)
  BY DerivedLines DEF Statuses
<1>3. QED
  BY <1>1, <1>2, DerivedTwice DEF Follows

(* Following is a matter of status and lines.                              *)
LEMMA SameFollows ==
  ASSUME NEW row, NEW other, Follows(row), other.status = row.status, other.items = row.items
  PROVE  Follows(other)
BY DEF Follows, Statuses

(* Closed and unpaid orders follow whatever their lines are.               *)
LEMMA ClosedFollows ==
  ASSUME NEW row, IsOver(row) \/ row.status = "pending_payment"
  PROVE  Follows(row)
BY DEF Follows, IsOver, deriveOrderStatusFromFulfillment, TERMINAL_ORDER_STATUSES

(* Whatever a step does to the header, it follows the lines.               *)
LEMMA EffectKeepsHeader ==
  ASSUME TypeOK, TypeOK', HeaderFollowsItems, UnpaidLinesWait, HeaderEffect
  PROVE  HeaderFollowsItems' /\ UnpaidLinesWait'
<1>1. order \in OrderRow /\ order' \in OrderRow
  BY DEF TypeOK
<1>2. Follows(order) /\ (HeaderFollowsItems' <=> Follows(order'))
  BY <1>1, FollowsDerived DEF HeaderFollowsItems
<1>3. CASE /\ order'.status = order.status
           /\ order'.items = order.items
           /\ order'.heldFrom = order.heldFrom
  BY <1>2, <1>3 DEF Follows, Statuses, UnpaidLinesWait
<1>4. CASE IsOver(order') \/ (IsBought(order') /\ Follows(order'))
  BY <1>2, <1>4, ClosedFollows DEF UnpaidLinesWait, IsOver, IsBought, TERMINAL_ORDER_STATUSES
<1>5. CASE /\ order'.status = "pending_payment"
           /\ \A s \in Stores : Waits(order'.items[s], order'.heldFrom[s])
  BY <1>2, <1>5, ClosedFollows DEF UnpaidLinesWait, Waits
<1>6. QED
  BY <1>3, <1>4, <1>5 DEF HeaderEffect

(* Saving the lines of the stores in S: with the derived header, or        *)
(* without it when the derived status is the one it has.                   *)
LEMMA SavedLinesHeader ==
  ASSUME SerialInv, UnpaidLinesWait, NEW S, NEW row \in OrderRow, ~IsOver(order),
         row.status = order.status,
         \A s \in Stores \ S : /\ row.items[s] = order.items[s]
                               /\ row.heldFrom[s] = order.heldFrom[s],
         order.status = "pending_payment" =>
            \A s \in S \cap Stores : Waits(row.items[s], row.heldFrom[s]),
         \/ /\ order'.status = Derived(row).status
            /\ order'.items = row.items /\ order'.heldFrom = row.heldFrom
         \/ SaveItems(S, row) /\ Derived(row).status = row.status
  PROVE  HeaderEffect
<1>0. order \in OrderRow
  BY DEF SerialInv, IndInv, TypeOK
<1>1. /\ order'.status = Derived(row).status
      /\ order'.items = row.items
      /\ order'.heldFrom = row.heldFrom
  <2>1. CASE SaveItems(S, row) /\ Derived(row).status = row.status
    <3>1. /\ order'.status = order.status
          /\ order'.items = [s \in Stores |-> IF s \in S THEN row.items[s] ELSE order.items[s]]
          /\ order'.heldFrom = [s \in Stores |-> IF s \in S THEN row.heldFrom[s]
                                                            ELSE order.heldFrom[s]]
      BY <1>0, <2>1 DEF SaveItems, OrderRow
    <3>2. order'.items = row.items
      BY <1>0, <3>1 DEF OrderRow
    <3>3. order'.heldFrom = row.heldFrom
      BY <1>0, <3>1 DEF OrderRow
    <3>4. QED
      BY <2>1, <3>1, <3>2, <3>3
  <2>2. QED
    BY <2>1
<1>2. ~IsOver(row)
  BY DEF IsOver
<1>3. CASE order.status = "pending_payment"
  <2>1. order'.status = "pending_payment"
    BY <1>1, <1>2, <1>3, DerivedStage
  <2>2. \A s \in Stores : Waits(row.items[s], row.heldFrom[s])
    BY <1>3 DEF UnpaidLinesWait, Waits
  <2>3. QED
    BY <1>1, <2>1, <2>2 DEF HeaderEffect
<1>4. CASE order.status # "pending_payment"
  <2>1. IsBought(order')
    BY <1>1, <1>2, <1>4, DerivedStage DEF IsOver, IsBought
  <2>2. Follows(Derived(row)) /\ Derived(row).items = row.items
    BY FollowsDerived, DerivedLines
  <2>3. Follows(order')
    BY <1>1, <2>2 DEF Follows, Statuses
  <2>4. QED
    BY <2>1, <2>3 DEF HeaderEffect
<1>5. QED
  BY <1>3, <1>4

(* What the steps of payments do to the header.                            *)
LEMMA PaymentStepHeader ==
  ASSUME SerialInv, Serial, HeaderInv, NEW r \in Req, PaymentStep(r)
  PROVE  HeaderEffect
<1> DEFINE l == loc[r]
<1>1. order \in OrderRow /\ SerialCopy(pc[r], l) /\ HeaderCopy(pc[r], l)
  BY DEF SerialInv, IndInv, TypeOK, HeaderInv
<1>2. CASE UNCHANGED order
  BY <1>2 DEF HeaderEffect
<1>3. CASE CreateNonOmisePayment(r)
  BY <1>1, <1>3 DEF CreateNonOmisePayment, SaveWithItems, HeaderEffect, OrderRow
<1>4. CASE CommitOmiseCharge(r)
  <2>1. l.ord = order
    BY <1>1, <1>4 DEF CommitOmiseCharge, SerialCopy, HasOrder
  <2>2. QED
    BY <1>1, <1>4, <2>1 DEF CommitOmiseCharge, SaveWithItems, HeaderEffect, OrderRow
<1>5. CASE markOrderPaid(r)
  <2>1. /\ pc[r] = "cc_paid" /\ l.ord = order /\ order.status = "pending_payment"
        /\ ~orderHasHeldItems(order)
    BY <1>1, <1>5 DEF markOrderPaid, HeaderCopy, SerialCopy, SerialCreate, HasOrder
  <2>2. order'.status = "paid" /\ order'.items = order.items
    BY <1>1, <1>5, <2>1 DEF markOrderPaid, SaveWithItems, OrderRow
  <2>3. Statuses(order') \subseteq {"pending", "cancelled"}
    BY <2>1, <2>2 DEF Statuses, HeaderInv, UnpaidLinesWait, orderHasHeldItems
  <2>4. deriveOrderStatusFromFulfillment("paid", Statuses(order')) = "paid"
    <3> DEFINE live == Statuses(order') \ {"cancelled"}
               progressing == live \ {"on_hold"}
    <3>1. progressing = live /\ live # {"on_hold"} /\ progressing # {"delivered"}
      BY <2>3
    <3>2. progressing \cap {"processing", "shipped", "delivered"} = {}
      BY <2>3
    <3>3. live # {} => ~(progressing \subseteq {"shipped", "delivered"})
      BY <2>3
    <3>4. CASE live = {}
      BY <3>4 DEF deriveOrderStatusFromFulfillment, TERMINAL_ORDER_STATUSES
    <3>5. CASE live # {}
      <4>1. ~(progressing \subseteq {"shipped", "delivered"}) /\ live # {"on_hold"}
        BY <3>1, <3>3, <3>5
      <4>2. QED
        BY <3>1, <3>2, <3>5, <4>1, SMTT(60)
        DEF deriveOrderStatusFromFulfillment, TERMINAL_ORDER_STATUSES
    <3>6. QED
      BY <3>4, <3>5
  <2>5. QED
    BY <2>2, <2>4 DEF HeaderEffect, IsBought, Follows, TERMINAL_ORDER_STATUSES
<1>6. CASE WebhookFailCommit(r)
  BY <1>1, <1>6 DEF WebhookFailCommit, HeaderCopy
<1>7. CASE finalizeExpiredPayment(r)
  <2>1. PICK n \in Attempt : order' = [order EXCEPT !.paymentReference = NoAttempt]
    BY <1>7, FailsStepEffect DEF FailsEffect
  <2>2. QED
    BY <1>1, <2>1 DEF HeaderEffect, OrderRow
<1>8. CASE cancelOrderRestoreStockAndFailPayments(r)
  BY <1>8, ClosesStepEffect DEF ClosesEffect, HeaderEffect
<1>9. CASE confirmBankTransferPaid(r)
  <2>1. l.ord = order
    BY <1>1, <1>9 DEF confirmBankTransferPaid, SerialCopy, HasOrder
  <2>2. /\ order'.status = deriveOrderStatusFromFulfillment("paid", Statuses(order))
        /\ order'.items = order.items
    BY <1>1, <1>9, <2>1 DEF confirmBankTransferPaid, SaveWithItems, OrderRow
  <2>3. IsBought(order') /\ Statuses(order') = Statuses(order)
    BY <2>2, DerivedIsBought DEF IsBought, Statuses, TERMINAL_ORDER_STATUSES
  <2>4. Follows(order')
    BY <2>2, <2>3, DerivedTwice DEF Follows
  <2>5. QED
    BY <2>3, <2>4 DEF HeaderEffect
<1>10. CASE \/ CreateChargeReject(r) \/ WebhookPayment(r) \/ WebhookFetch(r) \/ ExpireOrder(r)
            \/ StalePaidCheck(r) \/ StalePayments(r) \/ ConfirmBankTransferPayment(r)
            \/ cancelPendingOmiseChargesForOrder(r) \/ PostOmiseCharge(r)
            \/ ExpireCancelCharge(r)
  <2>1. UNCHANGED order
    BY <1>10 DEF CreateChargeReject, WebhookPayment, WebhookFetch, ExpireOrder,
       StalePaidCheck, StalePayments, ConfirmBankTransferPayment,
       cancelPendingOmiseChargesForOrder, PostOmiseCharge, ExpireCancelCharge, rows
  <2>2. QED
    BY <1>2, <2>1
<1>11. QED
  BY <1>3, <1>4, <1>5, <1>6, <1>7, <1>8, <1>9, <1>10 DEF PaymentStep

(* What the steps of fulfillment, admins and the hold do to the header.    *)
LEMMA FulfillmentStepHeader ==
  ASSUME SerialInv, Serial, HeaderInv, NEW r \in Req, FulfillmentStep(r)
  PROVE  HeaderEffect
<1> DEFINE l == loc[r]
<1>1. /\ order \in OrderRow /\ l \in Local /\ l.ord \in OrderRow
      /\ SerialCopy(pc[r], l) /\ HeaderCopy(pc[r], l) /\ GoodHold(pc[r], l)
      /\ UnpaidLinesWait /\ Follows(order)
  BY FollowsDerived DEF SerialInv, IndInv, TypeOK, Local, GoodCopy, HeaderInv, HeaderFollowsItems
<1>2. CASE persistOrderTransition(r)
  <2>1. IsBought(l.ord) /\ Follows(l.ord)
    BY <1>1, <1>2, FollowsDerived DEF persistOrderTransition, SerialCopy, SerialFulfillment,
       HeaderCopy
  <2>2. order'.status = l.ord.status /\ order'.items = l.ord.items
    BY <1>1, <1>2 DEF persistOrderTransition, SaveWithItems, OrderRow
  <2>3. QED
    BY <2>1, <2>2 DEF HeaderEffect, IsBought, Follows, Statuses
<1>3. CASE SaveTracking(r)
  <2>1. /\ l.stores \subseteq Stores
        /\ \A s \in l.stores : order.items[s] = "shipped"
    BY <1>1, <1>3 DEF SaveTracking, SerialCopy, SerialFulfillment, Local
  <2>2. /\ order'.status = order.status
        /\ order'.items = [s \in Stores |-> IF s \in l.stores THEN "shipped" ELSE order.items[s]]
        /\ order'.heldFrom = [s \in Stores |-> IF s \in l.stores THEN "none" ELSE order.heldFrom[s]]
    BY <1>1, <1>3 DEF SaveTracking, OrderRow
  <2>3. order'.items = order.items
    BY <1>1, <2>1, <2>2 DEF OrderRow
  <2>4. CASE order.status = "pending_payment"
    <3>1. l.stores = {}
      BY <1>1, <2>1, <2>4 DEF UnpaidLinesWait
    <3>2. order'.heldFrom = order.heldFrom
      BY <1>1, <2>2, <3>1 DEF OrderRow
    <3>3. QED
      BY <2>2, <2>3, <3>2 DEF HeaderEffect
  <2>5. CASE order.status # "pending_payment"
    <3>1. Follows(order')
      BY <1>1, <2>2, <2>3, SameFollows
    <3>2. IsOver(order') \/ IsBought(order')
      BY <2>2, <2>5 DEF IsOver, IsBought
    <3>3. QED
      BY <3>1, <3>2 DEF HeaderEffect
  <2>6. QED
    BY <2>4, <2>5
<1>4. CASE cancelVendorOrder(r) \/ updateStatus(r)
  BY <1>4, ClosesStepEffect DEF ClosesEffect, HeaderEffect
<1>5. CASE applyHoldForOrder(r)
  <2> DEFINE row == [l.ord EXCEPT
                !.items = [s \in Stores |-> IF s \in l.stores THEN "on_hold" ELSE l.ord.items[s]],
                !.heldFrom = [s \in Stores |-> IF s \in l.stores THEN l.ord.items[s]
                                                                 ELSE l.ord.heldFrom[s]]]
  <2>1. /\ l.ord = order /\ order.status \in HOLD_ELIGIBLE_ORDER_STATUSES
        /\ \A s \in l.stores : order.items[s] \in HOLD_ELIGIBLE_FULFILLMENT
    BY <1>1, <1>5 DEF applyHoldForOrder, SerialCopy, SerialFulfillment, HasOrder
  <2>2. /\ row \in OrderRow /\ row.status = order.status
        /\ row.items = [s \in Stores |-> IF s \in l.stores THEN "on_hold" ELSE order.items[s]]
        /\ row.heldFrom = [s \in Stores |-> IF s \in l.stores THEN order.items[s]
                                                              ELSE order.heldFrom[s]]
    BY <1>1, <2>1 DEF OrderRow, FulfillmentStatus
  <2>3. ~IsOver(order)
    BY <2>1 DEF IsOver, HOLD_ELIGIBLE_ORDER_STATUSES, TERMINAL_ORDER_STATUSES
  <2>4. order.status = "pending_payment" =>
           \A s \in l.stores \cap Stores : Waits(row.items[s], row.heldFrom[s])
    BY <1>1, <2>1, <2>2 DEF UnpaidLinesWait, Waits, HOLD_ELIGIBLE_FULFILLMENT
  <2>5. \A s \in Stores \ l.stores : row.items[s] = order.items[s] /\ row.heldFrom[s] = order.heldFrom[s]
    BY <2>2
  <2>6. order' = Derived(row) \/ (SaveItems(l.stores, row) /\ Derived(row).status = order.status)
    BY <1>5, <2>1 DEF applyHoldForOrder, SaveWithItems
  <2> HIDE DEF row
  <2>7. \/ /\ order'.status = Derived(row).status
           /\ order'.items = row.items /\ order'.heldFrom = row.heldFrom
        \/ SaveItems(l.stores, row) /\ Derived(row).status = row.status
    BY <2>2, <2>6, DerivedLines
  <2>8. QED
    BY <1>1, <2>2, <2>3, <2>4, <2>5, <2>7, SavedLinesHeader
<1>6. CASE restoreHoldForOrder(r)
  <2> DEFINE row == [l.ord EXCEPT
                !.items = [s \in Stores |-> IF s \in l.stores THEN l.ord.heldFrom[s]
                                                              ELSE l.ord.items[s]],
                !.heldFrom = [s \in Stores |-> IF s \in l.stores THEN "none"
                                                                 ELSE l.ord.heldFrom[s]]]
  <2>1. l.ord = order /\ ~IsOver(order)
    BY <1>1, <1>6 DEF restoreHoldForOrder, SerialCopy, SerialFulfillment, HasOrder
  <2>2. \A s \in Stores : s \in l.stores => order.heldFrom[s] \in HOLD_ELIGIBLE_FULFILLMENT
    BY <1>1, <1>6, <2>1 DEF GoodHold, restoreHoldForOrder, OrderRow
  <2>3. /\ row \in OrderRow /\ row.status = order.status
        /\ row.items = [s \in Stores |-> IF s \in l.stores THEN order.heldFrom[s]
                                                           ELSE order.items[s]]
        /\ row.heldFrom = [s \in Stores |-> IF s \in l.stores THEN "none" ELSE order.heldFrom[s]]
    BY <1>1, <2>1, <2>2 DEF OrderRow, FulfillmentStatus, HOLD_ELIGIBLE_FULFILLMENT
  <2>4. order.status = "pending_payment" =>
           \A s \in l.stores \cap Stores : Waits(row.items[s], row.heldFrom[s])
    BY <1>1, <2>2, <2>3 DEF UnpaidLinesWait, Waits, HOLD_ELIGIBLE_FULFILLMENT
  <2>5. \A s \in Stores \ l.stores : row.items[s] = order.items[s] /\ row.heldFrom[s] = order.heldFrom[s]
    BY <2>3
  <2>6. order' = Derived(row) \/ (SaveItems(l.stores, row) /\ Derived(row).status = order.status)
    BY <1>6, <2>1 DEF restoreHoldForOrder, SaveWithItems
  <2> HIDE DEF row
  <2>7. \/ /\ order'.status = Derived(row).status
           /\ order'.items = row.items /\ order'.heldFrom = row.heldFrom
        \/ SaveItems(l.stores, row) /\ Derived(row).status = row.status
    BY <2>3, <2>6, DerivedLines
  <2>8. QED
    BY <1>1, <2>1, <2>3, <2>4, <2>5, <2>7, SavedLinesHeader
<1>7. CASE cancelExpiredHeldItemsForOrder(r)
  <2> DEFINE row == [l.ord EXCEPT
                !.items = [s \in Stores |-> IF s \in l.stores THEN "cancelled" ELSE l.ord.items[s]],
                !.heldFrom = [s \in Stores |-> IF s \in l.stores THEN "none" ELSE l.ord.heldFrom[s]]]
  <2>1. l.ord = order /\ ~IsOver(order)
    BY <1>1, <1>7 DEF cancelExpiredHeldItemsForOrder, SerialCopy, SerialFulfillment, HasOrder
  <2>2. /\ row \in OrderRow /\ row.status = order.status
        /\ row.items = [s \in Stores |-> IF s \in l.stores THEN "cancelled" ELSE order.items[s]]
        /\ row.heldFrom = [s \in Stores |-> IF s \in l.stores THEN "none" ELSE order.heldFrom[s]]
    BY <1>1, <2>1 DEF OrderRow, FulfillmentStatus
  <2>3. order' = IF Derived(row).status = "pending_payment"
                    THEN recomputeOrderPayableTotals(Derived(row)) ELSE Derived(row)
    BY <1>7 DEF cancelExpiredHeldItemsForOrder, SaveWithItems, HoldSlaRow
  <2>4. \A s \in l.stores \cap Stores : Waits(row.items[s], row.heldFrom[s])
    BY <2>2 DEF Waits
  <2>5. \A s \in Stores \ l.stores : row.items[s] = order.items[s] /\ row.heldFrom[s] = order.heldFrom[s]
    BY <2>2
  <2> HIDE DEF row
  <2>6. /\ order'.status = Derived(row).status
        /\ order'.items = row.items /\ order'.heldFrom = row.heldFrom
    <3>1. Derived(row) \in OrderRow
      BY <2>2, DerivedRow
    <3>2. /\ recomputeOrderPayableTotals(Derived(row)).status = Derived(row).status
          /\ recomputeOrderPayableTotals(Derived(row)).items = Derived(row).items
          /\ recomputeOrderPayableTotals(Derived(row)).heldFrom = Derived(row).heldFrom
      BY <3>1, RecomputeType, DerivedLines
    <3>3. Derived(row).items = row.items /\ Derived(row).heldFrom = row.heldFrom
      BY <2>2, DerivedLines
    <3>4. QED
      BY <2>3, <3>2, <3>3
  <2>7. QED
    BY <1>1, <2>1, <2>2, <2>4, <2>5, <2>6, SavedLinesHeader
<1>8. QED
  BY <1>2, <1>3, <1>4, <1>5, <1>6, <1>7 DEF FulfillmentStep

HeaderCopies == \A r \in Req : HeaderCopy(pc[r], loc[r])

(* The one handler's copy is all there is to look at.                      *)
LEMMA HeaderCopyStep ==
  ASSUME Serial, TypeOK, NEW r \in Req, NEW p, NEW k, HeaderCopy(p, k)',
         pc' = [pc EXCEPT ![r] = p], loc' = [loc EXCEPT ![r] = k]
  PROVE  HeaderCopies'
<1>1. pc'[r] = p /\ loc'[r] = k
  BY DEF TypeOK
<1>2. HeaderCopy(pc[r], loc[r])'
  BY <1>1 DEF HeaderCopy
<1>3. QED
  BY <1>2 DEF HeaderCopies, Serial

(* Places that HeaderCopy says nothing of.                                 *)
LEMMA HeaderFree ==
  ASSUME NEW k,
         NEW p \in {"idle"} \cup PaymentPC \cup FulfillmentPC,
         p \notin {"wh_payment", "wh_fetch", "wh_paid", "wh_failed", "cc_commit", "cc_paid",
                   "persist"}
  PROVE  HeaderCopy(p, k)'
BY DEF HeaderCopy

(* Payment handlers start without a claim about held lines.                *)
LEMMA HeaderPaymentStarts ==
  ASSUME Serial, "webhook" \notin Handlers, TypeOK, NEW r \in Req, PaymentStart(r)
  PROVE  HeaderCopies'
<1>1. ASSUME NEW h, NEW p \in {"cc_phaseA", "ex_order", "cs_paid", "cb_payment"}, NEW k,
             Start(r, h, p, k)
      PROVE  HeaderCopies'
  <2>1. HeaderCopy(p, k)'
    BY HeaderFree DEF PaymentPC
  <2>2. pc' = [pc EXCEPT ![r] = p] /\ loc' = [loc EXCEPT ![r] = k]
    BY <1>1 DEF Start
  <2>3. QED
    BY <2>1, <2>2, HeaderCopyStep
<1>2. ASSUME NEW m \in CheckoutMethods, CreateChargeBegin(r, m)
      PROVE  HeaderCopies'
  BY <1>1, <1>2 DEF CreateChargeBegin
<1>3. ASSUME NEW n \in Attempt, ExpireRead(r, n)
      PROVE  HeaderCopies'
  BY <1>1, <1>3 DEF ExpireRead
<1>4. CASE StaleRead(r)
  BY <1>1, <1>4 DEF StaleRead
<1>5. CASE ConfirmBankTransferOrder(r)
  BY <1>1, <1>5 DEF ConfirmBankTransferOrder
<1>6. ~WebhookOrder(r)
  BY DEF WebhookOrder, Start
<1>7. QED
  BY <1>2, <1>3, <1>4, <1>5, <1>6 DEF PaymentStart

(* So do the other handlers.                                               *)
LEMMA HeaderFulfillmentStarts ==
  ASSUME Serial, TypeOK, NEW r \in Req, FulfillmentStart(r)
  PROVE  HeaderCopies'
<1>0. order \in OrderRow
  BY DEF TypeOK
<1>1. ASSUME NEW h, NEW k, Start(r, h, "persist", k), k.ord.status = Derived(k.ord).status
      PROVE  HeaderCopies'
  <2>1. HeaderCopy("persist", k)'
    BY <1>1 DEF HeaderCopy
  <2>2. pc' = [pc EXCEPT ![r] = "persist"] /\ loc' = [loc EXCEPT ![r] = k]
    BY <1>1 DEF Start
  <2>3. QED
    BY <2>1, <2>2, HeaderCopyStep
<1>2. ASSUME NEW h, NEW row \in OrderRow,
             Start(r, h, "persist", [Idle EXCEPT !.ord = Derived(row)])
      PROVE  HeaderCopies'
  <2>1. PICK k : k = [Idle EXCEPT !.ord = Derived(row)]
    OBVIOUS
  <2>2. k.ord = Derived(row)
    BY <2>1 DEF Idle
  <2>3. Derived(row) \in OrderRow /\ Follows(Derived(row))
    BY DerivedRow, FollowsDerived
  <2>4. k.ord.status = Derived(k.ord).status
    BY <2>2, <2>3, FollowsDerived
  <2>5. QED
    BY <1>1, <1>2, <2>1, <2>4
<1>3. ASSUME NEW h, NEW p \in FulfillmentPC \ {"persist"}, NEW k, Start(r, h, p, k)
      PROVE  HeaderCopies'
  <2>1. HeaderCopy(p, k)'
    BY HeaderFree DEF FulfillmentPC
  <2>2. pc' = [pc EXCEPT ![r] = p] /\ loc' = [loc EXCEPT ![r] = k]
    BY <1>3 DEF Start
  <2>3. QED
    BY <2>1, <2>2, HeaderCopyStep
<1>4. CASE markVendorOrderPaid(r)
  <2>1. [order EXCEPT !.status = "paid", !.paidAt = TRUE] \in OrderRow
    BY <1>0 DEF OrderRow, OrderStatus
  <2>2. QED
    BY <1>2, <1>4, <2>1 DEF markVendorOrderPaid
<1>5. ASSUME NEW s \in Stores, acknowledgeVendorOrder(r, s)
      PROVE  HeaderCopies'
  <2>1. [order EXCEPT !.items[s] = "processing"] \in OrderRow
    BY <1>0 DEF OrderRow, FulfillmentStatus
  <2>2. QED
    BY <1>2, <1>5, <2>1 DEF acknowledgeVendorOrder
<1>6. ASSUME NEW s \in Stores, shipVendorOrder(r, s)
      PROVE  HeaderCopies'
  <2>1. [order EXCEPT !.items[s] = "shipped"] \in OrderRow
    BY <1>0 DEF OrderRow, FulfillmentStatus
  <2>2. QED
    BY <1>2, <1>6, <2>1 DEF shipVendorOrder
<1>7. CASE confirmOrderDelivered(r)
  <2> DEFINE row == [order EXCEPT !.status = "delivered",
                                  !.items = [s \in Stores |-> "delivered"]]
  <2>1. /\ row \in OrderRow /\ row.status = "delivered"
        /\ row.items = [s \in Stores |-> "delivered"]
    BY <1>0 DEF OrderRow, OrderStatus, FulfillmentStatus
  <2>2. PICK k : k = [Idle EXCEPT !.ord = row]
    OBVIOUS
  <2>3. k.ord = row
    BY <2>2 DEF Idle
  <2>4. Start(r, "deliver", "persist", k)
    BY <1>7, <2>2 DEF confirmOrderDelivered
  <2> HIDE DEF row
  <2>5. Statuses(row) = {"delivered"}
    BY <2>1, OrderStateAssumption DEF Statuses
  <2>6. Follows(row)
    BY <2>1, <2>5 DEF Follows, deriveOrderStatusFromFulfillment, TERMINAL_ORDER_STATUSES
  <2>7. k.ord.status = Derived(k.ord).status
    BY <2>1, <2>3, <2>6, FollowsDerived
  <2>8. QED
    BY <1>1, <2>4, <2>7
<1>8. ASSUME NEW s \in Stores,
             updateTrackingForPublicApi(r, s) \/ ApplyHoldRead(r, s) \/ RestoreHoldRead(r, s)
      PROVE  HeaderCopies'
  BY <1>3, <1>8 DEF updateTrackingForPublicApi, ApplyHoldRead, RestoreHoldRead, FulfillmentPC
<1>9. CASE VendorCancelRead(r)
  BY <1>3, <1>9 DEF VendorCancelRead, FulfillmentPC
<1>10. ASSUME NEW t \in AdminTargets, updateStatusRead(r, t)
       PROVE  HeaderCopies'
  BY <1>3, <1>10 DEF updateStatusRead, FulfillmentPC
<1>11. ASSUME NEW S \in SUBSET Stores, HoldSlaRead(r, S)
       PROVE  HeaderCopies'
  BY <1>3, <1>11 DEF HoldSlaRead, FulfillmentPC
<1>12. QED
  BY <1>4, <1>5, <1>6, <1>7, <1>8, <1>9, <1>10, <1>11 DEF FulfillmentStart

(* createCharge: payable under the lock, so no line is held; the commit    *)
(* leaves the lines as they are.                                           *)
LEMMA HeaderCreates ==
  ASSUME Serial, SerialInv, HeaderInv, NEW r \in Req,
         PostOmiseCharge(r) \/ CommitOmiseCharge(r)
  PROVE  HeaderCopies'
<1>1. TypeOK /\ order \in OrderRow /\ SerialCopy(pc[r], loc[r]) /\ HeaderCopy(pc[r], loc[r])
  BY DEF SerialInv, IndInv, TypeOK, HeaderInv
<1>2. CASE PostOmiseCharge(r)
  <2>1. PICK k : Goto(r, "cc_commit", k)
    BY <1>2 DEF PostOmiseCharge
  <2>2. Payable /\ order' = order
    BY <1>2, Zenon DEF PostOmiseCharge, LockForCreate
  <2>3. ~orderHasHeldItems(order')
    BY <2>2 DEF Payable, assertOrderPayableForCreate
  <2>4. HeaderCopy("cc_commit", k)'
    BY <2>3 DEF HeaderCopy, orderHasHeldItems
  <2>5. QED
    BY <1>1, <2>1, <2>4, HeaderCopyStep DEF Goto
<1>3. CASE CommitOmiseCharge(r)
  <2>1. loc[r].ord = order /\ ~orderHasHeldItems(order)
    BY <1>1, <1>3 DEF CommitOmiseCharge, SerialCopy, HasOrder, HeaderCopy
  <2>2. order'.items = order.items
    BY <1>1, <1>3, <2>1 DEF CommitOmiseCharge, SaveWithItems, OrderRow
  <2>3. ~orderHasHeldItems(order')
    BY <2>1, <2>2 DEF orderHasHeldItems
  <2>4. PICK p, k : p \in {"idle", "cc_paid"} /\ Goto(r, p, k)
    BY <1>3 DEF CommitOmiseCharge, Return
  <2>5. p \in {"idle", "cc_paid"}
    BY <2>4
  <2>6. HeaderCopy(p, k)'
    BY <2>3, <2>5 DEF HeaderCopy, orderHasHeldItems
  <2>7. QED
    BY <1>1, <2>4, <2>6, HeaderCopyStep DEF Goto
<1>4. QED
  BY <1>2, <1>3

(* Every step leaves the handler with what HeaderInv says of its copy.     *)
LEMMA HeaderCopiesNext ==
  ASSUME Serial, "webhook" \notin Handlers, SerialInv, HeaderInv, [Next]_vars
  PROVE  HeaderCopies'
<1>1. TypeOK /\ HeaderCopies
  BY DEF SerialInv, IndInv, HeaderInv, HeaderCopies
<1>2. CASE UNCHANGED <<order, pc, loc>>
  BY <1>1, <1>2 DEF HeaderCopies, HeaderCopy, orderHasHeldItems
<1>3. ASSUME NEW r \in Req,
             NEW p \in {"idle", "cc_lock", "ex_cancel", "ex_commit", "cs_list", "cs_commit",
                        "cb_commit"},
             NEW k, Goto(r, p, k)
      PROVE  HeaderCopies'
  <2>1. HeaderCopy(p, k)'
    BY HeaderFree DEF PaymentPC
  <2>2. QED
    BY <1>1, <1>3, <2>1, HeaderCopyStep DEF Goto
<1>4. ASSUME NEW r \in Req, Return(r)
      PROVE  HeaderCopies'
  BY <1>3, <1>4 DEF Return
<1>5. ASSUME NEW r \in Req, PaymentStep(r)
      PROVE  HeaderCopies'
  <2>1. CASE PostOmiseCharge(r) \/ CommitOmiseCharge(r)
    BY <2>1, HeaderCreates
  <2>2. CASE WebhookPayment(r) \/ WebhookFetch(r)
    BY <1>1, <2>2 DEF WebhookPayment, WebhookFetch, HeaderCopies, HeaderCopy
  <2>3. CASE \/ CreateChargeReject(r) \/ CreateNonOmisePayment(r) \/ markOrderPaid(r)
             \/ WebhookFailCommit(r) \/ ExpireCancelCharge(r)
             \/ cancelOrderRestoreStockAndFailPayments(r) \/ confirmBankTransferPaid(r)
    <3>1. Return(r)
      BY <2>3 DEF CreateChargeReject, CreateNonOmisePayment, markOrderPaid, WebhookFailCommit,
         ExpireCancelCharge, cancelOrderRestoreStockAndFailPayments, confirmBankTransferPaid
    <3>2. QED
      BY <1>4, <3>1
  <2>4. CASE cancelPendingOmiseChargesForOrder(r) \/ finalizeExpiredPayment(r)
    BY <1>3, <2>4 DEF cancelPendingOmiseChargesForOrder, finalizeExpiredPayment
  <2>5. CASE ExpireOrder(r)
    BY <1>3, <1>4, <2>5 DEF ExpireOrder
  <2>6. CASE StalePaidCheck(r) \/ StalePayments(r)
    BY <1>3, <1>4, <2>6 DEF StalePaidCheck, StalePayments
  <2>7. CASE ConfirmBankTransferPayment(r)
    BY <1>3, <1>4, <2>7 DEF ConfirmBankTransferPayment
  <2>8. QED
    BY <1>5, <2>1, <2>2, <2>3, <2>4, <2>5, <2>6, <2>7 DEF PaymentStep
<1>6. ASSUME NEW r \in Req, FulfillmentStep(r)
      PROVE  HeaderCopies'
  <2>1. Return(r)
    BY <1>6 DEF FulfillmentStep, persistOrderTransition, SaveTracking, cancelVendorOrder,
       updateStatus, applyHoldForOrder, restoreHoldForOrder, cancelExpiredHeldItemsForOrder
  <2>2. QED
    BY <1>4, <2>1
<1>7. CASE \E n \in Attempt : OmiseSettles(n)
  BY <1>2, <1>7 DEF OmiseSettles, rows
<1>8. ASSUME NEW r \in Req, PaymentStart(r) \/ FulfillmentStart(r) \/ HandlerDies(r)
      PROVE  HeaderCopies'
  BY <1>1, <1>4, <1>8, HeaderPaymentStarts, HeaderFulfillmentStarts DEF HandlerDies
<1>9. QED
  BY <1>2, <1>5, <1>6, <1>7, <1>8 DEF Next, vars

(* Every step does to the header one of these things.                      *)
LEMMA StepHeader ==
  ASSUME Serial, SerialInv, HeaderInv, [Next]_vars
  PROVE  HeaderEffect
<1>1. CASE UNCHANGED order
  BY <1>1 DEF HeaderEffect
<1>2. ASSUME NEW r \in Req, PaymentStart(r) \/ FulfillmentStart(r) \/ HandlerDies(r)
      PROVE  UNCHANGED order
  BY <1>2 DEF PaymentStart, CreateChargeBegin, WebhookOrder, ExpireRead, StaleRead,
     ConfirmBankTransferOrder, FulfillmentStart, markVendorOrderPaid, acknowledgeVendorOrder,
     shipVendorOrder, updateTrackingForPublicApi, ApplyHoldRead, RestoreHoldRead,
     confirmOrderDelivered, VendorCancelRead, updateStatusRead, HoldSlaRead, HandlerDies, rows
<1>3. ASSUME NEW n \in Attempt, OmiseSettles(n)
      PROVE  UNCHANGED order
  BY <1>3 DEF OmiseSettles, rows
<1>4. QED
  BY <1>1, <1>2, <1>3, PaymentStepHeader, FulfillmentStepHeader DEF Next, vars

(* The status of a new order follows its lines.                            *)
LEMMA HeaderInit == Init => HeaderInv
<1> SUFFICES ASSUME Init PROVE HeaderInv
  OBVIOUS
<1>1. /\ order \in OrderRow /\ order.status = "pending_payment"
      /\ order.items = [s \in Stores |-> "pending"]
      /\ order.heldFrom = [s \in Stores |-> "none"]
  <2>1. order \in OrderRow
    BY InitHolds DEF IndInv, TypeOK
  <2>2. QED
    BY <2>1 DEF Init, recomputeOrderPayableTotals, Idle
<1>2. HeaderFollowsItems
  BY <1>1, ClosedFollows, FollowsDerived DEF HeaderFollowsItems
<1>3. UnpaidLinesWait
  BY <1>1 DEF UnpaidLinesWait
<1>4. \A r \in Req : HeaderCopy(pc[r], loc[r])
  BY DEF Init, HeaderCopy
<1>5. QED
  BY <1>2, <1>3, <1>4 DEF HeaderInv

(* Every step keeps it so.                                                 *)
LEMMA HeaderNext ==
  ASSUME Serial, "webhook" \notin Handlers, SerialInv, SerialInv', HeaderInv, [Next]_vars
  PROVE  HeaderInv'
<1>1. HeaderFollowsItems' /\ UnpaidLinesWait'
  BY StepHeader, EffectKeepsHeader DEF SerialInv, IndInv, HeaderInv
<1>2. HeaderCopies'
  BY HeaderCopiesNext
<1>3. QED
  BY <1>1, <1>2 DEF HeaderInv, HeaderCopies

(* One handler at a time, and with no webhook to mark an order paid while  *)
(* its lines are held (README, section 7), the header of an order always     *)
(* says what its lines say: every vendor action, hold, restore and SLA     *)
(* saves the status derived from the lines it leaves.                      *)
THEOREM HeaderFollows ==
  ASSUME Serial, "webhook" \notin Handlers
  PROVE  Spec => []HeaderFollowsItems
<1>1. SerialInv /\ SerialInv' /\ HeaderInv /\ [Next]_vars => HeaderInv'
  BY HeaderNext
<1>2. HeaderInv => HeaderFollowsItems
  BY DEF HeaderInv
<1>3. QED
  BY <1>1, <1>2, HeaderInit, SerialInvariant, PTL DEF Spec
=============================================================================
