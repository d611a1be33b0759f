-------------------------- MODULE PaymentHandlers ---------------------------
(***************************************************************************)
(* PaymentsService: createCharge, the Omise charge webhook, PromptPay QR   *)
(* expiry, the 24h unpaid-order sweep and the admin's bank transfer        *)
(* confirmation.  Elapsed time (the QR window, the 24h cutoff) is not a    *)
(* variable: a window may have elapsed whenever the sweep looks.           *)
(***************************************************************************)
EXTENDS OrderState

Unpaid == [n \in Attempt |-> IF pay[n] = "pending" THEN "failed" ELSE pay[n]]

-----------------------------------------------------------------------------
(* createCharge                                                            *)

assertOrderPayableForCreate(row, latest) ==
    /\ row.status = "pending_payment"
    /\ latest # NoAttempt => pay[latest] \in {"pending", "failed"}
    /\ ~orderHasHeldItems(row)

Payable ==
    \E n \in Attempt \cup {NoAttempt} :
        IsLatestPayment(n) /\ assertOrderPayableForCreate(order, n)

CreateChargeBegin(r, m) ==
    /\ Payable
    /\ Start(r, "createCharge", "cc_phaseA",
             [Idle EXCEPT !.ord = order, !.method = m])
    /\ UNCHANGED <<rows, omise, attempts, lock, faults>>

(* What Omise may have done of a best-effort expire, and for a method      *)
(* other than PromptPay of the reverse tried when expire is refused.       *)
cancelOmiseChargeBestEffort(n, m) ==
    {charge[n]}
      \cup {s \in {"expired"} : charge[n] = "pending"}
      \cup {s \in {"reversed"} : charge[n] = "successful" /\ m # "promptpay"
                                   /\ payMethod[n] = "credit_card"}

(* Phase A cancels the charge of every pending row, and the charge the     *)
(* order points at when a pending row has none.  Fail-open, no lock held.  *)
cancelPendingOmiseChargesForOrder(r) ==
    LET pend == PendingPayments
        withCharge == {n \in pend : payMethod[n] \notin NonOmiseMethod}
        ref == loc[r].ord.paymentReference
        targets == withCharge \cup
                     {n \in {ref} \cap Attempt : pend \ withCharge # {}}
        methodOf(n) == IF n \in withCharge THEN payMethod[n] ELSE "bank_transfer"
    IN  /\ pc[r] = "cc_phaseA"
        /\ \E c \in [targets -> ChargeStatus] :
              /\ \A n \in targets : c[n] \in cancelOmiseChargeBestEffort(n, methodOf(n))
              /\ charge' = [n \in Attempt |-> IF n \in targets THEN c[n] ELSE charge[n]]
        /\ Goto(r, "cc_lock", [loc[r] EXCEPT !.ord = Idle.ord])
        /\ UNCHANGED <<rows, amount, attempts, lock, faults>>

(* Refused under the lock: no longer payable, bank transfer or Omise not   *)
(* configured, card or token missing.  The transaction rolls back.         *)
CreateChargeReject(r) ==
    /\ pc[r] = "cc_lock"
    /\ OrderUnlocked
    /\ Return(r)
    /\ UNCHANGED <<rows, omise, attempts, lock, faults>>

(* Mutant: FOR UPDATE is dropped, Phase B only re-checks.                  *)
LockIgnored(r) ==
    /\ pc[r] = "cc_lock"
    /\ Payable
    /\ attempts < MaxAttempts

(* Phase B starts: FOR UPDATE on the order, re-check.                      *)
LockForCreate(r) ==
    /\ pc[r] = "cc_lock"
    /\ OrderUnlocked
    /\ Payable
    /\ attempts < MaxAttempts

(* COD and bank transfer: supersede, insert the row, drop the reference.   *)
CreateNonOmisePayment(r) ==
    LET n == attempts + 1
        m == loc[r].method
    IN  /\ m \in NonOmiseMethod
        /\ LockForCreate(r)
        /\ pay' = [Unpaid EXCEPT ![n] = "pending"]
        /\ payMethod' = [payMethod EXCEPT ![n] = m]
        /\ amount' = [amount EXCEPT ![n] = order.total]
        /\ attempts' = n
        /\ SaveWithItems([order EXCEPT !.paymentMethod = m,
                                       !.paymentReference = NoAttempt])
        /\ Return(r)
        /\ UNCHANGED <<returned, charge, lock, faults>>

(* Omise methods: POST /charges inside the transaction, lock held.  The    *)
(* charge exists at Omise from here on, whatever becomes of the handler.   *)
PostOmiseCharge(r) ==
    LET n == attempts + 1
        m == loc[r].method
    IN  /\ m \notin NonOmiseMethod
        /\ LockForCreate(r)
        /\ \E s \in {"pending", "failed"} \cup {x \in {"successful"} : m = "credit_card"} :
              /\ charge' = [charge EXCEPT ![n] = s]
              /\ Goto(r, "cc_commit", [loc[r] EXCEPT !.ord = order, !.pid = n,
                                                     !.cid = n, !.outcome = s])
        /\ payMethod' = [payMethod EXCEPT ![n] = m]
        /\ amount' = [amount EXCEPT ![n] = order.total]
        /\ attempts' = n
        /\ lock' = lock \cup {r}
        /\ UNCHANGED <<order, returned, pay, faults>>

(* Mutant: the pending rows are not superseded.                            *)
CommitNoSupersede(r) ==
    LET n == loc[r].pid
        row == [loc[r].ord EXCEPT !.paymentMethod = loc[r].method, !.paymentReference = n]
    IN  /\ pc[r] = "cc_commit"
        /\ pay' = [pay EXCEPT ![n] = IF loc[r].outcome = "failed" THEN "failed" ELSE "pending"]
        /\ SaveWithItems(row)
        /\ lock' = lock \ {r}
        /\ Return(r)
        /\ UNCHANGED <<returned, payMethod, omise, attempts, faults>>

(* Mutant: the lock outlives the transaction.                              *)
CommitKeepsLock(r) ==
    /\ pc[r] = "cc_commit"
    /\ pay' = [Unpaid EXCEPT ![loc[r].pid] = "pending"]
    /\ SaveWithItems([loc[r].ord EXCEPT !.paymentReference = loc[r].pid])
    /\ Return(r)
    /\ UNCHANGED <<returned, payMethod, omise, attempts, lock, faults>>

(* Supersede, insert and reference commit; a charge that Omise answered as *)
(* successful is recorded by markOrderPaid after the lock is gone.         *)
CommitOmiseCharge(r) ==
    LET n == loc[r].pid
        row == [loc[r].ord EXCEPT !.paymentMethod = loc[r].method, !.paymentReference = n]
    IN  /\ pc[r] = "cc_commit"
        /\ pay' = [Unpaid EXCEPT ![n] = IF loc[r].outcome = "failed" THEN "failed" ELSE "pending"]
        /\ SaveWithItems(row)
        /\ lock' = lock \ {r}
        /\ IF loc[r].outcome = "successful"
              THEN Goto(r, "cc_paid", [loc[r] EXCEPT !.ord = row])
              ELSE Return(r)
        /\ UNCHANGED <<returned, payMethod, omise, attempts, faults>>

(* payment paid and order PAID in one transaction, from what was loaded.   *)
(* createCharge loaded the items, the webhook did not.                     *)
markOrderPaid(r) ==
    LET row == [loc[r].ord EXCEPT !.status = "paid", !.paidAt = TRUE,
                                  !.paymentReference = loc[r].cid]
    IN  /\ pc[r] \in {"cc_paid", "wh_paid"}
        /\ OrderUnlocked
        /\ pay' = [pay EXCEPT ![loc[r].pid] = "paid"]
        /\ IF pc[r] = "cc_paid" THEN SaveWithItems(row) ELSE SaveWithoutItems(row)
        /\ Return(r)
        /\ UNCHANGED <<returned, payMethod, omise, attempts, lock, faults>>

-----------------------------------------------------------------------------
(* handleWebhook                                                           *)

(* The events Omise has sent about a charge, by its status now.  They may  *)
(* arrive late, in any order, more than once, or never.                    *)
OmiseEvents(n) ==
    CASE charge[n] \in {"successful", "reversed"} -> {<<"charge.complete", "successful">>}
      [] charge[n] = "failed" -> {<<"charge.complete", "failed">>, <<"charge.fail", "failed">>}
      [] charge[n] = "expired" -> {<<"charge.expire", "expired">>}
      [] OTHER -> {}

(* The order is looked up by paymentReference: an event about any other    *)
(* charge finds no order and is dropped.                                   *)
WebhookOrder(r) ==
    /\ order.paymentReference \in Attempt
    /\ \E e \in OmiseEvents(order.paymentReference) :
          Start(r, "webhook", "wh_payment",
                [Idle EXCEPT !.ord = order, !.cid = order.paymentReference,
                             !.key = e[1], !.outcome = e[2]])
    /\ UNCHANGED <<rows, omise, attempts, lock, faults>>

(* Mutant: the guard on cancelled and refunded orders is dropped.          *)
IgnoresNoTerminal(l, latest) ==
    \/ latest = NoAttempt
    \/ /\ l.key = "charge.complete"
       /\ l.ord.status = "paid" \/ pay[latest] = "paid"

(* Mutant: only QR payments are expected to complete later.                *)
IgnoresCards(l, latest) ==
    \/ latest = NoAttempt
    \/ l.ord.paymentMethod # "promptpay"
    \/ l.ord.status \in TERMINAL_ORDER_STATUSES \cup {"paid"}

(* The early returns: no payment, already paid, cancelled or refunded.     *)
WebhookIgnores(l, latest) ==
    \/ latest = NoAttempt
    \/ /\ l.key = "charge.complete"
       /\ \/ l.ord.status = "paid" \/ pay[latest] = "paid"
          \/ l.ord.status \in TERMINAL_ORDER_STATUSES
    \/ /\ l.key = "charge.fail" \/ l.outcome = "failed"
       /\ l.ord.status \in TERMINAL_ORDER_STATUSES

(* The newest payment is read on its own, after the order.                 *)
WebhookPayment(r) ==
    /\ pc[r] = "wh_payment"
    /\ \E n \in Attempt \cup {NoAttempt} :
          /\ IsLatestPayment(n)
          /\ IF WebhookIgnores(loc[r], n)
                THEN Return(r)
                ELSE Goto(r, "wh_fetch", [loc[r] EXCEPT !.pid = n])
    /\ UNCHANGED <<rows, omise, attempts, lock, faults>>

(* Mutant: the event's own word is taken, without the amount check.        *)
SettlesOnEventWord(l) ==
    /\ l.key = "charge.complete"
    /\ l.outcome = "successful"

(* Mutant: the amount comparison is dropped.                               *)
SettlesAnyAmount(l) ==
    /\ l.key = "charge.complete"
    /\ charge[l.cid] = "successful"

WebhookSettles(l) ==
    /\ l.key = "charge.complete"
    /\ charge[l.cid] = "successful"
    /\ amount[l.cid] = l.ord.total

(* The charge is fetched again; its status and amount then decide.         *)
WebhookFetch(r) ==
    LET l == loc[r]
    IN  /\ pc[r] = "wh_fetch"
        /\ CASE WebhookSettles(l) -> Goto(r, "wh_paid", l)
             [] l.key = "charge.fail" \/ charge[l.cid] = "failed" -> Goto(r, "wh_failed", l)
             [] OTHER -> Return(r)
        /\ UNCHANGED <<rows, omise, attempts, lock, faults>>

(* The payment fails and the reference is cleared; the order stays unpaid. *)
WebhookFailCommit(r) ==
    /\ pc[r] = "wh_failed"
    /\ OrderUnlocked
    /\ pay' = [pay EXCEPT ![loc[r].pid] = "failed"]
    /\ IF loc[r].ord.paymentReference = loc[r].cid
          THEN SaveWithoutItems([loc[r].ord EXCEPT !.paymentReference = NoAttempt])
          ELSE UNCHANGED order
    /\ Return(r)
    /\ UNCHANGED <<returned, payMethod, omise, attempts, lock, faults>>

-----------------------------------------------------------------------------
(* QR expiry, by the sweep or by a customer polling the payment            *)

ExpireRead(r, n) ==
    /\ payMethod[n] = "promptpay"
    /\ pay[n] = "pending"
    /\ Start(r, "expiry", "ex_order", [Idle EXCEPT !.pid = n])
    /\ UNCHANGED <<rows, omise, attempts, lock, faults>>

ExpireOrder(r) ==
    /\ pc[r] = "ex_order"
    /\ IF order.status \in TERMINAL_ORDER_STATUSES
          THEN Return(r)
          ELSE Goto(r, "ex_commit", [loc[r] EXCEPT !.ord = order])
    /\ UNCHANGED <<rows, omise, attempts, lock, faults>>

(* Mutant: the payment is left pending when the reference is cleared.      *)
ExpireForgetsPayment(r) ==
    LET l == loc[r]
    IN  /\ pc[r] = "ex_commit"
        /\ OrderUnlocked
        /\ SaveWithoutItems([l.ord EXCEPT !.paymentReference = NoAttempt])
        /\ Goto(r, "ex_cancel", [Idle EXCEPT !.pid = l.pid])
        /\ UNCHANGED <<pay, returned, payMethod, omise, attempts, lock, faults>>

(* The payment fails; the reference is cleared when it was this charge.    *)
(* A superseded row is locked by createCharge until it commits.            *)
finalizeExpiredPayment(r) ==
    LET l == loc[r]
        clears == l.ord.paymentReference = l.pid
    IN  /\ pc[r] = "ex_commit"
        /\ OrderUnlocked \/ (~clears /\ pay[l.pid] # "pending")
        /\ pay' = [pay EXCEPT ![l.pid] = "failed"]
        /\ IF clears THEN SaveWithoutItems([l.ord EXCEPT !.paymentReference = NoAttempt])
                     ELSE UNCHANGED order
        /\ Goto(r, "ex_cancel", [Idle EXCEPT !.pid = l.pid])
        /\ UNCHANGED <<returned, payMethod, omise, attempts, lock, faults>>

ExpireCancelCharge(r) ==
    /\ pc[r] = "ex_cancel"
    /\ \E s \in cancelOmiseChargeBestEffort(loc[r].pid, "promptpay") :
          charge' = [charge EXCEPT ![loc[r].pid] = s]
    /\ Return(r)
    /\ UNCHANGED <<rows, amount, attempts, lock, faults>>

-----------------------------------------------------------------------------
(* cancelStaleUnpaidOrders                                                 *)

(* Mutant: only orders with a pending payment are swept.                   *)
StaleOnlyWithPayment(r) ==
    /\ order.status = "pending_payment"
    /\ PendingPayments # {}
    /\ Start(r, "stale", "cs_paid", [Idle EXCEPT !.ord = order])
    /\ UNCHANGED <<rows, omise, attempts, lock, faults>>

StaleRead(r) ==
    /\ order.status = "pending_payment"
    /\ ~orderHasHeldItems(order)
    /\ Start(r, "stale", "cs_paid", [Idle EXCEPT !.ord = order])
    /\ UNCHANGED <<rows, omise, attempts, lock, faults>>

StalePaidCheck(r) ==
    /\ pc[r] = "cs_paid"
    /\ IF \E n \in Attempt : pay[n] = "paid" THEN Return(r) ELSE Goto(r, "cs_list", loc[r])
    /\ UNCHANGED <<rows, omise, attempts, lock, faults>>

StalePayments(r) ==
    /\ pc[r] = "cs_list"
    /\ Goto(r, "cs_commit", [loc[r] EXCEPT !.pays = PendingPayments])
    /\ UNCHANGED <<rows, omise, attempts, lock, faults>>

(* The payments read as pending fail, the order is cancelled, its          *)
(* reference cleared and its stock returned, in one transaction.           *)
cancelOrderRestoreStockAndFailPayments(r) ==
    /\ pc[r] = "cs_commit"
    /\ OrderUnlocked
    /\ pay' = [n \in Attempt |-> IF n \in loc[r].pays THEN "failed" ELSE pay[n]]
    /\ SaveWithItems([loc[r].ord EXCEPT !.status = "cancelled",
                                        !.paymentReference = NoAttempt])
    /\ restoreOrderStock
    /\ Return(r)
    /\ UNCHANGED <<payMethod, omise, attempts, lock, faults>>

-----------------------------------------------------------------------------
(* confirmBankTransferPaid                                                 *)

ConfirmBankTransferOrder(r) ==
    /\ order.paymentMethod = "bank_transfer"
    /\ order.status = "pending_payment"
    /\ Start(r, "bankTransfer", "cb_payment", [Idle EXCEPT !.ord = order])
    /\ UNCHANGED <<rows, omise, attempts, lock, faults>>

(* Mutant: any newest payment is confirmed, whatever its method.           *)
ConfirmableAnyMethod(latest) ==
    /\ latest # NoAttempt
    /\ pay[latest] # "paid"

(* Mutant: a missing payment passes the checks.                            *)
ConfirmableMissing(latest) ==
    latest # NoAttempt =>
        /\ pay[latest] # "paid"
        /\ payMethod[latest] = "bank_transfer"

ConfirmableBankTransfer(latest) ==
    /\ latest # NoAttempt
    /\ pay[latest] # "paid"
    /\ payMethod[latest] = "bank_transfer"

ConfirmBankTransferPayment(r) ==
    /\ pc[r] = "cb_payment"
    /\ \E n \in Attempt \cup {NoAttempt} :
          /\ IsLatestPayment(n)
          /\ IF ConfirmableBankTransfer(n)
                THEN Goto(r, "cb_commit", [loc[r] EXCEPT !.pid = n])
                ELSE Return(r)
    /\ UNCHANGED <<rows, omise, attempts, lock, faults>>

confirmBankTransferPaid(r) ==
    LET l == loc[r]
    IN  /\ pc[r] = "cb_commit"
        /\ OrderUnlocked
        /\ pay' = [pay EXCEPT ![l.pid] = "paid"]
        /\ SaveWithItems([l.ord EXCEPT
                !.status = deriveOrderStatusFromFulfillment("paid", Statuses(l.ord)),
                !.paymentReference = BankReference,
                !.paidAt = TRUE])
        /\ Return(r)
        /\ UNCHANGED <<returned, payMethod, omise, attempts, lock, faults>>

-----------------------------------------------------------------------------
PaymentStart(r) ==
    \/ \E m \in CheckoutMethods : CreateChargeBegin(r, m)
    \/ WebhookOrder(r)
    \/ \E n \in Attempt : ExpireRead(r, n)
    \/ StaleRead(r)
    \/ ConfirmBankTransferOrder(r)

PaymentStep(r) ==
    \/ cancelPendingOmiseChargesForOrder(r)
    \/ CreateChargeReject(r)
    \/ CreateNonOmisePayment(r)
    \/ PostOmiseCharge(r)
    \/ CommitOmiseCharge(r)
    \/ markOrderPaid(r)
    \/ WebhookPayment(r)
    \/ WebhookFetch(r)
    \/ WebhookFailCommit(r)
    \/ ExpireOrder(r)
    \/ finalizeExpiredPayment(r)
    \/ ExpireCancelCharge(r)
    \/ StalePaidCheck(r)
    \/ StalePayments(r)
    \/ cancelOrderRestoreStockAndFailPayments(r)
    \/ ConfirmBankTransferPayment(r)
    \/ confirmBankTransferPaid(r)
=============================================================================
