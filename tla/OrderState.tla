----------------------------- MODULE OrderState -----------------------------
(***************************************************************************)
(* The rows one order owns in PostgreSQL, its charges at Omise, and the    *)
(* request handlers in flight against them.  PaymentHandlers and           *)
(* FulfillmentHandlers give the handlers, OrderSystem composes them.       *)
(*                                                                         *)
(* Every handler loads entities, awaits, and saves what it loaded: TypeORM *)
(* save() writes every loaded column that differs from the row, so a       *)
(* handler's private copy (loc) overwrites what others wrote meanwhile.    *)
(* A step is one read, one transaction or one Omise call.                  *)
(***************************************************************************)
EXTENDS Integers, FiniteSets, OrderStatusRules

CONSTANTS
    Req,              \* slots: handlers that may be in flight at once
    Stores,           \* stores of the order; its lines move per store
    MaxAttempts,      \* bound: payment attempts of the order
    CheckoutMethods,  \* payment methods the customer tries
    Handlers,         \* the handlers that run in this instance
    AdminTargets,     \* statuses the admin sets through updateStatus
    MaxFaults         \* bound: handlers that die half-way

AllHandlers == {"createCharge", "webhook", "expiry", "stale", "bankTransfer",
                "vendorPaid", "acknowledge", "ship", "tracking", "deliver",
                "vendorCancel", "admin", "applyHold", "restoreHold", "holdSla"}

ASSUME OrderStateAssumption ==
    /\ MaxAttempts \in Nat
    /\ MaxFaults \in Nat
    /\ IsFiniteSet(Stores)
    /\ Stores # {}
    /\ CheckoutMethods \subseteq PaymentMethod
    /\ CheckoutMethods # {}
    /\ Handlers \subseteq AllHandlers
    /\ AdminTargets \subseteq OrderStatus

Attempt == 1 .. MaxAttempts
NoAttempt == 0          \* null: no paymentReference, no payment row, no charge
BankReference == -1     \* paymentReference "bank_transfer:<admin>"
Reference == Attempt \cup {NoAttempt, BankReference}

VARIABLES
    order,      \* the orders row with its order_items
    returned,   \* stores whose lines have a RETURN inventory transaction
    pay,        \* status of the payments row of each attempt
    payMethod,  \* its paymentMethod
    charge,     \* Omise's status of the charge of each attempt
    amount,     \* the amount of each attempt (row and charge)
    attempts,   \* attempts made so far: ids are handed out in order
    lock,       \* holders of the FOR UPDATE lock on the orders row
    pc,         \* where each handler stands
    loc,        \* what each handler loaded
    faults      \* handlers that died so far

rows == <<order, returned, pay, payMethod>>
omise == <<charge, amount>>
vars == <<order, returned, pay, payMethod, charge, amount, attempts, lock, pc, loc, faults>>

OrderRow == [status : OrderStatus, paymentMethod : PaymentMethod,
             paymentReference : Reference, paidAt : BOOLEAN, total : Nat,
             items : [Stores -> FulfillmentStatus],
             heldFrom : [Stores -> HOLD_ELIGIBLE_FULFILLMENT \cup {"none"}]]

ChargeStatus == {"none", "pending", "successful", "failed", "expired", "reversed"}
PaymentStatus == {"none", "pending", "failed", "paid"}
EventKey == {"charge.complete", "charge.fail", "charge.expire"}

Statuses(row) == {row.items[s] : s \in Stores}

orderHasHeldItems(row) == \E s \in Stores : row.items[s] = "on_hold"

(* Each store's lines and shipping cost one unit and there is no discount. *)
recomputeOrderPayableTotals(row) ==
    [row EXCEPT !.total = Cardinality({s \in Stores : row.items[s] # "cancelled"})]

(* n is what "the newest payment by createdAt" returns: the last attempt   *)
(* that has a row, NoAttempt when there is none.                           *)
IsLatestPayment(n) ==
    /\ n # NoAttempt => pay[n] # "none"
    /\ \A m \in Attempt : m > n => pay[m] = "none"

PendingPayments == {n \in Attempt : pay[n] = "pending"}

Idle == [ord |-> [status |-> "pending_payment", paymentMethod |-> "cod",
                  paymentReference |-> NoAttempt, paidAt |-> FALSE, total |-> 0,
                  items |-> [s \in Stores |-> "pending"],
                  heldFrom |-> [s \in Stores |-> "none"]],
         pid |-> NoAttempt, cid |-> NoAttempt, pays |-> {}, method |-> "cod",
         key |-> "charge.complete", target |-> "paid", outcome |-> "pending",
         stores |-> {}]

(* Orders.create leaves an unpaid order with no payment.                   *)
Init ==
    /\ \E m \in CheckoutMethods :
          order = recomputeOrderPayableTotals([Idle.ord EXCEPT !.paymentMethod = m])
    /\ returned = {}
    /\ pay = [n \in Attempt |-> "none"]
    /\ payMethod = [n \in Attempt |-> "cod"]
    /\ charge = [n \in Attempt |-> "none"]
    /\ amount = [n \in Attempt |-> 0]
    /\ attempts = 0
    /\ lock = {}
    /\ pc = [r \in Req |-> "idle"]
    /\ loc = [r \in Req |-> Idle]
    /\ faults = 0

(* Control of one handler: start, move on with what was loaded, return.    *)
Start(r, handler, next, l) ==
    /\ handler \in Handlers
    /\ pc[r] = "idle"
    /\ pc' = [pc EXCEPT ![r] = next]
    /\ loc' = [loc EXCEPT ![r] = l]

Goto(r, next, l) ==
    /\ pc' = [pc EXCEPT ![r] = next]
    /\ loc' = [loc EXCEPT ![r] = l]

Return(r) == Goto(r, "idle", Idle)

(* save() of an order loaded with its items, and of one loaded without.    *)
SaveWithItems(row) == order' = row
SaveWithoutItems(row) ==
    order' = [row EXCEPT !.items = order.items, !.heldFrom = order.heldFrom]

(* An UPDATE of the orders row, or an INSERT that references it, waits for *)
(* the FOR UPDATE lock of createCharge.                                    *)
OrderUnlocked == lock = {}

(* The inventory rows of every line not yet returned are written.          *)
restoreOrderStock == returned' = Stores
restoreItemStock(stores) == returned' = returned \cup stores
=============================================================================
