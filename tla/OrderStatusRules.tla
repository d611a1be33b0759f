-------------------------- MODULE OrderStatusRules --------------------------
(***************************************************************************)
(* The pure rules about order and fulfillment statuses that every writer   *)
(* of an order row shares (order-fulfillment.util.ts, order-totals.util.ts *)
(* and the guard sets of the services).  The rules only ask "every" and    *)
(* "some" of an order's lines, so they take the SET of line statuses.      *)
(***************************************************************************)
EXTENDS Naturals, FiniteSets

OrderStatus == {"pending_payment", "paid", "processing", "on_hold",
                "shipped", "delivered", "cancelled", "refunded"}

FulfillmentStatus == {"pending", "processing", "on_hold",
                      "shipped", "delivered", "cancelled"}

PaymentMethod == {"promptpay", "credit_card", "truemoney", "shopeepay",
                  "cod", "bank_transfer"}

NonOmiseMethod == {"cod", "bank_transfer"}

TERMINAL_ORDER_STATUSES == {"cancelled", "refunded"}

VENDOR_CANCELLABLE_ORDER_STATUSES == {"pending_payment", "paid", "processing"}

HOLD_ELIGIBLE_FULFILLMENT == {"pending", "processing"}

HOLD_ELIGIBLE_ORDER_STATUSES == {"pending_payment", "paid", "processing"}

(***************************************************************************)
(* Cancelled lines do not count; an order whose remaining lines are all    *)
(* held is on hold; otherwise the held lines do not count either and the   *)
(* rest climbs paid, processing, shipped, delivered.  An unpaid order      *)
(* stays unpaid and a terminal one stays terminal.                         *)
(***************************************************************************)
deriveOrderStatusFromFulfillment(current, statuses) ==
    LET live == statuses \ {"cancelled"}
        progressing == live \ {"on_hold"}
    IN  IF current \in TERMINAL_ORDER_STATUSES \cup {"pending_payment"} THEN current
        ELSE IF live = {} THEN "paid"
        ELSE IF live = {"on_hold"} THEN "on_hold"
        ELSE IF progressing = {"delivered"} THEN "delivered"
        ELSE IF progressing \subseteq {"shipped", "delivered"} THEN "shipped"
        ELSE IF progressing \cap {"processing", "shipped", "delivered"} # {} THEN "processing"
        ELSE "paid"

(* An admin never sets on_hold, and leaves it only for a terminal status.  *)
assertNotManualHoldTransition(from, to) ==
    /\ to # "on_hold"
    /\ from = "on_hold" => to \in TERMINAL_ORDER_STATUSES
=============================================================================
