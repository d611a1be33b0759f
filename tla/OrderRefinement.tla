-------------------------- MODULE OrderRefinement ---------------------------
(***************************************************************************)
(* OrderSystem, one handler at a time, implements OrderContract: the       *)
(* contract's state is read off the rows, and handlers, locks and charges  *)
(* are the detail it leaves out.                                           *)
(***************************************************************************)
EXTENDS OrderInvariant

Stage(row) ==
    CASE row.status = "pending_payment" -> "unpaid"
      [] row.status \in TERMINAL_ORDER_STATUSES -> "over"
      [] OTHER -> "bought"

Contract ==
    INSTANCE OrderContract WITH
        stage <- Stage(order),
        open <- PendingPayments,
        paid <- {n \in Attempt : pay[n] = "paid"},
        released <- returned

(* Every step of a payment, fulfillment or hold handler, of Omise and of a *)
(* handler that dies is a step of the contract or none: an order is paid   *)
(* by its open attempt and at most once, nothing but an attempt or the     *)
(* vendor makes it bought, and once over it stays over with all of its     *)
(* stock released.                                                         *)
ImplementsContract == Contract!Spec
=============================================================================
