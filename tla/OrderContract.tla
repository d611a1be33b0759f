--------------------------- MODULE OrderContract ----------------------------
(***************************************************************************)
(* What an order promises its customer and its vendors, without handlers,  *)
(* rows or charges: it is bought at most once, with one attempt at a time, *)
(* and it is over for good, its stock released, once it is cancelled or    *)
(* refunded.                                                               *)
(***************************************************************************)
EXTENDS Integers

CONSTANTS Attempt, Stores

VARIABLES
    stage,     \* "unpaid", "bought" or "over"
    open,      \* the attempt to pay that may still succeed
    paid,      \* the attempt that paid
    released   \* stores whose lines are back on sale

vars == <<stage, open, paid, released>>

Init ==
    /\ stage = "unpaid"
    /\ open = {}
    /\ paid = {}
    /\ released = {}

(* The customer tries to pay: the attempt replaces the one before it, or   *)
(* is refused at once.                                                     *)
Try(n) ==
    /\ stage = "unpaid"
    /\ paid = {}
    /\ \A m \in open : m < n
    /\ open' \in {{n}, {}}
    /\ UNCHANGED <<stage, paid, released>>

GiveUp(n) ==
    /\ n \in open
    /\ open' = open \ {n}
    /\ UNCHANGED <<stage, paid, released>>

(* Only the open attempt pays, and only one ever does.                     *)
Pay(n) ==
    /\ stage # "over"
    /\ n \in open
    /\ paid = {}
    /\ stage' = "bought"
    /\ open' = open \ {n}
    /\ paid' = {n}
    /\ UNCHANGED released

(* The vendor says that it was paid.                                       *)
SettleByHand ==
    /\ stage = "unpaid"
    /\ stage' = "bought"
    /\ UNCHANGED <<open, paid, released>>

(* Lines that were held too long go back on sale one store at a time.      *)
Release(S) ==
    /\ stage # "over"
    /\ released' = released \cup S
    /\ UNCHANGED <<stage, open, paid>>

(* The end returns all of the stock; what was paid stays on record.        *)
Close ==
    /\ stage' = "over"
    /\ open' \subseteq open
    /\ released' = Stores
    /\ UNCHANGED paid

Next ==
    \/ \E n \in Attempt : Try(n) \/ GiveUp(n) \/ Pay(n)
    \/ SettleByHand
    \/ \E S \in SUBSET Stores : Release(S)
    \/ Close

Spec == Init /\ [][Next]_vars
=============================================================================
