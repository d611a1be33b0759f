---------------------------- MODULE PayoutLedger ----------------------------
(***************************************************************************)
(* What one settlement rail owes a store: the orders that count, what      *)
(* earlier payouts consumed of them, and what the next payout pays         *)
(* (payout-commission.calculator.ts and the queries of PayoutsService that *)
(* feed it).  Amounts are satang, so toSatang and fromSatang are the       *)
(* identity here: every stored amount has two decimals.                    *)
(*                                                                         *)
(* The balance is recomputed from the orders that are eligible now, and an *)
(* order is eligible only while it is paid or delivered, so it leaves the  *)
(* sum while the vendor processes it and comes back when it arrives.       *)
(***************************************************************************)
EXTENDS Integers, Sequences, SequencesExt

CONSTANTS
    Products,    \* subtotals a store's lines of an order may have
    Shippings,   \* its shipping fee in an order
    Discounts,   \* the store's own promotion discount in an order
    Rates,       \* commission rates in percent, changed by the admin
    DefaultRate, \* commission.defaultRatePercent
    Progress,    \* TRUE: orders move on after they were paid
    Partial,     \* TRUE: the admin pays less than the whole balance
    MaxOrders,   \* bound
    MaxPayouts   \* bound

LedgerAssumption ==
    /\ Products \subseteq Nat \ {0}
    /\ Shippings \subseteq Nat
    /\ Discounts \subseteq Nat
    /\ Rates \subseteq 0 .. 100
    /\ DefaultRate \in Rates
    /\ Progress \in BOOLEAN
    /\ Partial \in BOOLEAN
    /\ MaxOrders \in Nat
    /\ MaxPayouts \in Nat

VARIABLES
    orders,   \* the store's orders on this rail, by paid_at
    payouts,  \* snapshots of the payouts that count, by created_at
    commissionRate  \* of the store; NoRate (null) is the default

vars == <<orders, payouts, commissionRate>>

NoRate == -1

Lesser(a, b) == IF a <= b THEN a ELSE b
Positive(a) == IF a <= 0 THEN 0 ELSE a
Total(s) == FoldLeft(LAMBDA a, b : a + b, 0, s)
Field(s, F(_)) == Total([i \in DOMAIN s |-> F(s[i])])

OrderFacts == [product : Products, shipping : Shippings, discount : Discounts,
               post : BOOLEAN,    \* paid_at at or after goLiveAt
               status : {"paid", "processing", "delivered", "refunded", "on_hold"}]

-----------------------------------------------------------------------------
(* The calculator                                                          *)

effectiveRate(stored, defaultRate) == IF stored = NoRate THEN defaultRate ELSE stored

(* Half up.                                                                *)
commissionSatang(post, r) == (post * r + 50) \div 100

TakeProduct(unpaid, take) ==
    LET fromPre == Lesser(unpaid.pre, take)
    IN  [unpaid EXCEPT !.pre = @ - fromPre,
                       !.post = @ - Lesser(@, take - fromPre)]

(* Mutant: the post bucket is not clamped.                                 *)
ConsumeWithoutMin(buckets, priors) ==
    [buckets EXCEPT !.post = @ - Field(priors, LAMBDA p : p.productSold)]

consumePriorPayouts(buckets, priors) ==
    FoldLeft(LAMBDA unpaid, p : TakeProduct(unpaid, p.productSold), buckets, priors)

(* Mutant: every eligible order brings its shipping.                       *)
AllShipping(slices, unpaidProduct) == Field(slices, LAMBDA o : o.shipping)

(* Oldest orders first: an order whose product is wholly covered brings no *)
(* shipping, every later one brings all of it.                             *)
unpaidShippingForRemainingProduct(slices, unpaidProduct) ==
    LET lifetime == Field(slices, LAMBDA o : o.product)
        step(acc, o) == IF acc.cover >= o.product
                        THEN [acc EXCEPT !.cover = @ - o.product]
                        ELSE [cover |-> 0, ship |-> acc.ship + o.shipping]
    IN  FoldLeft(step, [cover |-> Positive(lifetime - unpaidProduct), ship |-> 0], slices).ship

Snapshot(product, ship, post, r) ==
    [productSold |-> product, shippingFees |-> ship, commissionRate |-> r,
     commissionAmount |-> commissionSatang(post, r),
     net |-> product - commissionSatang(post, r) + ship]

finalizeBreakdown(unpaid, r) == Snapshot(unpaid.pre + unpaid.post, unpaid.ship, unpaid.post, r)

(* Binary search on a window [lo, hi]; best is the last value that fits.   *)
largestPostProduct(unpaidPost, remaining, r) ==
    LET W == [lo : 0 .. unpaidPost + 1, hi : -1 .. unpaidPost, best : 0 .. unpaidPost]
        search[w \in W] ==
            LET mid == (w.lo + w.hi) \div 2
            IN  IF w.lo > w.hi THEN w.best
                ELSE IF mid - commissionSatang(mid, r) <= remaining
                     THEN search[[w EXCEPT !.lo = mid + 1, !.best = mid]]
                     ELSE search[[w EXCEPT !.hi = mid - 1]]
    IN  search[[lo |-> 0, hi |-> unpaidPost, best |-> 0]]

(* Product before the cutoff, product after it net of commission, then     *)
(* shipping; what rounding leaves over goes into the buckets paid 1:1.     *)
consumeToAmount(unpaid, amount, r) ==
    LET pre == Lesser(unpaid.pre, amount)
        afterPre == amount - pre
        maxPostNet == unpaid.post - commissionSatang(unpaid.post, r)
        post == IF afterPre >= maxPostNet THEN unpaid.post
                ELSE largestPostProduct(unpaid.post, afterPre, r)
        afterPost == afterPre - (post - commissionSatang(post, r))
        ship == Lesser(unpaid.ship, afterPost)
        absorbPre == Lesser(unpaid.pre - pre, afterPost - ship)
    IN  Snapshot(pre + absorbPre + post, ship, post, r)

-----------------------------------------------------------------------------
(* The queries                                                             *)

rate == effectiveRate(commissionRate, DefaultRate)

eligibleItemsQuery == SelectSeq(orders, LAMBDA o : o.status \in {"paid", "delivered"})

Bucket(isPost) ==
    LET slices == SelectSeq(eligibleItemsQuery, LAMBDA o : o.post = isPost)
    IN  Positive(Field(slices, LAMBDA o : o.product) - Field(slices, LAMBDA o : o.discount))

calculateEligibleProductBuckets == [pre |-> Bucket(FALSE), post |-> Bucket(TRUE), ship |-> 0]

(* Shipping is capped by what the customer paid beyond the store's lines,  *)
(* which is the fee here: the order has no other discount.                 *)
listEligibleOrderSlices == eligibleItemsQuery

UnpaidBuckets ==
    LET unpaid == consumePriorPayouts(calculateEligibleProductBuckets, payouts)
    IN  [unpaid EXCEPT !.ship =
            unpaidShippingForRemainingProduct(listEligibleOrderSlices, unpaid.pre + unpaid.post)]

computeUnpaidBreakdown == finalizeBreakdown(UnpaidBuckets, rate)

assertCommissionFormula(b, unpaid) ==
    b.commissionAmount = commissionSatang(Positive(b.productSold - unpaid.pre), b.commissionRate)

-----------------------------------------------------------------------------
Init ==
    /\ orders = <<>>
    /\ payouts = <<>>
    /\ commissionRate \in Rates \cup {NoRate}

(* A customer's order is paid on this rail.  Orders are dated as they come,*)
(* so once one falls after the cutoff the next ones do.                    *)
OrderPaid(o) ==
    /\ Len(orders) < MaxOrders
    /\ o.status = "paid"
    /\ o.discount <= o.product
    /\ orders # <<>> /\ Last(orders).post => o.post
    /\ orders' = Append(orders, o)
    /\ UNCHANGED <<payouts, commissionRate>>

(* The order's life after payment, as seen by the payout queries: it is    *)
(* acknowledged, delivered (shipped counts as processing does), held and   *)
(* restored, refunded.                                                     *)
OrderMoves(i, status) ==
    /\ Progress
    /\ <<orders[i].status, status>> \in
         {<<"paid", "processing">>, <<"processing", "delivered">>, <<"paid", "on_hold">>,
          <<"on_hold", "paid">>, <<"delivered", "refunded">>}
    /\ orders' = [orders EXCEPT ![i].status = status]
    /\ UNCHANGED <<payouts, commissionRate>>

(* An administrator edits the store: sets a rate, and never none again.    *)
ChangeRate(r) ==
    /\ commissionRate # r
    /\ commissionRate' = r
    /\ UNCHANGED <<orders, payouts>>

(* One payout, computed and inserted in one transaction under the store's  *)
(* lock.  Without an amount it takes the whole unpaid net.                 *)
insertSnapshotPayout(requested) ==
    LET full == computeUnpaidBreakdown
        taken == consumeToAmount(UnpaidBuckets, requested, rate)
    IN  /\ Len(payouts) < MaxPayouts
        /\ requested > 0
        /\ requested <= full.net
        /\ Partial \/ requested = full.net
        /\ assertCommissionFormula(taken, UnpaidBuckets)
        /\ payouts' = Append(payouts, taken)
        /\ UNCHANGED <<orders, commissionRate>>

Next ==
    \/ \E o \in OrderFacts : OrderPaid(o)
    \/ \E i \in DOMAIN orders, s \in {"processing", "delivered", "refunded", "on_hold", "paid"} :
           OrderMoves(i, s)
    \/ \E r \in Rates : ChangeRate(r)
    \/ \E requested \in 1 .. Positive(computeUnpaidBreakdown.net) : insertSnapshotPayout(requested)

Spec == Init /\ [][Next]_vars

-----------------------------------------------------------------------------
(* Properties                                                              *)

TypeOK ==
    /\ orders \in Seq(OrderFacts)
    /\ \A i \in DOMAIN payouts :
          payouts[i] \in [productSold : Nat, shippingFees : Nat, commissionRate : Rates,
                          commissionAmount : Nat, net : Nat]
    /\ commissionRate \in Rates \cup {NoRate}

(* largestPostProduct's binary search returns the greatest product whose   *)
(* net fits what remains: insertSnapshotPayout never takes a product the   *)
(* amount does not pay for, and never one satang less than it could.       *)
SearchIsGreatest ==
    \A post \in 0 .. UnpaidBuckets.post, remaining \in 0 .. UnpaidBuckets.post :
        LET best == largestPostProduct(post, remaining, rate)
            fits(x) == x - commissionSatang(x, rate) <= remaining
        IN  fits(best) /\ \A x \in best + 1 .. post : ~fits(x)

(* Whatever amount the admin asks for, consumeToAmount pays no more than   *)
(* that, and what it leaves unpaid is at most the satang of rounding.      *)
PaysWhatWasAsked ==
    \A amount \in 1 .. Positive(computeUnpaidBreakdown.net) :
        consumeToAmount(UnpaidBuckets, amount, rate).net \in {amount - 1, amount}

(* The formula check of insertSnapshotPayout (assertCommissionFormula)     *)
(* never refuses a payout of an amount within the balance.                 *)
CommissionFormulaHolds ==
    \A amount \in 1 .. Positive(computeUnpaidBreakdown.net) :
        assertCommissionFormula(consumeToAmount(UnpaidBuckets, amount, rate), UnpaidBuckets)

(* A store is never paid for product it did not sell: however payouts are  *)
(* split, however the rate changes and wherever the cutoff falls, what     *)
(* payouts consumed of the product is within what was sold and not         *)
(* discounted by the store.                                                *)
ProductPaidOnce ==
    Field(payouts, LAMBDA p : p.productSold)
      <= Field(orders, LAMBDA o : o.product) - Field(orders, LAMBDA o : o.discount)

(* The shipping of an order is paid out once.  unpaidShipping...'s comment *)
(* promises it for orders already paid out.                                *)
ShippingPaidOnce ==
    Field(payouts, LAMBDA p : p.shippingFees) <= Field(orders, LAMBDA o : o.shipping)

=============================================================================
