---------------------------- MODULE PromotionRules ----------------------------
(***************************************************************************)
(* What a promotion is worth: validateCode with its gates, buy-X-get-Y,    *)
(* the stacking of a platform code and store codes at checkout, and the    *)
(* batch that previews codes (PromotionsService).                          *)
(*                                                                         *)
(* These are computations without state of their own. A behaviour takes    *)
(* one case, a promotion or two with a cart and a customer, and evaluates  *)
(* it. Amounts are even, so that half of one is whole.                     *)
(***************************************************************************)
EXTENDS Integers, Sequences, FiniteSets, SequencesExt, FiniteSetsExt

CONSTANTS
    Kind,         \* the cases of this instance
    MaxUnits,     \* MAX_VALIDATE_PROMOTION_LINE_QUANTITY
    MaxLines      \* bound on the lines of a cart

Kinds == {"value", "gates", "bxgy", "stack", "duplicate"}
RulesAssumption == Kind \in Kinds /\ MaxUnits \in Nat /\ MaxLines \in Nat

VARIABLES
    in,    \* the case
    out    \* what the service answers, <<>> before it is asked

vars == <<in, out>>

PromotionType == {"percentage", "fixed", "free_shipping", "fixed_shipping", "percentage_shipping", "buy_x_get_y"}
SHIPPING_PROMOTION_TYPES == {"free_shipping", "fixed_shipping", "percentage_shipping"}

Promotion ==
    [id |-> "a", type |-> "fixed", scope |-> "platform", store |-> "none", value |-> 0, min |-> 0, max |-> 0,
     active |-> TRUE, starts |-> 0, expires |-> 9, limit |-> 0, count |-> 0, perCustomer |-> 1,
     loggedInOnly |-> FALSE, newCustomer |-> FALSE, nDays |-> 0, buy |-> 1, get |-> 1]
Customer == [kind |-> "member", uses |-> 0, age |-> 0, paid |-> 0]
Cart == [subtotal |-> 0, store |-> "none", requiredScope |-> "none", fee |-> 0, storeFee |-> [s \in {} |-> 0],
         lines |-> <<>>, now |-> 1, customer |-> Customer, mode |-> "apply"]

Throw(code) == [thrown |-> code, reason |-> "none", discount |-> 0, free |-> 0]
Soft(code) == [thrown |-> "none", reason |-> code, discount |-> 0, free |-> 0]
Give(d, f) == [thrown |-> "none", reason |-> "none", discount |-> d, free |-> f]

Least2(a, b) == IF a <= b THEN a ELSE b

-----------------------------------------------------------------------------
(* Gates                                                                   *)

evaluateCustomerUsageLimit(p, c) == p.perCustomer > 0 /\ c.kind # "none" /\ c.uses >= p.perCustomer

evaluateLoggedInOnlyGate(p, c) == p.loggedInOnly /\ c.kind \notin {"member", "removed"}

(* The gate with the request's cache: the entry of a customer that is gone *)
(* has no date.                                                            *)
evaluateNewCustomerGatesCached(p, c) ==
    LET entry == [createdAt |-> c.kind = "member", paid |-> IF c.kind = "member" THEN c.paid ELSE 0]
    IN  CASE ~p.newCustomer -> "none"
          [] p.newCustomer /\ (c.kind \in {"none", "guest"} \/ ~entry.createdAt) -> "GUEST"
          [] p.newCustomer /\ c.kind \notin {"none", "guest"} /\ entry.createdAt /\ (p.nDays < 1 \/ c.age > p.nDays) ->
                "ACCOUNT_AGE"
          [] OTHER -> IF entry.paid > 0 THEN "ORDER_HISTORY" ELSE "none"

evaluateNewCustomerGates(p, c) ==
    CASE ~p.newCustomer -> "none"
      [] p.newCustomer /\ c.kind # "member" -> "GUEST"
      [] p.newCustomer /\ c.kind = "member" /\ (p.nDays < 1 \/ c.age > p.nDays) -> "ACCOUNT_AGE"
      [] OTHER -> IF c.paid > 0 THEN "ORDER_HISTORY" ELSE "none"

(* The checks in their order: what refuses, and whether a preview answers  *)
(* softly (resolveEligibilityFailure) or throws too.                       *)
Checks(p, cart, gate) ==
    LET c == cart.customer
        hard(when, code) == [when |-> when, code |-> code, soft |-> FALSE]
        soft(when, code) == [when |-> when, code |-> code, soft |-> TRUE]
    IN  << hard(~p.active, "INVALID_PROMOTION"),
           hard(cart.requiredScope \notin {"none", p.scope}, "PROMOTION_SCOPE"),
           hard(p.scope = "store" /\ cart.store = "none", "PROMOTION_STORE"),
           hard(p.scope = "platform" /\ cart.store # "none", "PROMOTION_SCOPE"),
           hard(p.starts > cart.now, "PROMOTION_NOT_STARTED"),
           hard(p.expires < cart.now, "PROMOTION_EXPIRED"),
           soft(p.limit > 0 /\ p.count >= p.limit, "PROMOTION_LIMIT"),
           soft(evaluateCustomerUsageLimit(p, c), "PROMOTION_CUSTOMER_LIMIT"),
           hard(p.scope = "store" /\ p.store # cart.store, "PROMOTION_STORE"),
           hard(p.min > 0 /\ cart.subtotal < p.min, "PROMOTION_MIN_PURCHASE"),
           soft(evaluateLoggedInOnlyGate(p, c), "GUEST"),
           soft(gate # "none", gate) >>

resolveEligibilityFailure(code, mode) == IF mode = "preview" THEN Soft(code) ELSE Throw(code)

-----------------------------------------------------------------------------
(* Buy X get Y                                                             *)

(* A unit for every piece of the promotion's product, in the lines' order. *)
Units(lines) ==
    FoldLeft(LAMBDA us, l : us \o IF l.product = "p" THEN [i \in 1 .. l.qty |-> l.price] ELSE <<>>, <<>>, lines)

(* The units sorted by price; the first n are free.                        *)
SumOfFree(us, n) ==
    LET sorted == SortSeq(us, LAMBDA a, b : a < b)
    IN  FoldLeft(LAMBDA s, x : s + x, 0, SubSeq(sorted, 1, n))

evaluateBuyXGetY(p, lines, mode) ==
    LET us == Units(lines)
        n == (Len(us) \div (p.buy + p.get)) * p.get
    IN  CASE Len(us) > MaxUnits -> Throw("QUANTITY_TOO_LARGE")
          [] Len(us) <= MaxUnits /\ n = 0 -> IF mode = "preview" THEN Soft("INSUFFICIENT_QTY") ELSE Give(0, 0)
          [] OTHER -> Give(SumOfFree(us, n), n)

-----------------------------------------------------------------------------
(* validateCode                                                            *)

resolveShippingFeeBase(p, cart) ==
    IF p.scope = "store" /\ cart.store \in DOMAIN cart.storeFee THEN cart.storeFee[cart.store] ELSE cart.fee

Worth(p, cart) ==
    LET fee == resolveShippingFeeBase(p, cart)
    IN  CASE p.type = "percentage" -> Give((cart.subtotal * p.value) \div 100, 0)
          [] p.type = "percentage_shipping" -> Give((fee * p.value) \div 100, 0)
          [] p.type = "free_shipping" -> Give(fee, 0)
          [] p.type \in {"fixed", "fixed_shipping"} -> Give(p.value, 0)
          [] OTHER -> evaluateBuyXGetY(p, cart.lines, cart.mode)

(* maxDiscountAmount, then Rule C.                                         *)
Clamp(p, cart, d) ==
    Least2(IF p.max > 0 THEN Least2(d, p.max) ELSE d,
           IF p.type \in SHIPPING_PROMOTION_TYPES THEN resolveShippingFeeBase(p, cart) ELSE cart.subtotal)

Evaluate(p, cart, gate) ==
    LET checks == Checks(p, cart, gate)
        failed == {i \in DOMAIN checks : checks[i].when}
        worth == Worth(p, cart)
    IN  CASE failed # {} ->
               LET first == checks[Min(failed)]
               IN  IF first.soft THEN resolveEligibilityFailure(first.code, cart.mode) ELSE Throw(first.code)
          [] failed = {} /\ (worth.thrown # "none" \/ worth.reason # "none") -> worth
          [] OTHER -> [worth EXCEPT !.discount = Clamp(p, cart, worth.discount)]

validateCode(p, cart) == Evaluate(p, cart, evaluateNewCustomerGates(p, cart.customer))

(* evaluateBatchTarget, toEligibilityItem: a preview with the cache, an    *)
(* error turned into the item's reason.                                    *)
evaluateBatchTarget(p, cart) ==
    LET res == Evaluate(p, [cart EXCEPT !.mode = "preview"], evaluateNewCustomerGatesCached(p, cart.customer))
        reason == IF res.thrown # "none" THEN res.thrown ELSE res.reason
    IN  [eligible |-> reason = "none", reason |-> reason, discount |-> res.discount, free |-> res.free]

-----------------------------------------------------------------------------
(* applyStackedPromotions                                                  *)

Empty == [thrown |-> "none", applied |-> <<>>, by |-> [x \in {} |-> 0], items |-> 0, shipping |-> 0, left |-> 0]

(* Mutant: shipping promotions do not share the fee.                       *)
AbsorbUnpooled(acc, p, res) ==
    [acc EXCEPT !.applied = Append(@, p.id), !.by = [x \in DOMAIN @ \cup {p.id} |-> IF x = p.id THEN res.discount ELSE @[x]],
                !.items = IF p.type \in SHIPPING_PROMOTION_TYPES THEN @ ELSE @ + res.discount,
                !.shipping = IF p.type \in SHIPPING_PROMOTION_TYPES THEN @ + res.discount ELSE @]

(* absorb: buy-X-get-Y without a free unit is passed over; shipping        *)
(* promotions share what is left of the fee.                               *)
absorb(acc, p, res) ==
    LET ship == p.type \in SHIPPING_PROMOTION_TYPES
        d == IF ship THEN Least2(res.discount, acc.left) ELSE res.discount
    IN  IF p.type = "buy_x_get_y" /\ res.free = 0 /\ res.discount = 0
          THEN acc
          ELSE [acc EXCEPT !.applied = Append(@, p.id),
                           !.by = [x \in DOMAIN @ \cup {p.id} |-> IF x = p.id THEN d ELSE @[x]],
                           !.items = IF ship THEN @ ELSE @ + d,
                           !.shipping = IF ship THEN @ + d ELSE @,
                           !.left = IF ship THEN @ - d ELSE @]

(* Each code in its lane: the platform's over the whole cart, a store's    *)
(* over that store's items. The first error is the order's.                *)
applyStackedPromotions(cart, subtotals, platform, stores) ==
    LET lane(p, scope) ==
            [cart EXCEPT !.requiredScope = scope, !.mode = "apply",
                         !.store = IF scope = "store" THEN p.store ELSE "none",
                         !.subtotal = IF scope = "store" /\ p.store \in DOMAIN subtotals THEN subtotals[p.store] ELSE @]
        step(acc, q) ==
            LET res == validateCode(q.p, lane(q.p, q.scope))
            IN  CASE acc.thrown # "none" -> acc
                  [] acc.thrown = "none" /\ res.thrown # "none" -> [acc EXCEPT !.thrown = res.thrown]
                  [] OTHER -> absorb(acc, q.p, res)
        all == [i \in DOMAIN platform |-> [p |-> platform[i], scope |-> "platform"]]
                 \o [i \in DOMAIN stores |-> [p |-> stores[i], scope |-> "store"]]
        acc == FoldLeft(step, [Empty EXCEPT !.left = cart.fee], all)
    IN  [thrown |-> acc.thrown, applied |-> acc.applied, by |-> acc.by,
         discount |-> Least2(acc.items, cart.subtotal) + Least2(acc.shipping, cart.fee)]

-----------------------------------------------------------------------------
(* Cases                                                                   *)

Lines == {[product |-> x, qty |-> n, price |-> u] : x \in {"p", "q"}, n \in 0 .. 2, u \in {2, 4, 6}}

ValueCases ==
    {[p |-> [Promotion EXCEPT !.type = t, !.scope = s, !.store = IF s = "store" THEN "s1" ELSE "none",
                              !.value = v, !.max = m, !.min = lo],
      cart |-> [Cart EXCEPT !.subtotal = sub, !.store = IF s = "store" THEN "s1" ELSE "none", !.fee = fee,
                            !.storeFee = IF s = "store" THEN [x \in {"s1"} |-> sf] ELSE @,
                            !.lines = <<[product |-> "p", qty |-> 2, price |-> sub \div 2]>>]] :
        t \in PromotionType, s \in {"platform", "store"}, v \in {0, 50, 100}, m \in {0, 2}, lo \in {0, 4},
        sub \in {0, 4, 8}, fee \in {2, 4}, sf \in {0, 2}}

GateCases ==
    {[p |-> [Promotion EXCEPT !.value = 2, !.active = a, !.limit = l, !.count = 1, !.loggedInOnly = g,
                              !.newCustomer = n, !.nDays = d, !.starts = st, !.expires = 2],
      cart |-> [Cart EXCEPT !.subtotal = 4, !.now = t,
                            !.customer = [kind |-> k, uses |-> u, age |-> y, paid |-> o]]] :
        a \in BOOLEAN, l \in 0 .. 2, g \in BOOLEAN, n \in BOOLEAN, d \in 0 .. 1, st \in 0 .. 2, t \in 1 .. 3,
        k \in {"none", "guest", "member", "removed"}, u \in 0 .. 1, y \in 0 .. 2, o \in 0 .. 1}

BxgyCases ==
    {[p |-> [Promotion EXCEPT !.type = "buy_x_get_y", !.buy = x, !.get = y],
      cart |-> [Cart EXCEPT !.subtotal = FoldLeft(LAMBDA s, l : s + l.qty * l.price, 0, ls), !.lines = ls]] :
        x \in 1 .. 2, y \in 1 .. 2, ls \in BoundedSeq(Lines, MaxLines)}

StackPromotion(id, t, s, v) ==
    [Promotion EXCEPT !.id = id, !.type = t, !.scope = IF s = "none" THEN "platform" ELSE "store", !.store = s, !.value = v]
StackTypes == {"percentage", "fixed", "free_shipping", "fixed_shipping"}
StackCart(n1, n2, f1, f2) ==
    [Cart EXCEPT !.subtotal = n1 + n2, !.fee = f1 + f2, !.storeFee = [s1 |-> f1, s2 |-> f2]]

StackCases ==
    {[cart |-> StackCart(n1, n2, f1, 2), subtotals |-> [s1 |-> n1, s2 |-> n2],
      platform |-> <<StackPromotion("a", t0, "none", 50)>>,
      stores |-> <<StackPromotion("b", t1, "s1", v), StackPromotion("c", t2, "s2", 2)>>] :
        n1 \in {2, 4}, n2 \in {2, 8}, f1 \in {0, 4}, t0 \in StackTypes, t1 \in StackTypes, t2 \in StackTypes, v \in {2, 50}}

DuplicateCases ==
    {[cart |-> StackCart(4, 8, 4, 2), subtotals |-> [s1 |-> 4, s2 |-> 8], platform |-> <<>>,
      stores |-> <<StackPromotion("b", t1, "s1", v), StackPromotion(id, t1, "s1", v)>>] :
        t1 \in StackTypes, v \in {2, 50}, id \in {"b", "c"}}

Cases == CASE Kind = "value" -> ValueCases
           [] Kind = "gates" -> GateCases
           [] Kind = "bxgy" -> BxgyCases
           [] Kind = "stack" -> StackCases
           [] OTHER -> DuplicateCases

Stacked == Kind \in {"stack", "duplicate"}

Init == in \in Cases /\ out = <<>>

Ask ==
    /\ out = <<>>
    /\ out' = IF Stacked
                THEN <<applyStackedPromotions(in.cart, in.subtotals, in.platform, in.stores)>>
                ELSE <<validateCode(in.p, in.cart), evaluateBatchTarget(in.p, in.cart)>>
    /\ UNCHANGED in

Next == Ask

Spec == Init /\ [][Next]_vars

-----------------------------------------------------------------------------
(* Properties                                                              *)

Asked == out # <<>>

(* An item promotion takes at most the items it is for, a shipping one at  *)
(* most the shipping it is for, and neither more than its own maximum.     *)
DiscountWithinBase ==
    Asked => LET p == in.p
                 base == IF p.type \in SHIPPING_PROMOTION_TYPES
                           THEN IF p.scope = "store" THEN in.cart.storeFee[p.store] ELSE in.cart.fee
                           ELSE in.cart.subtotal
             IN  /\ out[1].discount \in 0 .. base
                 /\ p.max > 0 => out[1].discount <= p.max

(* What the storefront previews is what checkout gives: an eligible item   *)
(* is granted with the same discount and free units, an ineligible one is  *)
(* refused or gives nothing; and it always has a reason.                   *)
PreviewMatchesCheckout ==
    Asked => /\ out[2].eligible => out[1] = Give(out[2].discount, out[2].free)
             /\ ~out[2].eligible => out[1].discount = 0 /\ out[1].free = 0
             /\ out[2].eligible = (out[2].reason = "none")

(* A new customer's promotion is good to the end of the nth day, that day  *)
(* included, for a member who has not bought yet, and for nobody else.     *)
NewCustomersOnly ==
    Asked /\ in.p.newCustomer /\ in.p.nDays > 0 /\ in.p.active /\ ~evaluateCustomerUsageLimit(in.p, in.cart.customer)
        /\ in.p.limit # 1 /\ in.cart.now \in in.p.starts .. in.p.expires =>
        ((out[1].discount > 0) = /\ in.cart.customer.kind = "member"
                                 /\ in.cart.customer.age <= in.p.nDays
                                 /\ in.cart.customer.paid = 0)

(* Rules A and B: of every full group of X + Y pieces Y are free, and no   *)
(* choice of that many pieces would have cost the shop less.               *)
CheapestAreFree ==
    Asked /\ out[1].thrown = "none" =>
        LET us == Units(in.cart.lines)
            n == out[1].free
            cost(I) == SumSet({us[i] * 100 + i : i \in I}) \div 100
        IN  /\ n <= Len(us)
            /\ n * (in.p.buy + in.p.get) <= Len(us) * in.p.get
            /\ (n + in.p.get) * (in.p.buy + in.p.get) > Len(us) * in.p.get
            /\ out[1].discount = Min({cost(I) : I \in kSubset(n, DOMAIN us)})

(* The order is never discounted below nothing, the shipping promotions    *)
(* between them take the fee at most once, and the amounts recorded for    *)
(* the promotions account for the order's discount.                        *)
StackIsAccounted ==
    Asked /\ out[1].thrown = "none" =>
        LET all == in.platform \o in.stores
            ship == {p \in Range(all) : p.type \in SHIPPING_PROMOTION_TYPES /\ p.id \in DOMAIN out[1].by}
            item == {p \in Range(all) : p.type \notin SHIPPING_PROMOTION_TYPES /\ p.id \in DOMAIN out[1].by}
            sum(P) == MapThenSumSet(LAMBDA p : out[1].by[p.id], P)
        IN  /\ sum(ship) <= in.cart.fee
            /\ out[1].discount = sum(ship) + Least2(sum(item), in.cart.subtotal)
=============================================================================
