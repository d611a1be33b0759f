------------------------------ MODULE PlaceOrder ------------------------------
(***************************************************************************)
(* From the cart to an order and back: OrdersService.create, the promotion *)
(* limits it checks, the stock it takes, and InventoryService, which gives *)
(* the stock back when the order is cancelled.                             *)
(*                                                                         *)
(* create reads everything first (cart, variants, prices, the promotion)   *)
(* and then writes in one transaction that goes through the lines again:   *)
(* it locks a line's variant, reads the product's price beside the lock,   *)
(* then asks, on another connection, what the sale campaigns make of it.   *)
(* What the transaction writes others see when it commits, so its effects  *)
(* are those of the commit.  A line of an order is one piece of a variant. *)
(***************************************************************************)
EXTENDS Integers, FiniteSets, Sequences, Functions

CONSTANTS
    Req,          \* slots: requests that may be in flight at once
    Handlers,     \* the handlers that run in this instance
    Buyer,        \* identities the per-customer limit is counted by
    Variant,
    MaxLines,     \* bound: lines of an order
    Repeats,      \* whether two lines of an order may be of one variant
    StartStock,   \* stock of every variant
    UsageLimit,   \* of the promotion, over all buyers
    PerCustomer,  \* of the promotion, per buyer
    MaxOrders,    \* bound: orders placed
    BasePrices,   \* prices of a product, in whole Baht
    Adjustments,  \* what a variant may cost more or less
    Discounts     \* percents that sale campaigns take off, 0 for no sale

OrdersResolver == {"createOrder", "updateOrderStatus"}
VendorResolvers == {"updateProduct", "updateVariant", "retire", "changeSale", "suspend", "togglePromotion"}
AllHandlers == OrdersResolver \cup VendorResolvers

PlaceOrderAssumption ==
    /\ Handlers \subseteq AllHandlers
    /\ Repeats \in BOOLEAN
    /\ Buyer # {} /\ Variant # {}
    /\ {MaxLines, StartStock, UsageLimit, PerCustomer, MaxOrders} \subseteq Nat
    /\ BasePrices \subseteq Int /\ Adjustments \subseteq Int /\ Discounts \subseteq Int
    /\ BasePrices # {} /\ 0 \in Adjustments

(* What a buyer orders: create takes the lines as they come.               *)
Basket == {items \in UNION {[1 .. n -> Variant] : n \in 1 .. MaxLines} : Repeats \/ IsInjective(items)}
Order == 1 .. MaxOrders
None == 0

VARIABLES
    variant,    \* product_variants: stock, priceAdjustment, retiredAt
    basePrice,  \* products: basePrice of the product all variants are of
    campaign,   \* sale campaigns: percent off the variants now
    suspended,  \* the store is suspended
    promo,      \* the promotions row
    order,      \* orders with their items and promotion usage
    returns,    \* RETURN rows of inventory_transactions: <<order, variant>>
    cart,       \* lines left in each buyer's cart
    bought,     \* history: how often each cart line was turned into an order
    job         \* requests in flight

vars == <<variant, basePrice, campaign, suspended, promo, order, returns, cart, bought, job>>

VariantRow == [stock : 0 .. StartStock, adj : Adjustments, retired : BOOLEAN]
PromotionRow == [usageCount : 0 .. MaxOrders, isActive : BOOLEAN]
(* catalogUnitPrice and unitPrice of an order line, the latter in Satang.  *)
LinePrice == [catalog : Int, unit : Int]
OrderItems == Basket \cup {<<>>}
OrderRow == [status : {"none", "pending_payment", "cancelled"}, buyer : Buyer, items : OrderItems,
             price : Seq(LinePrice), promotion : BOOLEAN]

ABuyer == CHOOSE b \in Buyer : TRUE
NoOrder == [status |-> "none", buyer |-> ABuyer, items |-> <<>>, price |-> <<>>, promotion |-> FALSE]
NewVariant == [stock |-> StartStock, adj |-> 0, retired |-> FALSE]
NoPromo == [usageCount |-> 0, isActive |-> TRUE]
Idle == [at |-> "idle", draft |-> NoOrder, fromCart |-> FALSE, o |-> None, seen |-> {}, row |-> NoPromo,
         saves |-> {}, rows |-> [v \in Variant |-> NewVariant], line |-> 0, base |-> 0]
Checking == {"lockLine", "priceLine", "commit"}
Job == [at : {"idle", "clearCart", "cancel", "savePromotion", "saveVariant", "saveProduct"} \cup Checking,
        draft : OrderRow, line : 0 .. MaxLines, base : BasePrices \cup {0},
        saves : SUBSET Variant, rows : [Variant -> VariantRow],
        fromCart : BOOLEAN, o : Order \cup {None}, seen : SUBSET Variant, row : PromotionRow]

Init ==
    /\ variant = [v \in Variant |-> NewVariant]
    /\ basePrice \in BasePrices
    /\ campaign \in Discounts
    /\ suspended = FALSE
    /\ promo = NoPromo
    /\ order = [o \in Order |-> NoOrder]
    /\ returns = {}
    /\ cart = [b \in Buyer |-> Variant]
    /\ bought = [b \in Buyer |-> [v \in Variant |-> 0]]
    /\ job = [r \in Req |-> Idle]

Start(r, op, what) ==
    /\ op \in Handlers
    /\ job[r].at = "idle"
    /\ job' = [job EXCEPT ![r] = what]
At(r, at) == job[r].at = at
Return(r) == job' = [job EXCEPT ![r] = Idle]
RowsUnchanged == UNCHANGED <<variant, basePrice, campaign, suspended, promo, order, returns, cart, bought>>

(* How many lines of a sequence of variants are of variant v.              *)
Lines(items, v) == Cardinality({i \in DOMAIN items : items[i] = v})
Placed == {o \in Order : order[o].status # "none"}
UsedBy(b) == Cardinality({o \in Placed : order[o].promotion /\ order[o].buyer = b})
Cancelled == {o \in Order : order[o].status = "cancelled"}

-----------------------------------------------------------------------------
(* create: what it reads                                                   *)

assertCartLinesStillPresent(b, items) == Range(items) \subseteq cart[b]

(* validateCode with evaluateCustomerUsageLimit.  Usage rows of cancelled  *)
(* orders count as well.                                                   *)
PromotionApplies(b) == promo.isActive /\ promo.usageCount < UsageLimit /\ UsedBy(b) < PerCustomer

ForSale(items) == ~suspended /\ \A v \in Range(items) : ~variant[v].retired

(* Catalog price and effective price of a variant of a product at base.    *)
(* Whole Baht, so that no percent needs roundMoney.                        *)
PriceAt(base, v) ==
    [catalog |-> base + variant[v].adj, unit |-> (base + variant[v].adj) * (100 - campaign)]

create(r, b, items, fromCart, code) ==
    /\ fromCart => assertCartLinesStillPresent(b, items)
    /\ ForSale(items)
    /\ code => PromotionApplies(b)
    /\ Start(r, "createOrder", [Idle EXCEPT !.at = "lockLine", !.fromCart = fromCart,
            !.draft = [status |-> "pending_payment", buyer |-> b, items |-> items,
                       price |-> [i \in DOMAIN items |-> PriceAt(basePrice, items[i])], promotion |-> code]])
    /\ RowsUnchanged

-----------------------------------------------------------------------------
(* create: the transaction                                                 *)

(* The rows a request's transaction holds: those of the lines it has come  *)
(* to.                                                                     *)
Locks(r) == {job[r].draft.items[i] : i \in 1 .. job[r].line}

(* Mutant: the row is read without FOR UPDATE.                             *)
Unlocked(r, v) == TRUE

(* Nobody else holds the row of v.                                         *)
IsFree(r, v) == \A q \in Req \ {r} : v \notin Locks(q)

(* The next line: its variant, locked, and the product, which is not.      *)
LockLine(r) ==
    LET n == job[r].line + 1
        v == job[r].draft.items[n]
    IN
    /\ At(r, "lockLine")
    /\ IsFree(r, v)
    /\ IF variant[v].retired
         THEN Return(r)  \* VARIANT_NOT_FOUND
         ELSE job' = [job EXCEPT ![r].at = "priceLine", ![r].line = n, ![r].base = basePrice]
    /\ RowsUnchanged

(* The lines up to n that are of v: their pieces are taken already.        *)
LinesUpTo(n, items, v) == Cardinality({i \in 1 .. n : items[i] = v})

SamePrice(j) == j.draft.price[j.line] = PriceAt(j.base, j.draft.items[j.line])
InStock(j) == LET v == j.draft.items[j.line] IN LinesUpTo(j.line, j.draft.items, v) <= variant[v].stock

(* The campaigns are asked, and the line is compared: PRICE_CHANGED and    *)
(* INSUFFICIENT_STOCK roll everything back.                                *)
PriceLine(r) ==
    LET j == job[r] IN
    /\ At(r, "priceLine")
    /\ IF SamePrice(j) /\ InStock(j)
         THEN job' = [job EXCEPT ![r].at = IF j.line + 1 \in DOMAIN j.draft.items THEN "lockLine" ELSE "commit"]
         ELSE Return(r)
    /\ RowsUnchanged

(* A statement fails, or the database ends one of two transactions that    *)
(* wait for each other's rows.                                             *)
Rollback(r) == job[r].at \in Checking /\ Return(r) /\ RowsUnchanged

TakeStock(items) == [v \in Variant |-> [variant[v] EXCEPT !.stock = @ - Lines(items, v)]]

CountUsage(code) == IF code THEN [promo EXCEPT !.usageCount = @ + 1] ELSE promo

Commit(r) ==
    LET draft == job[r].draft
        o == Cardinality(Placed) + 1
    IN
    /\ At(r, "commit")
    /\ o \in Order  \* bound
    /\ order' = [order EXCEPT ![o] = draft]
    /\ variant' = TakeStock(draft.items)
    /\ promo' = CountUsage(draft.promotion)
    /\ IF job[r].fromCart
         THEN /\ bought' = [bought EXCEPT ![draft.buyer] =
                    [v \in Variant |-> @[v] + (IF v \in Range(draft.items) THEN 1 ELSE 0)]]
              /\ job' = [job EXCEPT ![r].at = "clearCart", ![r].line = 0]
         ELSE Return(r) /\ UNCHANGED bought
    /\ UNCHANGED <<basePrice, campaign, suspended, returns, cart>>

(* removeItems, after the transaction.                                     *)
ClearCart(r) ==
    /\ At(r, "clearCart")
    /\ cart' = [cart EXCEPT ![job[r].draft.buyer] = @ \ Range(job[r].draft.items)]
    /\ Return(r)
    /\ UNCHANGED <<variant, basePrice, campaign, suspended, promo, order, returns, bought>>

-----------------------------------------------------------------------------
(* Giving stock back                                                       *)

Returned(o) == {v \in Variant : <<o, v>> \in returns}

(* updateStatus to cancelled or refunded: no status is too late for it.    *)
(* restoreOrderStock looks for RETURN rows before it waits for a lock.     *)
updateStatus(r, o) ==
    /\ order[o].status # "none"
    /\ Start(r, "updateOrderStatus", [Idle EXCEPT !.at = "cancel", !.o = o, !.seen = Returned(o)])
    /\ RowsUnchanged

(* Mutant: RETURN rows are not looked for.                                 *)
RestoreAll(o, seen) == Range(order[o].items)

(* The variants to return: a RETURN row stands for an order and a variant, *)
(* so of two lines of one variant only the first is returned.              *)
ToRestore(o, seen) == Range(order[o].items) \ seen

restoreStockForItems(r) ==
    LET o == job[r].o
        back == ToRestore(o, job[r].seen)
    IN
    /\ At(r, "cancel")
    /\ \A v \in back : IsFree(r, v)
    /\ order' = [order EXCEPT ![o].status = "cancelled"]
    /\ variant' = [v \in Variant |-> [variant[v] EXCEPT !.stock = @ + (IF v \in back THEN 1 ELSE 0)]]
    /\ returns' = returns \cup {<<o, v>> : v \in back}
    /\ Return(r)
    /\ UNCHANGED <<basePrice, campaign, suspended, promo, cart, bought>>

-----------------------------------------------------------------------------
(* What vendors and admins do meanwhile                                    *)

Instant(r, op) == op \in Handlers /\ job[r].at = "idle" /\ UNCHANGED job

(* updateVariant and applyRemovals load a variant and save it: every       *)
(* column goes back as it was loaded, the stock included.                  *)
EditVariant(r, op, v, row) ==
    /\ Start(r, op, [Idle EXCEPT !.at = "saveVariant", !.saves = {v}, !.rows[v] = row])
    /\ RowsUnchanged

updateVariant(r, v, priceAdjustment) ==
    EditVariant(r, "updateVariant", v, [variant[v] EXCEPT !.adj = priceAdjustment])

(* applyRemovals, for a variant with orders.                               *)
retire(r, v) == ~variant[v].retired /\ EditVariant(r, "retire", v, [variant[v] EXCEPT !.retired = TRUE])

(* The product is loaded with its variants, and its save saves them too.   *)
updateProduct(r, price) ==
    /\ Start(r, "updateProduct", [Idle EXCEPT !.at = "saveProduct", !.base = price,
            !.saves = Variant, !.rows = variant])
    /\ RowsUnchanged

(* The rows that were loaded.  The UPDATE of one that differs from what    *)
(* the table holds waits for a checkout that holds it.                     *)
SaveRows(r) ==
    LET loaded == job[r].rows IN
    /\ \A v \in job[r].saves : loaded[v] # variant[v] => IsFree(r, v)
    /\ variant' = [v \in Variant |-> IF v \in job[r].saves THEN loaded[v] ELSE variant[v]]
    /\ Return(r)
    /\ UNCHANGED <<campaign, suspended, promo, order, returns, cart, bought>>

SaveVariant(r) == At(r, "saveVariant") /\ SaveRows(r) /\ UNCHANGED basePrice

(* No checkout holds the row of the product.                               *)
SaveProduct(r) == At(r, "saveProduct") /\ SaveRows(r) /\ basePrice' = job[r].base

(* A campaign is edited, or its window opens or closes: nobody waits for   *)
(* that.                                                                   *)
changeSale(percent) ==
    /\ "changeSale" \in Handlers
    /\ campaign' = percent
    /\ UNCHANGED <<variant, basePrice, suspended, promo, order, returns, cart, bought, job>>

suspend(r) ==
    /\ Instant(r, "suspend")
    /\ suspended' = ~suspended
    /\ UNCHANGED <<variant, basePrice, campaign, promo, order, returns, cart, bought>>

(* Like every edit of a promotion: the loaded row is saved, counter        *)
(* included.                                                               *)
toggle(r, isActive) ==
    /\ Start(r, "togglePromotion", [Idle EXCEPT !.at = "savePromotion", !.row = [promo EXCEPT !.isActive = isActive]])
    /\ RowsUnchanged

SavePromotion(r) ==
    /\ At(r, "savePromotion")
    /\ promo' = job[r].row
    /\ Return(r)
    /\ UNCHANGED <<variant, basePrice, campaign, suspended, order, returns, cart, bought>>

Request(r) ==
    \/ \E b \in Buyer, items \in Basket, fromCart, code \in BOOLEAN : create(r, b, items, fromCart, code)
    \/ LockLine(r) \/ PriceLine(r) \/ Rollback(r) \/ Commit(r)
    \/ ClearCart(r)
    \/ \E o \in Order : updateStatus(r, o)
    \/ restoreStockForItems(r)
    \/ \E v \in Variant : retire(r, v) \/ \E adj \in Adjustments : updateVariant(r, v, adj)
    \/ \E price \in BasePrices : updateProduct(r, price)
    \/ SaveVariant(r) \/ SaveProduct(r)
    \/ suspend(r)
    \/ \E isActive \in BOOLEAN : toggle(r, isActive)
    \/ SavePromotion(r)

Next == (\E r \in Req : Request(r)) \/ (\E percent \in Discounts : changeSale(percent))

Spec == Init /\ [][Next]_vars

-----------------------------------------------------------------------------
(* Properties                                                              *)

(* Every variable has its type; stock is never negative nor more than      *)
(* there ever was.                                                         *)
TypeOK ==
    /\ variant \in [Variant -> VariantRow]
    /\ basePrice \in BasePrices
    /\ campaign \in Discounts
    /\ suspended \in BOOLEAN
    /\ promo \in PromotionRow
    /\ order \in [Order -> OrderRow]
    /\ returns \subseteq Order \X Variant
    /\ cart \in [Buyer -> SUBSET Variant]
    /\ bought \in [Buyer -> [Variant -> 0 .. MaxOrders]]
    /\ job \in [Req -> Job]

(* The pieces a live order holds.                                          *)
Held(v) ==
    Cardinality({line \in (Placed \ Cancelled) \X (1 .. MaxLines) :
                    /\ line[2] \in DOMAIN order[line[1]].items
                    /\ order[line[1]].items[line[2]] = v})

(* "Returns stock deducted at order creation. Idempotent per order line":  *)
(* what is on the shelf and what live orders hold is what there was.       *)
StockAccounted == \A v \in Variant : variant[v].stock + Held(v) = StartStock

(* The promotion is used no more often than its limits say, over all       *)
(* buyers and by each.                                                     *)
UsageWithinLimits ==
    /\ Cardinality({o \in Placed : order[o].promotion}) <= UsageLimit
    /\ \A b \in Buyer : UsedBy(b) <= PerCustomer

(* usageCount is the number of orders that used the promotion.             *)
UsageCountIsTrue == promo.usageCount = Cardinality({o \in Placed : order[o].promotion})

(* A line of a cart becomes part of one order only ("SF-CHK-112            *)
(* concurrency").                                                          *)
CartLineBoughtOnce == \A b \in Buyer, v \in Variant : bought[b][v] <= 1

Becomes(o) == order[o].status = "none" /\ order'[o].status # "none"

(* "A vendor price change mid-checkout cannot persist a stale unitPrice":  *)
(* an order is placed at the prices of the moment it commits.  The lock    *)
(* gives this for what a variant costs more or less; the product's price   *)
(* and the campaigns are read beside it, lines before the commit, so that  *)
(* updateProduct or a campaign beside the checkout refutes it.             *)
PricesAreCurrent ==
    \A o \in Order : Becomes(o) =>
       \A i \in DOMAIN order'[o].items : order'[o].price[i] = PriceAt(basePrice, order'[o].items[i])

(* A variant that was retired is not sold any more, whenever the checkout  *)
(* began.                                                                  *)
RetiredIsNotSold ==
    \A o \in Order : Becomes(o) => \A v \in Range(order'[o].items) : ~variant[v].retired

(* A suspended store gets no new order.                                    *)
SuspendedSellsNothing == \A o \in Order : Becomes(o) => ~suspended
=============================================================================
