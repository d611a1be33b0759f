---------------------------- MODULE CheckoutProofs ----------------------------
(***************************************************************************)
(* What is proved of buying: the checkout (PlaceOrder), the variants of a  *)
(* product (ProductVariants, here Shelf) and the carts (Cart, here Carts). *)
(*                                                                         *)
(* The order comes first. CheckoutInv, the rows and what a request knows   *)
(* of them, and LocksInv, whose variants are locked and what was read of   *)
(* them behind the lock, hold however requests overlap; with them no       *)
(* retired variant is sold, and what a variant costs more or less is that  *)
(* of the commit. StockInv, CountInv and LimitsInv add what                *)
(* stock, the promotion's counter and its limits rest on, each as much     *)
(* being alone as it needs: the code saves a variant and a promotion as    *)
(* they were loaded (StockAlone, CountAlone), a cancellation of two lines  *)
(* of one variant gives one of them back (LinesAreApart), and the limits   *)
(* are checked before the transaction (OneRequest). TLC finds the          *)
(* properties violated without those restrictions.                         *)
(*                                                                         *)
(* ShelfInv: rows that are kept have SKUs of their own, by the unique      *)
(* index. NamedAreKept: one request at a time, what a cart or an order     *)
(* names is never deleted. CartInv: lines are whole. OneCartInv: one       *)
(* request at a time, carts hold what was asked for, where a line that is  *)
(* being merged counts once.                                               *)
(***************************************************************************)
EXTENDS PlaceOrder, FiniteSetTheorems, TLAPS

(* What the requests may do beside each other.                             *)
OneRequest == \A r, q \in Req : r = q

(* Nobody saves a variant as it was loaded, or gives stock back that       *)
(* another request is giving back.                                         *)
StockAlone ==
    OneRequest \/ Handlers \cap {"updateOrderStatus", "updateVariant", "retire", "updateProduct"} = {}
CountAlone == OneRequest \/ "togglePromotion" \notin Handlers

(* Of two lines of one variant one is given back.                          *)
LinesAreApart == ~Repeats \/ "updateOrderStatus" \notin Handlers

(* The types, without the bounds that are properties.                      *)
AnyVariantRow == [stock : Nat, adj : Adjustments, retired : BOOLEAN]
AnyPromotion == [usageCount : Nat, isActive : BOOLEAN]
Saving == {"saveVariant", "saveProduct"}
AnyJob == [at : {"idle", "clearCart", "cancel", "savePromotion"} \cup Saving \cup Checking,
           draft : OrderRow, line : Nat, base : Int, saves : SUBSET Variant,
           rows : [Variant -> AnyVariantRow], fromCart : BOOLEAN,
           o : Order \cup {None}, seen : SUBSET Variant, row : AnyPromotion]

RowsOK ==
    /\ variant \in [Variant -> AnyVariantRow]
    /\ basePrice \in BasePrices
    /\ campaign \in Discounts
    /\ suspended \in BOOLEAN
    /\ promo \in AnyPromotion
    /\ order \in [Order -> OrderRow]
    /\ returns \subseteq Order \X Variant
    /\ cart \in [Buyer -> SUBSET Variant]
    /\ bought \in [Buyer -> [Variant -> Nat]]
    /\ job \in [Req -> AnyJob]

(* Orders are numbered as they are placed.                                 *)
Numbered == \E n \in 0 .. MaxOrders : Placed = 1 .. n

(* What a request in flight knows.                                         *)
JobKnows(j) ==
    /\ j.at \in Checking \cup {"clearCart"} =>
          /\ j.draft.items \in Basket /\ j.draft.status = "pending_payment"
          /\ j.draft.price \in [DOMAIN j.draft.items -> LinePrice]
    /\ j.at \notin Checking => j.line = 0
    /\ 1 .. j.line \subseteq DOMAIN j.draft.items
    /\ j.at = "lockLine" => j.line + 1 \in DOMAIN j.draft.items
    /\ j.at = "priceLine" => j.line \in 1 .. j.line
    /\ j.at = "commit" => 1 .. j.line = DOMAIN j.draft.items
    /\ j.at = "cancel" => j.o \in Placed /\ "updateOrderStatus" \in Handlers
    /\ j.at = "savePromotion" => "togglePromotion" \in Handlers
    /\ j.at \in Saving => Handlers \cap {"updateVariant", "retire", "updateProduct"} # {}
    /\ j.at = "saveProduct" => "updateProduct" \in Handlers /\ j.base \in BasePrices

CheckoutInv == RowsOK /\ Numbered /\ \A r \in Req : JobKnows(job[r])

(* The lines of a checkout that have been compared.                        *)
Passed(j) == IF j.at = "priceLine" THEN j.line - 1 ELSE j.line

(* What a checkout has read behind its locks: no variant is retired, and   *)
(* there is stock for the lines that have been compared.                   *)
LinesPass(j) ==
    /\ \A i \in 1 .. j.line : ~variant[j.draft.items[i]].retired
    /\ \A v \in Variant : LinesUpTo(Passed(j), j.draft.items, v) <= variant[v].stock

(* A variant is locked by one checkout, and what was read stays so.        *)
LocksInv ==
    /\ \A r, q \in Req : r # q => Locks(r) \cap Locks(q) = {}
    /\ \A r \in Req : LinesPass(job[r])

-----------------------------------------------------------------------------
(* The bounds are numbers.                                                 *)
LEMMA BoundsAre ==
  ASSUME PlaceOrderAssumption
  PROVE  /\ MaxLines \in Nat /\ StartStock \in Nat /\ UsageLimit \in Nat /\ PerCustomer \in Nat
         /\ MaxOrders \in Nat /\ Order \subseteq Nat /\ None \notin Order
         /\ BasePrices \subseteq Int /\ Adjustments \subseteq Int /\ Discounts \subseteq Int
         /\ 0 \in Adjustments
  BY DEF PlaceOrderAssumption, Order, None

(* What a buyer orders are lines of variants.                              *)
LEMMA BasketsAre ==
  ASSUME PlaceOrderAssumption, NEW items \in Basket
  PROVE  /\ DOMAIN items \subseteq 1 .. MaxLines
         /\ items \in [DOMAIN items -> Variant]
         /\ \E n \in 1 .. MaxLines : items \in [1 .. n -> Variant]
         /\ ~Repeats => IsInjective(items)
         /\ Range(items) \subseteq Variant
<1>1. PICK n \in 1 .. MaxLines : items \in [1 .. n -> Variant]
  BY DEF Basket
<1>2. 1 .. n \subseteq 1 .. MaxLines
  BY BoundsAre
<1>3. ~Repeats => IsInjective(items)
  BY DEF Basket
<1> QED BY <1>1, <1>2, <1>3 DEF Range

(* How many lines of an order are of a variant.                            *)
LEMMA LineCounts ==
  ASSUME PlaceOrderAssumption, NEW items \in Basket, NEW v \in Variant
  PROVE  /\ IsFiniteSet({i \in DOMAIN items : items[i] = v})
         /\ Lines(items, v) \in Nat
         /\ v \notin Range(items) => Lines(items, v) = 0
         /\ v \in Range(items) /\ IsInjective(items) => Lines(items, v) = 1
<1> DEFINE S == {i \in DOMAIN items : items[i] = v}
<1>1. IsFiniteSet(1 .. MaxLines) /\ S \subseteq 1 .. MaxLines
  <2>1. 1 \in Int /\ MaxLines \in Int
    BY BoundsAre
  <2>2. IsFiniteSet(1 .. MaxLines)
    BY <2>1, FS_Interval
  <2> QED BY <2>2, BasketsAre
<1>2. IsFiniteSet(S) /\ Cardinality(S) \in Nat
  BY <1>1, FS_Subset, FS_CardinalityType
<1>3. v \notin Range(items) => S = {}
  BY DEF Range
<1>4. ASSUME v \in Range(items), IsInjective(items) PROVE \E x : S = {x}
  BY <1>4 DEF Range, IsInjective
<1>5. Cardinality({}) = 0 /\ \A T : IsFiniteSet(T) => (Cardinality(T) = 1 <=> \E x : T = {x})
  BY FS_EmptySet, FS_Singleton
<1> QED BY <1>2, <1>3, <1>4, <1>5 DEF Lines

-----------------------------------------------------------------------------
(* Rows, numbers and what requests know: any requests beside each other.   *)

(* The idle request.                                                       *)
LEMMA IdleIsJob ==
  ASSUME PlaceOrderAssumption
  PROVE  /\ NoOrder \in OrderRow /\ NewVariant \in AnyVariantRow /\ NoPromo \in AnyPromotion
         /\ Idle \in AnyJob /\ Idle.at = "idle"
<1>1. ABuyer \in Buyer
  BY DEF PlaceOrderAssumption, ABuyer
<1>2. <<>> \in Seq(LinePrice) /\ <<>> \in OrderItems
  BY DEF OrderItems
<1>3. NoOrder \in OrderRow
  BY <1>1, <1>2 DEF NoOrder, OrderRow
<1>4. NewVariant \in AnyVariantRow /\ NoPromo \in AnyPromotion
  BY BoundsAre DEF NewVariant, AnyVariantRow, NoPromo, AnyPromotion
<1> QED BY <1>1, <1>3, <1>4 DEF Idle, AnyJob

(* No order, nothing in the carts, no request in flight.                   *)
LEMMA CheckoutInit == ASSUME PlaceOrderAssumption PROVE Init => CheckoutInv
<1> SUFFICES ASSUME Init PROVE CheckoutInv
  OBVIOUS
<1>1. RowsOK
  BY IdleIsJob DEF Init, RowsOK
<1>2. Placed = {}
  BY DEF Init, Placed, NoOrder
<1>3. Numbered
  BY <1>2, BoundsAre DEF Numbered
<1>4. \A r \in Req : JobKnows(job[r])
  <2>1. JobKnows(Idle)
    BY DEF JobKnows, Idle, Checking, Saving
  <2> QED BY <2>1 DEF Init
<1> QED BY <1>1, <1>3, <1>4 DEF CheckoutInv

(* Orders are never forgotten, nor is what a request knows of them.        *)
LEMMA KnowsStill ==
  ASSUME NEW j, JobKnows(j), Placed \subseteq Placed'
  PROVE  JobKnows(j)'
  BY DEF JobKnows

(* A request whose step leaves the orders alone.                           *)
LEMMA RequestSteps ==
  ASSUME CheckoutInv, NEW r \in Req, NEW j \in AnyJob, job' = [job EXCEPT ![r] = j],
         JobKnows(j), UNCHANGED order
  PROVE  job' \in [Req -> AnyJob] /\ Numbered' /\ \A q \in Req : JobKnows(job[q])'
<1>1. Placed' = Placed
  BY DEF Placed
<1>2. ASSUME NEW q \in Req PROVE JobKnows(job[q])'
  <2>1. job'[q] = j \/ job'[q] = job[q]
    BY DEF CheckoutInv, RowsOK
  <2> QED BY <1>1, <2>1, KnowsStill DEF CheckoutInv, JobKnows
<1> QED BY <1>1, <1>2 DEF CheckoutInv, RowsOK, Numbered

(* What a checkout has read.                                               *)
LEMMA CreateKnows ==
  ASSUME PlaceOrderAssumption, CheckoutInv, NEW r \in Req, NEW b \in Buyer, NEW items \in Basket,
         NEW fromCart \in BOOLEAN, NEW code \in BOOLEAN, create(r, b, items, fromCart, code)
  PROVE  CheckoutInv'
<1> DEFINE draft == [status |-> "pending_payment", buyer |-> b, items |-> items,
                     price |-> [i \in DOMAIN items |-> PriceAt(basePrice, items[i])], promotion |-> code]
           j == [Idle EXCEPT !.at = "lockLine", !.fromCart = fromCart, !.draft = draft]
<1>1. job' = [job EXCEPT ![r] = j] /\ RowsUnchanged
  <2>1. Start(r, "createOrder", j) /\ RowsUnchanged
    BY DEF create
  <2> QED BY <2>1 DEF Start
<1>2. PICK n \in 1 .. MaxLines : items \in [1 .. n -> Variant]
  BY BasketsAre
<1>3. draft.price \in [DOMAIN items -> LinePrice]
  <2>1. ASSUME NEW v \in Variant PROVE PriceAt(basePrice, v) \in LinePrice
    <3>1. basePrice \in Int /\ campaign \in Int /\ variant[v].adj \in Int
      BY BoundsAre DEF CheckoutInv, RowsOK, AnyVariantRow
    <3>2. basePrice + variant[v].adj \in Int /\ (basePrice + variant[v].adj) * (100 - campaign) \in Int
      BY <3>1
    <3> QED BY <3>2 DEF PriceAt, LinePrice
  <2> QED BY <1>2, <2>1
<1>4. draft.price \in Seq(LinePrice)
  BY <1>2, <1>3
<1>5. draft \in OrderRow
  BY <1>4 DEF OrderRow, OrderItems
<1>6. j \in AnyJob
  BY <1>5, IdleIsJob DEF AnyJob, Checking, Saving
<1>7. j.at = "lockLine" /\ j.draft = draft /\ j.line = 0
  BY IdleIsJob DEF AnyJob, Idle
<1>8. JobKnows(j)
  BY <1>2, <1>3, <1>7 DEF JobKnows, Checking, Saving
<1>9. job' \in [Req -> AnyJob] /\ Numbered' /\ \A q \in Req : JobKnows(job[q])'
  BY <1>1, <1>6, <1>8, RequestSteps DEF RowsUnchanged
<1> QED BY <1>1, <1>9 DEF CheckoutInv, RowsOK, RowsUnchanged

(* A checkout in its transaction: its job moves on, or the transaction is  *)
(* rolled back.                                                            *)
CheckLine(r) == LockLine(r) \/ PriceLine(r) \/ Rollback(r)

LEMMA LineSteps ==
  ASSUME PlaceOrderAssumption, CheckoutInv, NEW r \in Req, CheckLine(r)
  PROVE  /\ RowsUnchanged /\ job[r].at \in Checking
         /\ \E j \in AnyJob :
               /\ job' = [job EXCEPT ![r] = j] /\ JobKnows(j)
               /\ \/ j = Idle
                  \/ j.at \in Checking /\ j.draft = job[r].draft /\ j.fromCart = job[r].fromCart
<1> USE IdleIsJob
<1>1. job[r] \in AnyJob /\ JobKnows(job[r]) /\ DOMAIN job = Req
  BY DEF CheckoutInv, RowsOK
<1>2. RowsUnchanged /\ job[r].at \in Checking
  BY DEF CheckLine, LockLine, PriceLine, Rollback, At, Checking
<1>3. JobKnows(Idle)
  BY DEF JobKnows, Idle, Checking, Saving
<1>4. CASE job' = [job EXCEPT ![r] = Idle]
  BY <1>2, <1>3, <1>4
<1>5. CASE /\ job[r].at = "lockLine"
           /\ job' = [job EXCEPT ![r].at = "priceLine", ![r].line = job[r].line + 1, ![r].base = basePrice]
  <2> DEFINE j == [job[r] EXCEPT !.at = "priceLine", !.line = job[r].line + 1, !.base = basePrice]
  <2>1. basePrice \in Int
    BY BoundsAre DEF CheckoutInv, RowsOK
  <2>2. j \in AnyJob /\ job' = [job EXCEPT ![r] = j]
    BY <1>1, <1>5, <2>1 DEF AnyJob, Checking, Saving
  <2>3. j.at = "priceLine" /\ j.draft = job[r].draft /\ j.fromCart = job[r].fromCart /\ j.line = job[r].line + 1
    BY <1>1 DEF AnyJob
  <2>4. job[r].line \in Nat /\ 1 .. job[r].line \subseteq DOMAIN job[r].draft.items
        /\ job[r].line + 1 \in DOMAIN job[r].draft.items
    BY <1>1, <1>5 DEF AnyJob, JobKnows
  <2>5. 1 .. (job[r].line + 1) = 1 .. job[r].line \cup {job[r].line + 1}
    BY <2>4
  <2>6. JobKnows(j)
    BY <1>1, <1>5, <2>3, <2>4, <2>5 DEF JobKnows, Checking, Saving
  <2> QED BY <1>2, <2>2, <2>3, <2>6 DEF Checking
<1>6. CASE /\ job[r].at = "priceLine"
           /\ job' = [job EXCEPT ![r].at =
                         IF job[r].line + 1 \in DOMAIN job[r].draft.items THEN "lockLine" ELSE "commit"]
  <2> DEFINE at == IF job[r].line + 1 \in DOMAIN job[r].draft.items THEN "lockLine" ELSE "commit"
             j == [job[r] EXCEPT !.at = at]
  <2>1. j \in AnyJob /\ job' = [job EXCEPT ![r] = j]
    BY <1>1, <1>6 DEF AnyJob, Checking, Saving
  <2>2. j.at = at /\ j.draft = job[r].draft /\ j.fromCart = job[r].fromCart /\ j.line = job[r].line
    BY <1>1 DEF AnyJob
  <2>3. PICK n \in 1 .. MaxLines : job[r].draft.items \in [1 .. n -> Variant]
    BY <1>1, <1>6, BasketsAre DEF JobKnows, Checking, Saving
  <2>4. job[r].line \in Nat /\ 1 .. job[r].line \subseteq 1 .. n /\ job[r].line \in 1 .. job[r].line
    BY <1>1, <1>6, <2>3 DEF AnyJob, JobKnows
  <2>5. job[r].line + 1 \notin DOMAIN job[r].draft.items => 1 .. job[r].line = DOMAIN job[r].draft.items
    <3>1. n \in Nat /\ DOMAIN job[r].draft.items = 1 .. n
      BY <2>3, BoundsAre
    <3>2. job[r].line + 1 \notin 1 .. n => job[r].line = n
      BY <2>4, <3>1
    <3> QED BY <3>1, <3>2
  <2>6. JobKnows(j)
    BY <1>1, <1>6, <2>2, <2>5 DEF JobKnows, Checking, Saving
  <2>7. j.at \in Checking
    BY <2>2 DEF Checking
  <2> QED BY <1>2, <2>1, <2>2, <2>6, <2>7
<1> QED BY <1>4, <1>5, <1>6 DEF CheckLine, LockLine, PriceLine, Rollback, At, Return

(* A vendor loads variants to save them, and saves what was loaded.        *)
Edits(r) ==
    \/ \E v \in Variant : retire(r, v) \/ \E adj \in Adjustments : updateVariant(r, v, adj)
    \/ \E price \in BasePrices : updateProduct(r, price)
Saves(r) == SaveVariant(r) \/ SaveProduct(r)

(* What is loaded has the stock that is on the shelf.                      *)
LEMMA EditsLoad ==
  ASSUME PlaceOrderAssumption, CheckoutInv, NEW r \in Req, Edits(r)
  PROVE  /\ RowsUnchanged /\ job[r].at = "idle"
         /\ \E j \in AnyJob :
               /\ job' = [job EXCEPT ![r] = j] /\ JobKnows(j) /\ j.at \in Saving /\ j.line = 0
               /\ \A v \in j.saves : j.rows[v].stock = variant[v].stock
<1> USE IdleIsJob
<1>0. variant \in [Variant -> AnyVariantRow]
  BY DEF CheckoutInv, RowsOK
<1>1. ASSUME NEW v \in Variant, NEW row \in AnyVariantRow, row.stock = variant[v].stock,
             NEW op \in {"updateVariant", "retire"}, EditVariant(r, op, v, row)
      PROVE  /\ RowsUnchanged /\ job[r].at = "idle"
             /\ \E j \in AnyJob :
                   /\ job' = [job EXCEPT ![r] = j] /\ JobKnows(j) /\ j.at \in Saving /\ j.line = 0
                   /\ \A w \in j.saves : j.rows[w].stock = variant[w].stock
  <2> DEFINE j == [Idle EXCEPT !.at = "saveVariant", !.saves = {v}, !.rows[v] = row]
  <2>1. job' = [job EXCEPT ![r] = j] /\ RowsUnchanged /\ job[r].at = "idle" /\ op \in Handlers
    BY <1>1 DEF EditVariant, Start
  <2>2. Idle.rows \in [Variant -> AnyVariantRow]
    BY DEF AnyJob
  <2>3. j \in AnyJob
    BY <2>2 DEF AnyJob, Saving
  <2>4. j.at = "saveVariant" /\ j.line = 0 /\ j.saves = {v} /\ j.rows[v] = row
    BY <2>2 DEF Idle
  <2>5. JobKnows(j)
    BY <1>1, <2>1, <2>3, <2>4 DEF JobKnows, Checking, Saving
  <2>6. j.at \in Saving /\ \A w \in j.saves : j.rows[w].stock = variant[w].stock
    BY <1>1, <2>4 DEF Saving
  <2> HIDE DEF j
  <2> QED BY <2>1, <2>3, <2>4, <2>5, <2>6
<1>2. ASSUME NEW v \in Variant, retire(r, v)
      PROVE  \E row \in AnyVariantRow : row.stock = variant[v].stock /\ EditVariant(r, "retire", v, row)
  <2>1. [variant[v] EXCEPT !.retired = TRUE] \in AnyVariantRow
        /\ [variant[v] EXCEPT !.retired = TRUE].stock = variant[v].stock
    BY <1>0 DEF AnyVariantRow
  <2> QED BY <1>2, <2>1 DEF retire
<1>3. ASSUME NEW v \in Variant, NEW adj \in Adjustments, updateVariant(r, v, adj)
      PROVE  \E row \in AnyVariantRow : row.stock = variant[v].stock /\ EditVariant(r, "updateVariant", v, row)
  <2>1. [variant[v] EXCEPT !.adj = adj] \in AnyVariantRow
        /\ [variant[v] EXCEPT !.adj = adj].stock = variant[v].stock
    BY <1>0 DEF AnyVariantRow
  <2> QED BY <1>3, <2>1 DEF updateVariant
<1>4. ASSUME NEW price \in BasePrices, updateProduct(r, price)
      PROVE  /\ RowsUnchanged /\ job[r].at = "idle"
             /\ \E j \in AnyJob :
                   /\ job' = [job EXCEPT ![r] = j] /\ JobKnows(j) /\ j.at \in Saving /\ j.line = 0
                   /\ \A w \in j.saves : j.rows[w].stock = variant[w].stock
  <2> DEFINE j == [Idle EXCEPT !.at = "saveProduct", !.base = price, !.saves = Variant, !.rows = variant]
  <2>1. job' = [job EXCEPT ![r] = j] /\ RowsUnchanged /\ job[r].at = "idle" /\ "updateProduct" \in Handlers
    BY <1>4 DEF updateProduct, Start
  <2>2. j \in AnyJob
    BY <1>0, BoundsAre DEF AnyJob, Saving
  <2>3. j.at = "saveProduct" /\ j.line = 0 /\ j.base = price /\ j.rows = variant
    BY DEF Idle
  <2>4. JobKnows(j)
    BY <2>1, <2>2, <2>3 DEF JobKnows, Checking, Saving
  <2>5. j.at \in Saving /\ \A w \in j.saves : j.rows[w].stock = variant[w].stock
    BY <2>3 DEF Saving
  <2> HIDE DEF j
  <2> QED BY <2>1, <2>2, <2>3, <2>4, <2>5
<1> QED BY <1>1, <1>2, <1>3, <1>4 DEF Edits

(* Rows that differ from the table were free when they were saved.         *)
LEMMA RowsSaved ==
  ASSUME PlaceOrderAssumption, CheckoutInv, NEW r \in Req, Saves(r)
  PROVE  /\ job[r].at \in Saving /\ job' = [job EXCEPT ![r] = Idle]
         /\ UNCHANGED <<campaign, suspended, promo, order, returns, cart, bought>>
         /\ basePrice' \in BasePrices /\ ("updateProduct" \notin Handlers => basePrice' = basePrice)
         /\ variant' \in [Variant -> AnyVariantRow]
         /\ \A v \in Variant : \/ variant'[v] = variant[v]
                               \/ v \in job[r].saves /\ variant'[v] = job[r].rows[v] /\ IsFree(r, v)
<1>0. job[r] \in AnyJob /\ JobKnows(job[r]) /\ variant \in [Variant -> AnyVariantRow] /\ basePrice \in BasePrices
  BY DEF CheckoutInv, RowsOK
<1>1. job[r].at \in Saving /\ SaveRows(r)
  BY DEF Saves, SaveVariant, SaveProduct, At, Saving
<1>2. /\ job' = [job EXCEPT ![r] = Idle]
      /\ UNCHANGED <<campaign, suspended, promo, order, returns, cart, bought>>
      /\ variant' = [v \in Variant |-> IF v \in job[r].saves THEN job[r].rows[v] ELSE variant[v]]
      /\ \A v \in job[r].saves : job[r].rows[v] # variant[v] => IsFree(r, v)
  BY <1>1 DEF SaveRows, Return
<1>3. basePrice' \in BasePrices /\ ("updateProduct" \notin Handlers => basePrice' = basePrice)
  BY <1>0 DEF Saves, SaveVariant, SaveProduct, At, JobKnows
<1>4. job[r].rows \in [Variant -> AnyVariantRow]
  BY <1>0 DEF AnyJob
<1>5. variant' \in [Variant -> AnyVariantRow]
  BY <1>0, <1>2, <1>4
<1>6. \A v \in Variant : variant'[v] = IF v \in job[r].saves THEN job[r].rows[v] ELSE variant[v]
  BY <1>2
<1> QED BY <1>1, <1>2, <1>3, <1>5, <1>6

(* The other reads, and suspending.                                        *)
LEMMA CheckoutReads ==
  ASSUME PlaceOrderAssumption, CheckoutInv, NEW r \in Req,
         \/ ClearCart(r)
         \/ \E o \in Order : updateStatus(r, o)
         \/ Edits(r)
         \/ suspend(r)
         \/ \E isActive \in BOOLEAN : toggle(r, isActive)
  PROVE  CheckoutInv'
<1> USE IdleIsJob
<1>1. ASSUME ClearCart(r) PROVE CheckoutInv'
  <2>1. job' = [job EXCEPT ![r] = Idle] /\ UNCHANGED <<variant, basePrice, campaign, suspended, promo, order, returns, bought>>
        /\ cart' \in [Buyer -> SUBSET Variant]
    BY <1>1 DEF ClearCart, Return, CheckoutInv, RowsOK
  <2>2. JobKnows(Idle)
    BY DEF JobKnows, Idle, Checking, Saving
  <2>3. job' \in [Req -> AnyJob] /\ Numbered' /\ \A q \in Req : JobKnows(job[q])'
    BY <2>1, <2>2, RequestSteps DEF RowsUnchanged
  <2> QED BY <2>1, <2>3 DEF CheckoutInv, RowsOK, RowsUnchanged
<1>2. ASSUME NEW o \in Order, updateStatus(r, o) PROVE CheckoutInv'
  <2> DEFINE j == [Idle EXCEPT !.at = "cancel", !.o = o, !.seen = Returned(o)]
  <2>1. /\ job' = [job EXCEPT ![r] = j] /\ RowsUnchanged
        /\ o \in Placed /\ "updateOrderStatus" \in Handlers
    BY <1>2 DEF updateStatus, Start, Placed
  <2>2. j \in AnyJob /\ j.at = "cancel" /\ j.o = o /\ j.line = 0
    BY DEF AnyJob, Returned, Checking, Idle, Saving
  <2>3. JobKnows(j)
    BY <2>1, <2>2 DEF JobKnows, Checking, Idle, Saving
  <2>4. job' \in [Req -> AnyJob] /\ Numbered' /\ \A q \in Req : JobKnows(job[q])'
    BY <2>1, <2>2, <2>3, RequestSteps DEF RowsUnchanged
  <2> QED BY <2>1, <2>4 DEF CheckoutInv, RowsOK, RowsUnchanged
<1>3. ASSUME Edits(r) PROVE CheckoutInv'
  <2>1. RowsUnchanged /\ job' \in [Req -> AnyJob] /\ Numbered' /\ \A q \in Req : JobKnows(job[q])'
    BY <1>3, EditsLoad, RequestSteps DEF RowsUnchanged
  <2> QED BY <2>1 DEF CheckoutInv, RowsOK, RowsUnchanged
<1>4. ASSUME suspend(r) PROVE CheckoutInv'
  <2>1. /\ UNCHANGED <<variant, basePrice, campaign, promo, order, returns, cart, bought, job>>
        /\ suspended' \in BOOLEAN
    BY <1>4 DEF suspend, Instant, CheckoutInv, RowsOK
  <2>2. Placed' = Placed
    BY <2>1 DEF Placed
  <2> QED BY <2>1, <2>2, KnowsStill DEF CheckoutInv, RowsOK, Numbered, JobKnows
<1>5. ASSUME NEW isActive \in BOOLEAN, toggle(r, isActive) PROVE CheckoutInv'
  <2> DEFINE j == [Idle EXCEPT !.at = "savePromotion", !.row = [promo EXCEPT !.isActive = isActive]]
  <2>1. /\ job' = [job EXCEPT ![r] = j] /\ RowsUnchanged
        /\ "togglePromotion" \in Handlers
    BY <1>5 DEF toggle, Start
  <2>2. j \in AnyJob /\ j.at = "savePromotion" /\ j.line = 0
    BY DEF AnyJob, CheckoutInv, RowsOK, AnyPromotion, Checking, Idle, Saving
  <2>3. JobKnows(j)
    BY <2>1, <2>2 DEF JobKnows, Checking, Idle, Saving
  <2>4. job' \in [Req -> AnyJob] /\ Numbered' /\ \A q \in Req : JobKnows(job[q])'
    BY <2>1, <2>2, <2>3, RequestSteps DEF RowsUnchanged
  <2> QED BY <2>1, <2>4 DEF CheckoutInv, RowsOK, RowsUnchanged
<1> QED BY <1>1, <1>2, <1>3, <1>4, <1>5

(* The number of orders placed, and of the next one.                       *)
LEMMA NextNumber ==
  ASSUME PlaceOrderAssumption, Numbered
  PROVE  /\ IsFiniteSet(Placed) /\ Cardinality(Placed) \in 0 .. MaxOrders
         /\ Placed = 1 .. Cardinality(Placed)
<1>1. PICK n \in 0 .. MaxOrders : Placed = 1 .. n
  BY DEF Numbered
<1>2. 1 \in Int /\ n \in Int /\ n \in Nat
  BY BoundsAre
<1>3. IsFiniteSet(1 .. n) /\ Cardinality(1 .. n) = IF 1 > n THEN 0 ELSE n - 1 + 1
  BY <1>2, FS_Interval
<1>4. Cardinality(1 .. n) = n
  BY <1>2, <1>3
<1> QED BY <1>1, <1>3, <1>4

(* A commit places the next order.                                         *)
LEMMA CommitPlaces ==
  ASSUME PlaceOrderAssumption, CheckoutInv, NEW r \in Req, Commit(r)
  PROVE  LET draft == job[r].draft
             o == Cardinality(Placed) + 1
         IN /\ o \in Order \ Placed /\ job[r].at = "commit" /\ 1 .. job[r].line = DOMAIN draft.items
            /\ draft \in OrderRow /\ draft.items \in Basket /\ draft.status = "pending_payment"
            /\ order' = [order EXCEPT ![o] = draft] /\ Placed' = Placed \cup {o}
            /\ Cancelled' = Cancelled
            /\ variant' = TakeStock(draft.items) /\ promo' = CountUsage(draft.promotion)
            /\ UNCHANGED <<basePrice, campaign, suspended, returns, cart>>
            /\ \/ /\ job[r].fromCart
                  /\ bought' = [bought EXCEPT ![draft.buyer] =
                           [v \in Variant |-> @[v] + (IF v \in Range(draft.items) THEN 1 ELSE 0)]]
                  /\ job' = [job EXCEPT ![r].at = "clearCart", ![r].line = 0]
               \/ /\ ~job[r].fromCart
                  /\ UNCHANGED bought /\ job' = [job EXCEPT ![r] = Idle]
<1> DEFINE draft == job[r].draft
           o == Cardinality(Placed) + 1
<1>1. job[r].at = "commit" /\ job[r] \in AnyJob /\ o \in Order
  BY DEF Commit, At, CheckoutInv, RowsOK
<1>2. o \notin Placed
  BY NextNumber DEF CheckoutInv
<1>3. /\ draft \in OrderRow /\ draft.items \in Basket /\ draft.status = "pending_payment"
      /\ 1 .. job[r].line = DOMAIN draft.items
  BY <1>1 DEF CheckoutInv, JobKnows, AnyJob, Checking, Saving
<1>4. order' = [order EXCEPT ![o] = draft] /\ DOMAIN order = Order
  BY DEF Commit, CheckoutInv, RowsOK
<1>5. Placed' = Placed \cup {o}
  BY <1>1, <1>3, <1>4 DEF Placed
<1>6. Cancelled' = Cancelled
  <2>1. order[o].status = "none"
    BY <1>1, <1>2 DEF Placed
  <2> QED BY <1>1, <1>3, <1>4, <2>1 DEF Cancelled
<1>7. /\ variant' = TakeStock(draft.items) /\ promo' = CountUsage(draft.promotion)
      /\ UNCHANGED <<basePrice, campaign, suspended, returns, cart>>
  BY DEF Commit
<1>8. \/ /\ job[r].fromCart
         /\ bought' = [bought EXCEPT ![draft.buyer] =
                  [v \in Variant |-> @[v] + (IF v \in Range(draft.items) THEN 1 ELSE 0)]]
         /\ job' = [job EXCEPT ![r].at = "clearCart", ![r].line = 0]
      \/ /\ ~job[r].fromCart
         /\ UNCHANGED bought /\ job' = [job EXCEPT ![r] = Idle]
  BY DEF Commit, Return
<1> QED BY <1>1, <1>2, <1>3, <1>4, <1>5, <1>6, <1>7, <1>8

(* After its commit a checkout holds no lock.                              *)
LEMMA CommitEnds ==
  ASSUME PlaceOrderAssumption, CheckoutInv, NEW r \in Req, Commit(r)
  PROVE  \E j \in AnyJob :
            /\ job' = [job EXCEPT ![r] = j] /\ JobKnows(j) /\ j.line = 0
            /\ \/ j = Idle
               \/ j.at = "clearCart" /\ j.draft = job[r].draft /\ job[r].fromCart
<1>1. job[r] \in AnyJob /\ JobKnows(job[r]) /\ job[r].at = "commit" /\ DOMAIN job = Req
  BY DEF CheckoutInv, RowsOK, Commit, At
<1>2. CASE job' = [job EXCEPT ![r] = Idle]
  <2>1. JobKnows(Idle) /\ Idle.line = 0
    BY DEF JobKnows, Idle, Checking, Saving
  <2> QED BY <1>2, <2>1, IdleIsJob
<1>3. CASE job' = [job EXCEPT ![r].at = "clearCart", ![r].line = 0] /\ job[r].fromCart
  <2> DEFINE j == [job[r] EXCEPT !.at = "clearCart", !.line = 0]
  <2>1. j \in AnyJob /\ job' = [job EXCEPT ![r] = j]
    BY <1>1, <1>3 DEF AnyJob
  <2>2. j.at = "clearCart" /\ j.draft = job[r].draft /\ j.line = 0
    BY <1>1 DEF AnyJob
  <2>3. JobKnows(j)
    BY <1>1, <2>2 DEF JobKnows, Checking, Saving
  <2> QED BY <1>3, <2>1, <2>2, <2>3
<1> QED BY <1>2, <1>3, CommitPlaces

(* A checkout that may commit has found stock for every line.              *)
LEMMA StockIsThere ==
  ASSUME PlaceOrderAssumption, CheckoutInv, LocksInv, NEW r \in Req, Commit(r), NEW v \in Variant
  PROVE  Lines(job[r].draft.items, v) <= variant[v].stock
<1>1. job[r].at = "commit" /\ 1 .. job[r].line = DOMAIN job[r].draft.items
  BY CommitPlaces
<1>2. LinesUpTo(job[r].line, job[r].draft.items, v) <= variant[v].stock
  BY <1>1 DEF LocksInv, LinesPass, Passed
<1> QED BY <1>1, <1>2 DEF LinesUpTo, Lines

(* What is taken off the shelf was there.                                  *)
LEMMA StockTaken ==
  ASSUME PlaceOrderAssumption, RowsOK, NEW draft, draft.items \in Basket,
         \A v \in Variant : Lines(draft.items, v) <= variant[v].stock
  PROVE  /\ TakeStock(draft.items) \in [Variant -> AnyVariantRow]
         /\ \A v \in Variant : /\ TakeStock(draft.items)[v].stock = variant[v].stock - Lines(draft.items, v)
                               /\ TakeStock(draft.items)[v].stock <= variant[v].stock
<1>1. ASSUME NEW v \in Variant
      PROVE  /\ [variant[v] EXCEPT !.stock = @ - Lines(draft.items, v)] \in AnyVariantRow
             /\ variant[v].stock - Lines(draft.items, v) <= variant[v].stock
  <2>1. variant[v] \in AnyVariantRow
    BY DEF RowsOK
  <2>2. Lines(draft.items, v) \in Nat /\ Lines(draft.items, v) <= variant[v].stock
    BY LineCounts
  <2>3. variant[v].stock - Lines(draft.items, v) \in Nat
    BY <2>1, <2>2 DEF AnyVariantRow
  <2> QED BY <2>1, <2>2, <2>3 DEF AnyVariantRow
<1>2. ASSUME NEW v \in Variant
      PROVE  TakeStock(draft.items)[v] = [variant[v] EXCEPT !.stock = @ - Lines(draft.items, v)]
  BY DEF TakeStock
<1>3. ASSUME NEW v \in Variant PROVE variant[v] \in AnyVariantRow
  BY DEF RowsOK
<1> QED BY <1>1, <1>2, <1>3 DEF TakeStock, AnyVariantRow
(* Placing an order.                                                       *)
LEMMA CheckoutPlaces ==
  ASSUME PlaceOrderAssumption, CheckoutInv, LocksInv, NEW r \in Req, Commit(r)
  PROVE  CheckoutInv'
<1> DEFINE draft == job[r].draft
           o == Cardinality(Placed) + 1
<1>0. job[r] \in AnyJob /\ JobKnows(job[r]) /\ job \in [Req -> AnyJob]
  BY DEF CheckoutInv, RowsOK
<1>1. /\ o \in Order \ Placed /\ draft \in OrderRow /\ draft.items \in Basket
      /\ order' = [order EXCEPT ![o] = draft] /\ Placed' = Placed \cup {o}
      /\ variant' = TakeStock(draft.items) /\ promo' = CountUsage(draft.promotion)
      /\ UNCHANGED <<basePrice, campaign, suspended, returns, cart>>
  BY CommitPlaces
<1>2. variant' \in [Variant -> AnyVariantRow]
  BY <1>1, StockIsThere, StockTaken DEF CheckoutInv
<1>3. promo' \in AnyPromotion
  BY <1>1 DEF CountUsage, CheckoutInv, RowsOK, AnyPromotion
<1>4. order' \in [Order -> OrderRow]
  BY <1>1 DEF CheckoutInv, RowsOK
<1>5. bought' \in [Buyer -> [Variant -> Nat]]
  <2>1. draft.buyer \in Buyer /\ bought \in [Buyer -> [Variant -> Nat]]
    BY <1>1 DEF OrderRow, CheckoutInv, RowsOK
  <2>2. [v \in Variant |-> bought[draft.buyer][v] + (IF v \in Range(draft.items) THEN 1 ELSE 0)] \in [Variant -> Nat]
    BY <2>1
  <2>3. \/ bought' = bought
        \/ bought' = [bought EXCEPT ![draft.buyer] =
                         [v \in Variant |-> bought[draft.buyer][v] + (IF v \in Range(draft.items) THEN 1 ELSE 0)]]
    BY CommitPlaces
  <2> HIDE DEF draft
  <2> QED BY <2>1, <2>2, <2>3
<1>6. PICK j \in AnyJob : job' = [job EXCEPT ![r] = j] /\ JobKnows(j)
  BY CommitEnds
<1>7. \A q \in Req : JobKnows(job[q])'
  <2>1. ASSUME NEW q \in Req PROVE JobKnows(job[q])'
    <3>1. JobKnows(job'[q])
      BY <1>0, <1>6 DEF CheckoutInv
    <3>2. Placed \subseteq Placed'
      BY <1>1
    <3> QED BY <3>1, <3>2 DEF JobKnows
  <2> QED BY <2>1
<1>8. Numbered'
  <2>1. Cardinality(Placed) \in Nat /\ Placed = 1 .. Cardinality(Placed) /\ o <= MaxOrders
    BY <1>1, NextNumber DEF CheckoutInv, Order
  <2>2. Placed' = 1 .. o /\ o \in 0 .. MaxOrders
    BY <1>1, <2>1, BoundsAre
  <2> QED BY <2>2 DEF Numbered
<1>9. job' \in [Req -> AnyJob]
  BY <1>0, <1>6
<1> QED BY <1>1, <1>2, <1>3, <1>4, <1>5, <1>7, <1>8, <1>9 DEF CheckoutInv, RowsOK
(* Giving stock back, and saving a variant or the promotion.               *)
LEMMA CheckoutSaves ==
  ASSUME PlaceOrderAssumption, CheckoutInv, NEW r \in Req,
         restoreStockForItems(r) \/ Saves(r) \/ SavePromotion(r)
  PROVE  CheckoutInv'
<1> USE IdleIsJob
<1>0. job[r] \in AnyJob /\ JobKnows(job[r]) /\ job' = [job EXCEPT ![r] = Idle] /\ job \in [Req -> AnyJob]
  BY RowsSaved DEF restoreStockForItems, SavePromotion, Return, CheckoutInv, RowsOK
<1>1. CASE restoreStockForItems(r)
  <2> DEFINE o == job[r].o
             back == ToRestore(o, job[r].seen)
  <2>1. o \in Placed
    BY <1>0, <1>1 DEF restoreStockForItems, At, JobKnows
  <2>2. order[o] \in OrderRow /\ o \in Order /\ order \in [Order -> OrderRow]
    BY <2>1 DEF Placed, CheckoutInv, RowsOK
  <2>3. order' = [order EXCEPT ![o] = [order[o] EXCEPT !.status = "cancelled"]]
    BY <1>1, <2>2 DEF restoreStockForItems
  <2>4. [order[o] EXCEPT !.status = "cancelled"] \in OrderRow
    BY <2>2 DEF OrderRow
  <2>5. order' \in [Order -> OrderRow]
    BY <2>2, <2>3, <2>4
  <2>6. Placed' = Placed
    BY <2>1, <2>2, <2>3 DEF Placed, OrderRow
  <2>7. back \subseteq Variant
    BY <2>2, BasketsAre DEF ToRestore, OrderRow, OrderItems, Range
  <2>8. returns' \subseteq Order \X Variant
    BY <1>1, <2>2, <2>7 DEF restoreStockForItems, CheckoutInv, RowsOK
  <2>9. variant' \in [Variant -> AnyVariantRow]
    <3>1. variant' = [v \in Variant |-> [variant[v] EXCEPT !.stock = @ + (IF v \in back THEN 1 ELSE 0)]]
      BY <1>1 DEF restoreStockForItems
    <3>2. ASSUME NEW v \in Variant
          PROVE  [variant[v] EXCEPT !.stock = @ + (IF v \in back THEN 1 ELSE 0)] \in AnyVariantRow
      BY DEF CheckoutInv, RowsOK, AnyVariantRow
    <3> QED BY <3>1, <3>2
  <2>10. \A q \in Req : JobKnows(job[q])'
    BY <1>0, <2>6, KnowsStill DEF JobKnows, CheckoutInv, Idle, Checking, Saving
  <2>11. UNCHANGED <<basePrice, campaign, suspended, promo, cart, bought>>
    BY <1>1 DEF restoreStockForItems
  <2> QED BY <1>0, <2>5, <2>6, <2>8, <2>9, <2>10, <2>11 DEF CheckoutInv, RowsOK, Numbered
<1>2. CASE Saves(r) \/ SavePromotion(r)
  <2>1. UNCHANGED <<campaign, suspended, order, returns, cart, bought>> /\ basePrice' \in BasePrices
    BY <1>2, RowsSaved DEF SavePromotion, CheckoutInv, RowsOK
  <2>2. variant' \in [Variant -> AnyVariantRow] /\ promo' \in AnyPromotion
    BY <1>0, <1>2, RowsSaved DEF SavePromotion, CheckoutInv, RowsOK, AnyJob
  <2>3. JobKnows(Idle)
    BY DEF JobKnows, Idle, Checking, Saving
  <2>4. job' \in [Req -> AnyJob] /\ Numbered' /\ \A q \in Req : JobKnows(job[q])'
    BY <1>0, <2>1, <2>3, RequestSteps
  <2> QED BY <2>1, <2>2, <2>4 DEF CheckoutInv, RowsOK
<1> QED BY <1>1, <1>2

(* A checkout that goes through its lines.                                 *)
LEMMA CheckoutLines ==
  ASSUME PlaceOrderAssumption, CheckoutInv, NEW r \in Req, CheckLine(r)
  PROVE  CheckoutInv'
<1>1. PICK j \in AnyJob : job' = [job EXCEPT ![r] = j] /\ JobKnows(j)
  BY LineSteps
<1>2. RowsUnchanged
  BY LineSteps
<1>3. job' \in [Req -> AnyJob] /\ Numbered' /\ \A q \in Req : JobKnows(job[q])'
  BY <1>1, <1>2, RequestSteps DEF RowsUnchanged
<1> QED BY <1>2, <1>3 DEF CheckoutInv, RowsOK, RowsUnchanged

(* Every step keeps the rows and what requests know of them.               *)
LEMMA CheckoutNext == ASSUME PlaceOrderAssumption, CheckoutInv, LocksInv, [Next]_vars PROVE CheckoutInv'
<1>1. ASSUME UNCHANGED vars PROVE CheckoutInv'
  BY <1>1 DEF vars, CheckoutInv, RowsOK, Numbered, Placed, JobKnows
<1>2. ASSUME NEW percent \in Discounts, changeSale(percent) PROVE CheckoutInv'
  BY <1>2 DEF changeSale, CheckoutInv, RowsOK, Numbered, Placed, JobKnows
<1>3. ASSUME NEW r \in Req, Request(r) PROVE CheckoutInv'
  BY <1>3, CreateKnows, CheckoutReads, CheckoutPlaces, CheckoutSaves, CheckoutLines
     DEF Request, CheckLine, Edits, Saves
<1> QED BY <1>1, <1>2, <1>3 DEF Next
-----------------------------------------------------------------------------
(* Locks: any requests beside each other.                                  *)

(* A variant that a checkout has not locked is of none of its lines so far.*)
LEMMA NotLocked ==
  ASSUME NEW j, NEW n \in Nat, n <= j.line, j.line \in Nat, NEW v,
         v \notin {j.draft.items[i] : i \in 1 .. j.line}
  PROVE  LinesUpTo(n, j.draft.items, v) = 0
<1>1. {i \in 1 .. n : j.draft.items[i] = v} = {}
  OBVIOUS
<1> QED BY <1>1, FS_EmptySet DEF LinesUpTo

(* How many lines have been compared.                                      *)
LEMMA PassedIs ==
  ASSUME NEW j \in AnyJob, JobKnows(j)
  PROVE  Passed(j) \in Nat /\ Passed(j) <= j.line /\ j.line \in Nat
<1>1. j.line \in Nat /\ (j.at = "priceLine" => j.line \in 1 .. j.line)
  BY DEF AnyJob, JobKnows
<1> QED BY <1>1 DEF Passed

(* What a checkout has read stays so if the others leave what it has       *)
(* locked alone, or bring more of it.                                      *)
LEMMA LinesStillPass ==
  ASSUME CheckoutInv, LocksInv, NEW q \in Req, job'[q] = job[q], variant' \in [Variant -> AnyVariantRow],
         \A v \in Variant : \/ v \notin Locks(q)
                            \/ /\ variant'[v].retired = variant[v].retired
                               /\ variant[v].stock <= variant'[v].stock
  PROVE  LinesPass(job[q])'
<1> DEFINE j == job[q]
<1>1. j \in AnyJob /\ JobKnows(j) /\ LinesPass(j) /\ Passed(j) \in Nat /\ Passed(j) <= j.line /\ j.line \in Nat
  BY PassedIs DEF CheckoutInv, RowsOK, LocksInv
<1>2. Locks(q) = {j.draft.items[i] : i \in 1 .. j.line}
  BY DEF Locks
<1>3. \A i \in 1 .. j.line : j.draft.items[i] \in Variant
  <2>1. j.at \notin Checking => j.line = 0
    BY <1>1 DEF JobKnows
  <2>2. j.at \in Checking => j.draft.items \in Basket /\ 1 .. j.line \subseteq DOMAIN j.draft.items
    BY <1>1 DEF JobKnows
  <2>3. j.at \in Checking => \A i \in DOMAIN j.draft.items : j.draft.items[i] \in Variant
    BY <2>2 DEF Basket
  <2>4. j.line = 0 => 1 .. j.line = {}
    BY <1>1
  <2> QED BY <2>1, <2>2, <2>3, <2>4
<1>4. ASSUME NEW i \in 1 .. j.line PROVE ~variant'[j.draft.items[i]].retired
  BY <1>1, <1>2, <1>3 DEF LinesPass
<1>5. ASSUME NEW v \in Variant PROVE LinesUpTo(Passed(j), j.draft.items, v) <= variant'[v].stock
  <2>1. variant'[v].stock \in Nat /\ variant[v].stock \in Nat
    BY DEF AnyVariantRow, CheckoutInv, RowsOK
  <2>2. CASE v \notin Locks(q)
    <3>1. LinesUpTo(Passed(j), j.draft.items, v) = 0
      BY <1>1, <1>2, <2>2, NotLocked
    <3> QED BY <2>1, <3>1
  <2>3. CASE v \in Locks(q)
    <3>1. LinesUpTo(Passed(j), j.draft.items, v) <= variant[v].stock /\ variant[v].stock <= variant'[v].stock
      BY <1>1, <2>3 DEF LinesPass
    <3>2. LinesUpTo(Passed(j), j.draft.items, v) \in Nat
      <4>1. IsFiniteSet(1 .. Passed(j))
        BY <1>1, FS_Interval
      <4>2. {i \in 1 .. Passed(j) : j.draft.items[i] = v} \subseteq 1 .. Passed(j)
        OBVIOUS
      <4>3. IsFiniteSet({i \in 1 .. Passed(j) : j.draft.items[i] = v})
        BY <4>1, <4>2, FS_Subset
      <4> QED BY <4>3, FS_CardinalityType DEF LinesUpTo
    <3> QED BY <2>1, <3>1, <3>2
  <2> QED BY <2>2, <2>3
<1>6. Passed(job[q])' = Passed(j) /\ job'[q] = j
  BY DEF Passed
<1> QED BY <1>4, <1>5, <1>6 DEF LinesPass

(* A request that holds no lock after its step.                            *)
LEMMA HoldsNothing ==
  ASSUME NEW r \in Req, job'[r].line = 0, job'[r].at # "priceLine",
         variant' \in [Variant -> AnyVariantRow]
  PROVE  Locks(r)' = {} /\ LinesPass(job[r])'
<1>1. 1 .. 0 = {}
  OBVIOUS
<1>2. Locks(r)' = {}
  BY <1>1 DEF Locks
<1>3. ASSUME NEW v \in Variant PROVE LinesUpTo(0, job'[r].draft.items, v) = 0 /\ variant'[v].stock \in Nat
  BY <1>1, FS_EmptySet DEF LinesUpTo, AnyVariantRow
<1>4. ASSUME NEW v \in Variant PROVE LinesUpTo(0, job'[r].draft.items, v) <= variant'[v].stock
  BY <1>3
<1>5. Passed(job[r])' = 0
  BY DEF Passed
<1> QED BY <1>1, <1>2, <1>4, <1>5 DEF LinesPass

(* A step of a request that holds no lock after it and leaves what the     *)
(* others have locked alone.                                               *)
LEMMA LocksStay ==
  ASSUME CheckoutInv, LocksInv, CheckoutInv', NEW r \in Req, NEW j, job' = [job EXCEPT ![r] = j],
         j.line = 0, j.at # "priceLine",
         \A q \in Req \ {r} : \A v \in Variant :
            \/ v \notin Locks(q)
            \/ /\ variant'[v].retired = variant[v].retired
               /\ variant[v].stock <= variant'[v].stock
  PROVE  LocksInv'
<1>1. variant' \in [Variant -> AnyVariantRow] /\ DOMAIN job = Req
  BY DEF CheckoutInv, RowsOK
<1>2. job'[r] = j /\ \A q \in Req \ {r} : job'[q] = job[q]
  BY <1>1
<1>3. Locks(r)' = {} /\ LinesPass(job[r])'
  BY <1>1, <1>2, HoldsNothing
<1>4. ASSUME NEW q \in Req \ {r} PROVE Locks(q)' = Locks(q) /\ LinesPass(job[q])'
  <2>1. Locks(q)' = Locks(q)
    BY <1>2 DEF Locks
  <2> QED BY <1>1, <1>2, <2>1, LinesStillPass
<1> QED BY <1>3, <1>4 DEF LocksInv

(* A checkout locks its next line's variant, which is free.                *)
LEMMA LockSteps ==
  ASSUME PlaceOrderAssumption, CheckoutInv, LocksInv, NEW r \in Req, LockLine(r)
  PROVE  LocksInv'
<1> DEFINE n == job[r].line + 1
           v == job[r].draft.items[n]
<1>0. /\ job[r] \in AnyJob /\ JobKnows(job[r]) /\ LinesPass(job[r]) /\ job[r].at = "lockLine" /\ DOMAIN job = Req
      /\ RowsUnchanged /\ variant \in [Variant -> AnyVariantRow]
  BY DEF CheckoutInv, RowsOK, LocksInv, LockLine, At
<1>1. CASE job' = [job EXCEPT ![r] = Idle]
  <2>1. CheckoutInv'
    BY CheckoutLines DEF CheckLine
  <2>2. Idle.line = 0 /\ Idle.at # "priceLine" /\ variant' = variant
    BY <1>0 DEF Idle, RowsUnchanged
  <2>3. \A w \in Variant : variant'[w].retired = variant[w].retired /\ variant[w].stock <= variant'[w].stock
    BY <1>0, <2>2 DEF AnyVariantRow
  <2> QED BY <1>1, <2>1, <2>2, <2>3, LocksStay
<1>2. CASE /\ ~variant[v].retired
           /\ job' = [job EXCEPT ![r].at = "priceLine", ![r].line = n, ![r].base = basePrice]
  <2>1. IsFree(r, v) /\ variant' = variant
    BY <1>0 DEF LockLine, RowsUnchanged
  <2>2. /\ job'[r].at = "priceLine" /\ job'[r].line = n /\ job'[r].draft = job[r].draft
        /\ \A q \in Req \ {r} : job'[q] = job[q]
    BY <1>0, <1>2 DEF AnyJob
  <2>3. job[r].line \in Nat /\ 1 .. n = 1 .. job[r].line \cup {n}
    BY <1>0 DEF AnyJob
  <2>4. Locks(r)' = Locks(r) \cup {v}
    BY <2>2, <2>3 DEF Locks
  <2>5. \A q \in Req \ {r} : Locks(q)' = Locks(q) /\ v \notin Locks(q)
    BY <2>1, <2>2 DEF Locks, IsFree
  <2>6. \A q, p \in Req : q # p => Locks(q)' \cap Locks(p)' = {}
    BY <2>4, <2>5 DEF LocksInv
  <2>7. ASSUME NEW q \in Req \ {r} PROVE LinesPass(job[q])'
    BY <2>1, <2>2 DEF LocksInv, LinesPass, Passed
  <2>8. LinesPass(job[r])'
    <3>1. Passed(job[r])' = Passed(job[r])
      BY <1>0, <2>2, <2>3 DEF Passed
    <3> QED BY <1>0, <1>2, <2>1, <2>2, <2>3, <3>1 DEF LinesPass
  <2> QED BY <2>6, <2>7, <2>8 DEF LocksInv
<1> QED BY <1>1, <1>2 DEF LockLine, Return

(* A checkout compares a line: of its variant there is enough for this     *)
(* line and the ones before, of the others nothing more is asked.          *)
LEMMA PriceSteps ==
  ASSUME PlaceOrderAssumption, CheckoutInv, LocksInv, NEW r \in Req, PriceLine(r)
  PROVE  LocksInv'
<1> DEFINE j == job[r]
           n == job[r].line
           items == job[r].draft.items
<1>0. /\ j \in AnyJob /\ JobKnows(j) /\ LinesPass(j) /\ j.at = "priceLine" /\ DOMAIN job = Req
      /\ RowsUnchanged /\ variant \in [Variant -> AnyVariantRow]
  BY DEF CheckoutInv, RowsOK, LocksInv, PriceLine, At
<1>1. CASE job' = [job EXCEPT ![r] = Idle]
  <2>1. CheckoutInv'
    BY CheckoutLines DEF CheckLine
  <2>2. Idle.line = 0 /\ Idle.at # "priceLine" /\ variant' = variant
    BY <1>0 DEF Idle, RowsUnchanged
  <2>3. \A w \in Variant : variant'[w].retired = variant[w].retired /\ variant[w].stock <= variant'[w].stock
    BY <1>0, <2>2 DEF AnyVariantRow
  <2> QED BY <1>1, <2>1, <2>2, <2>3, LocksStay
<1>2. CASE InStock(j) /\ job' = [job EXCEPT ![r].at = IF n + 1 \in DOMAIN items THEN "lockLine" ELSE "commit"]
  <2>1. variant' = variant
    BY <1>0 DEF RowsUnchanged
  <2>2. /\ job'[r].at # "priceLine" /\ job'[r].line = n /\ job'[r].draft = j.draft
        /\ \A q \in Req \ {r} : job'[q] = job[q]
    BY <1>0, <1>2 DEF AnyJob
  <2>3. \A q \in Req : Locks(q)' = Locks(q)
    BY <2>2 DEF Locks
  <2>4. n \in Nat /\ n \in 1 .. n
    BY <1>0 DEF AnyJob, JobKnows
  <2>5. ASSUME NEW v \in Variant PROVE LinesUpTo(n, items, v) <= variant[v].stock
    <3>1. CASE v = items[n]
      BY <1>2, <3>1 DEF InStock
    <3>2. CASE v # items[n]
      <4>1. {i \in 1 .. n : items[i] = v} = {i \in 1 .. (n - 1) : items[i] = v}
        BY <2>4, <3>2
      <4>2. LinesUpTo(n, items, v) = LinesUpTo(n - 1, items, v)
        BY <4>1 DEF LinesUpTo
      <4> QED BY <1>0, <4>2 DEF LinesPass, Passed
    <3> QED BY <3>1, <3>2
  <2>6. LinesPass(job[r])'
    <3>1. Passed(job[r])' = n
      BY <2>2 DEF Passed
    <3> QED BY <1>0, <2>1, <2>2, <2>5, <3>1 DEF LinesPass
  <2>7. ASSUME NEW q \in Req \ {r} PROVE LinesPass(job[q])'
    BY <2>1, <2>2 DEF LocksInv, LinesPass, Passed
  <2> QED BY <2>3, <2>6, <2>7 DEF LocksInv
<1> QED BY <1>1, <1>2 DEF PriceLine, Return

(* A commit takes stock of variants only it has locked.                    *)
LEMMA CommitSteps ==
  ASSUME PlaceOrderAssumption, CheckoutInv, LocksInv, NEW r \in Req, Commit(r)
  PROVE  LocksInv'
<1> DEFINE draft == job[r].draft
<1>1. PICK j \in AnyJob : job' = [job EXCEPT ![r] = j] /\ j.line = 0 /\ j.at # "priceLine"
  BY CommitEnds DEF Idle
<1>2. CheckoutInv'
  BY CheckoutPlaces
<1>3. variant' = TakeStock(draft.items) /\ 1 .. job[r].line = DOMAIN draft.items /\ draft.items \in Basket
  BY CommitPlaces
<1>4. Locks(r) = Range(draft.items)
  BY <1>3 DEF Locks, Range
<1>5. ASSUME NEW q \in Req \ {r}, NEW v \in Variant, v \in Locks(q)
      PROVE  variant'[v].retired = variant[v].retired /\ variant[v].stock <= variant'[v].stock
  <2>1. v \notin Range(draft.items)
    BY <1>4, <1>5 DEF LocksInv
  <2>2. Lines(draft.items, v) = 0
    BY <1>3, <2>1, LineCounts
  <2>3. variant[v] \in AnyVariantRow
    BY DEF CheckoutInv, RowsOK
  <2>4. variant'[v] = [variant[v] EXCEPT !.stock = variant[v].stock - 0]
    BY <1>3, <2>2 DEF TakeStock
  <2> QED BY <2>3, <2>4 DEF AnyVariantRow
<1> QED BY <1>1, <1>2, <1>5, LocksStay

(* Nobody saves a variant that is locked, and stock that comes back is     *)
(* more stock.                                                             *)
LEMMA SaveSteps ==
  ASSUME PlaceOrderAssumption, CheckoutInv, LocksInv, NEW r \in Req,
         restoreStockForItems(r) \/ Saves(r) \/ SavePromotion(r)
  PROVE  LocksInv'
<1>1. /\ CheckoutInv' /\ job' = [job EXCEPT ![r] = Idle] /\ Idle.line = 0 /\ Idle.at # "priceLine"
      /\ variant \in [Variant -> AnyVariantRow]
  BY CheckoutSaves, RowsSaved DEF restoreStockForItems, SavePromotion, Return, Idle, CheckoutInv, RowsOK
<1>2. ASSUME NEW q \in Req \ {r}, NEW v \in Variant, v \in Locks(q)
      PROVE  variant'[v].retired = variant[v].retired /\ variant[v].stock <= variant'[v].stock
  <2>1. variant[v] \in AnyVariantRow
    BY <1>1
  <2>2. CASE restoreStockForItems(r)
    <3>1. PICK n \in {0, 1} : variant'[v] = [variant[v] EXCEPT !.stock = variant[v].stock + n]
      BY <1>1, <2>2 DEF restoreStockForItems
    <3> QED BY <2>1, <3>1 DEF AnyVariantRow
  <2>3. CASE Saves(r)
    <3>1. ~IsFree(r, v)
      BY <1>2 DEF IsFree
    <3>2. variant'[v] = variant[v]
      BY <2>3, <3>1, RowsSaved
    <3> QED BY <2>1, <3>2 DEF AnyVariantRow
  <2>4. CASE SavePromotion(r)
    BY <2>1, <2>4 DEF SavePromotion, AnyVariantRow
  <2> QED BY <2>2, <2>3, <2>4
<1> QED BY <1>1, <1>2, LocksStay

(* A step that leaves variants alone and after which its request holds no  *)
(* lock.                                                                   *)
LEMMA FreeSteps ==
  ASSUME CheckoutInv, LocksInv, CheckoutInv', NEW r \in Req, NEW j, job' = [job EXCEPT ![r] = j],
         j.line = 0, j.at # "priceLine", UNCHANGED variant
  PROVE  LocksInv'
<1>1. \A v \in Variant : variant'[v].retired = variant[v].retired /\ variant[v].stock <= variant'[v].stock
  BY DEF CheckoutInv, RowsOK, AnyVariantRow
<1> QED BY <1>1, LocksStay

(* Every step.                                                             *)
LEMMA LocksNext == ASSUME PlaceOrderAssumption, CheckoutInv, LocksInv, [Next]_vars PROVE LocksInv'
<1> USE IdleIsJob
<1>0. CheckoutInv' /\ Idle.line = 0
  BY CheckoutNext DEF Idle
<1>1. ASSUME UNCHANGED <<variant, job>> PROVE LocksInv'
  <2>1. \A r \in Req : Locks(r)' = Locks(r)
    BY <1>1 DEF Locks
  <2>2. \A r \in Req : LinesPass(job[r])'
    BY <1>1 DEF LocksInv, LinesPass, Passed
  <2> QED BY <2>1, <2>2 DEF LocksInv
<1>2. ASSUME NEW r \in Req, Request(r) PROVE LocksInv'
  <2>1. ASSUME NEW b \in Buyer, NEW items \in Basket, NEW fromCart \in BOOLEAN, NEW code \in BOOLEAN,
               create(r, b, items, fromCart, code)
        PROVE  LocksInv'
    <3>1. PICK j : j.line = 0 /\ j.at # "priceLine" /\ job' = [job EXCEPT ![r] = j] /\ variant' = variant
      BY <1>0, <2>1 DEF create, Start, AnyJob, RowsUnchanged
    <3> QED BY <1>0, <3>1, FreeSteps
  <2>2. ASSUME NEW o \in Order, updateStatus(r, o) PROVE LocksInv'
    <3>1. PICK j : j.line = 0 /\ j.at # "priceLine" /\ job' = [job EXCEPT ![r] = j] /\ variant' = variant
      BY <1>0, <2>2 DEF updateStatus, Start, AnyJob, RowsUnchanged
    <3> QED BY <1>0, <3>1, FreeSteps
  <2>3. ASSUME Edits(r) PROVE LocksInv'
    <3>1. PICK j : j.line = 0 /\ j.at \in Saving /\ job' = [job EXCEPT ![r] = j] /\ variant' = variant
      BY <2>3, EditsLoad DEF RowsUnchanged
    <3>2. j.at # "priceLine"
      BY <3>1 DEF Saving
    <3> QED BY <1>0, <3>1, <3>2, FreeSteps
  <2>4. ASSUME NEW isActive \in BOOLEAN, toggle(r, isActive) PROVE LocksInv'
    <3>1. PICK j : j.line = 0 /\ j.at # "priceLine" /\ job' = [job EXCEPT ![r] = j] /\ variant' = variant
      BY <1>0, <2>4 DEF toggle, Start, AnyJob, RowsUnchanged
    <3> QED BY <1>0, <3>1, FreeSteps
  <2>5. ASSUME ClearCart(r) \/ Rollback(r) PROVE LocksInv'
    <3>1. job' = [job EXCEPT ![r] = Idle] /\ variant' = variant
      BY <2>5 DEF ClearCart, Rollback, Return, RowsUnchanged
    <3> QED BY <1>0, <3>1, FreeSteps
  <2>6. ASSUME suspend(r) PROVE LocksInv'
    BY <1>1, <2>6 DEF suspend, Instant
  <2> QED BY <1>2, <2>1, <2>2, <2>3, <2>4, <2>5, <2>6, LockSteps, PriceSteps, CommitSteps, SaveSteps
       DEF Request, Edits, Saves
<1>3. ASSUME NEW percent \in Discounts, changeSale(percent) PROVE LocksInv'
  BY <1>1, <1>3 DEF changeSale
<1> QED BY <1>1, <1>2, <1>3 DEF Next, vars

(* Nothing is locked.                                                      *)
LEMMA LocksInit == ASSUME PlaceOrderAssumption PROVE Init => LocksInv
<1> SUFFICES ASSUME Init PROVE LocksInv
  OBVIOUS
<1>1. ASSUME NEW r \in Req PROVE job[r].line = 0 /\ Passed(job[r]) = 0
  <2>1. job[r] = Idle
    BY DEF Init
  <2>2. Idle.line = 0 /\ Idle.at # "priceLine"
    BY DEF Idle
  <2> QED BY <2>1, <2>2 DEF Passed
<1>2. 1 .. 0 = {}
  OBVIOUS
<1>3. ASSUME NEW r \in Req PROVE Locks(r) = {}
  BY <1>1, <1>2 DEF Locks
<1>4. ASSUME NEW r \in Req, NEW v \in Variant
      PROVE  LinesUpTo(Passed(job[r]), job[r].draft.items, v) <= variant[v].stock
  <2>1. LinesUpTo(0, job[r].draft.items, v) = 0
    BY <1>2, FS_EmptySet DEF LinesUpTo
  <2> QED BY <1>1, <2>1, BoundsAre DEF Init, NewVariant
<1>5. ASSUME NEW r \in Req PROVE LinesPass(job[r])
  BY <1>1, <1>2, <1>4 DEF LinesPass
<1> QED BY <1>3, <1>5 DEF LocksInv

-----------------------------------------------------------------------------
(* What an order is placed at: any requests beside each other, as long as  *)
(* only what a variant costs more or less changes.                         *)

(* Nobody changes the price of a product or a campaign.                    *)
PricesAlone == Handlers \cap {"updateProduct", "changeSale"} = {}

(* What a checkout has compared is the price now.                          *)
PricesPass(j) ==
    /\ j.at = "priceLine" => j.base = basePrice
    /\ \A i \in 1 .. Passed(j) : j.draft.price[i] = PriceAt(basePrice, j.draft.items[i])

PricesInv == \A r \in Req : PricesPass(job[r])

(* A price that was compared stays if the variant, locked, costs the same. *)
LEMMA PricesStand ==
  ASSUME CheckoutInv, PricesInv, NEW q \in Req, job'[q] = job[q], UNCHANGED <<basePrice, campaign>>,
         \A v \in Locks(q) : variant'[v].adj = variant[v].adj
  PROVE  PricesPass(job[q])'
<1> DEFINE j == job[q]
<1>1. PricesPass(j) /\ Passed(j) \in Nat /\ Passed(j) <= j.line /\ j.line \in Nat
  BY PassedIs DEF PricesInv, CheckoutInv, RowsOK
<1>2. ASSUME NEW i \in 1 .. Passed(j)
      PROVE  PriceAt(basePrice, j.draft.items[i])' = PriceAt(basePrice, j.draft.items[i])
  <2>1. i \in 1 .. j.line
    BY <1>1
  <2>2. j.draft.items[i] \in Locks(q)
    BY <2>1 DEF Locks
  <2> QED BY <2>2 DEF PriceAt
<1>3. Passed(job[q])' = Passed(j) /\ job'[q] = j
  BY DEF Passed
<1>4. ASSUME NEW i \in 1 .. Passed(j) PROVE j.draft.price[i] = PriceAt(basePrice, j.draft.items[i])'
  BY <1>1, <1>2 DEF PricesPass
<1> QED BY <1>1, <1>3, <1>4 DEF PricesPass

(* What a request knows that has compared nothing.                         *)
LEMMA NoPricesPass ==
  ASSUME NEW r \in Req, job'[r].line = 0, job'[r].at # "priceLine"
  PROVE  PricesPass(job[r])'
<1>1. 1 .. 0 = {}
  OBVIOUS
<1>2. Passed(job[r])' = 0
  BY DEF Passed
<1> QED BY <1>1, <1>2 DEF PricesPass

(* A checkout remembers the product's price with the lock, and compares a  *)
(* line with it.                                                           *)
LEMMA PriceLineSteps ==
  ASSUME PlaceOrderAssumption, CheckoutInv, PricesInv, NEW r \in Req, LockLine(r) \/ PriceLine(r)
  PROVE  PricesPass(job[r])'
<1> DEFINE j == job[r]
<1>0. /\ j \in AnyJob /\ JobKnows(j) /\ PricesPass(j) /\ DOMAIN job = Req
      /\ RowsUnchanged /\ j.line \in Nat
  BY DEF CheckoutInv, RowsOK, PricesInv, LockLine, PriceLine, AnyJob
<1>1. CASE job' = [job EXCEPT ![r] = Idle]
  <2>1. job'[r].line = 0 /\ job'[r].at # "priceLine"
    BY <1>0, <1>1 DEF Idle
  <2> QED BY <2>1, NoPricesPass
<1>2. CASE j.at = "lockLine" /\ job' = [job EXCEPT ![r].at = "priceLine", ![r].line = j.line + 1, ![r].base = basePrice]
  <2>1. /\ job'[r].at = "priceLine" /\ job'[r].line = j.line + 1 /\ job'[r].draft = j.draft
        /\ job'[r].base = basePrice
    BY <1>0, <1>2 DEF AnyJob
  <2>2. Passed(job[r])' = Passed(j)
    BY <1>0, <1>2, <2>1 DEF Passed
  <2>3. \A v : PriceAt(basePrice, v)' = PriceAt(basePrice, v)
    BY <1>0 DEF PriceAt, RowsUnchanged
  <2>4. basePrice' = basePrice
    BY <1>0 DEF RowsUnchanged
  <2> QED BY <1>0, <2>1, <2>2, <2>3, <2>4 DEF PricesPass
<1>3. CASE /\ j.at = "priceLine" /\ SamePrice(j)
           /\ job' = [job EXCEPT ![r].at = IF j.line + 1 \in DOMAIN j.draft.items THEN "lockLine" ELSE "commit"]
  <2>1. job'[r].at # "priceLine" /\ job'[r].line = j.line /\ job'[r].draft = j.draft
    BY <1>0, <1>3 DEF AnyJob
  <2>2. Passed(job[r])' = j.line /\ Passed(j) = j.line - 1
    BY <1>3, <2>1 DEF Passed
  <2>3. \A v : PriceAt(basePrice, v)' = PriceAt(basePrice, v)
    BY <1>0 DEF PriceAt, RowsUnchanged
  <2>4. j.draft.price[j.line] = PriceAt(basePrice, j.draft.items[j.line])
    BY <1>0, <1>3 DEF SamePrice, PricesPass
  <2>5. ASSUME NEW i \in 1 .. j.line PROVE j.draft.price[i] = PriceAt(basePrice, j.draft.items[i])
    <3>1. i = j.line \/ i \in 1 .. (j.line - 1)
      BY <1>0
    <3> QED BY <1>0, <2>2, <2>4, <3>1 DEF PricesPass
  <2> QED BY <2>1, <2>2, <2>3, <2>5 DEF PricesPass
<1> QED BY <1>1, <1>2, <1>3 DEF LockLine, PriceLine, At, Return

(* Which variants cost more or less after a step: one that nobody has      *)
(* locked.                                                                 *)
LEMMA LockedCostTheSame ==
  ASSUME PlaceOrderAssumption, CheckoutInv, NEW r \in Req, Request(r),
         NEW q \in Req \ {r}, NEW v \in Locks(q), v \in Variant
  PROVE  variant'[v].adj = variant[v].adj
<1>0. variant \in [Variant -> AnyVariantRow]
  BY DEF CheckoutInv, RowsOK
<1>1. CASE UNCHANGED variant
  BY <1>1
<1>2. CASE Commit(r)
  <2>1. variant' = TakeStock(job[r].draft.items)
    BY <1>2 DEF Commit
  <2> QED BY <1>0, <2>1 DEF TakeStock, AnyVariantRow
<1>3. CASE restoreStockForItems(r)
  <2>1. PICK n : variant'[v] = [variant[v] EXCEPT !.stock = variant[v].stock + n]
    BY <1>0, <1>3 DEF restoreStockForItems
  <2> QED BY <1>0, <2>1 DEF AnyVariantRow
<1>4. CASE Saves(r)
  <2>1. ~IsFree(r, v)
    BY DEF IsFree
  <2> QED BY <1>4, <2>1, RowsSaved
<1> QED BY <1>1, <1>2, <1>3, <1>4 DEF Request, RowsUnchanged, create, LockLine, PriceLine, Rollback, ClearCart,
     updateStatus, updateVariant, retire, EditVariant, updateProduct, Instant, suspend, toggle, SavePromotion, Saves

(* What a request has locked are variants.                                 *)
LEMMA LocksAreVariants == ASSUME PlaceOrderAssumption, CheckoutInv, NEW q \in Req PROVE Locks(q) \subseteq Variant
<1> DEFINE j == job[q]
<1>1. JobKnows(j) /\ j \in AnyJob
  BY DEF CheckoutInv, RowsOK
<1>2. CASE j.at \in Checking
  <2>1. j.draft.items \in Basket /\ 1 .. j.line \subseteq DOMAIN j.draft.items
    BY <1>1, <1>2 DEF JobKnows
  <2>2. \A i \in DOMAIN j.draft.items : j.draft.items[i] \in Variant
    BY <2>1, BasketsAre
  <2> QED BY <2>1, <2>2 DEF Locks
<1>3. CASE j.at \notin Checking
  <2>1. 1 .. j.line = {}
    BY <1>1, <1>3 DEF JobKnows
  <2> QED BY <2>1 DEF Locks
<1> QED BY <1>2, <1>3

(* Every step, while nobody changes the price of a product or a campaign.  *)
LEMMA PricesNext ==
  ASSUME PlaceOrderAssumption, PricesAlone, CheckoutInv, LocksInv, PricesInv, [Next]_vars
  PROVE  PricesInv'
<1> USE IdleIsJob
<1>0. DOMAIN job = Req /\ Idle.line = 0
  BY DEF CheckoutInv, RowsOK, Idle
<1>1. ASSUME UNCHANGED <<variant, basePrice, campaign, job>> PROVE PricesInv'
  BY <1>1 DEF PricesInv, PricesPass, Passed, PriceAt
<1>2. ASSUME NEW r \in Req, Request(r) PROVE PricesInv'
  <2>1. CASE suspend(r)
    BY <1>1, <2>1 DEF suspend, Instant
  <2>2. CASE ~suspend(r)
    <3>1. UNCHANGED <<basePrice, campaign>>
      <4>1. CASE Saves(r)
        BY <4>1, RowsSaved DEF PricesAlone
      <4> QED BY <1>2, <2>2, <4>1 DEF Request, RowsUnchanged, create, LockLine, PriceLine, Rollback, Commit, ClearCart,
           updateStatus, restoreStockForItems, updateVariant, retire, EditVariant, updateProduct, toggle,
           SavePromotion, Saves
    <3>2. PICK j : /\ job' = [job EXCEPT ![r] = j]
                   /\ \/ j.line = 0 /\ j.at # "priceLine"
                      \/ LockLine(r) \/ PriceLine(r)
      <4>1. CASE Commit(r)
        <5>1. PICK j : job' = [job EXCEPT ![r] = j] /\ j.line = 0 /\ (j = Idle \/ j.at = "clearCart")
          BY <4>1, CommitEnds
        <5> QED BY <1>0, <5>1
      <4>2. CASE LockLine(r) \/ PriceLine(r)
        BY <4>2, LineSteps DEF CheckLine
      <4>3. ASSUME NEW b \in Buyer, NEW items \in Basket, NEW fromCart \in BOOLEAN, NEW code \in BOOLEAN,
                   create(r, b, items, fromCart, code)
            PROVE  \E j : j.line = 0 /\ j.at # "priceLine" /\ job' = [job EXCEPT ![r] = j]
        BY <1>0, <4>3 DEF create, Start, AnyJob
      <4>4. ASSUME NEW o \in Order, updateStatus(r, o)
            PROVE  \E j : j.line = 0 /\ j.at # "priceLine" /\ job' = [job EXCEPT ![r] = j]
        BY <1>0, <4>4 DEF updateStatus, Start, AnyJob
      <4>5. ASSUME Edits(r)
            PROVE  \E j : j.line = 0 /\ j.at # "priceLine" /\ job' = [job EXCEPT ![r] = j]
        BY <4>5, EditsLoad DEF Saving
      <4>6. ASSUME NEW isActive \in BOOLEAN, toggle(r, isActive)
            PROVE  \E j : j.line = 0 /\ j.at # "priceLine" /\ job' = [job EXCEPT ![r] = j]
        BY <1>0, <4>6 DEF toggle, Start, AnyJob
      <4>7. CASE Rollback(r) \/ ClearCart(r) \/ restoreStockForItems(r) \/ Saves(r) \/ SavePromotion(r)
        <5>1. job' = [job EXCEPT ![r] = Idle]
          BY <4>7, RowsSaved DEF Rollback, ClearCart, restoreStockForItems, SavePromotion, Return
        <5> QED BY <1>0, <5>1
      <4> QED BY <1>2, <2>2, <4>1, <4>2, <4>3, <4>4, <4>5, <4>6, <4>7 DEF Request, Edits, Saves
    <3>3. PricesPass(job[r])'
      <4>1. CASE j.line = 0 /\ j.at # "priceLine"
        <5>1. job'[r].line = 0 /\ job'[r].at # "priceLine"
          BY <1>0, <3>2, <4>1
        <5> QED BY <5>1, NoPricesPass
      <4> QED BY <3>2, <4>1, PriceLineSteps
    <3>4. ASSUME NEW q \in Req \ {r} PROVE PricesPass(job[q])'
      <4>1. job'[q] = job[q]
        BY <1>0, <3>2
      <4>2. \A v \in Locks(q) : variant'[v].adj = variant[v].adj
        BY <1>2, LockedCostTheSame, LocksAreVariants
      <4> QED BY <3>1, <4>1, <4>2, PricesStand
    <3> QED BY <3>3, <3>4 DEF PricesInv
  <2> QED BY <2>1, <2>2
<1>3. ASSUME NEW percent \in Discounts, changeSale(percent) PROVE FALSE
  BY <1>3 DEF changeSale, PricesAlone
<1> QED BY <1>1, <1>2, <1>3 DEF Next, vars

(* Nothing has been compared.                                              *)
LEMMA PricesInit == ASSUME PlaceOrderAssumption PROVE Init => PricesInv
<1> SUFFICES ASSUME Init, NEW r \in Req PROVE PricesPass(job[r])
  BY DEF PricesInv
<1>1. job[r] = Idle /\ Idle.line = 0 /\ Idle.at # "priceLine"
  BY DEF Init, Idle
<1>2. 1 .. 0 = {}
  OBVIOUS
<1>3. Passed(job[r]) = 0
  BY <1>1 DEF Passed
<1> QED BY <1>1, <1>2, <1>3 DEF PricesPass

(* An order comes from a commit.                                           *)
LEMMA PlacedByCommit ==
  ASSUME PlaceOrderAssumption, CheckoutInv, [Next]_vars, NEW o \in Order, Becomes(o)
  PROVE  \E r \in Req : Commit(r) /\ order'[o] = job[r].draft
<1>0. order \in [Order -> OrderRow] /\ job \in [Req -> AnyJob]
  BY DEF CheckoutInv, RowsOK
<1>1. order' # order
  BY DEF Becomes
<1>2. ASSUME NEW r \in Req, restoreStockForItems(r) PROVE FALSE
  <2>1. order[job[r].o].status # "none"
    BY <1>2 DEF restoreStockForItems, At, CheckoutInv, JobKnows, Placed
  <2>2. order' = [order EXCEPT ![job[r].o].status = "cancelled"]
    BY <1>2 DEF restoreStockForItems
  <2>3. o = job[r].o \/ order'[o] = order[o]
    BY <1>0, <2>2
  <2> QED BY <2>1, <2>3 DEF Becomes
<1>3. PICK r \in Req : Commit(r)
  BY <1>1, <1>2 DEF Next, Request, vars, RowsUnchanged, create, LockLine, PriceLine, Rollback, ClearCart, updateStatus,
       updateVariant, retire, EditVariant, SaveVariant, SaveProduct, SaveRows, updateProduct, changeSale, suspend, toggle,
       SavePromotion
<1>4. order' = [order EXCEPT ![Cardinality(Placed) + 1] = job[r].draft]
  BY <1>3, CommitPlaces
<1>5. order'[o] = job[r].draft
  BY <1>0, <1>4 DEF Becomes
<1> QED BY <1>3, <1>5

(* The variants of an order were locked when they were looked at.          *)
LEMMA SoldIsKept ==
  ASSUME PlaceOrderAssumption, CheckoutInv, LocksInv, [Next]_vars
  PROVE  RetiredIsNotSold
<1> SUFFICES ASSUME NEW o \in Order, Becomes(o), NEW v \in Range(order'[o].items) PROVE ~variant[v].retired
  BY DEF RetiredIsNotSold
<1>1. PICK r \in Req : Commit(r) /\ order'[o] = job[r].draft
  BY PlacedByCommit
<1>2. 1 .. job[r].line = DOMAIN job[r].draft.items
  BY <1>1, CommitPlaces
<1> QED BY <1>1, <1>2 DEF LocksInv, LinesPass, Range

(* An order's prices were compared behind its locks.                       *)
LEMMA SoldAtThePrice ==
  ASSUME PlaceOrderAssumption, CheckoutInv, PricesInv, [Next]_vars
  PROVE  PricesAreCurrent
<1> SUFFICES ASSUME NEW o \in Order, Becomes(o), NEW i \in DOMAIN order'[o].items
             PROVE  order'[o].price[i] = PriceAt(basePrice, order'[o].items[i])
  BY DEF PricesAreCurrent
<1>1. PICK r \in Req : Commit(r) /\ order'[o] = job[r].draft
  BY PlacedByCommit
<1>2. 1 .. job[r].line = DOMAIN job[r].draft.items /\ job[r].at = "commit"
  BY <1>1, CommitPlaces
<1>3. i \in 1 .. Passed(job[r])
  BY <1>1, <1>2 DEF Passed
<1> QED BY <1>1, <1>3 DEF PricesInv, PricesPass

(* However edits of variants, prices and campaigns, retirements and other  *)
(* checkouts come between reading the cart and the commit: no order is     *)
(* placed of a variant that was retired.                                   *)
THEOREM NoRetiredVariantIsSold ==
  ASSUME PlaceOrderAssumption
  PROVE  Spec => [][RetiredIsNotSold]_vars
<1>1. Init => CheckoutInv /\ LocksInv
  BY CheckoutInit, LocksInit
<1>2. CheckoutInv /\ LocksInv /\ [Next]_vars => CheckoutInv' /\ LocksInv'
  BY CheckoutNext, LocksNext
<1>3. CheckoutInv /\ LocksInv /\ [Next]_vars => RetiredIsNotSold
  BY SoldIsKept
<1> QED BY <1>1, <1>2, <1>3, PTL DEF Spec

(* An order is placed at the prices of the moment it commits, however      *)
(* edits of its variants, retirements and other checkouts come between.    *)
(* The product's own price and the campaigns must stay as they are:        *)
(* nothing keeps them from changing between a line's check and the commit. *)
THEOREM PlacedAtLockedPrices ==
  ASSUME PlaceOrderAssumption, PricesAlone
  PROVE  Spec => [][PricesAreCurrent]_vars
<1> DEFINE Inv == CheckoutInv /\ LocksInv /\ PricesInv
<1>1. Init => Inv
  BY CheckoutInit, LocksInit, PricesInit
<1>2. Inv /\ [Next]_vars => Inv'
  BY CheckoutNext, LocksNext, PricesNext
<1>3. Inv /\ [Next]_vars => PricesAreCurrent
  BY SoldAtThePrice
<1> QED BY <1>1, <1>2, <1>3, PTL DEF Spec

-----------------------------------------------------------------------------
(* Stock: who changes it is alone, or only takes.                          *)

StockInv ==
    /\ StockAccounted
    /\ \A o \in Order \ Cancelled : Returned(o) = {}
    /\ \A o \in Cancelled : Range(order[o].items) \subseteq Returned(o)
    /\ \A r \in Req :
          /\ job[r].at = "cancel" => job[r].seen = Returned(job[r].o)
          /\ job[r].at \in Saving => \A v \in job[r].saves : job[r].rows[v].stock = variant[v].stock

(* The lines of live orders that are of a variant.                         *)
HeldLines(v) == {line \in (Placed \ Cancelled) \X (1 .. MaxLines) :
                    line[2] \in DOMAIN order[line[1]].items /\ order[line[1]].items[line[2]] = v}

LinesOf(o, items, v) == {o} \X {i \in DOMAIN items : items[i] = v}

(* The lines of live orders that are of a variant can be counted.          *)
LEMMA HeldIsFinite ==
  ASSUME PlaceOrderAssumption, CheckoutInv, NEW v \in Variant
  PROVE  IsFiniteSet(HeldLines(v)) /\ Held(v) = Cardinality(HeldLines(v)) /\ Held(v) \in Nat
<1>1. IsFiniteSet(Placed \ Cancelled)
  BY NextNumber, FS_Subset DEF CheckoutInv
<1>2. IsFiniteSet(1 .. MaxLines)
  <2>1. 1 \in Int /\ MaxLines \in Int
    BY BoundsAre
  <2> QED BY <2>1, FS_Interval
<1>3. IsFiniteSet((Placed \ Cancelled) \X (1 .. MaxLines))
  BY <1>1, <1>2, FS_Product
<1>4. IsFiniteSet(HeldLines(v)) /\ Cardinality(HeldLines(v)) \in Nat
  BY <1>3, FS_Subset, FS_CardinalityType DEF HeldLines
<1> QED BY <1>4 DEF Held, HeldLines

(* An order's lines of a variant, counted one by one.                      *)
LEMMA LinesOfCount ==
  ASSUME PlaceOrderAssumption, NEW items \in Basket, NEW v \in Variant, NEW o
  PROVE  IsFiniteSet(LinesOf(o, items, v)) /\ Cardinality(LinesOf(o, items, v)) = Lines(items, v)
<1> DEFINE S == {i \in DOMAIN items : items[i] = v}
<1>1. IsFiniteSet(S) /\ Cardinality(S) = Lines(items, v) /\ Lines(items, v) \in Nat
  BY LineCounts DEF Lines
<1>2. IsFiniteSet({o}) /\ Cardinality({o}) = 1
  BY FS_Singleton
<1>3. IsFiniteSet({o} \X S) /\ Cardinality({o} \X S) = Cardinality({o}) * Cardinality(S)
  BY <1>1, <1>2, FS_Product
<1> QED BY <1>1, <1>2, <1>3 DEF LinesOf

(* Stock and the lines of live orders say together what there was.         *)
LEMMA HeldStays ==
  ASSUME UNCHANGED order, NEW v \in Variant
  PROVE  Held(v)' = Held(v)
  BY DEF Held, Placed, Cancelled

(* Placing an order.                                                       *)
LEMMA StockPlaces ==
  ASSUME PlaceOrderAssumption, CheckoutInv, LocksInv, StockInv, NEW r \in Req, Commit(r)
  PROVE  StockAccounted'
<1> DEFINE draft == job[r].draft
           o == Cardinality(Placed) + 1
<1>0. /\ o \in Order \ Placed /\ draft \in OrderRow /\ draft.items \in Basket
      /\ order' = [order EXCEPT ![o] = draft] /\ Placed' = Placed \cup {o} /\ Cancelled' = Cancelled
      /\ variant' = TakeStock(draft.items)
  BY CommitPlaces
<1> SUFFICES ASSUME NEW v \in Variant PROVE variant'[v].stock + Held(v)' = StartStock
  BY DEF StockAccounted
<1>1. order \in [Order -> OrderRow] /\ Placed \subseteq Order /\ o \notin Cancelled
  <2>1. order[o].status = "none"
    BY <1>0 DEF Placed
  <2> QED BY <2>1 DEF CheckoutInv, RowsOK, Placed, Cancelled
<1> DEFINE lines == {i \in DOMAIN draft.items : draft.items[i] = v}
<1>2. lines \subseteq 1 .. MaxLines
  BY <1>0, BasketsAre
<1>3. order'[o] = draft /\ \A p \in Order \ {o} : order'[p] = order[p]
  BY <1>0, <1>1
<1>4. HeldLines(v)' = HeldLines(v) \cup LinesOf(o, draft.items, v)
  <2>1. HeldLines(v)' = {line \in (Placed' \ Cancelled') \X (1 .. MaxLines) :
                            line[2] \in DOMAIN order'[line[1]].items /\ order'[line[1]].items[line[2]] = v}
    BY DEF HeldLines
  <2>2. ASSUME NEW p \in Placed \ Cancelled, NEW i \in 1 .. MaxLines
        PROVE  <<p, i>> \in HeldLines(v)' <=> <<p, i>> \in HeldLines(v)
    BY <1>0, <1>1, <1>3, <2>1, <2>2 DEF HeldLines
  <2>3. ASSUME NEW i \in 1 .. MaxLines
        PROVE  <<o, i>> \in HeldLines(v)' <=> i \in lines
    BY <1>0, <1>1, <1>3, <2>1, <2>3
  <2>4. HeldLines(v)' \subseteq (Placed' \ Cancelled') \X (1 .. MaxLines)
    BY <2>1
  <2>5. HeldLines(v) \subseteq (Placed \ Cancelled) \X (1 .. MaxLines)
    BY DEF HeldLines
  <2>6. LinesOf(o, draft.items, v) = {o} \X lines
    BY DEF LinesOf
  <2>7. Placed' \ Cancelled' = (Placed \ Cancelled) \cup {o}
    BY <1>0, <1>1
  <2> HIDE DEF lines, draft, o
  <2>8. ASSUME NEW x \in HeldLines(v)' PROVE x \in HeldLines(v) \cup ({o} \X lines)
    <3>1. PICK p \in Placed' \ Cancelled', i \in 1 .. MaxLines : x = <<p, i>>
      BY <2>4
    <3> QED BY <2>2, <2>3, <2>7, <3>1
  <2>9. ASSUME NEW x \in HeldLines(v) PROVE x \in HeldLines(v)'
    <3>1. PICK p \in Placed \ Cancelled, i \in 1 .. MaxLines : x = <<p, i>>
      BY <2>5
    <3> QED BY <2>2, <3>1
  <2>10. ASSUME NEW x \in {o} \X lines PROVE x \in HeldLines(v)'
    <3>1. PICK i \in lines : x = <<o, i>>
      OBVIOUS
    <3> QED BY <1>2, <2>3, <3>1
  <2> QED BY <2>6, <2>8, <2>9, <2>10
<1>5. HeldLines(v) \cap LinesOf(o, draft.items, v) = {}
  BY <1>0 DEF HeldLines, LinesOf
<1>6. /\ IsFiniteSet(HeldLines(v)) /\ Held(v) = Cardinality(HeldLines(v)) /\ Held(v) \in Nat
  BY HeldIsFinite
<1>7. /\ IsFiniteSet(LinesOf(o, draft.items, v))
      /\ Cardinality(LinesOf(o, draft.items, v)) = Lines(draft.items, v) /\ Lines(draft.items, v) \in Nat
  BY <1>0, LinesOfCount, LineCounts
<1>8. Held(v)' = Cardinality(HeldLines(v)')
  BY DEF Held, HeldLines
<1>9. Cardinality(HeldLines(v) \cup LinesOf(o, draft.items, v)) =
         Cardinality(HeldLines(v)) + Cardinality(LinesOf(o, draft.items, v))
            - Cardinality(HeldLines(v) \cap LinesOf(o, draft.items, v))
  BY <1>6, <1>7, FS_Union
<1>10. Held(v)' = Held(v) + Lines(draft.items, v)
  <2>1. Cardinality({}) = 0
    BY FS_EmptySet
  <2>2. Held(v)' = Held(v) + Lines(draft.items, v) - 0
    BY <1>4, <1>5, <1>6, <1>7, <1>8, <1>9, <2>1
  <2> HIDE DEF draft
  <2> QED BY <1>6, <1>7, <2>2
<1>11. variant'[v].stock = variant[v].stock - Lines(draft.items, v)
  BY <1>0, StockIsThere, StockTaken DEF CheckoutInv
<1>12. variant[v].stock + Held(v) = StartStock /\ variant[v].stock \in Nat
  BY DEF StockInv, StockAccounted, CheckoutInv, RowsOK, AnyVariantRow
<1> QED BY <1>6, <1>7, <1>10, <1>11, <1>12


(* Giving back what a live order held.                                     *)
LEMMA StockReturns ==
  ASSUME PlaceOrderAssumption, CheckoutInv, StockInv, NEW r \in Req, restoreStockForItems(r),
         LinesAreApart
  PROVE  /\ StockAccounted'
         /\ \A o \in Order \ Cancelled' : Returned(o)' = {}
         /\ \A o \in Cancelled' : Range(order'[o].items) \subseteq Returned(o)'
<1>0. PICK o \in Order : o = job[r].o
  BY DEF restoreStockForItems, At, CheckoutInv, JobKnows, Placed
<1> DEFINE back == ToRestore(o, job[r].seen)
<1>1. /\ job[r].at = "cancel" /\ o \in Placed /\ "updateOrderStatus" \in Handlers
      /\ order' = [order EXCEPT ![o].status = "cancelled"]
      /\ variant' = [v \in Variant |-> [variant[v] EXCEPT !.stock = @ + (IF v \in back THEN 1 ELSE 0)]]
      /\ returns' = returns \cup {<<o, v>> : v \in back}
  BY <1>0 DEF restoreStockForItems, At, CheckoutInv, JobKnows
<1>2. /\ order \in [Order -> OrderRow] /\ variant \in [Variant -> AnyVariantRow] /\ o \in Order
      /\ order[o] \in OrderRow /\ job[r].seen = Returned(o)
  BY <1>0, <1>1 DEF CheckoutInv, RowsOK, StockInv
<1>3. order'[o] = [order[o] EXCEPT !.status = "cancelled"] /\ \A p \in Order \ {o} : order'[p] = order[p]
  BY <1>1, <1>2
<1>4. Cancelled' = Cancelled \cup {o} /\ Placed' = Placed
  BY <1>1, <1>2, <1>3 DEF Cancelled, Placed, OrderRow
<1>5. \A p \in Order : order'[p].items = order[p].items
  BY <1>2, <1>3 DEF OrderRow
<1>6. Returned(o)' = Returned(o) \cup (back \cap Variant) /\ \A p \in Order \ {o} : Returned(p)' = Returned(p)
  BY <1>1, <1>2 DEF Returned
<1>7. back = Range(order[o].items) \ Returned(o) /\ Range(order[o].items) \subseteq Variant
  <2>1. Range(order[o].items) \subseteq Variant
    BY <1>2, BasketsAre DEF OrderRow, OrderItems, Range
  <2> QED BY <1>2, <2>1 DEF ToRestore
<1>8. \A p \in Order \ Cancelled' : Returned(p)' = {}
  BY <1>4, <1>6 DEF StockInv
<1>9. \A p \in Cancelled' : Range(order'[p].items) \subseteq Returned(p)'
  BY <1>2, <1>4, <1>5, <1>6, <1>7 DEF StockInv, Cancelled
<1>10. StockAccounted'
  <2> SUFFICES ASSUME NEW v \in Variant PROVE variant'[v].stock + Held(v)' = StartStock
    BY DEF StockAccounted
  <2>1. variant[v].stock + Held(v) = StartStock /\ variant[v].stock \in Nat
    BY DEF StockInv, StockAccounted, CheckoutInv, RowsOK, AnyVariantRow
  <2>2. variant'[v].stock = variant[v].stock + (IF v \in back THEN 1 ELSE 0)
    BY <1>1, <1>2 DEF AnyVariantRow
  <2>3. Held(v)' = Cardinality(HeldLines(v)') /\ Held(v) = Cardinality(HeldLines(v))
    BY DEF Held, HeldLines
  <2>4. CASE o \in Cancelled
    <3>1. back = {}
      BY <1>7, <2>4 DEF StockInv
    <3>2. HeldLines(v)' = HeldLines(v)
      BY <1>4, <1>5, <2>4 DEF HeldLines, Placed
    <3> QED BY <2>1, <2>2, <2>3, <3>1, <3>2
  <2>5. CASE o \notin Cancelled
    <3> DEFINE items == order[o].items
    <3>1. back = Range(items)
      BY <1>2, <1>7, <2>5 DEF StockInv
    <3>2. items \in OrderItems
      BY <1>2 DEF OrderRow
    <3>3. CASE items = <<>>
      <4>1. back = {} /\ DOMAIN items = {}
        BY <3>1, <3>3 DEF Range
      <4>2. HeldLines(v)' = HeldLines(v)
        BY <1>4, <1>5, <4>1 DEF HeldLines, Placed
      <4> QED BY <2>1, <2>2, <2>3, <4>1, <4>2
    <3>4. CASE items \in Basket
      <4>1. Lines(items, v) = IF v \in back THEN 1 ELSE 0
        BY <1>1, <3>1, <3>4, BasketsAre, LineCounts DEF LinesAreApart
      <4>2. DOMAIN items \subseteq 1 .. MaxLines
        BY <3>4, BasketsAre
      <4>3. HeldLines(v)' = HeldLines(v) \ LinesOf(o, items, v)
        <5>1. HeldLines(v)' = {line \in (Placed \ (Cancelled \cup {o})) \X (1 .. MaxLines) :
                                  line[2] \in DOMAIN order'[line[1]].items /\ order'[line[1]].items[line[2]] = v}
          BY <1>4 DEF HeldLines
        <5>2. HeldLines(v)' = {line \in (Placed \ (Cancelled \cup {o})) \X (1 .. MaxLines) :
                                  line[2] \in DOMAIN order[line[1]].items /\ order[line[1]].items[line[2]] = v}
          BY <1>5, <5>1 DEF Placed
        <5> QED BY <5>2 DEF HeldLines, LinesOf
      <4>4. LinesOf(o, items, v) \subseteq HeldLines(v)
        BY <1>1, <2>5, <4>2 DEF HeldLines, LinesOf
      <4>5. IsFiniteSet(HeldLines(v)) /\ Held(v) \in Nat
        BY HeldIsFinite
      <4>6. Cardinality(HeldLines(v) \ LinesOf(o, items, v)) =
               Cardinality(HeldLines(v)) - Cardinality(HeldLines(v) \cap LinesOf(o, items, v))
        BY <4>5, FS_Difference
      <4>7. HeldLines(v) \cap LinesOf(o, items, v) = LinesOf(o, items, v)
        BY <4>4
      <4>8. Cardinality(LinesOf(o, items, v)) = Lines(items, v)
        BY <3>4, LinesOfCount
      <4>9. Held(v)' = Held(v) - Lines(items, v)
        BY <2>3, <4>3, <4>6, <4>7, <4>8
      <4> QED BY <2>1, <2>2, <4>1, <4>5, <4>9
    <3> QED BY <3>2, <3>3, <3>4 DEF OrderItems
  <2> QED BY <2>4, <2>5
<1> QED BY <1>8, <1>9, <1>10

(* All stock is on the shelf.                                              *)
LEMMA StockInit == ASSUME PlaceOrderAssumption PROVE Init => StockInv
<1> SUFFICES ASSUME Init PROVE StockInv
  OBVIOUS
<1>1. Placed = {} /\ Cancelled = {}
  BY DEF Init, Placed, Cancelled, NoOrder
<1>2. \A o : Returned(o) = {}
  BY DEF Init, Returned
<1>3. ASSUME NEW v \in Variant PROVE variant[v].stock + Held(v) = StartStock
  <2>1. HeldLines(v) = {}
    BY <1>1 DEF HeldLines
  <2>2. Held(v) = 0
    BY <2>1, FS_EmptySet DEF Held, HeldLines
  <2> QED BY <2>2, BoundsAre DEF Init, NewVariant
<1>4. \A r \in Req : job[r].at = "idle"
  BY IdleIsJob DEF Init
<1> QED BY <1>1, <1>2, <1>3, <1>4 DEF StockInv, StockAccounted, Saving

(* The stock that a request is about to save, and the variants it has seen *)
(* given back, are still so: the others leave both alone, or there is no   *)
(* other.                                                                  *)
LEMMA StockKnown ==
  ASSUME PlaceOrderAssumption, CheckoutInv, StockInv, StockAlone, NEW r \in Req, NEW j,
         job' = [job EXCEPT ![r] = j],
         j.at = "cancel" => j.seen = Returned(j.o)',
         j.at \in Saving => \A v \in j.saves : j.rows[v].stock = variant'[v].stock
  PROVE  \A q \in Req :
            /\ job'[q].at = "cancel" => job'[q].seen = Returned(job[q].o)'
            /\ job'[q].at \in Saving => \A v \in job'[q].saves : job'[q].rows[v].stock = variant'[v].stock
<1> SUFFICES ASSUME NEW q \in Req
             PROVE  /\ job'[q].at = "cancel" => job'[q].seen = Returned(job[q].o)'
                    /\ job'[q].at \in Saving => \A v \in job'[q].saves : job'[q].rows[v].stock = variant'[v].stock
  OBVIOUS
<1>1. DOMAIN job = Req
  BY DEF CheckoutInv, RowsOK
<1>2. CASE q = r
  <2>1. job'[q] = j
    BY <1>1, <1>2
  <2>2. Returned(job[q].o)' = Returned(j.o)'
    BY <2>1 DEF Returned
  <2> QED BY <2>1, <2>2
<1>3. CASE q # r
  <2>1. job'[q] = job[q] /\ Handlers \cap {"updateOrderStatus", "updateVariant", "retire", "updateProduct"} = {}
    BY <1>1, <1>3 DEF StockAlone, OneRequest
  <2> QED BY <2>1 DEF CheckoutInv, JobKnows
<1> QED BY <1>2, <1>3

(* Every step: stock that leaves the shelf is in an order, stock that      *)
(* comes back was in one.                                                  *)
LEMMA StockNext ==
  ASSUME PlaceOrderAssumption, CheckoutInv, LocksInv, StockInv, StockAlone, LinesAreApart, [Next]_vars
  PROVE  StockInv'
<1> USE IdleIsJob
<1> DEFINE Known == \A q \in Req :
                       /\ job'[q].at = "cancel" => job'[q].seen = Returned(job[q].o)'
                       /\ job'[q].at \in Saving => \A v \in job'[q].saves : job'[q].rows[v].stock = variant'[v].stock
<1>0. /\ job \in [Req -> AnyJob] /\ variant \in [Variant -> AnyVariantRow]
      /\ (order' = order => Cancelled' = Cancelled)
      /\ (returns' = returns => \A o : Returned(o)' = Returned(o))
  BY DEF CheckoutInv, RowsOK, Cancelled, Returned
<1>1. ASSUME NEW r \in Req, Commit(r) PROVE StockInv'
  <2>1. StockAccounted'
    BY <1>1, StockPlaces
  <2>2. \A o : Returned(o)' = Returned(o)
    BY <1>1 DEF Commit, Returned
  <2>3. Cancelled' = Cancelled /\ \A o \in Cancelled : order'[o] = order[o]
    <3>1. /\ Cardinality(Placed) + 1 \in Order \ Placed /\ Cancelled' = Cancelled
          /\ order' = [order EXCEPT ![Cardinality(Placed) + 1] = job[r].draft]
      BY <1>1, CommitPlaces
    <3>2. Cardinality(Placed) + 1 \notin Cancelled /\ Cancelled \subseteq Order
      BY <3>1 DEF Cancelled, Placed
    <3>3. order \in [Order -> OrderRow]
      BY DEF CheckoutInv, RowsOK
    <3> QED BY <3>1, <3>2, <3>3
  <2>4. PICK j : job' = [job EXCEPT ![r] = j] /\ j.at \in {"idle", "clearCart"}
    BY <1>1, CommitEnds
  <2>5. Known
    BY <2>4, StockKnown DEF Saving
  <2> QED BY <2>1, <2>2, <2>3, <2>5 DEF StockInv
<1>2. ASSUME NEW r \in Req, restoreStockForItems(r) PROVE StockInv'
  <2>1. job' = [job EXCEPT ![r] = Idle]
    BY <1>2 DEF restoreStockForItems, Return
  <2>2. Known
    BY <2>1, StockKnown DEF Saving
  <2> QED BY <1>2, <2>2, StockReturns DEF StockInv
<1>3. ASSUME NEW r \in Req, Saves(r) PROVE StockInv'
  <2>1. job[r].at \in Saving /\ job' = [job EXCEPT ![r] = Idle] /\ UNCHANGED <<order, returns>>
    BY <1>3, RowsSaved
  <2>2. \A v \in job[r].saves : job[r].rows[v].stock = variant[v].stock
    BY <2>1 DEF StockInv
  <2>3. \A v \in Variant : variant'[v].stock = variant[v].stock
    BY <1>3, <2>2, RowsSaved
  <2>4. Known
    BY <2>1, StockKnown DEF Saving
  <2> QED BY <1>0, <2>1, <2>3, <2>4, HeldStays DEF StockInv, StockAccounted
<1>4. ASSUME UNCHANGED <<order, variant, returns>>, NEW r \in Req, NEW j,
             job' = [job EXCEPT ![r] = j],
             j.at = "cancel" => j.seen = Returned(j.o),
             j.at \in Saving => \A v \in j.saves : j.rows[v].stock = variant[v].stock
      PROVE  StockInv'
  <2>1. Known
    BY <1>0, <1>4, StockKnown
  <2> QED BY <1>0, <1>4, <2>1, HeldStays DEF StockInv, StockAccounted
<1>5. ASSUME UNCHANGED <<order, variant, returns, job>> PROVE StockInv'
  BY <1>0, <1>5, HeldStays DEF StockInv, StockAccounted
<1>6. ASSUME NEW r \in Req, NEW b \in Buyer, NEW items \in Basket, NEW fromCart \in BOOLEAN,
             NEW code \in BOOLEAN, create(r, b, items, fromCart, code)
      PROVE  StockInv'
  <2>1. PICK j : /\ j.at = "lockLine" /\ job' = [job EXCEPT ![r] = j]
                 /\ UNCHANGED <<order, variant, returns>>
    BY <1>6 DEF create, Start, AnyJob, RowsUnchanged
  <2> QED BY <1>4, <2>1 DEF Saving
<1>7. ASSUME NEW r \in Req, NEW o \in Order, updateStatus(r, o) PROVE StockInv'
  <2>1. PICK j : /\ j.at = "cancel" /\ j.o = o /\ j.seen = Returned(o) /\ job' = [job EXCEPT ![r] = j]
                 /\ UNCHANGED <<order, variant, returns>>
    BY <1>7 DEF updateStatus, Start, AnyJob, RowsUnchanged
  <2> QED BY <1>4, <2>1 DEF Saving
<1>8. ASSUME NEW r \in Req, Edits(r) PROVE StockInv'
  <2>1. PICK j : /\ j.at \in Saving /\ \A v \in j.saves : j.rows[v].stock = variant[v].stock
                 /\ job' = [job EXCEPT ![r] = j] /\ UNCHANGED <<order, variant, returns>>
    BY <1>8, EditsLoad DEF RowsUnchanged
  <2> QED BY <1>4, <2>1 DEF Saving
<1>9. ASSUME NEW r \in Req, NEW isActive \in BOOLEAN, toggle(r, isActive) PROVE StockInv'
  <2>1. PICK j : /\ j.at = "savePromotion" /\ job' = [job EXCEPT ![r] = j]
                 /\ UNCHANGED <<order, variant, returns>>
    BY <1>9 DEF toggle, Start, AnyJob, RowsUnchanged
  <2> QED BY <1>4, <2>1 DEF Saving
<1>10. ASSUME NEW r \in Req, ClearCart(r) \/ SavePromotion(r) PROVE StockInv'
  <2>1. job' = [job EXCEPT ![r] = Idle] /\ UNCHANGED <<order, variant, returns>>
    BY <1>10 DEF ClearCart, SavePromotion, Return
  <2> QED BY <1>4, <2>1 DEF Saving
<1>11. ASSUME NEW r \in Req, suspend(r) PROVE StockInv'
  BY <1>5, <1>11 DEF suspend, Instant
<1>12. ASSUME NEW r \in Req, CheckLine(r) PROVE StockInv'
  <2>1. PICK j : j.at \in Checking \cup {"idle"} /\ job' = [job EXCEPT ![r] = j]
    BY <1>12, LineSteps
  <2>2. UNCHANGED <<order, variant, returns>>
    BY <1>12, LineSteps DEF RowsUnchanged
  <2> QED BY <1>4, <2>1, <2>2 DEF Checking, Saving
<1>13. ASSUME NEW percent \in Discounts, changeSale(percent) PROVE StockInv'
  BY <1>5, <1>13 DEF changeSale
<1>14. ASSUME NEW r \in Req, Request(r) PROVE StockInv'
  BY <1>1, <1>2, <1>3, <1>6, <1>7, <1>8, <1>9, <1>10, <1>11, <1>12, <1>14 DEF Request, CheckLine, Edits, Saves
<1> QED BY <1>5, <1>13, <1>14 DEF Next, vars

(* What is on the shelf and what live orders hold is what there was,       *)
(* through checkouts beside each other, or any requests one at a time.     *)
THEOREM StockAddsUp ==
  ASSUME PlaceOrderAssumption, StockAlone, LinesAreApart
  PROVE  Spec => []StockAccounted
<1> DEFINE Inv == CheckoutInv /\ LocksInv /\ StockInv
<1>1. Init => Inv
  BY CheckoutInit, LocksInit, StockInit
<1>2. Inv /\ [Next]_vars => Inv'
  BY CheckoutNext, LocksNext, StockNext
<1>3. Inv => StockAccounted
  BY DEF StockInv
<1> QED BY <1>1, <1>2, <1>3, PTL DEF Spec
-----------------------------------------------------------------------------
(* Uses of the promotion                                                   *)

Used == {o \in Placed : order[o].promotion}
UsedByBuyer(b) == {o \in Placed : order[o].promotion /\ order[o].buyer = b}

CountInv ==
    /\ UsageCountIsTrue
    /\ \A r \in Req : job[r].at = "savePromotion" => job[r].row.usageCount = promo.usageCount

(* A use is one order more.                                                *)
LEMMA UseCounts ==
  ASSUME PlaceOrderAssumption, CheckoutInv, NEW draft, NEW o \in Order \ Placed,
         order' = [order EXCEPT ![o] = draft], Placed' = Placed \cup {o}
  PROVE  /\ Cardinality(Used) \in Nat
         /\ Cardinality(Used') = Cardinality(Used) + (IF draft.promotion THEN 1 ELSE 0)
         /\ \A b : /\ Cardinality(UsedByBuyer(b)) \in Nat
                   /\ Cardinality(UsedByBuyer(b)') =
                         Cardinality(UsedByBuyer(b)) + (IF draft.promotion /\ draft.buyer = b THEN 1 ELSE 0)
<1>1. order'[o] = draft /\ \A p \in Placed : order'[p] = order[p]
  BY DEF CheckoutInv, RowsOK, Placed
<1>2. IsFiniteSet(Placed)
  BY NextNumber DEF CheckoutInv
<1>3. ASSUME NEW S \in SUBSET Placed
      PROVE  IsFiniteSet(S) /\ Cardinality(S) \in Nat /\ Cardinality(S \cup {o}) = Cardinality(S) + 1
  <2>1. IsFiniteSet(S) /\ Cardinality(S) \in Nat
    BY <1>2, FS_Subset, FS_CardinalityType
  <2> QED BY <2>1, FS_AddElement
<1>4. Used \subseteq Placed /\ Used' = IF draft.promotion THEN Used \cup {o} ELSE Used
  BY <1>1 DEF Used
<1>5. ASSUME NEW b
      PROVE  /\ Cardinality(UsedByBuyer(b)) \in Nat
             /\ Cardinality(UsedByBuyer(b)') =
                   Cardinality(UsedByBuyer(b)) + (IF draft.promotion /\ draft.buyer = b THEN 1 ELSE 0)
  <2>1. /\ UsedByBuyer(b) \subseteq Placed
        /\ UsedByBuyer(b)' = IF draft.promotion /\ draft.buyer = b THEN UsedByBuyer(b) \cup {o} ELSE UsedByBuyer(b)
    BY <1>1 DEF UsedByBuyer
  <2> QED BY <1>3, <2>1
<1> QED BY <1>3, <1>4, <1>5

(* Every step but a placing leaves who used the promotion.                 *)
LEMMA UsesStay ==
  ASSUME PlaceOrderAssumption, CheckoutInv, [Next]_vars, \A r \in Req : ~Commit(r)
  PROVE  /\ Placed' = Placed /\ Used' = Used
         /\ \A b : UsedByBuyer(b)' = UsedByBuyer(b)
<1>1. \A o \in Order : /\ order'[o].promotion = order[o].promotion /\ order'[o].buyer = order[o].buyer
                       /\ order'[o].status = "none" <=> order[o].status = "none"
  <2>1. ASSUME NEW r \in Req, restoreStockForItems(r), NEW o \in Order
        PROVE  /\ order'[o].promotion = order[o].promotion /\ order'[o].buyer = order[o].buyer
               /\ order'[o].status = "none" <=> order[o].status = "none"
    <3>1. job[r].o \in Placed /\ order' = [order EXCEPT ![job[r].o].status = "cancelled"]
      BY <2>1 DEF restoreStockForItems, At, CheckoutInv, JobKnows
    <3>2. order[o] \in OrderRow /\ order \in [Order -> OrderRow]
      BY DEF CheckoutInv, RowsOK
    <3> QED BY <3>1, <3>2 DEF OrderRow, Placed
  <2>2. CASE order' = order
    BY <2>2
  <2>3. ASSUME NEW r \in Req, Request(r), ~restoreStockForItems(r) PROVE order' = order
    BY <2>3 DEF Request, create, LockLine, PriceLine, Rollback, ClearCart, updateStatus, updateVariant, retire,
         EditVariant, SaveVariant, SaveProduct, SaveRows, updateProduct, suspend, toggle, SavePromotion, RowsUnchanged
  <2> QED BY <2>1, <2>2, <2>3 DEF Next, vars, changeSale
<1>2. Placed' = Placed
  BY <1>1 DEF Placed
<1> QED BY <1>1, <1>2 DEF Used, UsedByBuyer, Placed

(* The promotion has not been used.                                        *)
LEMMA CountInit == ASSUME PlaceOrderAssumption PROVE Init => CountInv
<1> SUFFICES ASSUME Init PROVE CountInv
  OBVIOUS
<1>1. Used = {}
  BY DEF Init, Used, Placed, NoOrder
<1>2. Cardinality(Used) = 0
  BY <1>1, FS_EmptySet
<1> QED BY <1>2, IdleIsJob DEF Init, CountInv, UsageCountIsTrue, Used, NoPromo

(* Every step: an order with the promotion is one use more, and an edit of *)
(* the promotion saves the count it has read.                              *)
LEMMA CountNext ==
  ASSUME PlaceOrderAssumption, CheckoutInv, CountInv, CountAlone, [Next]_vars
  PROVE  CountInv'
<1> USE IdleIsJob
<1>0. job \in [Req -> AnyJob] /\ promo \in AnyPromotion /\ promo.usageCount = Cardinality(Used)
  BY DEF CheckoutInv, RowsOK, CountInv, UsageCountIsTrue, Used
<1>1. ASSUME NEW r \in Req, NEW q \in Req, NEW j, job' = [job EXCEPT ![r] = j],
             j.at = "savePromotion" => j.row.usageCount = promo'.usageCount, job'[q].at = "savePromotion"
      PROVE  job'[q].row.usageCount = promo'.usageCount
  <2>1. CASE q = r
    BY <1>0, <1>1, <2>1
  <2>2. CASE q # r
    <3>1. job'[q] = job[q]
      BY <1>0, <1>1, <2>2
    <3>2. "togglePromotion" \in Handlers
      BY <1>1, <3>1 DEF CheckoutInv, JobKnows
    <3> QED BY <2>2, <3>2 DEF CountAlone, OneRequest
  <2> QED BY <2>1, <2>2
<1>2. ASSUME NEW r \in Req, Commit(r) PROVE CountInv'
  <2> DEFINE draft == job[r].draft
  <2>1. /\ Cardinality(Placed) + 1 \in Order \ Placed
        /\ order' = [order EXCEPT ![Cardinality(Placed) + 1] = draft]
        /\ Placed' = Placed \cup {Cardinality(Placed) + 1}
        /\ promo' = CountUsage(draft.promotion)
    BY <1>2, CommitPlaces
  <2>2. Cardinality(Used) \in Nat /\ Cardinality(Used') = Cardinality(Used) + (IF draft.promotion THEN 1 ELSE 0)
    BY <2>1, UseCounts
  <2>3. promo'.usageCount = Cardinality(Used')
    BY <1>0, <2>1, <2>2 DEF CountUsage, AnyPromotion
  <2>4. PICK j : job' = [job EXCEPT ![r] = j] /\ j.at \in {"idle", "clearCart"}
    BY <1>2, CommitEnds
  <2> QED BY <1>1, <2>3, <2>4 DEF CountInv, UsageCountIsTrue, Used
<1>3. ASSUME \A r \in Req : ~Commit(r) PROVE CountInv'
  <2>1. Used' = Used
    BY <1>3, UsesStay
  <2>2. ASSUME NEW r \in Req, NEW j, job' = [job EXCEPT ![r] = j], promo' = promo,
               j.at = "savePromotion" => j.row.usageCount = promo.usageCount
        PROVE  CountInv'
    BY <1>0, <1>1, <2>1, <2>2 DEF CountInv, UsageCountIsTrue, Used
  <2>3. CASE UNCHANGED <<promo, job>>
    BY <2>1, <2>3 DEF CountInv, UsageCountIsTrue, Used
  <2>4. ASSUME NEW r \in Req, NEW b \in Buyer, NEW items \in Basket, NEW fromCart \in BOOLEAN,
               NEW code \in BOOLEAN, create(r, b, items, fromCart, code)
        PROVE  CountInv'
    <3>1. PICK j : j.at = "lockLine" /\ job' = [job EXCEPT ![r] = j] /\ promo' = promo
      BY <2>4 DEF create, Start, AnyJob, RowsUnchanged
    <3> QED BY <2>2, <3>1
  <2>5. ASSUME NEW r \in Req, NEW o \in Order, updateStatus(r, o) PROVE CountInv'
    <3>1. PICK j : j.at = "cancel" /\ job' = [job EXCEPT ![r] = j] /\ promo' = promo
      BY <2>5 DEF updateStatus, Start, AnyJob, RowsUnchanged
    <3> QED BY <2>2, <3>1
  <2>6. ASSUME NEW r \in Req, Edits(r) PROVE CountInv'
    <3>1. PICK j : j.at \in Saving /\ job' = [job EXCEPT ![r] = j] /\ promo' = promo
      BY <2>6, EditsLoad DEF RowsUnchanged
    <3> QED BY <2>2, <3>1 DEF Saving
  <2>7. ASSUME NEW r \in Req, NEW isActive \in BOOLEAN, toggle(r, isActive) PROVE CountInv'
    <3>1. PICK j : /\ j.row.usageCount = promo.usageCount /\ job' = [job EXCEPT ![r] = j] /\ promo' = promo
      BY <1>0, <2>7 DEF toggle, Start, AnyJob, AnyPromotion, RowsUnchanged
    <3> QED BY <2>2, <3>1
  <2>8. ASSUME NEW r \in Req, ClearCart(r) \/ restoreStockForItems(r) \/ Saves(r) PROVE CountInv'
    <3>1. job' = [job EXCEPT ![r] = Idle] /\ promo' = promo
      BY <2>8, RowsSaved DEF ClearCart, restoreStockForItems, Return
    <3> QED BY <2>2, <3>1
  <2>9. ASSUME NEW r \in Req, SavePromotion(r) PROVE CountInv'
    <3>1. job' = [job EXCEPT ![r] = Idle] /\ promo' = job[r].row /\ job[r].at = "savePromotion"
      BY <2>9 DEF SavePromotion, At, Return
    <3>2. promo'.usageCount = promo.usageCount
      BY <3>1 DEF CountInv
    <3> QED BY <1>0, <1>1, <2>1, <3>1, <3>2 DEF CountInv, UsageCountIsTrue, Used
  <2>10. ASSUME NEW r \in Req, suspend(r) PROVE CountInv'
    BY <2>3, <2>10 DEF suspend, Instant
  <2>11. ASSUME NEW r \in Req, CheckLine(r) PROVE CountInv'
    <3>1. PICK j : j.at \in Checking \cup {"idle"} /\ job' = [job EXCEPT ![r] = j]
      BY <2>11, LineSteps
    <3>2. promo' = promo
      BY <2>11, LineSteps DEF RowsUnchanged
    <3> QED BY <2>2, <3>1, <3>2 DEF Checking
  <2>12. ASSUME NEW percent \in Discounts, changeSale(percent) PROVE CountInv'
    BY <2>3, <2>12 DEF changeSale
  <2>13. ASSUME NEW r \in Req, Request(r) PROVE CountInv'
    BY <1>3, <2>4, <2>5, <2>6, <2>7, <2>8, <2>9, <2>10, <2>11, <2>13 DEF Request, CheckLine, Edits, Saves
  <2> QED BY <2>3, <2>12, <2>13 DEF Next, vars
<1> QED BY <1>2, <1>3
-----------------------------------------------------------------------------
(* The uses of the promotion are counted.                                  *)

(* The promotion's counter is the number of orders that used it, through   *)
(* checkouts beside each other, as long as an edit of the promotion is     *)
(* alone.                                                                  *)
THEOREM UsesAreCounted ==
  ASSUME PlaceOrderAssumption, CountAlone
  PROVE  Spec => []UsageCountIsTrue
<1> DEFINE Inv == CheckoutInv /\ LocksInv /\ CountInv
<1>1. Init => Inv
  BY CheckoutInit, LocksInit, CountInit
<1>2. Inv /\ [Next]_vars => Inv'
  BY CheckoutNext, LocksNext, CountNext
<1>3. Inv => UsageCountIsTrue
  BY DEF CountInv
<1> QED BY <1>1, <1>2, <1>3, PTL DEF Spec

-----------------------------------------------------------------------------
(* Limits and cart lines: one request at a time.                           *)

(* A cart line that was bought and is still there is about to leave.       *)
LineLeaves(b, v) ==
    bought[b][v] = 1 /\ v \in cart[b] =>
       \E r \in Req : /\ job[r].at = "clearCart" /\ job[r].draft.buyer = b
                      /\ v \in Range(job[r].draft.items)

(* What a checkout has read before its transaction still holds.            *)
Ready(j) ==
    j.at \in Checking =>
       /\ ~suspended
       /\ j.draft.promotion => PromotionApplies(j.draft.buyer)
       /\ j.fromCart => Range(j.draft.items) \subseteq cart[j.draft.buyer]

LimitsInv ==
    /\ UsageWithinLimits
    /\ CartLineBoughtOnce
    /\ \A b \in Buyer, v \in Variant : LineLeaves(b, v)
    /\ \A r \in Req : Ready(job[r])

(* Nothing was bought, and nobody checks out.                              *)
LEMMA LimitsInit == ASSUME PlaceOrderAssumption PROVE Init => LimitsInv
<1> SUFFICES ASSUME Init PROVE LimitsInv
  OBVIOUS
<1>1. Used = {} /\ \A b : UsedByBuyer(b) = {}
  BY DEF Init, Used, UsedByBuyer, Placed, NoOrder
<1>2. Cardinality({}) = 0
  BY FS_EmptySet
<1>3. UsageWithinLimits
  <2>1. Cardinality(Used) = 0 /\ \A b \in Buyer : Cardinality(UsedByBuyer(b)) = 0
    BY <1>1, <1>2
  <2>2. 0 <= UsageLimit /\ 0 <= PerCustomer
    BY BoundsAre
  <2>3. Cardinality(Used) <= UsageLimit /\ \A b \in Buyer : Cardinality(UsedByBuyer(b)) <= PerCustomer
    BY <2>1, <2>2
  <2> QED BY <2>3 DEF UsageWithinLimits, UsedBy, Used, UsedByBuyer
<1>4. \A b \in Buyer, v \in Variant : bought[b][v] = 0
  BY DEF Init
<1>5. \A r \in Req : job[r].at = "idle"
  BY IdleIsJob DEF Init
<1> QED BY <1>3, <1>4, <1>5 DEF LimitsInv, CartLineBoughtOnce, LineLeaves, Ready, Checking

(* A use within the limits that were read is within the limits.            *)
LEMMA UsesWithinLimits ==
  ASSUME PlaceOrderAssumption, CheckoutInv, CountInv, LimitsInv, [Next]_vars
  PROVE  UsageWithinLimits'
<1>0. /\ Cardinality(Used) <= UsageLimit /\ \A b \in Buyer : Cardinality(UsedByBuyer(b)) <= PerCustomer
      /\ promo.usageCount = Cardinality(Used)
  BY DEF LimitsInv, UsageWithinLimits, UsedBy, Used, UsedByBuyer, CountInv, UsageCountIsTrue
<1>1. ASSUME Used' = Used, \A b : UsedByBuyer(b)' = UsedByBuyer(b) PROVE UsageWithinLimits'
  BY <1>0, <1>1 DEF UsageWithinLimits, UsedBy, Used, UsedByBuyer
<1>2. ASSUME NEW r \in Req, Commit(r) PROVE UsageWithinLimits'
  <2> DEFINE draft == job[r].draft
  <2>1. /\ Cardinality(Placed) + 1 \in Order \ Placed /\ job[r].at = "commit"
        /\ order' = [order EXCEPT ![Cardinality(Placed) + 1] = draft]
        /\ Placed' = Placed \cup {Cardinality(Placed) + 1}
    BY <1>2, CommitPlaces
  <2>2. /\ Cardinality(Used) \in Nat
        /\ Cardinality(Used') = Cardinality(Used) + (IF draft.promotion THEN 1 ELSE 0)
        /\ \A b : /\ Cardinality(UsedByBuyer(b)) \in Nat
                  /\ Cardinality(UsedByBuyer(b)') =
                        Cardinality(UsedByBuyer(b)) + (IF draft.promotion /\ draft.buyer = b THEN 1 ELSE 0)
    BY <2>1, UseCounts
  <2>3. draft.promotion => /\ promo.usageCount < UsageLimit
                           /\ Cardinality(UsedByBuyer(draft.buyer)) < PerCustomer
    BY <2>1 DEF LimitsInv, Ready, Checking, PromotionApplies, UsedBy, UsedByBuyer
  <2> HIDE DEF draft
  <2>4. Cardinality(Used') <= UsageLimit
    BY <1>0, <2>2, <2>3, BoundsAre
  <2>5. \A b \in Buyer : Cardinality(UsedByBuyer(b)') <= PerCustomer
    BY <1>0, <2>2, <2>3, BoundsAre
  <2> QED BY <2>4, <2>5 DEF UsageWithinLimits, UsedBy, Used, UsedByBuyer
<1> QED BY <1>1, <1>2, UsesStay

(* Lines of a cart are bought by the commit and leave it after.            *)
LEMMA LinesBoughtOnce ==
  ASSUME PlaceOrderAssumption, CheckoutInv, LimitsInv, OneRequest, NEW r \in Req, Commit(r)
  PROVE  CartLineBoughtOnce' /\ \A b \in Buyer, v \in Variant : LineLeaves(b, v)'
<1> DEFINE draft == job[r].draft
<1>1. /\ job[r].at = "commit" /\ job[r] \in AnyJob /\ DOMAIN job = Req /\ DOMAIN bought = Buyer
      /\ \A b \in Buyer : DOMAIN bought[b] = Variant /\ \A v \in Variant : bought[b][v] \in Nat /\ bought[b][v] <= 1
  BY DEF Commit, At, CheckoutInv, RowsOK, LimitsInv, CartLineBoughtOnce
<1>2. \A b \in Buyer, v \in Variant : v \in cart[b] => bought[b][v] = 0
  BY <1>1 DEF LimitsInv, LineLeaves, OneRequest
<1>3. draft.buyer \in Buyer
  BY <1>1 DEF AnyJob, OrderRow
<1>4. CASE UNCHANGED <<bought, cart>>
  BY <1>1, <1>2, <1>4 DEF CartLineBoughtOnce, LineLeaves
<1>5. CASE /\ job[r].fromCart
           /\ bought' = [bought EXCEPT ![draft.buyer] =
                    [v \in Variant |-> @[v] + (IF v \in Range(draft.items) THEN 1 ELSE 0)]]
           /\ job' = [job EXCEPT ![r].at = "clearCart", ![r].line = 0] /\ UNCHANGED cart
  <2>1. Range(draft.items) \subseteq cart[draft.buyer]
    BY <1>1, <1>5 DEF LimitsInv, Ready, Checking
  <2>2. /\ \A b \in Buyer, v \in Variant : b # draft.buyer => bought'[b][v] = bought[b][v]
        /\ \A v \in Variant : bought'[draft.buyer][v] =
                                 bought[draft.buyer][v] + (IF v \in Range(draft.items) THEN 1 ELSE 0)
    BY <1>1, <1>3, <1>5
  <2>3. job'[r].at = "clearCart" /\ job'[r].draft = draft
    BY <1>1, <1>5 DEF AnyJob
  <2> HIDE DEF draft
  <2>4. ASSUME NEW b \in Buyer, NEW v \in Variant PROVE bought'[b][v] <= 1 /\ LineLeaves(b, v)'
    <3>1. CASE b = draft.buyer /\ v \in Range(draft.items)
      <4>1. bought'[b][v] = 1
        BY <1>2, <2>1, <2>2, <3>1
      <4> QED BY <2>3, <3>1, <4>1 DEF LineLeaves
    <3>2. CASE ~(b = draft.buyer /\ v \in Range(draft.items))
      <4>1. bought'[b][v] = bought[b][v]
        BY <1>1, <2>2, <3>2
      <4>2. v \in cart'[b] => bought'[b][v] = 0
        BY <1>2, <1>5, <4>1
      <4> QED BY <1>1, <4>1, <4>2 DEF LineLeaves
    <3> QED BY <3>1, <3>2
  <2> QED BY <2>4 DEF CartLineBoughtOnce
<1> QED BY <1>4, <1>5, CommitPlaces

(* What was bought leaves the cart.                                        *)
LEMMA LinesLeave ==
  ASSUME PlaceOrderAssumption, CheckoutInv, LimitsInv, OneRequest, NEW r \in Req, ClearCart(r)
  PROVE  CartLineBoughtOnce' /\ \A b \in Buyer, v \in Variant : LineLeaves(b, v)'
<1>1. /\ cart' = [cart EXCEPT ![job[r].draft.buyer] = cart[job[r].draft.buyer] \ Range(job[r].draft.items)]
      /\ UNCHANGED bought /\ cart \in [Buyer -> SUBSET Variant]
  BY DEF ClearCart, CheckoutInv, RowsOK
<1>2. ASSUME NEW b \in Buyer, NEW v \in Variant, v \in cart'[b], bought'[b][v] = 1 PROVE FALSE
  <2>1. v \in cart[b] /\ ~(b = job[r].draft.buyer /\ v \in Range(job[r].draft.items))
    BY <1>1, <1>2
  <2>2. bought[b][v] = 1
    BY <1>1, <1>2
  <2> QED BY <2>1, <2>2 DEF LimitsInv, LineLeaves, OneRequest
<1> QED BY <1>1, <1>2 DEF CartLineBoughtOnce, LineLeaves, LimitsInv

(* A step of a request that buys nothing and is not about to empty a cart. *)
LEMMA LinesStay ==
  ASSUME LimitsInv, OneRequest, NEW r \in Req, job[r].at # "clearCart", UNCHANGED <<bought, cart>>
  PROVE  CartLineBoughtOnce' /\ \A b \in Buyer, v \in Variant : LineLeaves(b, v)'
<1>1. \A b \in Buyer, v \in Variant : ~(bought[b][v] = 1 /\ v \in cart[b])
  BY DEF LimitsInv, LineLeaves, OneRequest
<1> QED BY <1>1 DEF LimitsInv, CartLineBoughtOnce, LineLeaves

(* A step after which its request is not in its transaction.               *)
LEMMA NobodyIsReady ==
  ASSUME OneRequest, NEW r \in Req, job'[r].at \notin Checking
  PROVE  \A q \in Req : Ready(job[q])'
  BY DEF OneRequest, Ready

(* What a checkout has read holds when it goes on.                         *)
LEMMA CreateIsReady ==
  ASSUME PlaceOrderAssumption, CheckoutInv, LimitsInv, OneRequest, NEW r \in Req, NEW b \in Buyer,
         NEW items \in Basket, NEW fromCart \in BOOLEAN, NEW code \in BOOLEAN,
         create(r, b, items, fromCart, code)
  PROVE  LimitsInv'
<1>1. /\ RowsUnchanged
      /\ job[r].at = "idle" /\ DOMAIN job = Req
      /\ ~suspended /\ (code => PromotionApplies(b)) /\ (fromCart => Range(items) \subseteq cart[b])
  BY DEF create, Start, ForSale, assertCartLinesStillPresent, CheckoutInv, RowsOK
<1>2. UsageWithinLimits'
  BY <1>1 DEF LimitsInv, UsageWithinLimits, UsedBy, Placed, RowsUnchanged
<1>3. CartLineBoughtOnce' /\ \A c \in Buyer, v \in Variant : LineLeaves(c, v)'
  BY <1>1, LinesStay DEF RowsUnchanged
<1>4. /\ job'[r].draft.buyer = b /\ job'[r].draft.items = items /\ job'[r].draft.promotion = code
      /\ job'[r].fromCart = fromCart
  BY <1>1, IdleIsJob DEF create, Start, AnyJob
<1>5. PromotionApplies(b)' = PromotionApplies(b)
  BY <1>1 DEF PromotionApplies, UsedBy, Placed, RowsUnchanged
<1>6. Ready(job[r])'
  BY <1>1, <1>4, <1>5 DEF Ready, PromotionApplies, RowsUnchanged
<1> QED BY <1>2, <1>3, <1>6 DEF LimitsInv, OneRequest

(* Every step.                                                             *)
LEMMA LimitsNext ==
  ASSUME PlaceOrderAssumption, CheckoutInv, CountInv, LimitsInv, OneRequest, [Next]_vars
  PROVE  LimitsInv'
<1> USE IdleIsJob
<1>0. DOMAIN job = Req /\ UsageWithinLimits' /\ \A r \in Req : job[r] \in AnyJob
  BY UsesWithinLimits DEF CheckoutInv, RowsOK
<1>1. ASSUME NEW r \in Req, Commit(r) PROVE LimitsInv'
  <2>1. job'[r].at \notin Checking
    BY <1>0, <1>1, CommitEnds DEF Checking
  <2> QED BY <1>0, <1>1, <2>1, LinesBoughtOnce, NobodyIsReady DEF LimitsInv
<1>2. ASSUME NEW r \in Req, ClearCart(r) PROVE LimitsInv'
  <2>1. job'[r].at \notin Checking
    BY <1>0, <1>2 DEF ClearCart, Return, Checking
  <2> QED BY <1>0, <1>2, <2>1, LinesLeave, NobodyIsReady DEF LimitsInv
<1>3. ASSUME NEW r \in Req, job[r].at # "clearCart", UNCHANGED <<bought, cart>>, job'[r].at \notin Checking
      PROVE  LimitsInv'
  BY <1>0, <1>3, LinesStay, NobodyIsReady DEF LimitsInv
<1>4. ASSUME NEW r \in Req, NEW o \in Order, updateStatus(r, o) PROVE LimitsInv'
  <2>1. job[r].at = "idle" /\ job'[r].at = "cancel" /\ UNCHANGED <<bought, cart>>
    BY <1>0, <1>4 DEF updateStatus, Start, AnyJob, RowsUnchanged
  <2> QED BY <1>3, <2>1 DEF Checking
<1>5. ASSUME NEW r \in Req, Edits(r) PROVE LimitsInv'
  <2>1. job[r].at = "idle" /\ job'[r].at \in Saving /\ UNCHANGED <<bought, cart>>
    BY <1>0, <1>5, EditsLoad DEF RowsUnchanged
  <2> QED BY <1>3, <2>1 DEF Checking, Saving
<1>6. ASSUME NEW r \in Req, NEW isActive \in BOOLEAN, toggle(r, isActive) PROVE LimitsInv'
  <2>1. job[r].at = "idle" /\ job'[r].at = "savePromotion" /\ UNCHANGED <<bought, cart>>
    BY <1>0, <1>6 DEF toggle, Start, AnyJob, RowsUnchanged
  <2> QED BY <1>3, <2>1 DEF Checking
<1>7. ASSUME NEW r \in Req, restoreStockForItems(r) \/ Saves(r) \/ SavePromotion(r) PROVE LimitsInv'
  <2>1. job[r].at # "clearCart" /\ job'[r].at = "idle" /\ UNCHANGED <<bought, cart>>
    BY <1>0, <1>7, RowsSaved DEF restoreStockForItems, SavePromotion, At, Return, Saving
  <2> QED BY <1>3, <2>1 DEF Checking
<1>8. ASSUME NEW r \in Req, suspend(r) PROVE LimitsInv'
  <2>1. job[r].at = "idle" /\ job'[r].at = "idle" /\ UNCHANGED <<bought, cart>>
    BY <1>0, <1>8 DEF suspend, Instant
  <2> QED BY <1>3, <2>1 DEF Checking
<1>9. ASSUME UNCHANGED vars PROVE LimitsInv'
  BY <1>9 DEF vars, LimitsInv, UsageWithinLimits, UsedBy, Placed, CartLineBoughtOnce, LineLeaves, Ready,
       PromotionApplies
<1>10. ASSUME NEW r \in Req, CheckLine(r) PROVE LimitsInv'
  <2>1. PICK j : /\ job' = [job EXCEPT ![r] = j]
                 /\ \/ j = Idle
                    \/ j.at \in Checking /\ j.draft = job[r].draft /\ j.fromCart = job[r].fromCart
    BY <1>10, LineSteps
  <2>2. RowsUnchanged /\ job[r].at \in Checking
    BY <1>10, LineSteps
  <2>3. CartLineBoughtOnce' /\ \A b \in Buyer, v \in Variant : LineLeaves(b, v)'
    BY <2>2, LinesStay DEF Checking, RowsUnchanged
  <2>4. Ready(job[r])
    BY DEF LimitsInv
  <2>5. suspended' = suspended /\ cart' = cart /\ \A b : PromotionApplies(b)' = PromotionApplies(b)
    BY <2>2 DEF RowsUnchanged, PromotionApplies, UsedBy, Placed
  <2>6. ASSUME NEW q \in Req PROVE Ready(job[q])'
    <3>1. q = r /\ job'[r] = j
      BY <1>0, <2>1 DEF OneRequest
    <3> QED BY <2>1, <2>2, <2>4, <2>5, <3>1 DEF Ready, PromotionApplies, Checking
  <2> QED BY <1>0, <2>3, <2>6 DEF LimitsInv
<1>11. ASSUME NEW percent \in Discounts, changeSale(percent) PROVE LimitsInv'
  BY <1>11 DEF changeSale, LimitsInv, UsageWithinLimits, UsedBy, Placed, CartLineBoughtOnce, LineLeaves, Ready,
       PromotionApplies
<1>12. ASSUME NEW r \in Req, Request(r) PROVE LimitsInv'
  BY <1>1, <1>2, <1>4, <1>5, <1>6, <1>7, <1>8, <1>10, <1>12, CreateIsReady
     DEF Request, CheckLine, Edits, Saves
<1> QED BY <1>9, <1>11, <1>12 DEF Next

(* A suspended store is asked for nothing that is still to be placed.      *)
LEMMA OrderIsOfOpenStore ==
  ASSUME PlaceOrderAssumption, CheckoutInv, LimitsInv, [Next]_vars
  PROVE  SuspendedSellsNothing
  BY PlacedByCommit DEF LimitsInv, Ready, SuspendedSellsNothing, Commit, At, Checking

(* One request at a time: a promotion is used within its limits, over all  *)
(* buyers and by each, its counter says how often, a line of a cart is     *)
(* bought once, and a suspended store gets no order.                       *)
THEOREM CheckoutKeepsLimits ==
  ASSUME PlaceOrderAssumption, OneRequest
  PROVE  Spec => /\ [](UsageWithinLimits /\ CartLineBoughtOnce)
                 /\ [][SuspendedSellsNothing]_vars
<1> DEFINE Inv == CheckoutInv /\ LocksInv /\ CountInv /\ LimitsInv
<1>1. Init => Inv
  BY CheckoutInit, LocksInit, CountInit, LimitsInit
<1>2. Inv /\ [Next]_vars => Inv'
  BY CheckoutNext, LocksNext, CountNext, LimitsNext DEF CountAlone
<1>3. Inv => UsageWithinLimits /\ CartLineBoughtOnce
  BY DEF LimitsInv
<1>4. Inv /\ [Next]_vars => SuspendedSellsNothing
  BY OrderIsOfOpenStore
<1> QED BY <1>1, <1>2, <1>3, <1>4, PTL DEF Spec

-----------------------------------------------------------------------------
(* The variants of a product: ProductVariants is a component of its own,   *)
(* and job is here its requests in flight.                                 *)

CONSTANTS Opt, Sku, Price, Absolute, Ids, MaxRows
VARIABLES base, rows, inCart, sold

Shelf == INSTANCE ProductVariants

(* The rows of the table, and what requests have loaded of them.           *)
IsRow(x) == x = [state |-> x.state, opt |-> x.opt, sku |-> x.sku, adj |-> x.adj]
IsTable(t) == t = [i \in Shelf!Row |-> t[i]] /\ \A i \in Shelf!Row : IsRow(t[i])
IsShelfJob(j) ==
    /\ j = [at |-> j.at, absolute |-> j.absolute, items |-> j.items, next |-> j.next, seen |-> j.seen,
            saved |-> j.saved, remove |-> j.remove, orders |-> j.orders]
    /\ IsTable(j.seen)
    /\ j.remove \subseteq Shelf!Row

ShelfInv ==
    /\ IsTable(rows) /\ inCart \subseteq Shelf!Row /\ sold \subseteq Shelf!Row
    /\ job = [r \in Req |-> job[r]] /\ \A r \in Req : IsShelfJob(job[r])
    /\ Shelf!SkusAreUnique

(* What carts and orders name is kept, and what is about to be removed is  *)
(* in no cart, and in an order only if the removal knows of it.            *)
NamedAreKept ==
    /\ sold \cup inCart \subseteq Shelf!Kept
    /\ \A r \in Req : job[r].at = "remove" =>
          sold \cap job[r].remove \subseteq job[r].orders /\ inCart \cap job[r].remove = {}

-----------------------------------------------------------------------------
(* An idle request has loaded empty rows.                                  *)
LEMMA ShelfIdle == IsShelfJob(Shelf!Idle) /\ Shelf!Idle.at = "idle" /\ Shelf!Idle.remove = {}
<1>1. IsTable(Shelf!Idle.seen)
  BY DEF Shelf!Idle, IsTable, IsRow, Shelf!NoRow
<1> QED BY <1>1 DEF Shelf!Idle, IsShelfJob

(* Nothing is on sale yet.                                                 *)
LEMMA ShelfInit == Shelf!Init => ShelfInv /\ NamedAreKept
<1> SUFFICES ASSUME Shelf!Init PROVE ShelfInv /\ NamedAreKept
  OBVIOUS
<1>1. IsTable(rows)
  BY DEF Shelf!Init, IsTable, IsRow, Shelf!NoRow
<1>2. Shelf!Kept = {}
  BY DEF Shelf!Init, Shelf!Kept, Shelf!NoRow
<1> QED BY <1>1, <1>2, ShelfIdle DEF Shelf!Init, ShelfInv, NamedAreKept, Shelf!SkusAreUnique

(* A request that goes on with a well-formed job.                          *)
LEMMA ShelfJobs ==
  ASSUME ShelfInv, NEW r \in Req, NEW j, IsShelfJob(j), job' = [job EXCEPT ![r] = j]
  PROVE  job' = [q \in Req |-> job'[q]] /\ \A q \in Req : IsShelfJob(job'[q])
<1>1. \A q \in Req : job'[q] = IF q = r THEN j ELSE job[q]
  BY DEF ShelfInv
<1> QED BY <1>1 DEF ShelfInv

(* A table whose kept rows have SKUs of their own.                         *)
LEMMA UniqueByIndex ==
  ASSUME rows' = [i \in Shelf!Row |-> rows'[i]], Shelf!NoTwoAlike(rows')
  PROVE  Shelf!SkusAreUnique'
  BY DEF Shelf!NoTwoAlike, Shelf!SkusAreUnique, Shelf!Kept

(* A row that is saved with a SKU no other kept row has.                   *)
LEMMA SavedRow ==
  ASSUME ShelfInv, NEW i, NEW row, IsRow(row), row.state = "active",
         Shelf!SkuIsFree(i, row.sku), rows' = [rows EXCEPT ![i] = row]
  PROVE  IsTable(rows') /\ Shelf!SkusAreUnique' /\ Shelf!Kept \subseteq Shelf!Kept'
<1>1. \A k \in Shelf!Row : rows'[k] = IF k = i THEN row ELSE rows[k]
  BY DEF ShelfInv, IsTable
<1>2. IsTable(rows')
  BY <1>1 DEF ShelfInv, IsTable
<1>3. Shelf!Kept \subseteq Shelf!Kept' /\ Shelf!Kept' \subseteq Shelf!Kept \cup {i}
  BY <1>1 DEF Shelf!Kept
<1>4. Shelf!SkusAreUnique'
  <2> SUFFICES ASSUME NEW p \in Shelf!Kept', NEW q \in Shelf!Kept', p # q PROVE rows'[p].sku # rows'[q].sku
    BY DEF Shelf!SkusAreUnique
  <2>1. p \in Shelf!Row /\ q \in Shelf!Row
    BY DEF Shelf!Kept
  <2> QED BY <1>1, <1>3, <2>1 DEF Shelf!SkuIsFree, ShelfInv, Shelf!SkusAreUnique
<1> QED BY <1>2, <1>3, <1>4

(* A request that goes on, and what is kept.                               *)
LEMMA ShelfGoesOn ==
  ASSUME ShelfInv, NEW r \in Req, NEW j, IsShelfJob(j), job' = [job EXCEPT ![r] = j],
         IsTable(rows'), Shelf!SkusAreUnique', Shelf!Kept \subseteq Shelf!Kept',
         sold' = sold, inCart' \subseteq inCart
  PROVE  /\ ShelfInv'
         /\ OneRequest /\ NamedAreKept /\ j.at # "remove" => NamedAreKept'
<1>1. job' = [q \in Req |-> job'[q]] /\ \A q \in Req : IsShelfJob(job'[q])
  BY ShelfJobs
<1>2. ShelfInv'
  BY <1>1 DEF ShelfInv, IsShelfJob, IsTable, IsRow, Shelf!Row
<1>3. ASSUME OneRequest, NamedAreKept, j.at # "remove" PROVE NamedAreKept'
  <2>1. \A q \in Req : job'[q] = j
    BY <1>3 DEF OneRequest, ShelfInv
  <2> QED BY <1>3, <2>1 DEF NamedAreKept
<1> QED BY <1>2, <1>3

(* Reading leaves the table.                                               *)
LEMMA ShelfReads ==
  ASSUME ShelfInv, NEW r \in Req, NEW j, IsShelfJob(j), job' = [job EXCEPT ![r] = j],
         UNCHANGED <<rows, inCart, sold>>
  PROVE  /\ ShelfInv'
         /\ OneRequest /\ NamedAreKept /\ j.at # "remove" => NamedAreKept'
<1>1. IsTable(rows') /\ Shelf!SkusAreUnique' /\ Shelf!Kept' = Shelf!Kept
  BY DEF ShelfInv, Shelf!SkusAreUnique, Shelf!Kept
<1> QED BY <1>1, ShelfGoesOn

(* addVariant and syncVariants, until the rest is removed.                 *)
LEMMA ShelfSaves ==
  ASSUME ShelfInv, NEW r \in Req,
         \/ \E o \in Opt, sku \in Sku : Shelf!addVariant(r, o, sku)
         \/ Shelf!InsertVariant(r)
         \/ \E absolute \in Absolute : \E items \in Shelf!SyncItems(absolute) : Shelf!syncVariants(r, absolute, items)
         \/ Shelf!SaveBasePrice(r)
         \/ Shelf!SaveItem(r)
         \/ Shelf!ItemsSaved(r)
  PROVE  ShelfInv' /\ (OneRequest /\ NamedAreKept => NamedAreKept')
<1> USE ShelfIdle
<1> DEFINE Goal == ShelfInv' /\ (OneRequest /\ NamedAreKept => NamedAreKept')
<1>0. IsShelfJob(job[r]) /\ job = [q \in Req |-> job[q]] /\ IsTable(rows)
  BY DEF ShelfInv
<1>1. ASSUME NEW o \in Opt, NEW sku \in Sku, Shelf!addVariant(r, o, sku) PROVE Goal
  <2>1. PICK j : /\ IsShelfJob(j) /\ j.at = "insert" /\ job' = [job EXCEPT ![r] = j]
                 /\ UNCHANGED <<rows, inCart, sold>>
    <3>1. PICK items : /\ UNCHANGED <<rows, inCart, sold>>
                       /\ job' = [job EXCEPT ![r] = [Shelf!Idle EXCEPT !.at = "insert", !.items = items]]
      BY <1>1, Zenon DEF Shelf!addVariant, Shelf!Start
    <3>2. PICK j : j = [Shelf!Idle EXCEPT !.at = "insert", !.items = items]
      OBVIOUS
    <3>3. IsShelfJob(j) /\ j.at = "insert"
      BY <3>2 DEF IsShelfJob
    <3> QED BY <3>1, <3>2, <3>3
  <2> QED BY <2>1, ShelfReads
<1>2. ASSUME Shelf!InsertVariant(r) PROVE Goal
  <2>1. job' = [job EXCEPT ![r] = Shelf!Idle] /\ UNCHANGED <<inCart, sold>>
    BY <1>2 DEF Shelf!InsertVariant, Shelf!Return, Shelf!Goto
  <2>2. CASE UNCHANGED rows
    BY <2>1, <2>2, ShelfReads
  <2>3. ASSUME NEW i, NEW o, NEW sku, Shelf!SkuIsFree(i, sku),
               rows' = [rows EXCEPT ![i] = [state |-> "active", opt |-> o, sku |-> sku, adj |-> 0]]
        PROVE  Goal
    <3>1. PICK row : row = [state |-> "active", opt |-> o, sku |-> sku, adj |-> 0]
      OBVIOUS
    <3>2. IsTable(rows') /\ Shelf!SkusAreUnique' /\ Shelf!Kept \subseteq Shelf!Kept'
      BY <2>3, <3>1, SavedRow DEF IsRow
    <3> QED BY <2>1, <3>2, ShelfGoesOn
  <2> QED BY <1>2, <2>2, <2>3 DEF Shelf!InsertVariant
<1>3. ASSUME NEW absolute, NEW items, Shelf!syncVariants(r, absolute, items) PROVE Goal
  <2>1. Shelf!classifySyncPlan(rows, items) \subseteq Shelf!Row
    BY DEF Shelf!classifySyncPlan, Shelf!activeVariants
  <2>2. PICK j : /\ IsShelfJob(j) /\ j.at = "saveBase" /\ job' = [job EXCEPT ![r] = j]
                 /\ UNCHANGED <<rows, inCart, sold>>
    <3>1. /\ UNCHANGED <<rows, inCart, sold>>
          /\ job' = [job EXCEPT ![r] = [Shelf!Idle EXCEPT !.at = "saveBase", !.absolute = absolute, !.items = items,
                 !.seen = rows, !.remove = Shelf!classifySyncPlan(rows, items)]]
      BY <1>3, Zenon DEF Shelf!syncVariants, Shelf!Start
    <3>2. PICK remove : remove = Shelf!classifySyncPlan(rows, items)
      OBVIOUS
    <3>3. PICK j : j = [Shelf!Idle EXCEPT !.at = "saveBase", !.absolute = absolute, !.items = items, !.seen = rows,
                                          !.remove = remove]
      OBVIOUS
    <3>4. IsShelfJob(j) /\ j.at = "saveBase"
      BY <1>0, <2>1, <3>2, <3>3 DEF IsShelfJob
    <3> QED BY <3>1, <3>2, <3>3, <3>4
  <2> QED BY <2>2, ShelfReads
<1>4. ASSUME Shelf!SaveBasePrice(r) PROVE Goal
  <2>1. UNCHANGED <<inCart, sold>>
    BY <1>4 DEF Shelf!SaveBasePrice
  <2>2. PICK j : IsShelfJob(j) /\ j.at # "remove" /\ job' = [job EXCEPT ![r] = j]
    BY <1>0, <1>4 DEF Shelf!SaveBasePrice, Shelf!Goto, Shelf!Return, IsShelfJob
  <2>3. CASE UNCHANGED rows
    BY <2>1, <2>2, <2>3, ShelfReads
  <2>4. CASE rows' = Shelf!Cascade(job[r].seen) /\ Shelf!NoTwoAlike(rows')
    <3>1. \A i \in Shelf!Row : rows'[i] = IF job[r].seen[i].state \in {"active", "retired"}
                                          THEN job[r].seen[i] ELSE rows[i]
      BY <2>4 DEF Shelf!Cascade
    <3>2. IsTable(rows')
      BY <1>0, <2>4, <3>1 DEF Shelf!Cascade, IsTable, IsShelfJob
    <3>3. Shelf!SkusAreUnique'
      BY <2>4, <3>2, UniqueByIndex DEF IsTable
    <3>4. Shelf!Kept \subseteq Shelf!Kept'
      BY <3>1 DEF Shelf!Kept
    <3> QED BY <2>1, <2>2, <3>2, <3>3, <3>4, ShelfGoesOn
  <2> QED BY <1>4, <2>3, <2>4 DEF Shelf!SaveBasePrice
<1>5. ASSUME Shelf!SaveItem(r) PROVE Goal
  <2>1. UNCHANGED <<inCart, sold>> /\ job[r].at = "saveItems"
    BY <1>5 DEF Shelf!SaveItem, Shelf!At
  <2>2. PICK j : IsShelfJob(j) /\ j.at # "remove" /\ job' = [job EXCEPT ![r] = j]
    <3>1. \/ job' = [job EXCEPT ![r] = Shelf!Idle]
          \/ \E i : job' = [job EXCEPT ![r] = [job[r] EXCEPT !.saved[i] = job[r].next, !.next = job[r].next + 1]]
      BY <1>5, Zenon DEF Shelf!SaveItem, Shelf!Goto, Shelf!Return
    <3>2. CASE job' = [job EXCEPT ![r] = Shelf!Idle]
      BY <3>2
    <3>3. ASSUME NEW i,
                 job' = [job EXCEPT ![r] = [job[r] EXCEPT !.saved[i] = job[r].next, !.next = job[r].next + 1]]
          PROVE  \E j : IsShelfJob(j) /\ j.at # "remove" /\ job' = [job EXCEPT ![r] = j]
      <4>1. PICK j : j = [job[r] EXCEPT !.saved[i] = job[r].next, !.next = job[r].next + 1]
        OBVIOUS
      <4>2. IsShelfJob(j) /\ j.at = "saveItems"
        BY <1>0, <2>1, <4>1 DEF IsShelfJob
      <4> QED BY <3>3, <4>1, <4>2
    <3> QED BY <3>1, <3>2, <3>3
  <2>3. CASE UNCHANGED rows
    BY <2>1, <2>2, <2>3, ShelfReads
  <2>4. ASSUME NEW i, NEW o, NEW sku, NEW adj, Shelf!SkuIsFree(i, sku),
               rows' = [rows EXCEPT ![i] = [state |-> "active", opt |-> o, sku |-> sku, adj |-> adj]]
        PROVE  Goal
    <3>1. PICK row : row = [state |-> "active", opt |-> o, sku |-> sku, adj |-> adj]
      OBVIOUS
    <3>2. IsTable(rows') /\ Shelf!SkusAreUnique' /\ Shelf!Kept \subseteq Shelf!Kept'
      BY <2>4, <3>1, SavedRow DEF IsRow
    <3> QED BY <2>1, <2>2, <3>2, ShelfGoesOn
  <2> QED BY <1>5, <2>3, <2>4 DEF Shelf!SaveItem
<1>6. ASSUME Shelf!ItemsSaved(r) PROVE Goal
  <2>1. PICK remove : remove = {i \in job[r].remove : job[r].saved[i] = Shelf!None}
    OBVIOUS
  <2>2. PICK j : j = [job[r] EXCEPT !.at = "evaluate", !.remove = remove]
    OBVIOUS
  <2>3. IsShelfJob(j) /\ j.at = "evaluate"
    BY <1>0, <2>1, <2>2 DEF IsShelfJob
  <2>4. job' = [job EXCEPT ![r] = j] /\ UNCHANGED <<rows, inCart, sold>>
    BY <1>6, <2>1, <2>2 DEF Shelf!ItemsSaved, Shelf!Goto
  <2> QED BY <2>3, <2>4, ShelfReads
<1> QED BY <1>1, <1>2, <1>3, <1>4, <1>5, <1>6

(* Removing variants.                                                      *)
LEMMA ShelfRemoves ==
  ASSUME ShelfInv, NEW r \in Req,
         \/ Shelf!evaluateRemovalBlockers(r)
         \/ Shelf!applyRemovals(r)
         \/ \E i \in Shelf!Row : Shelf!removeVariant(r, i) \/ Shelf!RemoveOne(r, i)
  PROVE  ShelfInv' /\ (OneRequest /\ NamedAreKept => NamedAreKept')
<1> USE ShelfIdle
<1> DEFINE Goal == ShelfInv' /\ (OneRequest /\ NamedAreKept => NamedAreKept')
<1>0. IsShelfJob(job[r]) /\ job = [q \in Req |-> job[q]] /\ IsTable(rows)
  BY DEF ShelfInv
<1>1. ASSUME Shelf!evaluateRemovalBlockers(r) PROVE Goal
  <2>1. UNCHANGED <<rows, sold>> /\ inCart' = inCart \ job[r].remove
    BY <1>1 DEF Shelf!evaluateRemovalBlockers
  <2>2. PICK j : /\ IsShelfJob(j) /\ job' = [job EXCEPT ![r] = j]
                 /\ j.remove = job[r].remove /\ j.orders = sold \cap job[r].remove
    <3>1. PICK orders : orders = sold \cap job[r].remove
      OBVIOUS
    <3>2. PICK j : j = [job[r] EXCEPT !.at = "remove", !.orders = orders]
      OBVIOUS
    <3>3. IsShelfJob(j) /\ j.remove = job[r].remove /\ j.orders = orders
      BY <1>0, <3>2 DEF IsShelfJob
    <3>4. job' = [job EXCEPT ![r] = j]
      BY <1>1, <3>1, <3>2 DEF Shelf!evaluateRemovalBlockers, Shelf!Goto
    <3> QED BY <3>1, <3>3, <3>4
  <2>3. Shelf!SkusAreUnique' /\ Shelf!Kept' = Shelf!Kept
    BY <2>1 DEF ShelfInv, Shelf!SkusAreUnique, Shelf!Kept
  <2>4. ShelfInv'
    BY <1>0, <2>1, <2>2, <2>3, ShelfGoesOn
  <2>5. ASSUME OneRequest, NamedAreKept PROVE NamedAreKept'
    <3>1. \A q \in Req : job'[q] = j
      BY <1>0, <2>2, <2>5 DEF OneRequest
    <3> QED BY <2>1, <2>2, <2>3, <2>5, <3>1 DEF NamedAreKept
  <2> QED BY <2>4, <2>5
<1>2. ASSUME Shelf!applyRemovals(r) PROVE Goal
  <2>1. job' = [job EXCEPT ![r] = Shelf!Idle] /\ UNCHANGED <<rows, inCart, sold>>
    BY <1>2 DEF Shelf!applyRemovals, Shelf!Return, Shelf!Goto
  <2> QED BY <2>1, ShelfReads
<1>3. ASSUME NEW i \in Shelf!Row, Shelf!removeVariant(r, i) PROVE Goal
  <2>1. PICK j : /\ IsShelfJob(j) /\ j.at = "evaluate" /\ job' = [job EXCEPT ![r] = j]
                 /\ UNCHANGED <<rows, inCart, sold>>
    <3>1. PICK j : j = [Shelf!Idle EXCEPT !.at = "evaluate", !.remove = {i}, !.seen = rows]
      OBVIOUS
    <3>2. IsShelfJob(j) /\ j.at = "evaluate"
      BY <1>0, <3>1 DEF IsShelfJob
    <3>3. job' = [job EXCEPT ![r] = j] /\ UNCHANGED <<rows, inCart, sold>>
      BY <1>3, <3>1 DEF Shelf!removeVariant, Shelf!Start
    <3> QED BY <3>2, <3>3
  <2> QED BY <2>1, ShelfReads
<1>4. ASSUME NEW i \in Shelf!Row, Shelf!RemoveOne(r, i) PROVE Goal
  <2> DEFINE s == Shelf!dispositionFromFlags(job[r].orders, i)
  <2>1. UNCHANGED <<inCart, sold>> /\ job[r].at = "remove" /\ i \in job[r].remove
    BY <1>4 DEF Shelf!RemoveOne, Shelf!At
  <2>2. CASE UNCHANGED rows /\ job' = [job EXCEPT ![r] = Shelf!Idle]
    BY <2>1, <2>2, ShelfReads
  <2>3. CASE /\ job' = [job EXCEPT ![r] = [job[r] EXCEPT !.remove = job[r].remove \ {i}]]
             /\ rows' = [rows EXCEPT ![i] = [(IF s = "retired" THEN job[r].seen[i] ELSE rows[i]) EXCEPT !.state = s]]
             /\ Shelf!NoTwoAlike(rows')
    <3>1. PICK j : j = [job[r] EXCEPT !.remove = job[r].remove \ {i}]
      OBVIOUS
    <3>2. IsShelfJob(j) /\ j.at = "remove" /\ j.remove = job[r].remove \ {i} /\ j.orders = job[r].orders
      BY <1>0, <2>1, <3>1 DEF IsShelfJob
    <3>3. PICK row : row = [(IF s = "retired" THEN job[r].seen[i] ELSE rows[i]) EXCEPT !.state = s]
      OBVIOUS
    <3>4. IsRow(row) /\ row.state = s
      <4>1. PICK old : old = IF s = "retired" THEN job[r].seen[i] ELSE rows[i]
        OBVIOUS
      <4>2. IsRow(old)
        BY <1>0, <4>1 DEF IsTable, IsShelfJob
      <4>3. row = [old EXCEPT !.state = s]
        BY <3>3, <4>1
      <4> HIDE DEF s
      <4> QED BY <4>2, <4>3 DEF IsRow
    <3>5. \A k \in Shelf!Row : rows'[k] = IF k = i THEN row ELSE rows[k]
      BY <1>0, <2>3, <3>3 DEF IsTable
    <3>6. IsTable(rows')
      BY <1>0, <2>3, <3>4, <3>5 DEF IsTable
    <3>7. Shelf!SkusAreUnique'
      <4>1. rows' = [k \in Shelf!Row |-> rows'[k]]
        BY <3>6 DEF IsTable
      <4>2. Shelf!NoTwoAlike(rows')
        BY <2>3
      <4> QED BY <4>1, <4>2, UniqueByIndex
    <3>8. ShelfInv'
      <4>1. job' = [q \in Req |-> job'[q]] /\ \A q \in Req : IsShelfJob(job'[q])
        BY <2>3, <3>1, <3>2, ShelfJobs
      <4> QED BY <2>1, <3>6, <3>7, <4>1 DEF ShelfInv, IsShelfJob, IsTable, IsRow, Shelf!Row
    <3>9. ASSUME OneRequest, NamedAreKept PROVE NamedAreKept'
      <4>1. \A q \in Req : job'[q] = j
        BY <1>0, <2>3, <3>1, <3>9 DEF OneRequest
      <4>2. i \notin inCart /\ (i \in sold => i \in job[r].orders)
        BY <2>1, <3>9 DEF NamedAreKept
      <4>3. i \in sold => row.state = "retired"
        BY <3>4, <4>2 DEF Shelf!dispositionFromFlags
      <4>4. \A k \in Shelf!Kept : k # i \/ k \in sold => k \in Shelf!Kept'
        BY <3>5, <4>3 DEF Shelf!Kept
      <4>5. sold' \cup inCart' \subseteq Shelf!Kept'
        BY <2>1, <3>9, <4>2, <4>4 DEF NamedAreKept
      <4> QED BY <2>1, <3>2, <3>9, <4>1, <4>5 DEF NamedAreKept
    <3> QED BY <3>8, <3>9
  <2> QED BY <1>4, <2>2, <2>3 DEF Shelf!RemoveOne, Shelf!Goto, Shelf!Return
<1> QED BY <1>1, <1>2, <1>3, <1>4

(* Carts and orders take what is on sale.                                  *)
LEMMA ShelfSells ==
  ASSUME ShelfInv, NEW r \in Req, NEW i \in Shelf!Row, Shelf!addToCart(r, i) \/ Shelf!createOrder(r, i)
  PROVE  ShelfInv' /\ (OneRequest /\ NamedAreKept => NamedAreKept')
<1>1. /\ UNCHANGED <<rows, job>> /\ job[r].at = "idle" /\ i \in Shelf!Kept
      /\ inCart' \subseteq inCart \cup {i} /\ sold' \subseteq sold \cup {i}
  BY DEF Shelf!addToCart, Shelf!createOrder, Shelf!Instant, Shelf!Kept
<1>2. ShelfInv' /\ Shelf!Kept' = Shelf!Kept
  BY <1>1 DEF ShelfInv, IsShelfJob, IsTable, IsRow, Shelf!Row, Shelf!SkusAreUnique, Shelf!Kept
<1>3. ASSUME OneRequest, NamedAreKept PROVE NamedAreKept'
  <2>1. \A q \in Req : job'[q].at = "idle"
    BY <1>1, <1>3 DEF OneRequest
  <2> QED BY <1>1, <1>2, <1>3, <2>1 DEF NamedAreKept
<1> QED BY <1>2, <1>3

(* Every step.                                                             *)
LEMMA ShelfNext ==
  ASSUME ShelfInv, [Shelf!Next]_(Shelf!vars)
  PROVE  ShelfInv' /\ (OneRequest /\ NamedAreKept => NamedAreKept')
<1>1. ASSUME UNCHANGED Shelf!vars PROVE ShelfInv' /\ (NamedAreKept => NamedAreKept')
  BY <1>1, ZenonT(40) DEF Shelf!vars, ShelfInv, IsShelfJob, IsTable, IsRow, Shelf!Row,
       Shelf!SkusAreUnique, Shelf!Kept, NamedAreKept
<1> QED BY <1>1, ShelfSaves, ShelfRemoves, ShelfSells DEF Shelf!Next

(* However edits of the variants overlap, the unique index is never met by *)
(* two rows that are kept.                                                 *)
THEOREM SkusStayUnique == Shelf!Spec => []Shelf!SkusAreUnique
<1>1. Shelf!Init => ShelfInv
  BY ShelfInit
<1>2. ShelfInv /\ [Shelf!Next]_(Shelf!vars) => ShelfInv'
  BY ShelfNext
<1>3. ShelfInv => Shelf!SkusAreUnique
  BY DEF ShelfInv
<1> QED BY <1>1, <1>2, <1>3, PTL DEF Shelf!Spec

(* What is kept is not deleted.                                            *)
LEMMA KeptGives == NamedAreKept => Shelf!SoldVariantIsKept /\ Shelf!CartHoldsKeptVariants
  BY DEF NamedAreKept, Shelf!Kept, Shelf!SoldVariantIsKept, Shelf!CartHoldsKeptVariants

(* One request at a time, a variant that an order or a cart names is never *)
(* deleted, by an edit of the product or by synchronising it.              *)
THEOREM NamedVariantsStay ==
  ASSUME OneRequest
  PROVE  Shelf!Spec => [](Shelf!SoldVariantIsKept /\ Shelf!CartHoldsKeptVariants)
<1>1. Shelf!Init => ShelfInv /\ NamedAreKept
  BY ShelfInit
<1>2. ShelfInv /\ NamedAreKept /\ [Shelf!Next]_(Shelf!vars) => ShelfInv' /\ NamedAreKept'
  BY ShelfNext
<1> QED BY <1>1, <1>2, KeptGives, PTL DEF Shelf!Spec

-----------------------------------------------------------------------------
(* Carts: Cart is a component of its own, and job is here its requests.    *)

CONSTANTS Shop, MaxStock, MaxIds
VARIABLES carts, cartItems, ids, stock, sale, want

Carts == INSTANCE Cart WITH items <- cartItems

(* Lines that hold a piece or are not there.                               *)
WholeLines == {ls \in [Variant -> [id : Nat, q : Nat]] : \A v \in Variant : ls[v].id = 0 <=> ls[v].q = 0}
AnyCartJob == [at : {"idle", "guest", "resolve", "makeCart", "saveItem", "cap"} \cup Carts!Resolver,
               op : Carts!Resolver, who : Carts!Who, v : Variant, q : Nat, cart : Nat, lines : WholeLines,
               guest : Nat, from : WholeLines, read : [Variant -> Nat], status : [Variant -> Carts!Status]]

(* What is added or saved is a piece at least.                             *)
AsksForPieces(j) ==
    /\ j.op = "addToCart" => j.q > 0
    /\ j.at = "addToCart" => j.op = "addToCart"
    /\ j.at = "saveItem" => j.q > 0 /\ j.lines[j.v].id # 0

CartInv ==
    /\ carts \in [Carts!Who -> Nat] /\ cartItems \in [Carts!Who -> WholeLines] /\ ids \in Nat
    /\ stock \in [Variant -> Nat] /\ sale \in [Variant -> Carts!Status] /\ want \in [Variant -> Int]
    /\ job \in [Req -> AnyCartJob] /\ \A r \in Req : AsksForPieces(job[r])

(* With one request at a time, what it has loaded is what is stored.       *)
NoCartNoLines == \A w \in Carts!Who : carts[w] = 0 => cartItems[w] = Carts!NoLines
Loaded(j) ==
    /\ j.at \in {"guest", "resolve", "makeCart"} => j.lines = Carts!NoLines
    /\ j.at \in {"saveItem", "cap"} \cup Carts!Resolver => j.cart # 0 /\ carts[j.who] = j.cart
    /\ j.at \in {"addToCart", "saveItem", "removeCartItem", "cart", "cap"} => j.lines = cartItems[j.who]
    /\ j.at = "cap" => \A v \in Variant : j.lines[v].id # 0 => j.status[v] = "ok"

(* While carts are merged, lines that were moved count in the customer's.  *)
Merging(j) ==
    /\ j.op = "mergeCart" => j.who = "customer"
    /\ j.at = "mergeCart" => j.op = "mergeCart"
    /\ j.op = "mergeCart" /\ j.at \in {"resolve", "makeCart"} =>
          j.guest = carts["session"] /\ j.from = cartItems["session"]
    /\ j.at = "mergeCart" =>
          /\ j.guest = carts["session"]
          /\ \A v \in Variant : j.from[v].id # 0 =>
                j.from[v] = cartItems["session"][v] /\ j.lines[v] = cartItems["customer"][v]
Adds(j) ==
    \A v \in Variant :
       want[v] = cartItems["customer"][v].q
                    + (IF j.at = "mergeCart" /\ j.from[v].id = 0 THEN 0 ELSE cartItems["session"][v].q)

OneCartInv ==
    /\ NoCartNoLines
    /\ \A r \in Req : Loaded(job[r]) /\ Merging(job[r]) /\ Adds(job[r])
    /\ Carts!NothingLost

(* A request that waits.                                                   *)
LEMMA CartIdle ==
  ASSUME Carts!CartAssumption
  PROVE  /\ Carts!Idle \in AnyCartJob /\ Carts!NoLines \in WholeLines
         /\ Carts!Idle.at = "idle" /\ Carts!Idle.op = "cart" /\ Carts!Idle.lines = Carts!NoLines
<1>1. Carts!AnyVariant \in Variant
  BY DEF Carts!CartAssumption, Carts!AnyVariant
<1>2. Carts!NoLines \in WholeLines
  BY DEF Carts!NoLines, Carts!NoItem, WholeLines
<1>3. /\ [v \in Variant |-> 0] \in [Variant -> Nat]
      /\ [v \in Variant |-> "ok"] \in [Variant -> Carts!Status]
      /\ "cart" \in Carts!Resolver /\ "session" \in Carts!Who
  BY DEF Carts!Status, Carts!Resolver, Carts!Who
<1> QED BY <1>1, <1>2, <1>3 DEF AnyCartJob, Carts!Idle

(* Nothing is in a cart yet.                                               *)
LEMMA CartStart == ASSUME Carts!CartAssumption PROVE Carts!Init => CartInv /\ OneCartInv
<1> SUFFICES ASSUME Carts!Init PROVE CartInv /\ OneCartInv
  OBVIOUS
<1>1. /\ carts = [w \in Carts!Who |-> 0] /\ cartItems = [w \in Carts!Who |-> Carts!NoLines] /\ ids = 0
      /\ stock \in [Variant -> 1 .. MaxStock] /\ sale = [v \in Variant |-> "ok"]
      /\ want = [v \in Variant |-> 0] /\ job = [r \in Req |-> Carts!Idle]
  BY DEF Carts!Init
<1>2. stock \in [Variant -> Nat]
  BY <1>1 DEF Carts!CartAssumption
<1>3. sale \in [Variant -> Carts!Status] /\ want \in [Variant -> Int]
  BY <1>1 DEF Carts!Status
<1>4. CartInv
  BY <1>1, <1>2, <1>3, CartIdle DEF CartInv, AsksForPieces
<1>5. \A w \in Carts!Who, v \in Variant : cartItems[w][v].q = 0
  BY <1>1 DEF Carts!NoLines, Carts!NoItem
<1>6. "session" \in Carts!Who /\ "customer" \in Carts!Who
  BY DEF Carts!Who
<1>7. NoCartNoLines /\ Carts!NothingLost
  BY <1>1, <1>5, <1>6 DEF NoCartNoLines, Carts!NothingLost
<1>8. \A r \in Req : Loaded(job[r]) /\ Merging(job[r]) /\ Adds(job[r])
  BY <1>1, <1>5, <1>6, CartIdle DEF Loaded, Merging, Adds, Carts!Resolver
<1> QED BY <1>4, <1>7, <1>8 DEF OneCartInv

(* A request that goes on.                                                 *)
LEMMA CartGoesOn ==
  ASSUME CartInv, NEW r \in Req, NEW j \in AnyCartJob, AsksForPieces(j), job' = [job EXCEPT ![r] = j],
         carts' \in [Carts!Who -> Nat], cartItems' \in [Carts!Who -> WholeLines], ids' \in Nat,
         want' \in [Variant -> Int], UNCHANGED <<stock, sale>>
  PROVE  /\ CartInv'
         /\ OneRequest /\ NoCartNoLines' /\ Loaded(j)' /\ Merging(j)' /\ Adds(j)' => OneCartInv'
<1>1. job' \in [Req -> AnyCartJob] /\ \A q \in Req : job'[q] = IF q = r THEN j ELSE job[q]
  BY DEF CartInv
<1>2. CartInv'
  BY <1>1 DEF CartInv
<1>3. ASSUME OneRequest, NoCartNoLines', Loaded(j)', Merging(j)', Adds(j)' PROVE OneCartInv'
  <2>1. \A q \in Req : job'[q] = j
    BY <1>1, <1>3 DEF OneRequest
  <2>2. \A w \in Carts!Who, v \in Variant : cartItems'[w][v].q \in Int
    BY DEF WholeLines
  <2>3. Carts!NothingLost'
    <3> SUFFICES ASSUME NEW v \in Variant, Carts!AtRest'
                 PROVE  cartItems'["session"][v].q + cartItems'["customer"][v].q = want'[v]
      BY DEF Carts!NothingLost
    <3>1. j.at = "idle"
      BY <2>1 DEF Carts!AtRest
    <3> QED BY <1>3, <2>2, <3>1 DEF Adds, Carts!Who
  <2> QED BY <1>3, <2>1, <2>3 DEF OneCartInv
<1> QED BY <1>2, <1>3

(* Reading changes nothing that is stored.                                 *)
LEMMA CartReads ==
  ASSUME CartInv, NEW r \in Req, NEW j \in AnyCartJob, AsksForPieces(j), job' = [job EXCEPT ![r] = j],
         UNCHANGED <<carts, cartItems, ids, stock, sale, want>>
  PROVE  CartInv' /\ (OneRequest /\ OneCartInv /\ Loaded(j) /\ Merging(j) /\ Adds(j) => OneCartInv')
<1>1. /\ carts' \in [Carts!Who -> Nat] /\ cartItems' \in [Carts!Who -> WholeLines] /\ ids' \in Nat
      /\ want' \in [Variant -> Int]
  BY DEF CartInv
<1>2. NoCartNoLines /\ Loaded(j) /\ Merging(j) /\ Adds(j) => NoCartNoLines' /\ Loaded(j)' /\ Merging(j)' /\ Adds(j)'
  BY DEF NoCartNoLines, Loaded, Merging, Adds
<1> QED BY <1>1, <1>2, CartGoesOn DEF OneCartInv

(* One line is written.                                                    *)
LineBecomes(w, v, id, q) == cartItems' = [cartItems EXCEPT ![w][v] = [id |-> id, q |-> q]]

(* The lines of both carts, then.                                          *)
LEMMA LineWritten ==
  ASSUME cartItems \in [Carts!Who -> WholeLines], NEW w \in Carts!Who, NEW v \in Variant, NEW id \in Nat,
         NEW q \in Nat, id = 0 <=> q = 0, LineBecomes(w, v, id, q)
  PROVE  /\ cartItems' \in [Carts!Who -> WholeLines]
         /\ \A x \in Carts!Who, u \in Variant :
               cartItems'[x][u] = IF x = w /\ u = v THEN [id |-> id, q |-> q] ELSE cartItems[x][u]
         /\ \A x \in Carts!Who : x # w => cartItems'[x] = cartItems[x]
<1>1. PICK ls : ls = [cartItems[w] EXCEPT ![v] = [id |-> id, q |-> q]]
  OBVIOUS
<1>2. ls \in WholeLines
  BY <1>1 DEF WholeLines
<1>3. cartItems' = [cartItems EXCEPT ![w] = ls]
  BY <1>1 DEF LineBecomes
<1>4. cartItems' \in [Carts!Who -> WholeLines] /\ \A x \in Carts!Who : x # w => cartItems'[x] = cartItems[x]
  BY <1>2, <1>3
<1>5. \A u \in Variant : cartItems'[w][u] = IF u = v THEN [id |-> id, q |-> q] ELSE cartItems[w][u]
  BY <1>1, <1>3 DEF WholeLines
<1> QED BY <1>4, <1>5

(* The request, as its answer is made: getCart again, or nothing.          *)
LEMMA CartTail ==
  ASSUME Carts!CartAssumption, CartInv, NEW r \in Req
  PROVE  /\ Carts!Return(r) => \E j \in AnyCartJob :
               /\ job' = [job EXCEPT ![r] = j] /\ AsksForPieces(j) /\ Loaded(j)' /\ Merging(j)'
               /\ j.at = "idle"
         /\ job' = Carts!Then(r) => \E j \in AnyCartJob :
               /\ job' = [job EXCEPT ![r] = j] /\ AsksForPieces(j) /\ Loaded(j)' /\ Merging(j)'
               /\ j.at = "resolve"
<1>1. job[r].who \in Carts!Who /\ "cart" \in Carts!Resolver
  BY DEF CartInv, AnyCartJob, Carts!Resolver
<1>2. PICK j : j = [Carts!Idle EXCEPT !.at = "resolve", !.op = "cart", !.who = job[r].who]
  OBVIOUS
<1>3. j \in AnyCartJob /\ j.at = "resolve" /\ j.op = "cart" /\ j.lines = Carts!NoLines
  BY <1>1, <1>2, CartIdle DEF AnyCartJob
<1>4. AsksForPieces(j) /\ Loaded(j)' /\ Merging(j)'
  BY <1>3 DEF AsksForPieces, Loaded, Merging, Carts!Resolver
<1>5. AsksForPieces(Carts!Idle) /\ Loaded(Carts!Idle)' /\ Merging(Carts!Idle)'
  BY CartIdle DEF AsksForPieces, Loaded, Merging, Carts!Resolver
<1> QED BY <1>2, <1>3, <1>4, <1>5, CartIdle DEF Carts!Return, Carts!Then

(* The two carts hold what was asked for.                                  *)
Sums == \A v \in Variant : want[v] = cartItems["customer"][v].q + cartItems["session"][v].q

(* Calls, and the steps that read.                                         *)
LEMMA CartCalls ==
  ASSUME Carts!CartAssumption, CartInv, NEW r \in Req, NEW op \in Carts!Resolver, NEW who \in Carts!Who,
         NEW v \in Variant, NEW q \in 0 .. MaxStock, Carts!Call(r, op, who, v, q)
  PROVE  CartInv' /\ (OneRequest /\ OneCartInv => OneCartInv')
<1>1. PICK at : at = IF op = "mergeCart" THEN "guest" ELSE "resolve"
  OBVIOUS
<1>2. PICK j : j = [Carts!Idle EXCEPT !.at = at, !.op = op, !.who = who, !.v = v, !.q = q]
  OBVIOUS
<1>3. q \in Nat
  BY DEF Carts!CartAssumption
<1>4. /\ j \in AnyCartJob /\ j.at = at /\ j.op = op /\ j.who = who /\ j.q = q /\ j.lines = Carts!NoLines
  BY <1>1, <1>2, <1>3, CartIdle DEF AnyCartJob
<1>5. /\ job' = [job EXCEPT ![r] = j] /\ UNCHANGED <<carts, cartItems, ids, stock, sale, want>>
      /\ (op = "addToCart" => q > 0) /\ (op = "mergeCart" => who = "customer") /\ job[r].at = "idle"
  BY <1>1, <1>2 DEF Carts!Call
<1>6. AsksForPieces(j) /\ Loaded(j) /\ Merging(j)
  BY <1>1, <1>4, <1>5 DEF AsksForPieces, Loaded, Merging, Carts!Resolver
<1>7. Adds(job[r]) => Adds(j)
  BY <1>1, <1>4, <1>5 DEF Adds
<1> QED BY <1>4, <1>5, <1>6, <1>7, CartReads DEF OneCartInv

(* getCart finds the cart, or makes it next.                               *)
LEMMA CartResolves ==
  ASSUME Carts!CartAssumption, CartInv, NEW r \in Req, Carts!resolveCart(r)
  PROVE  CartInv' /\ (OneRequest /\ OneCartInv => OneCartInv')
<1>0. /\ job[r] \in AnyCartJob /\ AsksForPieces(job[r]) /\ job[r].at = "resolve"
      /\ UNCHANGED <<carts, cartItems, ids, stock, sale, want>>
  BY DEF CartInv, Carts!resolveCart
<1>1. CASE carts[job[r].who] = 0
  <2>1. PICK j : j = [job[r] EXCEPT !.at = "makeCart"]
    OBVIOUS
  <2>2. /\ j \in AnyCartJob /\ j.at = "makeCart" /\ j.op = job[r].op /\ j.who = job[r].who /\ j.q = job[r].q
        /\ j.lines = job[r].lines /\ j.guest = job[r].guest /\ j.from = job[r].from
    BY <1>0, <2>1 DEF AnyCartJob
  <2>3. job' = [job EXCEPT ![r] = j]
    BY <1>1, <2>1 DEF Carts!resolveCart, Carts!Goto
  <2>4. AsksForPieces(j)
    BY <1>0, <2>2 DEF AsksForPieces
  <2>5. Loaded(job[r]) /\ Merging(job[r]) /\ Adds(job[r]) => Loaded(j) /\ Merging(j) /\ Adds(j)
    BY <1>0, <2>2 DEF Loaded, Merging, Adds, Carts!Resolver
  <2> QED BY <1>0, <2>2, <2>3, <2>4, <2>5, CartReads DEF OneCartInv
<1>2. CASE carts[job[r].who] # 0
  <2>1. PICK j : j = [job[r] EXCEPT !.at = job[r].op, !.cart = carts[job[r].who], !.lines = cartItems[job[r].who],
                                    !.read = stock, !.status = sale]
    OBVIOUS
  <2>2. /\ job[r].op \in Carts!Resolver /\ job[r].who \in Carts!Who
        /\ carts[job[r].who] \in Nat /\ cartItems[job[r].who] \in WholeLines
        /\ stock \in [Variant -> Nat] /\ sale \in [Variant -> Carts!Status]
    BY <1>0 DEF CartInv, AnyCartJob
  <2>3. /\ j \in AnyCartJob /\ j.at = job[r].op /\ j.op = job[r].op /\ j.who = job[r].who /\ j.q = job[r].q
        /\ j.lines = cartItems[job[r].who] /\ j.guest = job[r].guest /\ j.from = job[r].from
        /\ j.cart = carts[job[r].who]
    BY <1>0, <2>1, <2>2 DEF AnyCartJob
  <2>4. job' = [job EXCEPT ![r] = j]
    BY <1>2, <2>1 DEF Carts!resolveCart, CartInv
  <2>5. AsksForPieces(j)
    BY <1>0, <2>2, <2>3 DEF AsksForPieces, Carts!Resolver
  <2>6. ASSUME Loaded(job[r]), Merging(job[r]), Adds(job[r]) PROVE Loaded(j) /\ Merging(j) /\ Adds(j)
    <3>1. Loaded(j)
      BY <1>2, <2>2, <2>3 DEF Loaded, Carts!Resolver
    <3>2. Merging(j)
      BY <1>0, <2>2, <2>3, <2>6 DEF Merging, Carts!Resolver
    <3>3. cartItems["session"] \in WholeLines
      BY DEF CartInv, Carts!Who
    <3>4. Adds(j)
      BY <1>0, <2>2, <2>3, <2>6, <3>3 DEF Adds, Merging, WholeLines
    <3> QED BY <3>1, <3>2, <3>4
  <2> QED BY <1>0, <2>3, <2>4, <2>5, <2>6, CartReads DEF OneCartInv
<1> QED BY <1>1, <1>2

(* The cart is made, by this request or by another one.                    *)
LEMMA CartIsMade ==
  ASSUME Carts!CartAssumption, CartInv, NEW r \in Req, Carts!makeCart(r)
  PROVE  CartInv' /\ (OneRequest /\ OneCartInv => OneCartInv')
<1>0. /\ job[r] \in AnyCartJob /\ AsksForPieces(job[r]) /\ job[r].at = "makeCart"
      /\ UNCHANGED <<cartItems, stock, sale, want>>
      /\ cartItems' \in [Carts!Who -> WholeLines] /\ want' \in [Variant -> Int] /\ ids \in Nat
      /\ carts \in [Carts!Who -> Nat] /\ job[r].who \in Carts!Who /\ job[r].op \in Carts!Resolver
  BY DEF CartInv, Carts!makeCart, AnyCartJob
<1>1. CASE carts[job[r].who] # 0 /\ Carts!Return(r) /\ UNCHANGED <<carts, ids>>
  <2>1. PICK j \in AnyCartJob : /\ job' = [job EXCEPT ![r] = j] /\ AsksForPieces(j)
                                /\ Loaded(j)' /\ Merging(j)' /\ j.at = "idle"
    BY <1>1, CartTail
  <2>2. OneCartInv => NoCartNoLines' /\ Adds(j)'
    BY <1>0, <1>1, <2>1 DEF OneCartInv, NoCartNoLines, Adds
  <2> QED BY <1>0, <1>1, <2>1, <2>2, CartGoesOn
<1>2. CASE /\ carts[job[r].who] = 0 /\ ids < MaxIds /\ ids' = ids + 1
           /\ carts' = [carts EXCEPT ![job[r].who] = ids + 1]
           /\ job' = [job EXCEPT ![r].at = job[r].op, ![r].cart = ids + 1]
  <2>0. PICK cid \in Nat : cid = ids + 1
    BY <1>0
  <2>1. PICK j : j = [job[r] EXCEPT !.at = job[r].op, !.cart = cid]
    OBVIOUS
  <2>2. /\ j \in AnyCartJob /\ j.at = job[r].op /\ j.op = job[r].op /\ j.who = job[r].who /\ j.q = job[r].q
        /\ j.lines = job[r].lines /\ j.guest = job[r].guest /\ j.from = job[r].from /\ j.cart = cid
    BY <1>0, <2>1 DEF AnyCartJob
  <2>3. job' = [job EXCEPT ![r] = j]
    BY <1>2, <2>0, <2>1 DEF CartInv
  <2>4. AsksForPieces(j)
    BY <1>0, <2>2 DEF AsksForPieces, Carts!Resolver
  <2>5. /\ carts' \in [Carts!Who -> Nat] /\ ids' \in Nat /\ carts'[job[r].who] = cid /\ cid # 0
        /\ \A w \in Carts!Who \ {job[r].who} : carts'[w] = carts[w]
    BY <1>0, <1>2, <2>0
  <2>6. ASSUME OneCartInv PROVE NoCartNoLines' /\ Loaded(j)' /\ Merging(j)' /\ Adds(j)'
    <3>1. Loaded(job[r]) /\ Merging(job[r]) /\ Adds(job[r]) /\ NoCartNoLines
      BY <2>6 DEF OneCartInv
    <3>2. NoCartNoLines'
      BY <1>0, <2>5, <3>1 DEF NoCartNoLines
    <3>3. cartItems[job[r].who] = Carts!NoLines /\ job[r].lines = Carts!NoLines
      BY <1>0, <1>2, <3>1 DEF NoCartNoLines, Loaded
    <3>4. Loaded(j)'
      BY <1>0, <2>2, <2>5, <3>3 DEF Loaded, Carts!Resolver
    <3>5. Merging(j)'
      BY <1>0, <2>2, <2>5, <3>1, <3>3 DEF Merging, Carts!Resolver, Carts!Who
    <3>6. cartItems["session"] \in WholeLines
      BY DEF CartInv, Carts!Who
    <3>7. Adds(j)'
      BY <1>0, <2>2, <3>1, <3>6 DEF Adds, Merging, WholeLines
    <3> QED BY <3>2, <3>4, <3>5, <3>7
  <2> QED BY <1>0, <2>2, <2>3, <2>4, <2>5, <2>6, CartGoesOn
<1> QED BY <1>1, <1>2 DEF Carts!makeCart

(* updateItem reads the line.                                              *)
LEMMA CartItemIsRead ==
  ASSUME Carts!CartAssumption, CartInv, NEW r \in Req, Carts!updateItem(r)
  PROVE  CartInv' /\ (OneRequest /\ OneCartInv => OneCartInv')
<1>0. /\ job[r] \in AnyCartJob /\ AsksForPieces(job[r]) /\ job[r].at = "updateCartItem"
      /\ UNCHANGED <<carts, cartItems, ids, stock, sale, want>>
  BY DEF CartInv, Carts!updateItem
<1>1. CASE Carts!Return(r)
  <2>1. PICK j \in AnyCartJob : /\ job' = [job EXCEPT ![r] = j] /\ AsksForPieces(j)
                                /\ Loaded(j)' /\ Merging(j)' /\ j.at = "idle"
    BY <1>1, CartTail
  <2>2. (Loaded(j)' <=> Loaded(j)) /\ (Merging(j)' <=> Merging(j)) /\ (Adds(job[r]) => Adds(j))
    BY <1>0, <2>1 DEF Loaded, Merging, Adds
  <2> QED BY <1>0, <2>1, <2>2, CartReads DEF OneCartInv
<1>2. CASE /\ cartItems[job[r].who][job[r].v].id # 0
           /\ job' = [job EXCEPT ![r].at = IF job[r].q = 0 THEN "removeCartItem" ELSE "saveItem",
                                 ![r].lines = cartItems[job[r].who], ![r].read = stock]
  <2>1. PICK at : at = IF job[r].q = 0 THEN "removeCartItem" ELSE "saveItem"
    OBVIOUS
  <2>2. PICK j : j = [job[r] EXCEPT !.at = at, !.lines = cartItems[job[r].who], !.read = stock]
    OBVIOUS
  <2>3. /\ job[r].who \in Carts!Who /\ cartItems[job[r].who] \in WholeLines /\ stock \in [Variant -> Nat]
        /\ job[r].q \in Nat
    BY <1>0 DEF CartInv, AnyCartJob
  <2>4. at \in {"removeCartItem", "saveItem"} /\ "removeCartItem" \in Carts!Resolver
    BY <2>1 DEF Carts!Resolver
  <2>5. /\ j \in AnyCartJob /\ j.at = at /\ j.op = job[r].op /\ j.who = job[r].who /\ j.q = job[r].q
        /\ j.v = job[r].v /\ j.cart = job[r].cart /\ j.lines = cartItems[job[r].who]
    BY <1>0, <2>2, <2>3, <2>4 DEF AnyCartJob
  <2>6. job' = [job EXCEPT ![r] = j]
    BY <1>2, <2>1, <2>2 DEF CartInv
  <2>7. AsksForPieces(j)
    BY <1>0, <1>2, <2>1, <2>3, <2>5 DEF AsksForPieces
  <2>8. Loaded(job[r]) /\ Merging(job[r]) /\ Adds(job[r]) => Loaded(j) /\ Merging(j) /\ Adds(j)
    BY <1>0, <2>4, <2>5 DEF Loaded, Merging, Adds, Carts!Resolver
  <2> QED BY <1>0, <2>5, <2>6, <2>7, <2>8, CartReads DEF OneCartInv
<1> QED BY <1>1, <1>2 DEF Carts!updateItem

(* mergeGuestCart reads the visitor's cart.                                *)
LEMMA GuestIsRead ==
  ASSUME Carts!CartAssumption, CartInv, NEW r \in Req, Carts!readGuest(r)
  PROVE  CartInv' /\ (OneRequest /\ OneCartInv => OneCartInv')
<1>0. /\ job[r] \in AnyCartJob /\ AsksForPieces(job[r]) /\ job[r].at = "guest"
      /\ UNCHANGED <<carts, cartItems, ids, stock, sale, want>>
  BY DEF CartInv, Carts!readGuest
<1>1. CASE job' = Carts!Then(r)
  <2>1. PICK j \in AnyCartJob : /\ job' = [job EXCEPT ![r] = j] /\ AsksForPieces(j)
                                /\ Loaded(j)' /\ Merging(j)' /\ j.at = "resolve"
    BY <1>1, CartTail
  <2>2. (Loaded(j)' <=> Loaded(j)) /\ (Merging(j)' <=> Merging(j)) /\ (Adds(job[r]) => Adds(j))
    BY <1>0, <2>1 DEF Loaded, Merging, Adds
  <2> QED BY <1>0, <2>1, <2>2, CartReads DEF OneCartInv
<1>2. CASE job' = [job EXCEPT ![r].at = "resolve", ![r].guest = carts["session"], ![r].from = cartItems["session"]]
  <2>1. carts["session"] \in Nat /\ cartItems["session"] \in WholeLines
    BY DEF CartInv, Carts!Who
  <2>2. PICK j : j = [job[r] EXCEPT !.at = "resolve", !.guest = carts["session"], !.from = cartItems["session"]]
    OBVIOUS
  <2>3. /\ j \in AnyCartJob /\ j.at = "resolve" /\ j.op = job[r].op /\ j.who = job[r].who /\ j.q = job[r].q
        /\ j.guest = carts["session"] /\ j.from = cartItems["session"] /\ j.lines = job[r].lines
    BY <1>0, <2>1, <2>2 DEF AnyCartJob
  <2>4. job' = [job EXCEPT ![r] = j]
    BY <1>2, <2>2 DEF CartInv
  <2>5. AsksForPieces(j)
    BY <1>0, <2>3 DEF AsksForPieces
  <2>6. Loaded(job[r]) /\ Merging(job[r]) /\ Adds(job[r]) => Loaded(j) /\ Merging(j) /\ Adds(j)
    BY <1>0, <2>3 DEF Loaded, Merging, Adds, Carts!Resolver
  <2> QED BY <1>0, <2>3, <2>4, <2>5, <2>6, CartReads DEF OneCartInv
<1> QED BY <1>1, <1>2 DEF Carts!readGuest

(* The answer, and a process that dies.                                    *)
LEMMA CartAnswers ==
  ASSUME Carts!CartAssumption, CartInv, NEW r \in Req, Carts!Answer(r) \/ Carts!Crash(r)
  PROVE  CartInv' /\ ("crash" \notin Shop /\ OneRequest /\ OneCartInv => OneCartInv')
<1>0. Carts!Return(r) /\ UNCHANGED <<carts, cartItems, ids, stock, sale, want>>
  BY DEF Carts!Answer, Carts!Crash
<1>1. PICK j \in AnyCartJob : /\ job' = [job EXCEPT ![r] = j] /\ AsksForPieces(j)
                              /\ Loaded(j)' /\ Merging(j)' /\ j.at = "idle"
  BY <1>0, CartTail
<1>2. (Loaded(j)' <=> Loaded(j)) /\ (Merging(j)' <=> Merging(j))
  BY <1>0 DEF Loaded, Merging
<1>3. "crash" \notin Shop /\ Adds(job[r]) => Adds(j)
  BY <1>1 DEF Carts!Answer, Carts!Crash, Adds
<1> QED BY <1>0, <1>1, <1>2, <1>3, CartReads DEF OneCartInv

(* Sales elsewhere, and what is withdrawn from sale.                       *)
LEMMA ShopGoesOn ==
  ASSUME Carts!CartAssumption, CartInv, NEW v \in Variant,
         (\E n \in 0 .. MaxStock : Carts!Sell(v, n)) \/ (\E s \in Carts!Status : Carts!Withdraw(v, s))
  PROVE  CartInv' /\ (OneCartInv => OneCartInv')
<1>1. /\ UNCHANGED <<carts, cartItems, ids, want, job>>
      /\ stock' \in [Variant -> Nat] /\ sale' \in [Variant -> Carts!Status]
  BY DEF Carts!Sell, Carts!Withdraw, CartInv, Carts!CartAssumption
<1> QED BY <1>1 DEF CartInv, OneCartInv, NoCartNoLines, Loaded, Merging, Adds, Carts!NothingLost, Carts!AtRest,
       AsksForPieces

(* A line that is written and counted.                                     *)
LEMMA LineIsCounted ==
  ASSUME CartInv, NEW w \in Carts!Who, NEW v \in Variant, NEW id \in Nat, NEW q \in Nat, id = 0 <=> q = 0,
         LineBecomes(w, v, id, q),
         want' = [want EXCEPT ![v] = want[v] + (q - cartItems[w][v].q)], Sums
  PROVE  Sums'
<1>0. /\ want \in [Variant -> Int] /\ cartItems \in [Carts!Who -> WholeLines]
      /\ \A x \in Carts!Who, u \in Variant : cartItems[x][u].q \in Nat
  BY DEF CartInv, WholeLines
<1>1. \A x \in Carts!Who, u \in Variant :
         cartItems'[x][u] = IF x = w /\ u = v THEN [id |-> id, q |-> q] ELSE cartItems[x][u]
  BY <1>0, LineWritten
<1>2. "session" \in Carts!Who /\ "customer" \in Carts!Who /\ (w = "session" \/ w = "customer")
  BY DEF Carts!Who
<1> SUFFICES ASSUME NEW u \in Variant
             PROVE  want'[u] = cartItems'["customer"][u].q + cartItems'["session"][u].q
  BY DEF Sums
<1>3. CASE u # v
  BY <1>0, <1>1, <1>2, <1>3 DEF Sums
<1>4. CASE u = v
  <2>1. want'[v] = want[v] + (q - cartItems[w][v].q)
    BY <1>0
  <2>2. want[v] = cartItems["customer"][v].q + cartItems["session"][v].q
    BY DEF Sums
  <2>3. cartItems["customer"][v].q \in Nat /\ cartItems["session"][v].q \in Nat
    BY <1>0, <1>2
  <2>4. CASE w = "session"
    <3>1. cartItems'["session"][v].q = q /\ cartItems'["customer"][v].q = cartItems["customer"][v].q
      BY <1>1, <1>2, <2>4
    <3> QED BY <1>4, <2>1, <2>2, <2>3, <2>4, <3>1
  <2>5. CASE w = "customer"
    <3>1. cartItems'["customer"][v].q = q /\ cartItems'["session"][v].q = cartItems["session"][v].q
      BY <1>1, <1>2, <2>5
    <3> QED BY <1>4, <2>1, <2>2, <2>3, <2>5, <3>1
  <2> QED BY <1>2, <2>4, <2>5
<1> QED BY <1>3, <1>4

(* A request that writes a line and is done, or gets the cart again.       *)
LEMMA LineChanges ==
  ASSUME Carts!CartAssumption, CartInv, NEW r \in Req, NEW w \in Carts!Who, NEW v \in Variant, NEW id \in Nat,
         NEW q \in Nat, id = 0 <=> q = 0, LineBecomes(w, v, id, q),
         want' \in [Variant -> Int], ids' \in Nat, UNCHANGED <<carts, stock, sale>>, job' = Carts!Then(r)
  PROVE  /\ CartInv'
         /\ OneRequest /\ OneCartInv /\ job[r].at # "mergeCart" /\ carts[w] # 0
               /\ want' = [want EXCEPT ![v] = want[v] + (q - cartItems[w][v].q)]
            => OneCartInv'
<1>1. PICK j \in AnyCartJob : /\ job' = [job EXCEPT ![r] = j] /\ AsksForPieces(j)
                              /\ Loaded(j)' /\ Merging(j)' /\ j.at = "resolve"
  BY CartTail
<1>2. cartItems' \in [Carts!Who -> WholeLines] /\ \A x \in Carts!Who : x # w => cartItems'[x] = cartItems[x]
  BY LineWritten DEF CartInv
<1>3. carts' \in [Carts!Who -> Nat]
  BY DEF CartInv
<1>4. ASSUME OneCartInv, job[r].at # "mergeCart", carts[w] # 0,
             want' = [want EXCEPT ![v] = want[v] + (q - cartItems[w][v].q)]
      PROVE  NoCartNoLines' /\ Adds(j)'
  <2>1. NoCartNoLines'
    BY <1>2, <1>4 DEF OneCartInv, NoCartNoLines
  <2>2. Sums
    BY <1>4 DEF OneCartInv, Adds, Sums
  <2>3. Sums'
    BY <1>4, <2>2, LineIsCounted
  <2>4. Adds(j)'
    BY <1>1, <2>3 DEF Adds, Sums
  <2> QED BY <2>1, <2>4
<1> QED BY <1>1, <1>2, <1>3, <1>4, CartGoesOn

(* A request that ends, or gets the cart again, without a change.          *)
LEMMA CartRefuses ==
  ASSUME Carts!CartAssumption, CartInv, NEW r \in Req, Carts!Return(r) \/ job' = Carts!Then(r),
         UNCHANGED <<carts, cartItems, ids, stock, sale, want>>
  PROVE  CartInv' /\ (OneRequest /\ OneCartInv /\ job[r].at # "mergeCart" => OneCartInv')
<1>1. PICK j \in AnyCartJob : /\ job' = [job EXCEPT ![r] = j] /\ AsksForPieces(j)
                              /\ Loaded(j)' /\ Merging(j)' /\ j.at # "mergeCart"
  BY CartTail
<1>2. (Loaded(j)' <=> Loaded(j)) /\ (Merging(j)' <=> Merging(j))
  BY DEF Loaded, Merging
<1>3. job[r].at # "mergeCart" /\ Adds(job[r]) => Adds(j)
  BY <1>1 DEF Adds
<1> QED BY <1>1, <1>2, <1>3, CartReads DEF OneCartInv

(* addItem: the line that was read, with more in it, or a new one.         *)
LEMMA CartIsAddedTo ==
  ASSUME Carts!CartAssumption, CartInv, NEW r \in Req, Carts!addItem(r)
  PROVE  CartInv' /\ (OneRequest /\ OneCartInv => OneCartInv')
<1> DEFINE w == job[r].who
           v == job[r].v
           existing == job[r].lines[job[r].v]
<1>0. /\ job[r] \in AnyCartJob /\ job[r].at = "addToCart" /\ job[r].q > 0 /\ UNCHANGED <<carts, stock, sale>>
      /\ want \in [Variant -> Int] /\ ids \in Nat
  BY DEF CartInv, Carts!addItem, AsksForPieces
<1>1. w \in Carts!Who /\ v \in Variant /\ job[r].q \in Nat /\ job[r].lines \in WholeLines
  BY <1>0 DEF AnyCartJob
<1>2. existing.id \in Nat /\ existing.q \in Nat /\ (existing.id = 0 <=> existing.q = 0)
  BY <1>1 DEF WholeLines
<1>3. OneCartInv => existing = cartItems[w][v] /\ carts[w] # 0
  BY <1>0, <1>1 DEF OneCartInv, Loaded, Carts!Resolver
<1>4. CASE Carts!Return(r) /\ UNCHANGED <<cartItems, ids, want>>
  BY <1>0, <1>4, CartRefuses
<1>5. ASSUME NEW id \in Nat \ {0}, cartItems' = [cartItems EXCEPT ![w][v] = [id |-> id, q |-> existing.q + job[r].q]],
             want' = [want EXCEPT ![v] = want[v] + job[r].q], job' = Carts!Then(r), ids' \in Nat
      PROVE  CartInv' /\ (OneRequest /\ OneCartInv => OneCartInv')
  <2>1. PICK q \in Nat \ {0} : q = existing.q + job[r].q
    BY <1>0, <1>1, <1>2
  <2>2. want' \in [Variant -> Int]
    BY <1>0, <1>1, <1>5
  <2>3. OneCartInv => want' = [want EXCEPT ![v] = want[v] + (q - cartItems[w][v].q)]
    <3>1. OneCartInv => q - cartItems[w][v].q = job[r].q
      BY <1>1, <1>2, <1>3, <2>1
    <3> QED BY <1>5, <3>1
  <2>4. LineBecomes(w, v, id, q)
    BY <1>5, <2>1 DEF LineBecomes
  <2> HIDE DEF w, v, existing
  <2>5. w \in Carts!Who /\ v \in Variant /\ id \in Nat /\ (id = 0 <=> q = 0)
    BY <1>1
  <2>6. /\ CartInv'
        /\ OneRequest /\ OneCartInv /\ job[r].at # "mergeCart" /\ carts[w] # 0
              /\ want' = [want EXCEPT ![v] = want[v] + (q - cartItems[w][v].q)]
           => OneCartInv'
    BY <1>0, <1>5, <2>2, <2>4, <2>5, LineChanges
  <2>7. ASSUME OneRequest, OneCartInv PROVE OneCartInv'
    <3>1. carts[w] # 0 /\ want' = [want EXCEPT ![v] = want[v] + (q - cartItems[w][v].q)] /\ job[r].at # "mergeCart"
      BY <1>0, <1>3, <2>3, <2>7
    <3> QED BY <2>6, <2>7, <3>1
  <2> QED BY <2>6, <2>7
<1>6. CASE /\ existing.id # 0 /\ Carts!Save(w, v, existing.id, existing.q + job[r].q)
           /\ want' = [want EXCEPT ![v] = want[v] + job[r].q] /\ job' = Carts!Then(r)
  BY <1>0, <1>2, <1>5, <1>6 DEF Carts!Save
<1>7. CASE /\ existing.id = 0 /\ Carts!Insert(w, v, job[r].q)
           /\ want' = [want EXCEPT ![v] = want[v] + job[r].q] /\ job' = Carts!Then(r)
  <2>1. existing.q + job[r].q = job[r].q
    BY <1>1, <1>2, <1>7
  <2>2. ids + 1 \in Nat \ {0} /\ ids' \in Nat
    BY <1>0, <1>7 DEF Carts!Insert
  <2>3. cartItems' = [cartItems EXCEPT ![w][v] = [id |-> ids + 1, q |-> existing.q + job[r].q]]
    BY <1>7, <2>1 DEF Carts!Insert
  <2> QED BY <1>5, <1>7, <2>2, <2>3
<1> QED BY <1>4, <1>6, <1>7 DEF Carts!addItem

(* updateItem saves the line it has read.                                  *)
LEMMA CartItemIsSaved ==
  ASSUME Carts!CartAssumption, CartInv, NEW r \in Req, Carts!saveItem(r)
  PROVE  CartInv' /\ (OneRequest /\ OneCartInv => OneCartInv')
<1> DEFINE w == job[r].who
           v == job[r].v
           item == job[r].lines[job[r].v]
           capped == IF job[r].read[job[r].v] > 0 /\ job[r].q > job[r].read[job[r].v]
                     THEN job[r].read[job[r].v] ELSE job[r].q
<1>0. /\ job[r] \in AnyCartJob /\ job[r].at = "saveItem" /\ job[r].q > 0 /\ UNCHANGED <<carts, stock, sale>>
      /\ want \in [Variant -> Int] /\ item.id # 0 /\ ids \in Nat
  BY DEF CartInv, Carts!saveItem, AsksForPieces
<1>1. /\ w \in Carts!Who /\ v \in Variant /\ job[r].q \in Nat /\ job[r].lines \in WholeLines
      /\ job[r].read[v] \in Nat
  BY <1>0 DEF AnyCartJob
<1>2. item.id \in Nat /\ item.q \in Nat /\ capped \in Nat /\ capped # 0
  BY <1>0, <1>1 DEF WholeLines
<1>3. OneCartInv => item = cartItems[w][v] /\ carts[w] # 0
  BY <1>0, <1>1 DEF OneCartInv, Loaded, Carts!Resolver
<1>4. CASE Carts!Return(r) /\ UNCHANGED <<cartItems, ids, want>>
  BY <1>0, <1>4, CartRefuses
<1>5. CASE /\ cartItems' = [cartItems EXCEPT ![w][v] = [id |-> item.id, q |-> capped]] /\ UNCHANGED ids
           /\ want' = [want EXCEPT ![v] = @ + capped - item.q] /\ job' = Carts!Then(r)
  <2>1. LineBecomes(w, v, item.id, capped)
    BY <1>5 DEF LineBecomes
  <2>2. want' \in [Variant -> Int] /\ ids' \in Nat
    BY <1>0, <1>1, <1>2, <1>5
  <2>3. OneCartInv => want' = [want EXCEPT ![v] = want[v] + (capped - cartItems[w][v].q)]
    <3>1. want[v] + capped - item.q = want[v] + (capped - item.q)
      BY <1>0, <1>1, <1>2
    <3> QED BY <1>3, <1>5, <3>1
  <2>4. item.id = 0 <=> capped = 0
    BY <1>0, <1>2
  <2>5. job' = Carts!Then(r)
    BY <1>5
  <2> HIDE DEF w, v, item, capped
  <2>6. CartInv'
    BY <1>0, <1>1, <1>2, <2>1, <2>2, <2>4, <2>5, LineChanges
  <2>7. ASSUME OneRequest, OneCartInv PROVE OneCartInv'
    <3>1. carts[w] # 0 /\ want' = [want EXCEPT ![v] = want[v] + (capped - cartItems[w][v].q)] /\ job[r].at # "mergeCart"
      BY <1>0, <1>3, <2>3, <2>7
    <3> QED BY <1>0, <1>1, <1>2, <2>1, <2>2, <2>4, <2>5, <2>7, <3>1, LineChanges
  <2> QED BY <2>6, <2>7
<1> QED BY <1>4, <1>5 DEF Carts!saveItem, Carts!Save

(* The line that the request names goes, with what it held.                *)
LEMMA CartItemIsRemoved ==
  ASSUME Carts!CartAssumption, CartInv, NEW r \in Req, Carts!removeItem(r)
  PROVE  CartInv' /\ (OneRequest /\ OneCartInv => OneCartInv')
<1> DEFINE w == job[r].who
           v == job[r].v
<1>0. /\ job[r] \in AnyCartJob /\ job[r].at = "removeCartItem" /\ UNCHANGED <<carts, ids, stock, sale>>
      /\ want \in [Variant -> Int] /\ job' = Carts!Then(r) /\ ids \in Nat
  BY DEF CartInv, Carts!removeItem
<1>1. w \in Carts!Who /\ v \in Variant
  BY <1>0 DEF AnyCartJob
<1>2. cartItems[w][v].q \in Nat
  BY <1>1 DEF CartInv, WholeLines
<1>3. OneCartInv => carts[w] # 0
  BY <1>0, <1>1 DEF OneCartInv, Loaded, Carts!Resolver
<1>4. CASE UNCHANGED <<cartItems, want>>
  BY <1>0, <1>4, CartRefuses
<1>5. CASE /\ cartItems' = [cartItems EXCEPT ![w][v] = Carts!NoItem]
           /\ want' = [want EXCEPT ![v] = @ - cartItems[w][v].q]
  <2>1. LineBecomes(w, v, 0, 0)
    BY <1>5 DEF LineBecomes, Carts!NoItem
  <2>2. want' \in [Variant -> Int] /\ ids' \in Nat
    BY <1>0, <1>1, <1>2, <1>5
  <2>3. want' = [want EXCEPT ![v] = want[v] + (0 - cartItems[w][v].q)]
    <3>1. want[v] - cartItems[w][v].q = want[v] + (0 - cartItems[w][v].q)
      BY <1>0, <1>1, <1>2
    <3> QED BY <1>5, <3>1
  <2> HIDE DEF w, v
  <2>4. CartInv'
    BY <1>0, <1>1, <2>1, <2>2, LineChanges
  <2>5. ASSUME OneRequest, OneCartInv PROVE OneCartInv'
    <3>1. carts[w] # 0
      BY <1>3, <2>5
    <3> QED BY <1>0, <1>1, <2>1, <2>2, <2>3, <2>5, <3>1, LineChanges
  <2> QED BY <2>4, <2>5
<1> QED BY <1>4, <1>5 DEF Carts!removeItem

(* getCart lowers a line to the stock.                                     *)
LEMMA LineIsCapped ==
  ASSUME Carts!CartAssumption, CartInv, NEW r \in Req, NEW v \in Variant, Carts!capQuantityToStock(r, v)
  PROVE  CartInv' /\ (OneRequest /\ OneCartInv => OneCartInv')
<1> DEFINE w == job[r].who
           item == job[r].lines[v]
           n == job[r].read[v]
<1>0. /\ job[r] \in AnyCartJob /\ job[r].at = "cap" /\ UNCHANGED <<carts, stock, sale>>
      /\ want \in [Variant -> Int] /\ item.id # 0 /\ n > 0 /\ ids \in Nat
      /\ carts \in [Carts!Who -> Nat] /\ cartItems \in [Carts!Who -> WholeLines]
  BY DEF CartInv, Carts!capQuantityToStock, Carts!Capped, Carts!Present
<1>1. w \in Carts!Who /\ job[r].lines \in WholeLines /\ n \in Nat
  BY <1>0 DEF AnyCartJob
<1>2. item.id \in Nat /\ item.q \in Nat /\ item = [id |-> item.id, q |-> item.q] /\ n # 0
  BY <1>0, <1>1 DEF WholeLines
<1>4. CASE Carts!Return(r) /\ UNCHANGED <<cartItems, ids, want>>
  BY <1>0, <1>4, CartRefuses
<1>5. CASE /\ cartItems' = [cartItems EXCEPT ![w][v] = [id |-> item.id, q |-> n]] /\ UNCHANGED ids
           /\ want' = [want EXCEPT ![v] = @ + n - item.q]
           /\ job' = [job EXCEPT ![r].lines[v].q = n]
  <2>1. LineBecomes(w, v, item.id, n)
    BY <1>5 DEF LineBecomes
  <2>2. want' \in [Variant -> Int] /\ ids' \in Nat /\ carts' \in [Carts!Who -> Nat]
    BY <1>0, <1>1, <1>2, <1>5
  <2>3. PICK lines : lines = [job[r].lines EXCEPT ![v] = [id |-> item.id, q |-> n]]
    OBVIOUS
  <2>4. lines \in WholeLines
    BY <1>0, <1>1, <1>2, <2>3 DEF WholeLines
  <2>5. PICK j : j = [job[r] EXCEPT !.lines = lines]
    OBVIOUS
  <2>6. /\ j \in AnyCartJob /\ j.at = "cap" /\ j.op = job[r].op /\ j.who = w /\ j.q = job[r].q
        /\ j.cart = job[r].cart /\ j.lines = lines /\ j.status = job[r].status
    BY <1>0, <2>4, <2>5 DEF AnyCartJob
  <2>7. job' = [job EXCEPT ![r] = j]
    <3>1. [item EXCEPT !.q = n] = [id |-> item.id, q |-> n]
      BY <1>2
    <3> QED BY <1>5, <2>3, <2>5, <3>1 DEF CartInv
  <2>8. AsksForPieces(j)
    BY <1>0, <2>6 DEF AsksForPieces, CartInv
  <2>9. /\ cartItems' \in [Carts!Who -> WholeLines]
        /\ \A u \in Variant : cartItems'[w][u] = IF u = v THEN [id |-> item.id, q |-> n] ELSE cartItems[w][u]
        /\ \A x \in Carts!Who : x # w => cartItems'[x] = cartItems[x]
    <3>1. item.id = 0 <=> n = 0
      BY <1>0, <1>2
    <3> HIDE DEF w, item, n
    <3> QED BY <1>0, <1>1, <1>2, <2>1, <3>1, LineWritten
  <2>10. ASSUME OneCartInv PROVE NoCartNoLines' /\ Loaded(j)' /\ Merging(j)' /\ Adds(j)'
    <3>1. Loaded(job[r]) /\ Merging(job[r]) /\ Adds(job[r]) /\ NoCartNoLines
      BY <2>10 DEF OneCartInv
    <3>2. job[r].lines = cartItems[w] /\ job[r].cart # 0 /\ carts[w] = job[r].cart
      BY <1>0, <3>1 DEF Loaded
    <3>3. NoCartNoLines'
      BY <1>0, <2>9, <3>1, <3>2 DEF NoCartNoLines
    <3>4. lines = cartItems'[w]
      <4>1. /\ lines \in [Variant -> [id : Nat, q : Nat]]
            /\ cartItems'[w] \in [Variant -> [id : Nat, q : Nat]]
            /\ job[r].lines \in [Variant -> [id : Nat, q : Nat]]
        BY <1>1, <2>4, <2>9 DEF WholeLines
      <4>2. \A u \in Variant : lines[u] = IF u = v THEN [id |-> item.id, q |-> n] ELSE job[r].lines[u]
        BY <2>3, <4>1
      <4>3. \A u \in Variant : lines[u] = cartItems'[w][u]
        BY <2>9, <3>2, <4>2
      <4> QED BY <4>1, <4>3
    <3>5. Loaded(j)'
      <4>1. \A u \in Variant : lines[u].id = job[r].lines[u].id
        BY <1>1, <2>3 DEF WholeLines
      <4>2. \A u \in Variant : lines[u].id # 0 => j.status[u] = "ok"
        BY <1>0, <2>6, <3>1, <4>1 DEF Loaded
      <4>3. carts'[w] = carts[w]
        BY <1>0
      <4> QED BY <2>6, <3>2, <3>4, <4>2, <4>3 DEF Loaded, Carts!Resolver
    <3>6. Merging(j)'
      BY <1>0, <2>6, <3>1 DEF Merging
    <3>7. Sums
      BY <1>0, <3>1 DEF Adds, Sums
    <3>8. want' = [want EXCEPT ![v] = want[v] + (n - cartItems[w][v].q)]
      <4>1. want[v] + n - item.q = want[v] + (n - item.q)
        BY <1>0, <1>1, <1>2
      <4> QED BY <1>5, <3>2, <4>1
    <3>9. Sums'
      <4>1. item.id = 0 <=> n = 0
        BY <1>0, <1>2
      <4> HIDE DEF w, item, n
      <4> QED BY <1>1, <1>2, <2>1, <3>7, <3>8, <4>1, LineIsCounted
    <3>10. Adds(j)'
      BY <2>6, <3>9 DEF Adds, Sums
    <3> QED BY <3>3, <3>5, <3>6, <3>10
  <2> QED BY <1>0, <2>2, <2>6, <2>7, <2>8, <2>9, <2>10, CartGoesOn
<1> QED BY <1>4, <1>5 DEF Carts!capQuantityToStock, Carts!Save

(* A line of the visitor's cart moves: it is in both carts, and counts in  *)
(* the customer's.                                                         *)
LEMMA LineIsMerged ==
  ASSUME Carts!CartAssumption, CartInv, NEW r \in Req, NEW v \in Variant, Carts!mergeLine(r, v)
  PROVE  CartInv' /\ (OneRequest /\ OneCartInv => OneCartInv')
<1> DEFINE w == job[r].who
           old == job[r].lines[v]
           more == job[r].from[v]
<1>0. /\ job[r] \in AnyCartJob /\ job[r].at = "mergeCart" /\ UNCHANGED <<carts, stock, sale, want>>
      /\ want \in [Variant -> Int] /\ more.id # 0 /\ ids \in Nat
      /\ carts \in [Carts!Who -> Nat] /\ cartItems \in [Carts!Who -> WholeLines]
  BY DEF CartInv, Carts!mergeLine, Carts!Present
<1>1. w \in Carts!Who /\ job[r].lines \in WholeLines /\ job[r].from \in WholeLines
  BY <1>0 DEF AnyCartJob
<1>2. /\ old.id \in Nat /\ old.q \in Nat /\ (old.id = 0 <=> old.q = 0)
      /\ more.q \in Nat /\ more.q # 0
  BY <1>0, <1>1 DEF WholeLines
<1>3. ASSUME OneCartInv
      PROVE  /\ w = "customer" /\ job[r].cart # 0 /\ carts[w] = job[r].cart
             /\ more = cartItems["session"][v] /\ old = cartItems["customer"][v]
             /\ Loaded(job[r]) /\ Merging(job[r]) /\ Adds(job[r]) /\ NoCartNoLines
  BY <1>0, <1>3 DEF OneCartInv, Loaded, Merging, Carts!Resolver
<1>4. CASE /\ IF old.id # 0 THEN ~Carts!Savable(w, job[r].cart, v, old.id)
                            ELSE ~Carts!Insertable(w, job[r].cart, v)
           /\ Carts!Return(r) /\ UNCHANGED <<cartItems, ids>>
  <2>1. CartInv'
    BY <1>0, <1>4, CartRefuses
  <2>2. ~OneCartInv
    BY <1>3, <1>4 DEF Carts!Savable, Carts!Insertable
  <2> QED BY <2>1, <2>2
<1>5. ASSUME NEW id \in Nat \ {0}, cartItems' = [cartItems EXCEPT ![w][v] = [id |-> id, q |-> old.q + more.q]],
             job' = [job EXCEPT ![r].from[v] = Carts!NoItem], ids' \in Nat
      PROVE  CartInv' /\ (OneRequest /\ OneCartInv => OneCartInv')
  <2>1. PICK n \in Nat \ {0} : n = old.q + more.q
    BY <1>2
  <2>2. LineBecomes(w, v, id, n)
    BY <1>5, <2>1 DEF LineBecomes
  <2>3. PICK from : from = [job[r].from EXCEPT ![v] = [id |-> 0, q |-> 0]]
    OBVIOUS
  <2>4. from \in WholeLines /\ \A u \in Variant : from[u] = IF u = v THEN [id |-> 0, q |-> 0] ELSE job[r].from[u]
    BY <1>1, <2>3 DEF WholeLines
  <2>5. PICK j : j = [job[r] EXCEPT !.from = from]
    OBVIOUS
  <2>6. /\ j \in AnyCartJob /\ j.at = "mergeCart" /\ j.op = job[r].op /\ j.who = w /\ j.q = job[r].q
        /\ j.cart = job[r].cart /\ j.lines = job[r].lines /\ j.guest = job[r].guest /\ j.from = from
    BY <1>0, <2>4, <2>5 DEF AnyCartJob
  <2>7. job' = [job EXCEPT ![r] = j]
    BY <1>5, <2>3, <2>5 DEF CartInv, Carts!NoItem
  <2>8. AsksForPieces(j)
    BY <1>0, <2>6 DEF AsksForPieces, CartInv
  <2>9. /\ cartItems' \in [Carts!Who -> WholeLines]
        /\ \A u \in Variant : cartItems'[w][u] = IF u = v THEN [id |-> id, q |-> n] ELSE cartItems[w][u]
        /\ \A x \in Carts!Who : x # w => cartItems'[x] = cartItems[x]
    <3>1. id \in Nat /\ n \in Nat /\ (id = 0 <=> n = 0)
      OBVIOUS
    <3> HIDE DEF w, old, more
    <3> QED BY <1>0, <1>1, <2>2, <3>1, LineWritten
  <2>10. ASSUME OneCartInv PROVE NoCartNoLines' /\ Loaded(j)' /\ Merging(j)' /\ Adds(j)'
    <3>1. "session" \in Carts!Who /\ "customer" \in Carts!Who /\ cartItems'["session"] = cartItems["session"]
      BY <1>3, <2>9, <2>10 DEF Carts!Who
    <3>2. NoCartNoLines'
      BY <1>0, <1>3, <2>9, <2>10 DEF NoCartNoLines
    <3>3. Loaded(j)'
      BY <1>0, <1>3, <2>6, <2>10 DEF Loaded, Carts!Resolver
    <3>4. \A u \in Variant : j.from[u].id # 0 =>
             j.from[u] = cartItems'["session"][u] /\ j.lines[u] = cartItems'["customer"][u]
      BY <1>0, <1>3, <2>4, <2>6, <2>9, <2>10, <3>1 DEF Merging
    <3>5. Merging(j)'
      BY <1>0, <1>3, <2>6, <2>10, <3>4 DEF Merging
    <3>6. Adds(j)'
      <4> SUFFICES ASSUME NEW u \in Variant
                   PROVE  want[u] = cartItems'["customer"][u].q
                                      + (IF j.from[u].id = 0 THEN 0 ELSE cartItems["session"][u].q)
        BY <1>0, <2>6, <3>1 DEF Adds
      <4>1. want[u] = cartItems["customer"][u].q
                         + (IF job[r].from[u].id = 0 THEN 0 ELSE cartItems["session"][u].q)
        BY <1>0, <1>3, <2>10 DEF Adds
      <4>2. CASE u # v
        BY <1>3, <2>4, <2>6, <2>9, <2>10, <4>1, <4>2
      <4>3. CASE u = v
        <5>1. want[v] = old.q + more.q
          BY <1>0, <1>3, <2>10, <4>1, <4>3
        <5>2. cartItems'["customer"][v].q = n /\ j.from[v].id = 0
          BY <1>3, <2>4, <2>6, <2>9, <2>10
        <5> QED BY <2>1, <4>3, <5>1, <5>2
      <4> QED BY <4>2, <4>3
    <3> QED BY <3>2, <3>3, <3>5, <3>6
  <2>11. carts' \in [Carts!Who -> Nat] /\ want' \in [Variant -> Int]
    BY <1>0
  <2> QED BY <1>0, <1>5, <2>6, <2>7, <2>8, <2>9, <2>10, <2>11, CartGoesOn
<1>6. CASE /\ old.id # 0 /\ Carts!Save(w, v, old.id, old.q + more.q)
           /\ job' = [job EXCEPT ![r].from[v] = Carts!NoItem]
  BY <1>0, <1>2, <1>5, <1>6 DEF Carts!Save
<1>7. CASE /\ old.id = 0 /\ Carts!Insert(w, v, more.q)
           /\ job' = [job EXCEPT ![r].from[v] = Carts!NoItem]
  <2>1. old.q + more.q = more.q
    BY <1>2, <1>7
  <2>2. ids + 1 \in Nat \ {0} /\ ids' \in Nat
    BY <1>0, <1>7 DEF Carts!Insert
  <2>3. cartItems' = [cartItems EXCEPT ![w][v] = [id |-> ids + 1, q |-> old.q + more.q]]
    BY <1>7, <2>1 DEF Carts!Insert
  <2> QED BY <1>5, <1>7, <2>2, <2>3
<1> QED BY <1>4, <1>6, <1>7 DEF Carts!mergeLine

(* The visitor's cart goes when all of its lines were moved.               *)
LEMMA GuestCartIsDeleted ==
  ASSUME Carts!CartAssumption, CartInv, NEW r \in Req, Carts!deleteGuestCart(r)
  PROVE  CartInv' /\ (OneRequest /\ OneCartInv => OneCartInv')
<1>0. /\ job[r] \in AnyCartJob /\ job[r].at = "mergeCart" /\ UNCHANGED <<ids, stock, sale, want>>
      /\ job' = Carts!Then(r) /\ \A v \in Variant : job[r].from[v].id = 0
      /\ want' \in [Variant -> Int] /\ ids' \in Nat
      /\ carts \in [Carts!Who -> Nat] /\ cartItems \in [Carts!Who -> WholeLines]
      /\ "session" \in Carts!Who /\ "customer" \in Carts!Who
  BY DEF CartInv, Carts!deleteGuestCart, Carts!Present, Carts!Who
<1>1. PICK j \in AnyCartJob : /\ job' = [job EXCEPT ![r] = j] /\ AsksForPieces(j)
                              /\ Loaded(j)' /\ Merging(j)' /\ j.at = "resolve"
  BY <1>0, CartTail
<1>2. Carts!NoLines \in WholeLines /\ \A v \in Variant : Carts!NoLines[v].q = 0
  BY CartIdle DEF Carts!NoLines, Carts!NoItem
<1>3. carts' \in [Carts!Who -> Nat] /\ cartItems' \in [Carts!Who -> WholeLines]
  <2>1. CASE UNCHANGED <<carts, cartItems>>
    BY <1>0, <2>1
  <2>2. CASE /\ carts' = [carts EXCEPT !["session"] = 0]
             /\ cartItems' = [cartItems EXCEPT !["session"] = Carts!NoLines]
    BY <1>0, <1>2, <2>2
  <2> QED BY <2>1, <2>2 DEF Carts!deleteGuestCart
<1>4. ASSUME OneCartInv PROVE NoCartNoLines' /\ Adds(j)'
  <2>1. Merging(job[r]) /\ Adds(job[r]) /\ NoCartNoLines
    BY <1>4 DEF OneCartInv
  <2>2. /\ carts' = [carts EXCEPT !["session"] = 0]
        /\ cartItems' = [cartItems EXCEPT !["session"] = Carts!NoLines]
    BY <1>0, <2>1 DEF Carts!deleteGuestCart, Merging
  <2>3. NoCartNoLines'
    BY <1>0, <2>1, <2>2 DEF NoCartNoLines
  <2>4. cartItems'["customer"] = cartItems["customer"] /\ cartItems'["session"] = Carts!NoLines
    BY <1>0, <2>2
  <2>5. Adds(j)'
    BY <1>0, <1>1, <1>2, <2>1, <2>4 DEF Adds
  <2> QED BY <2>3, <2>5
<1> QED BY <1>0, <1>1, <1>3, <1>4, CartGoesOn

(* getCart removes what can no longer be bought.                           *)
LEMMA CartIsPurged ==
  ASSUME Carts!CartAssumption, CartInv, NEW r \in Req, Carts!purgeUnavailableItems(r)
  PROVE  CartInv' /\ (OneRequest /\ OneCartInv => OneCartInv')
<1> DEFINE w == job[r].who
           old == job[r].lines
<1>0. /\ job[r] \in AnyCartJob /\ job[r].at = "cart" /\ UNCHANGED <<carts, ids, stock, sale>>
      /\ want \in [Variant -> Int] /\ ids' \in Nat /\ carts' \in [Carts!Who -> Nat]
      /\ carts \in [Carts!Who -> Nat] /\ cartItems \in [Carts!Who -> WholeLines]
  BY DEF CartInv, Carts!purgeUnavailableItems
<1>1. w \in Carts!Who /\ old \in WholeLines /\ job[r].status \in [Variant -> Carts!Status]
  BY <1>0 DEF AnyCartJob
<1>2. PICK gone : gone = {v \in Carts!Present(old) : Carts!Unavailable(job[r].status[v])}
  OBVIOUS
<1>3. PICK found : found = {v \in gone : cartItems[w][v].id = old[v].id}
  OBVIOUS
<1>4. PICK lines : lines = [v \in Variant |-> IF v \in gone THEN Carts!NoItem ELSE old[v]]
  OBVIOUS
<1>5. PICK left : left = [v \in Variant |-> IF v \in found THEN Carts!NoItem ELSE cartItems[w][v]]
  OBVIOUS
<1>6. cartItems[w] \in WholeLines /\ lines \in WholeLines /\ left \in WholeLines
  BY <1>0, <1>1, <1>4, <1>5 DEF WholeLines, Carts!NoItem
<1>7. /\ cartItems' = [cartItems EXCEPT ![w] = left]
      /\ want' = [v \in Variant |-> IF v \in found THEN want[v] - cartItems[w][v].q ELSE want[v]]
      /\ job' = [job EXCEPT ![r].at = "cap", ![r].lines = lines]
  BY <1>2, <1>3, <1>4, <1>5 DEF Carts!purgeUnavailableItems
<1>8. PICK j : j = [job[r] EXCEPT !.at = "cap", !.lines = lines]
  OBVIOUS
<1>9. /\ j \in AnyCartJob /\ j.at = "cap" /\ j.op = job[r].op /\ j.who = w /\ j.q = job[r].q
      /\ j.cart = job[r].cart /\ j.lines = lines /\ j.status = job[r].status
  BY <1>0, <1>6, <1>8 DEF AnyCartJob
<1>10. job' = [job EXCEPT ![r] = j]
  BY <1>7, <1>8 DEF CartInv
<1>11. AsksForPieces(j)
  BY <1>0, <1>9 DEF AsksForPieces, CartInv
<1>12. /\ cartItems' \in [Carts!Who -> WholeLines] /\ want' \in [Variant -> Int]
       /\ cartItems'[w] = left /\ \A x \in Carts!Who : x # w => cartItems'[x] = cartItems[x]
  <2>1. \A v \in Variant : cartItems[w][v].q \in Int
    BY <1>6 DEF WholeLines
  <2> QED BY <1>0, <1>1, <1>6, <1>7, <2>1
<1>13. ASSUME OneCartInv PROVE NoCartNoLines' /\ Loaded(j)' /\ Merging(j)' /\ Adds(j)'
  <2>1. Loaded(job[r]) /\ Merging(job[r]) /\ Adds(job[r]) /\ NoCartNoLines
    BY <1>13 DEF OneCartInv
  <2>2. old = cartItems[w] /\ job[r].cart # 0 /\ carts[w] = job[r].cart
    BY <1>0, <2>1 DEF Loaded, Carts!Resolver
  <2>3. found = gone
    BY <1>3, <2>2
  <2>4. NoCartNoLines'
    BY <1>0, <1>12, <2>1, <2>2 DEF NoCartNoLines
  <2>5. lines = cartItems'[w]
    BY <1>4, <1>5, <1>12, <2>2, <2>3
  <2>6. \A v \in Variant : lines[v].id # 0 => j.status[v] = "ok"
    <3> SUFFICES ASSUME NEW v \in Variant, lines[v].id # 0 PROVE job[r].status[v] = "ok"
      BY <1>9
    <3>1. v \notin gone /\ old[v].id # 0
      BY <1>4 DEF Carts!NoItem
    <3>2. ~Carts!Unavailable(job[r].status[v])
      BY <1>2, <3>1 DEF Carts!Present
    <3> QED BY <1>1, <3>2 DEF Carts!Unavailable, Carts!Status
  <2>7. Loaded(j)'
    BY <1>0, <1>9, <2>2, <2>5, <2>6 DEF Loaded, Carts!Resolver
  <2>8. Merging(j)'
    BY <1>0, <1>9, <2>1 DEF Merging
  <2>9. Adds(j)'
    <3> SUFFICES ASSUME NEW v \in Variant
                 PROVE  want'[v] = cartItems'["customer"][v].q + cartItems'["session"][v].q
      BY <1>9 DEF Adds
    <3>1. want[v] = cartItems["customer"][v].q + cartItems["session"][v].q
      BY <1>0, <2>1 DEF Adds
    <3>2. /\ "session" \in Carts!Who /\ "customer" \in Carts!Who /\ (w = "session" \/ w = "customer")
          /\ cartItems["customer"][v].q \in Int /\ cartItems["session"][v].q \in Int
      BY <1>0, <1>1 DEF Carts!Who, WholeLines
    <3>3. CASE v \in found
      <4>1. want'[v] = want[v] - cartItems[w][v].q /\ left[v].q = 0
        BY <1>5, <1>7, <3>3 DEF Carts!NoItem
      <4>2. CASE w = "session"
        BY <1>12, <3>1, <3>2, <4>1, <4>2
      <4>3. CASE w = "customer"
        BY <1>12, <3>1, <3>2, <4>1, <4>3
      <4> QED BY <3>2, <4>2, <4>3
    <3>4. CASE v \notin found
      <4>1. want'[v] = want[v] /\ left[v] = cartItems[w][v]
        BY <1>5, <1>7, <3>4
      <4> QED BY <1>12, <3>1, <3>2, <4>1
    <3> QED BY <3>3, <3>4
  <2> QED BY <2>4, <2>7, <2>8, <2>9
<1> QED BY <1>0, <1>9, <1>10, <1>11, <1>12, <1>13, CartGoesOn

(* Every step.                                                             *)
LEMMA CartNext ==
  ASSUME Carts!CartAssumption, CartInv, [Carts!Next]_(Carts!vars)
  PROVE  CartInv' /\ ("crash" \notin Shop /\ OneRequest /\ OneCartInv => OneCartInv')
<1>1. ASSUME UNCHANGED Carts!vars PROVE CartInv' /\ (OneCartInv => OneCartInv')
  BY <1>1 DEF Carts!vars, CartInv, OneCartInv, NoCartNoLines, Loaded, Merging, Adds, Carts!NothingLost,
       Carts!AtRest, AsksForPieces
<1>2. ASSUME NEW r \in Req, Carts!Step(r)
      PROVE  CartInv' /\ ("crash" \notin Shop /\ OneRequest /\ OneCartInv => OneCartInv')
  BY <1>2, CartResolves, CartIsMade, CartIsAddedTo, CartItemIsRead, CartItemIsSaved, CartItemIsRemoved,
     GuestIsRead, GuestCartIsDeleted, LineIsMerged, CartIsPurged, CartAnswers, LineIsCapped DEF Carts!Step
<1> QED BY <1>1, <1>2, CartCalls, CartAnswers, ShopGoesOn DEF Carts!Next

(* A line holds a piece.                                                   *)
LEMMA CartGives == CartInv => Carts!LinesAreWhole
  BY DEF CartInv, WholeLines, Carts!LinesAreWhole

(* The cart that is answered with is the one that is stored.               *)
LEMMA CartIsAnswered ==
  ASSUME Carts!CartAssumption, "crash" \notin Shop, OneRequest, CartInv, OneCartInv, [Carts!Next]_(Carts!vars)
  PROVE  Carts!AnswerIsBuyable
<1> SUFFICES ASSUME NEW r \in Req, job[r].at = "cap", job'[r].at = "idle", NEW v \in Variant
             PROVE  /\ cartItems'[job[r].who][v] = job[r].lines[v]
                    /\ job[r].lines[v].id # 0 => /\ job[r].status[v] = "ok"
                                                 /\ job[r].lines[v].q <= job[r].read[v] \/ job[r].read[v] = 0
  BY DEF Carts!AnswerIsBuyable
<1>1. /\ job[r].lines = cartItems[job[r].who] /\ job[r] \in AnyCartJob
      /\ job[r].lines[v].id # 0 => job[r].status[v] = "ok"
  BY DEF OneCartInv, Loaded, CartInv
<1>2. job[r].lines[v].q \in Nat /\ job[r].read[v] \in Nat /\ job \in [Req -> AnyCartJob]
  BY <1>1 DEF AnyCartJob, WholeLines, CartInv
<1>3. Carts!Answer(r)
  <2>1. ASSUME NEW q \in Req PROVE q = r
    BY DEF OneRequest
  <2>2. ASSUME NEW u \in Variant, Carts!capQuantityToStock(r, u) PROVE FALSE
    <3>1. Carts!Savable(job[r].who, job[r].cart, u, job[r].lines[u].id)
      BY <1>1 DEF Carts!Savable
    <3>2. job' = [job EXCEPT ![r].lines[u].q = job[r].read[u]]
      BY <2>2, <3>1 DEF Carts!capQuantityToStock
    <3>3. job'[r].at = job[r].at
      BY <1>2, <3>2 DEF AnyCartJob
    <3> QED BY <3>3
  <2>3. ~UNCHANGED job
    OBVIOUS
  <2>4. PICK q \in Req : \/ \E op \in Carts!Resolver, who \in Carts!Who, u \in Variant, n \in 0 .. MaxStock :
                              Carts!Call(q, op, who, u, n)
                         \/ Carts!Step(q)
    BY <2>3 DEF Carts!Next, Carts!vars, Carts!Crash, Carts!Sell, Carts!Withdraw
  <2>5. Carts!Step(r)
    BY <2>1, <2>4 DEF Carts!Call
  <2> QED BY <2>2, <2>5 DEF Carts!Step, Carts!resolveCart, Carts!makeCart, Carts!addItem, Carts!updateItem,
        Carts!saveItem, Carts!removeItem, Carts!readGuest, Carts!deleteGuestCart, Carts!mergeLine,
        Carts!purgeUnavailableItems
<1>4. ~(job[r].lines[v].id # 0 /\ job[r].read[v] > 0 /\ job[r].lines[v].q > job[r].read[v])
  BY <1>3 DEF Carts!Answer, Carts!Capped, Carts!Present
<1> QED BY <1>1, <1>2, <1>3, <1>4 DEF Carts!Answer

(* Whatever requests meet in a cart, processes that die included, a line   *)
(* holds at least one piece.                                               *)
THEOREM LinesStayWhole ==
  ASSUME Carts!CartAssumption
  PROVE  Carts!Spec => []Carts!LinesAreWhole
<1>1. Carts!Init => CartInv
  BY CartStart
<1>2. CartInv /\ [Carts!Next]_(Carts!vars) => CartInv'
  BY CartNext
<1> QED BY <1>1, <1>2, CartGives, PTL DEF Carts!Spec

(* One request at a time, and no process dying in a merge: nothing that    *)
(* was put into a cart is lost or doubled, by a merge either, and the cart *)
(* answered is the one stored, of what can be bought.                      *)
THEOREM CartsAreKept ==
  ASSUME Carts!CartAssumption, "crash" \notin Shop, OneRequest
  PROVE  Carts!Spec => []Carts!NothingLost /\ [][Carts!AnswerIsBuyable]_(Carts!vars)
<1>1. Carts!Init => CartInv /\ OneCartInv
  BY CartStart
<1>2. CartInv /\ OneCartInv /\ [Carts!Next]_(Carts!vars) => CartInv' /\ OneCartInv'
  BY CartNext
<1>3. OneCartInv => Carts!NothingLost
  BY DEF OneCartInv
<1>4. CartInv /\ OneCartInv /\ [Carts!Next]_(Carts!vars) => Carts!AnswerIsBuyable
  BY CartIsAnswered
<1> QED BY <1>1, <1>2, <1>3, <1>4, PTL DEF Carts!Spec
=============================================================================
