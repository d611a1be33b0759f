--------------------------- MODULE ProductVariants ---------------------------
(***************************************************************************)
(* The variants of one product: adding, synchronising and removing them    *)
(* while they are put into carts and sold.  The variant handlers of        *)
(* ProductsService.                                                        *)
(*                                                                         *)
(* syncVariants saves the base price, then every variant, then removes the *)
(* rest, without a transaction; removing decides by what carts and orders  *)
(* held a moment before.  A variant is known by its combination of options *)
(* (the option key); its effective price is base price plus adjustment.    *)
(* A spreadsheet may also name a variant by its id, and with it ask for    *)
(* other options.                                                          *)
(***************************************************************************)
EXTENDS Integers, FiniteSets, Sequences

CONSTANTS
    Req,        \* slots: requests that may be in flight at once
    Handlers,   \* the handlers that run in this instance
    Opt,        \* option keys
    Sku,
    Price,      \* prices asked for
    Absolute,   \* whether spreadsheets carry prices (TRUE) or modifiers (FALSE)
    Ids,        \* variants that lines of a spreadsheet may name, and None
    MaxRows     \* bound: variant rows ever made

ProductsResolver == {"addVariant", "syncVariants", "removeVariant"}
BuyerResolvers == {"addToCart", "createOrder"}
AllHandlers == ProductsResolver \cup BuyerResolvers

VariantsAssumption ==
    /\ Handlers \subseteq AllHandlers
    /\ Price \subseteq Nat /\ Price # {}
    /\ MaxRows \in Nat
    /\ Absolute \subseteq BOOLEAN
    /\ Ids \subseteq 0 .. MaxRows

Row == 1 .. MaxRows
Least(S) == CHOOSE x \in S : \A y \in S : x <= y
Adjustment == {p - q : p, q \in Price}
Modifier == {p - Least(Price) : p \in Price}  \* bound: none is negative
MaxItems == Cardinality(Opt)  \* bound: lines of a spreadsheet
None == 0

VARIABLES
    base,     \* products.base_price
    rows,     \* product_variants of the product, in creation order
    inCart,   \* rows some cart holds
    sold,     \* rows some order item names
    job       \* requests in flight

vars == <<base, rows, inCart, sold, job>>

VariantState == {"none", "active", "retired", "deleted"}
AnOpt == CHOOSE o \in Opt : TRUE
ASku == CHOOSE s \in Sku : TRUE
NoRow == [state |-> "none", opt |-> AnOpt, sku |-> ASku, adj |-> 0]
VariantRow == [state : VariantState, opt : Opt, sku : Sku, adj : Adjustment]

(* A line of a spreadsheet.  Its amount is the price if all lines have one *)
(* (absolute), else its priceModifier.                                     *)
Item == [opt : Opt, sku : Sku, id : Ids \cup {None}, amount : Price \cup Modifier]
ItemsOf(amounts) == UNION {[1 .. n -> {item \in Item : item.amount \in amounts}] : n \in 1 .. MaxItems}
SyncItems(absolute) == ItemsOf(IF absolute THEN Price ELSE Modifier)

(* seen is what was loaded, saved says which item each row was last saved  *)
(* from (saving changes the loaded object too).                            *)
Idle == [at |-> "idle", absolute |-> FALSE, items |-> <<>>, next |-> 1, seen |-> [i \in Row |-> NoRow],
         saved |-> [i \in Row |-> None], remove |-> {}, orders |-> {}]
Job == [at : {"idle", "insert", "saveBase", "saveItems", "evaluate", "remove"}, absolute : BOOLEAN,
        items : ItemsOf(Price \cup Modifier) \cup {<<>>}, next : 1 .. MaxItems + 1, seen : [Row -> VariantRow],
        saved : [Row -> 0 .. MaxItems], remove : SUBSET Row, orders : SUBSET Row]

Init ==
    /\ base \in Price
    /\ rows = [i \in Row |-> NoRow]
    /\ inCart = {}
    /\ sold = {}
    /\ job = [r \in Req |-> Idle]

Start(r, op, what) ==
    /\ op \in Handlers
    /\ job[r].at = "idle"
    /\ job' = [job EXCEPT ![r] = what]
At(r, at) == job[r].at = at
Goto(r, what) == job' = [job EXCEPT ![r] = what]
Return(r) == Goto(r, Idle)

activeVariants(t) == {i \in Row : t[i].state = "active"}
Kept == {i \in Row : rows[i].state \in {"active", "retired"}}
Unused == {i \in Row : rows[i].state = "none"}

(* The unique index on product and SKU, of the rows that are not deleted.  *)
SkuIsFree(i, sku) == \A k \in Kept \ {i} : rows[k].sku # sku

-----------------------------------------------------------------------------
(* addVariant                                                              *)

addVariant(r, o, sku) ==
    /\ \A k \in Kept : rows[k].sku # sku
    /\ Unused # {}
    /\ Start(r, "addVariant", [Idle EXCEPT !.at = "insert",
            !.items = <<[opt |-> o, sku |-> sku, id |-> None, amount |-> base]>>])
    /\ UNCHANGED <<base, rows, inCart, sold>>

InsertVariant(r) ==
    LET item == job[r].items[1]
        i == Least(Unused)
    IN
    /\ At(r, "insert")
    /\ IF Unused # {} /\ SkuIsFree(i, item.sku)
         THEN rows' = [rows EXCEPT ![i] = [state |-> "active", opt |-> item.opt, sku |-> item.sku, adj |-> 0]]
         ELSE UNCHANGED rows
    /\ Return(r)
    /\ UNCHANGED <<base, inCart, sold>>

-----------------------------------------------------------------------------
(* syncVariants                                                            *)

(* The active rows an item matches: the one it names, or those with its    *)
(* options.                                                                *)
Matches(t, item) ==
    {i \in activeVariants(t) : IF item.id # None THEN i = item.id ELSE t[i].opt = item.opt}

(* The rows classifySyncPlan removes: all active ones but each item's      *)
(* first match.                                                            *)
classifySyncPlan(t, items) ==
    LET matched == {Matches(t, items[n]) : n \in DOMAIN items} \ {{}}
    IN activeVariants(t) \ {Least(m) : m \in matched}

syncVariants(r, absolute, items) ==
    /\ \A n \in DOMAIN items : items[n].id # None => rows[items[n].id].state # "none"
    /\ Start(r, "syncVariants", [Idle EXCEPT !.at = "saveBase", !.absolute = absolute, !.items = items,
            !.seen = rows, !.remove = classifySyncPlan(rows, items)])
    /\ UNCHANGED <<base, rows, inCart, sold>>

(* If all items carry prices, the cheapest becomes the base price.         *)
Cheapest(items) == Least({items[n].amount : n \in DOMAIN items})
SyncBasePrice(j) == IF j.absolute THEN Cheapest(j.items) ELSE base

(* Saving the product saves the variants it was loaded with (cascade), so  *)
(* what changed since is overwritten; the indexes hold all the same.       *)
Cascade(seen) == [i \in Row |-> IF seen[i].state \in {"active", "retired"} THEN seen[i] ELSE rows[i]]
NoTwoAlike(t) ==
    \A i, k \in Row : i # k /\ {t[i].state, t[k].state} \subseteq {"active", "retired"} => t[i].sku # t[k].sku

SaveBasePrice(r) ==
    LET price == SyncBasePrice(job[r])
        saved == Cascade(job[r].seen)
    IN
    /\ At(r, "saveBase")
    /\ \/ /\ price = base
          /\ Goto(r, [job[r] EXCEPT !.at = "saveItems"])
          /\ UNCHANGED <<base, rows>>
       \/ /\ price # base /\ NoTwoAlike(saved)
          /\ base' = price
          /\ rows' = saved
          /\ Goto(r, [job[r] EXCEPT !.at = "saveItems"])
       \/ /\ price # base /\ ~NoTwoAlike(saved)
          /\ Return(r)
          /\ UNCHANGED <<base, rows>>
    /\ UNCHANGED <<inCart, sold>>

(* The options of a loaded row, after the items so far.                    *)
OptionsNow(j, i) == IF j.saved[i] # None THEN j.items[j.saved[i]].opt ELSE j.seen[i].opt

(* The row an item is saved to: the loaded one it names (or, if it names   *)
(* none, one loaded active that has its options by now), else a retired    *)
(* one with its options, which comes back, else a new one.                 *)
Named(j, item) == {i \in Row : j.seen[i].state \in {"active", "retired"} /\ i = item.id}
Alike(j, item) == {i \in Row : j.seen[i].state = "active" /\ OptionsNow(j, i) = item.opt}
Retired(j, item) == {i \in Row : j.seen[i].state = "retired" /\ j.saved[i] = None /\ j.seen[i].opt = item.opt}
Target(j, item) ==
    LET found == IF item.id # None THEN Named(j, item) ELSE Alike(j, item) IN
    CASE found # {} -> Least(found)
      [] found = {} /\ Retired(j, item) # {} -> Least(Retired(j, item))
      [] OTHER -> IF Unused # {} THEN Least(Unused) ELSE None

ItemAdjustment(j, item) == IF j.absolute THEN item.amount - Cheapest(j.items) ELSE item.amount

(* One item.  A SKU another row has fails the request here, with the base  *)
(* price and the items before it saved.                                    *)
SaveItem(r) ==
    LET j == job[r]
        item == j.items[j.next]
        i == Target(j, item)
    IN
    /\ At(r, "saveItems") /\ j.next \in DOMAIN j.items
    /\ IF i # None /\ SkuIsFree(i, item.sku)
         THEN /\ rows' = [rows EXCEPT ![i] =
                    [state |-> "active", opt |-> item.opt, sku |-> item.sku, adj |-> ItemAdjustment(j, item)]]
              /\ Goto(r, [j EXCEPT !.saved[i] = j.next, !.next = @ + 1])
         ELSE Return(r) /\ UNCHANGED rows
    /\ UNCHANGED <<base, inCart, sold>>

(* keepIds: what was saved stays, whatever the plan said.                  *)
ItemsSaved(r) ==
    /\ At(r, "saveItems") /\ job[r].next \notin DOMAIN job[r].items
    /\ Goto(r, [job[r] EXCEPT !.at = "evaluate", !.remove = {i \in @ : job[r].saved[i] = None}])
    /\ UNCHANGED <<base, rows, inCart, sold>>

-----------------------------------------------------------------------------
(* Removing                                                                *)

removeVariant(r, i) ==
    /\ rows[i].state = "active"
    /\ Start(r, "removeVariant", [Idle EXCEPT !.at = "evaluate", !.remove = {i}, !.seen = rows])
    /\ UNCHANGED <<base, rows, inCart, sold>>

(* Carts are emptied of the variants they held when this was read.         *)
evaluateRemovalBlockers(r) ==
    /\ At(r, "evaluate")
    /\ inCart' = inCart \ job[r].remove
    /\ Goto(r, [job[r] EXCEPT !.at = "remove", !.orders = sold \cap job[r].remove])
    /\ UNCHANGED <<base, rows, sold>>

(* Mutant: every variant is deleted, sold or not.                          *)
AlwaysDelete(orders, i) == "deleted"

dispositionFromFlags(orders, i) == IF i \in orders THEN "retired" ELSE "deleted"

(* One variant at a time: retiring saves the row as it was loaded (and may *)
(* meet the index on SKUs), deleting sets deleted_at alone.                *)
RemoveOne(r, i) ==
    LET s == dispositionFromFlags(job[r].orders, i)
        saved == [rows EXCEPT ![i] = [(IF s = "retired" THEN job[r].seen[i] ELSE rows[i]) EXCEPT !.state = s]]
    IN
    /\ At(r, "remove")
    /\ i \in job[r].remove
    /\ IF NoTwoAlike(saved)
         THEN rows' = saved /\ Goto(r, [job[r] EXCEPT !.remove = @ \ {i}])
         ELSE Return(r) /\ UNCHANGED rows
    /\ UNCHANGED <<base, inCart, sold>>

applyRemovals(r) ==
    /\ At(r, "remove")
    /\ job[r].remove = {}
    /\ Return(r)
    /\ UNCHANGED <<base, rows, inCart, sold>>

-----------------------------------------------------------------------------
(* Buyers                                                                  *)

Instant(r, op) == op \in Handlers /\ job[r].at = "idle" /\ UNCHANGED job

addToCart(r, i) ==
    /\ Instant(r, "addToCart")
    /\ rows[i].state = "active"
    /\ inCart' = inCart \cup {i}
    /\ UNCHANGED <<base, rows, sold>>

(* The order's transaction locks the variant and refuses a retired one.    *)
createOrder(r, i) ==
    /\ Instant(r, "createOrder")
    /\ rows[i].state = "active"
    /\ sold' = sold \cup {i}
    /\ inCart' = inCart \ {i}
    /\ UNCHANGED <<base, rows>>

Next ==
    \E r \in Req :
        \/ \E o \in Opt, sku \in Sku : addVariant(r, o, sku)
        \/ InsertVariant(r)
        \/ \E absolute \in Absolute : \E items \in SyncItems(absolute) : syncVariants(r, absolute, items)
        \/ SaveBasePrice(r)
        \/ SaveItem(r)
        \/ ItemsSaved(r)
        \/ evaluateRemovalBlockers(r)
        \/ applyRemovals(r)
        \/ \E i \in Row :
              \/ removeVariant(r, i) \/ RemoveOne(r, i)
              \/ addToCart(r, i) \/ createOrder(r, i)

Spec == Init /\ [][Next]_vars

-----------------------------------------------------------------------------
(* Properties                                                              *)

(* Every variable has its type.                                            *)
TypeOK ==
    /\ base \in Price
    /\ rows \in [Row -> VariantRow]
    /\ inCart \subseteq Row
    /\ sold \subseteq Row
    /\ job \in [Req -> Job]

(* "soft-delete unreferenced SKUs or retire sold ones" (applyRemovals): a  *)
(* variant an order names is never deleted, so its stock can be returned   *)
(* and its line shown.                                                     *)
SoldVariantIsKept == \A i \in sold : rows[i].state # "deleted"

(* No two variants of the product that are not deleted share a SKU,        *)
(* although addVariant and syncVariants look for one before they save.     *)
SkusAreUnique == \A i, k \in Kept : i # k => rows[i].sku # rows[k].sku

(* Every item has options of its own, and the variant it names, if any,    *)
(* has them already.                                                       *)
EachItsOwn(j) ==
    /\ \A n, m \in DOMAIN j.items : n # m => j.items[n].opt # j.items[m].opt
    /\ \A n \in DOMAIN j.items : j.items[n].id # None => j.seen[j.items[n].id].opt = j.items[n].opt

(* A row is on sale as an item asks.                                       *)
IsAsAsked(row, price, j, item) ==
    /\ row.state = "active" /\ row.opt = item.opt /\ row.sku = item.sku
    /\ price + row.adj = IF j.absolute THEN item.amount ELSE price + item.amount

(* What synchronising promises when it succeeds: every row it saved is on  *)
(* sale as the last item saved to it asks, and when no item moves options  *)
(* from one variant to another, exactly the options asked for are on sale, *)
(* once each.  (Else two items may be saved to one row, or a row that the  *)
(* plan keeps is never saved and stays on sale.)                           *)
SyncDelivers ==
    \A r \in Req : At(r, "remove") /\ job[r].remove = {} /\ job'[r].at = "idle" /\ job[r].items # <<>> =>
       LET j == job[r]
           onSale == activeVariants(rows')
       IN /\ \A i \in Row : j.saved[i] # None => IsAsAsked(rows'[i], base', j, j.items[j.saved[i]])
          /\ EachItsOwn(j) => /\ {rows'[i].opt : i \in onSale} = {j.items[n].opt : n \in DOMAIN j.items}
                              /\ Cardinality(onSale) = Len(j.items)

(* A cart never holds a variant that was deleted (it would vanish from the *)
(* cart without a warning).                                                *)
CartHoldsKeptVariants == \A i \in inCart : rows[i].state # "deleted"
=============================================================================
