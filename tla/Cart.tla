-------------------------------- MODULE Cart --------------------------------
(***************************************************************************)
(* The cart of a visitor and of the customer the visitor becomes:          *)
(* CartService. Every handler finds (or makes) the cart, changes its lines *)
(* and ends in getCart, which removes what can no longer be bought and     *)
(* lowers quantities to the stock. Only addItem runs in a transaction, and *)
(* the line it adds to was read before it.                                 *)
(***************************************************************************)
EXTENDS Integers, FiniteSets, FiniteSetsExt

CONSTANTS
    Req,       \* slots: requests that may be in flight at once
    Handlers,  \* the handlers that run in this instance
    Shop,      \* what else happens: "sell", "withdraw", "crash"
    Variant,
    MaxStock,
    MaxIds     \* bound: carts and lines ever inserted

Resolver == {"cart", "addToCart", "updateCartItem", "removeCartItem", "mergeCart"}

CartAssumption ==
    /\ Handlers \subseteq Resolver /\ Shop \subseteq {"sell", "withdraw", "crash"}
    /\ Variant # {} /\ MaxStock \in Nat /\ MaxIds \in Nat

VARIABLES
    carts,    \* the id of the cart of the session and of the customer, 0 for none
    items,    \* cart_items: by owner and variant, unique
    ids,      \* ids given out
    stock,    \* product_variants.stock_quantity
    sale,     \* whether a variant can be bought
    want,     \* history: the quantity the requests answered so far ask for
    job       \* requests in flight

vars == <<carts, items, ids, stock, sale, want, job>>

Who == {"session", "customer"}
Qty == 0 .. 4 * MaxStock
Wanted == -MaxStock .. 2 * MaxStock  \* bound: no request is made once the history is out of it
CartItem == [id : 0 .. MaxIds, q : Qty]
NoItem == [id |-> 0, q |-> 0]
Lines == [Variant -> CartItem]
NoLines == [v \in Variant |-> NoItem]
Status == {"ok", "retired", "suspended"}

AnyVariant == CHOOSE v \in Variant : TRUE
Idle == [at |-> "idle", op |-> "cart", who |-> "session", v |-> AnyVariant, q |-> 0, cart |-> 0, lines |-> NoLines,
         guest |-> 0, from |-> NoLines, read |-> [v \in Variant |-> 0], status |-> [v \in Variant |-> "ok"]]

Init ==
    /\ carts = [w \in Who |-> 0]
    /\ items = [w \in Who |-> NoLines]
    /\ ids = 0
    /\ stock \in [Variant -> 1 .. MaxStock]
    /\ sale = [v \in Variant |-> "ok"]
    /\ want = [v \in Variant |-> 0]
    /\ job = [r \in Req |-> Idle]

AtRest == \A r \in Req : job[r].at = "idle"
Goto(r, at) == job' = [job EXCEPT ![r].at = at]
Return(r) == job' = [job EXCEPT ![r] = Idle]
Present(lines) == {v \in Variant : lines[v].id # 0}

-----------------------------------------------------------------------------
(* Finding the cart                                                        *)

(* One handler of CartResolver is called.                                  *)
Call(r, op, who, v, q) ==
    /\ op \in Handlers /\ job[r].at = "idle"
    /\ \A u \in Variant : want[u] \in Wanted
    /\ op = "mergeCart" => who = "customer"
    /\ op \in {"cart", "mergeCart"} => v = AnyVariant
    /\ op \in {"addToCart", "updateCartItem"} \/ q = 0
    /\ op = "addToCart" => q > 0
    /\ job' = [job EXCEPT ![r] = [Idle EXCEPT !.at = IF op = "mergeCart" THEN "guest" ELSE "resolve",
                                              !.op = op, !.who = who, !.v = v, !.q = q]]
    /\ UNCHANGED <<carts, items, ids, stock, sale, want>>

(* The tail of a handler: getCart again.                                   *)
Then(r) == [job EXCEPT ![r] = [Idle EXCEPT !.at = "resolve", !.op = "cart", !.who = job[r].who]]

(* The cart with its lines, and the variants and stores of the lines. A    *)
(* cart that is not there is made in a step of its own.                    *)
resolveCart(r) ==
    LET j == job[r]
    IN
    /\ j.at = "resolve"
    /\ IF carts[j.who] = 0
       THEN Goto(r, "makeCart")
       ELSE job' = [job EXCEPT ![r].at = j.op, ![r].cart = carts[j.who], ![r].lines = items[j.who],
                               ![r].read = stock, ![r].status = sale]
    /\ UNCHANGED <<carts, items, ids, stock, sale, want>>

(* The unique index lets one of two requests make it; the other fails.     *)
makeCart(r) ==
    LET j == job[r]
    IN
    /\ j.at = "makeCart"
    /\ \/ /\ carts[j.who] = 0 /\ ids < MaxIds
          /\ ids' = ids + 1
          /\ carts' = [carts EXCEPT ![j.who] = ids + 1]
          /\ job' = [job EXCEPT ![r].at = j.op, ![r].cart = ids + 1]
       \/ carts[j.who] # 0 /\ Return(r) /\ UNCHANGED <<carts, ids>>
    /\ UNCHANGED <<items, stock, sale, want>>

-----------------------------------------------------------------------------
(* The lines in the database                                               *)

(* A line is inserted: its cart must be there, and have no such line.      *)
Insertable(w, cart, v) == carts[w] = cart /\ items[w][v].id = 0
Insert(w, v, q) == ids < MaxIds /\ ids' = ids + 1 /\ items' = [items EXCEPT ![w][v] = [id |-> ids + 1, q |-> q]]

(* A loaded line is saved; one that was deleted since is inserted again.   *)
Savable(w, cart, v, id) == items[w][v].id = id \/ (carts[w] = cart /\ items[w][v].id = 0)
Save(w, v, id, q) == items' = [items EXCEPT ![w][v] = [id |-> id, q |-> q]] /\ UNCHANGED ids

-----------------------------------------------------------------------------
(* Handlers                                                                *)

(* The quantity of the line read with the cart, and the transaction that   *)
(* locks the variant. A refusal leaves everything as it was.               *)
addItem(r) ==
    LET j == job[r]
        existing == j.lines[j.v]
        ok == sale[j.v] = "ok" /\ stock[j.v] >= existing.q + j.q
        writable == IF existing.id # 0 THEN Savable(j.who, j.cart, j.v, existing.id) ELSE Insertable(j.who, j.cart, j.v)
    IN
    /\ j.at = "addToCart"
    /\ \/ /\ ok /\ writable /\ existing.id # 0
          /\ Save(j.who, j.v, existing.id, existing.q + j.q)
          /\ want' = [want EXCEPT ![j.v] = @ + j.q]
          /\ job' = Then(r)
       \/ /\ ok /\ writable /\ existing.id = 0
          /\ Insert(j.who, j.v, j.q)
          /\ want' = [want EXCEPT ![j.v] = @ + j.q]
          /\ job' = Then(r)
       \/ ~(ok /\ writable) /\ Return(r) /\ UNCHANGED <<items, ids, want>>
    /\ UNCHANGED <<carts, stock, sale>>

(* The line is read on its own, with its variant.                          *)
updateItem(r) ==
    LET j == job[r]
        item == items[j.who][j.v]
    IN
    /\ j.at = "updateCartItem"
    /\ IF item.id = 0 \/ carts[j.who] # j.cart
       THEN Return(r)
       ELSE job' = [job EXCEPT ![r].at = IF j.q = 0 THEN "removeCartItem" ELSE "saveItem",
                               ![r].lines = items[j.who], ![r].read = stock]
    /\ UNCHANGED <<carts, items, ids, stock, sale, want>>

saveItem(r) ==
    LET j == job[r]
        item == j.lines[j.v]
        capped == IF j.read[j.v] > 0 /\ j.q > j.read[j.v] THEN j.read[j.v] ELSE j.q
    IN
    /\ j.at = "saveItem"
    /\ \/ /\ Savable(j.who, j.cart, j.v, item.id)
          /\ Save(j.who, j.v, item.id, capped)
          /\ want' = [want EXCEPT ![j.v] = @ + capped - item.q]
          /\ job' = Then(r)
       \/ ~Savable(j.who, j.cart, j.v, item.id) /\ Return(r) /\ UNCHANGED <<items, ids, want>>
    /\ UNCHANGED <<carts, stock, sale>>

(* removeItem, removeItems and an update to 0: the line of the id the      *)
(* request names, if it is still there.                                    *)
removeItem(r) ==
    LET j == job[r]
        item == items[j.who][j.v]
    IN
    /\ j.at = "removeCartItem"
    /\ IF carts[j.who] = j.cart /\ item.id = j.lines[j.v].id
       THEN /\ items' = [items EXCEPT ![j.who][j.v] = NoItem]
            /\ want' = [want EXCEPT ![j.v] = @ - item.q]
       ELSE UNCHANGED <<items, want>>
    /\ job' = Then(r)
    /\ UNCHANGED <<carts, ids, stock, sale>>

-----------------------------------------------------------------------------
(* The merge of the visitor's cart                                         *)

(* mergeGuestCart: the visitor's cart is read first, then the customer's.  *)
readGuest(r) ==
    LET j == job[r]
    IN
    /\ j.at = "guest"
    /\ job' = IF carts["session"] = 0 \/ Present(items["session"]) = {}
              THEN Then(r)
              ELSE [job EXCEPT ![r].at = "resolve", ![r].guest = carts["session"], ![r].from = items["session"]]
    /\ UNCHANGED <<carts, items, ids, stock, sale, want>>

mergeLine(r, v) ==
    LET j == job[r]
        existing == j.lines[v]
    IN
    /\ j.at = "mergeCart"
    /\ v \in Present(j.from)
    /\ \/ /\ existing.id # 0 /\ Savable(j.who, j.cart, v, existing.id)
          /\ existing.q + j.from[v].q \in Qty
          /\ Save(j.who, v, existing.id, existing.q + j.from[v].q)
          /\ job' = [job EXCEPT ![r].from[v] = NoItem]
       \/ /\ existing.id = 0 /\ Insertable(j.who, j.cart, v)
          /\ Insert(j.who, v, j.from[v].q)
          /\ job' = [job EXCEPT ![r].from[v] = NoItem]
       \/ /\ IF existing.id # 0 THEN ~Savable(j.who, j.cart, v, existing.id) ELSE ~Insertable(j.who, j.cart, v)
          /\ Return(r) /\ UNCHANGED <<items, ids>>
    /\ UNCHANGED <<carts, stock, sale, want>>

(* Mutant: the visitor's cart is left to expire.                           *)
KeepGuestCart(r) ==
    /\ job[r].at = "mergeCart" /\ Present(job[r].from) = {}
    /\ job' = Then(r)
    /\ UNCHANGED <<carts, items, ids, stock, sale, want>>

(* The lines and then the cart; what was added since goes with them.       *)
deleteGuestCart(r) ==
    /\ job[r].at = "mergeCart" /\ Present(job[r].from) = {}
    /\ IF carts["session"] = job[r].guest
       THEN /\ carts' = [carts EXCEPT !["session"] = 0]
            /\ items' = [items EXCEPT !["session"] = NoLines]
       ELSE UNCHANGED <<carts, items>>
    /\ job' = Then(r)
    /\ UNCHANGED <<ids, stock, sale, want>>

-----------------------------------------------------------------------------
(* getCart's tail                                                          *)

(* isSuspendedStoreItem, isRetiredVariantItem.                             *)
Unavailable(status) == status \in {"suspended", "retired"}

(* By id: a line that replaced the one read stays.                         *)
purgeUnavailableItems(r) ==
    LET j == job[r]
        gone == {v \in Present(j.lines) : Unavailable(j.status[v])}
        found == {v \in gone : items[j.who][v].id = j.lines[v].id}
    IN
    /\ j.at = "cart"
    /\ items' = [items EXCEPT ![j.who] = [v \in Variant |-> IF v \in found THEN NoItem ELSE @[v]]]
    /\ want' = [v \in Variant |-> IF v \in found THEN want[v] - items[j.who][v].q ELSE want[v]]
    /\ job' = [job EXCEPT ![r].at = "cap",
                          ![r].lines = [v \in Variant |-> IF v \in gone THEN NoItem ELSE j.lines[v]]]
    /\ UNCHANGED <<carts, ids, stock, sale>>

Capped(j) == {v \in Present(j.lines) : j.read[v] > 0 /\ j.lines[v].q > j.read[v]}

capQuantityToStock(r, v) ==
    LET j == job[r]
        item == j.lines[v]
    IN
    /\ j.at = "cap" /\ v \in Capped(j)
    /\ \/ /\ Savable(j.who, j.cart, v, item.id)
          /\ Save(j.who, v, item.id, j.read[v])
          /\ want' = [want EXCEPT ![v] = @ + j.read[v] - item.q]
          /\ job' = [job EXCEPT ![r].lines[v].q = j.read[v]]
       \/ ~Savable(j.who, j.cart, v, item.id) /\ Return(r) /\ UNCHANGED <<items, ids, want>>
    /\ UNCHANGED <<carts, stock, sale>>

(* The cart is answered.                                                   *)
Answer(r) ==
    /\ job[r].at = "cap" /\ Capped(job[r]) = {}
    /\ Return(r)
    /\ UNCHANGED <<carts, items, ids, stock, sale, want>>

-----------------------------------------------------------------------------
(* The rest of the shop, and the process                                   *)

Sell(v, n) == "sell" \in Shop /\ stock' = [stock EXCEPT ![v] = n] /\ UNCHANGED <<carts, items, ids, sale, want, job>>
Withdraw(v, s) ==
    /\ "withdraw" \in Shop /\ sale[v] # "retired"
    /\ sale' = [sale EXCEPT ![v] = s]
    /\ UNCHANGED <<carts, items, ids, stock, want, job>>
Crash(r) ==
    /\ "crash" \in Shop /\ job[r].at # "idle"
    /\ Return(r)
    /\ UNCHANGED <<carts, items, ids, stock, sale, want>>

Step(r) ==
    \/ resolveCart(r) \/ makeCart(r)
    \/ addItem(r) \/ updateItem(r) \/ saveItem(r) \/ removeItem(r)
    \/ readGuest(r) \/ deleteGuestCart(r) \/ \E v \in Variant : mergeLine(r, v)
    \/ purgeUnavailableItems(r) \/ Answer(r) \/ \E v \in Variant : capQuantityToStock(r, v)

Next ==
    \/ \E r \in Req :
          \/ \E op \in Resolver, who \in Who, v \in Variant, q \in 0 .. MaxStock : Call(r, op, who, v, q)
          \/ Step(r) \/ Crash(r)
    \/ \E v \in Variant : (\E n \in 0 .. MaxStock : Sell(v, n)) \/ (\E s \in Status : Withdraw(v, s))

Spec == Init /\ [][Next]_vars

-----------------------------------------------------------------------------
(* Properties                                                              *)

(* Every variable has its type, and a line belongs to a cart.              *)
TypeOK ==
    /\ carts \in [Who -> 0 .. MaxIds]
    /\ items \in [Who -> Lines]
    /\ ids \in 0 .. MaxIds
    /\ stock \in [Variant -> 0 .. MaxStock] /\ sale \in [Variant -> Status]
    /\ \A w \in Who : carts[w] = 0 => items[w] = NoLines

(* A line holds at least one piece, whatever requests meet and however the *)
(* stock falls.                                                            *)
LinesAreWhole == \A w \in Who, v \in Variant : items[w][v].id # 0 => items[w][v].q > 0

(* What the two carts hold is what was added, changed and removed:         *)
(* nothing is lost or doubled, by a merge either.                          *)
NothingLost == AtRest => \A v \in Variant : items["session"][v].q + items["customer"][v].q = want[v]

(* The cart answered is the cart stored; everything in it can be bought    *)
(* and, unless sold out, is in stock, as of the read it was made from.     *)
AnswerIsBuyable ==
    \A r \in Req : LET j == job[r] IN
       j.at = "cap" /\ job'[r].at = "idle" =>
           \A v \in Variant :
               /\ items'[j.who][v] = j.lines[v]
               /\ j.lines[v].id # 0 => j.status[v] = "ok" /\ (j.lines[v].q <= j.read[v] \/ j.read[v] = 0)
=============================================================================
