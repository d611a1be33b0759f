---------------------------- MODULE ProductCatalog ----------------------------
(***************************************************************************)
(* The products of one store from creation to the storefront: create,      *)
(* createWithVariants (public API), update, publish, publishMany, remove   *)
(* of ProductsService, the publish checklist in its two versions, and what *)
(* the public readers show.                                                *)
(*                                                                         *)
(* A product is loaded with its images and variants, checked, and saved    *)
(* with them (cascade): what changed in between is written back.           *)
(***************************************************************************)
EXTENDS Integers, FiniteSets, FiniteSetsExt

CONSTANTS
    Req,          \* slots: requests that may be in flight at once
    Handlers,     \* the handlers that run in this instance
    Product,
    Field,        \* fields the checklist asks for: name, category, pet type
    MaxVariants   \* bound: variant rows of a product

ProductsResolver == {"create", "update", "publish", "publishMany", "remove"}
PublicApi == {"createWithVariants", "updateProductForPublicApi"}
VariantAndImageHandlers == {"editVariant", "removeVariant", "editMedia"}
StoreHandlers == {"suspend", "shippingOptions"}
AllHandlers == ProductsResolver \cup PublicApi \cup VariantAndImageHandlers \cup StoreHandlers

CatalogAssumption ==
    /\ Handlers \subseteq AllHandlers
    /\ MaxVariants \in Nat

Variant == 1 .. MaxVariants
Slug == 1 .. Cardinality(Product)   \* the slug of the name, then with -1, -2, ...
Price == 0 .. 1
Adjustment == -1 .. 1
Status == {"draft", "published", "archived"}

VARIABLES
    suspended,   \* the store is suspended (else approved)
    shipping,    \* the store has an active shipping option
    products,    \* products
    media,       \* products with images
    variants,    \* product_variants of each product
    job          \* requests in flight

vars == <<suspended, shipping, products, media, variants, job>>

ProductRow == [state : {"none", "live", "deleted"}, status : Status, filled : SUBSET Field, base : Price, slug : Slug]
VariantRow == [state : {"none", "active", "retired", "deleted"}, adj : Adjustment, stock : 0 .. 1]
NoProduct == [state |-> "none", status |-> "draft", filled |-> {}, base |-> 0, slug |-> 1]
NoVariants == [v \in Variant |-> [state |-> "none", adj |-> 0, stock |-> 0]]
NoItems == [v \in {} |-> 0]
AProduct == CHOOSE p \in Product : TRUE

Idle == [at |-> "idle", op |-> "none", p |-> AProduct, row |-> NoProduct, media |-> FALSE, variants |-> NoVariants,
         items |-> NoItems, ids |-> {}]
Job == [at : {"idle", "insert", "variants", "images", "save", "query", "bulk"},
        op : {"none"} \cup AllHandlers, p : Product, row : ProductRow, media : BOOLEAN,
        variants : [Variant -> VariantRow], items : UNION {[V -> Price] : V \in SUBSET Variant}, ids : SUBSET Product]

Init ==
    /\ suspended = FALSE
    /\ shipping \in BOOLEAN
    /\ products = [p \in Product |-> NoProduct]
    /\ media = {}
    /\ variants = [p \in Product |-> NoVariants]
    /\ job = [r \in Req |-> Idle]

(* A vendor of the store; suspension is looked up live.                    *)
assertStoreAccess(op) == op \in Handlers /\ ~suspended

Free(r, op) == job[r].at = "idle" /\ assertStoreAccess(op)
At(r, at) == job[r].at = at
Goto(r, what) == job' = [job EXCEPT ![r] = what]
Return(r) == Goto(r, Idle)

Live(p) == products[p].state = "live"
Kept(t) == {v \in Variant : t[v].state \in {"active", "retired"}}
SlugIsFree(p, s) == \A q \in Product \ {p} : Live(q) => products[q].slug # s

-----------------------------------------------------------------------------
(* The publish checklist, once over a loaded product and once in SQL       *)

getProductPublishChecklist(row, hasMedia, t) ==
    LET price(v) == row.base + t[v].adj
    IN /\ row.filled = Field
       /\ hasMedia
       /\ Kept(t) # {}
       /\ \A v \in Kept(t) : price(v) >= 0
       /\ \E v \in Kept(t) : price(v) > 0
       /\ \E v \in Kept(t) : t[v].stock > 0
       /\ shipping

Publishable(p) == getProductPublishChecklist(products[p], p \in media, variants[p])

createPublishableForVendorQuery ==
    LET has(p, Cond(_)) == \E v \in Variant : variants[p][v].state \notin {"none", "deleted"} /\ Cond(variants[p][v])
        priced(p) == has(p, LAMBDA x : products[p].base + x.adj > 0)
        negative(p) == has(p, LAMBDA x : products[p].base + x.adj < 0)
        stocked(p) == has(p, LAMBDA x : x.stock > 0)
    IN {p \in Product :
          /\ Live(p)
          /\ products[p].status \in {"draft", "archived"}
          /\ products[p].filled = Field
          /\ p \in media
          /\ priced(p) /\ stocked(p) /\ ~negative(p)}

findPublishableIdsForVendor == IF shipping THEN createPublishableForVendorQuery ELSE {}

-----------------------------------------------------------------------------
(* Creating                                                                *)

create(r, p, filled, base) ==
    LET slug == CHOOSE s \in Slug : SlugIsFree(p, s) /\ \A t \in Slug : t < s => ~SlugIsFree(p, t)
    IN
    /\ Free(r, "create")
    /\ products[p].state = "none"
    /\ Goto(r, [Idle EXCEPT !.at = "insert", !.op = "create", !.p = p,
          !.row = [state |-> "live", status |-> "draft", filled |-> filled, base |-> base, slug |-> slug]])
    /\ UNCHANGED <<suspended, shipping, products, media, variants>>

BasePrice(items) == Min({items[v] : v \in DOMAIN items})

(* The public API names the items with their prices; the product gets the  *)
(* cheapest as base price.  Names, combinations and images are checked     *)
(* before anything is written.                                             *)
createWithVariants(r, p, items) ==
    LET slug == CHOOSE s \in Slug : SlugIsFree(p, s) /\ \A t \in Slug : t < s => ~SlugIsFree(p, t)
    IN
    /\ Free(r, "createWithVariants")
    /\ products[p].state = "none"
    /\ Goto(r, [Idle EXCEPT !.at = "insert", !.op = "createWithVariants", !.p = p, !.items = items,
          !.row = [state |-> "live", status |-> "draft", filled |-> Field, base |-> BasePrice(items), slug |-> slug]])
    /\ UNCHANGED <<suspended, shipping, products, media, variants>>

(* Mutant: no unique index on the slugs.                                   *)
InsertAnySlug(r) ==
    /\ At(r, "insert")
    /\ products' = [products EXCEPT ![job[r].p] = job[r].row]
    /\ Return(r)
    /\ UNCHANGED <<suspended, shipping, media, variants>>

(* The slug was free a moment ago; the unique index has the last word.     *)
InsertProduct(r) ==
    LET p == job[r].p
    IN
    /\ At(r, "insert")
    /\ IF products[p].state = "none" /\ SlugIsFree(p, job[r].row.slug)
         THEN /\ products' = [products EXCEPT ![p] = job[r].row]
              /\ IF job[r].op = "create" THEN Return(r) ELSE Goto(r, [job[r] EXCEPT !.at = "variants"])
         ELSE Return(r) /\ UNCHANGED products
    /\ UNCHANGED <<suspended, shipping, media, variants>>

(* addVariant for one item; it looks the store up again.                   *)
AddItem(r, v) ==
    LET p == job[r].p
        left == [x \in DOMAIN job[r].items \ {v} |-> job[r].items[x]]
    IN
    /\ At(r, "variants")
    /\ v \in DOMAIN job[r].items
    /\ IF suspended \/ ~Live(p)
         THEN Return(r) /\ UNCHANGED variants
         ELSE /\ variants' = [variants EXCEPT ![p][v] =
                    [state |-> "active", adj |-> job[r].items[v] - job[r].row.base, stock |-> 1]]
              /\ Goto(r, [job[r] EXCEPT !.items = left, !.at = IF DOMAIN left = {} THEN "images" ELSE @])
    /\ UNCHANGED <<suspended, shipping, products, media>>

(* The image set of the product is replaced, by none too; a new product    *)
(* without images gets none.                                               *)
ReplaceImages(r) ==
    LET p == job[r].p
    IN
    /\ At(r, "images")
    /\ media' \in {media, media \cup {p}} \cup (IF job[r].op = "createWithVariants" THEN {} ELSE {media \ {p}})
    /\ Return(r)
    /\ UNCHANGED <<suspended, shipping, products, variants>>

-----------------------------------------------------------------------------
(* Changing, publishing, removing                                          *)

Load(op, p, row) ==
    [Idle EXCEPT !.at = "save", !.op = op, !.p = p, !.row = row, !.media = p \in media, !.variants = variants[p]]

(* update checks the product as it was loaded, before it applies the       *)
(* fields.                                                                 *)
UpdateMayPublish(p, status) ==
    status = "published" /\ products[p].status # "published" => Publishable(p)

update(r, p, status, base, filled) ==
    /\ Free(r, "update")
    /\ Live(p)
    /\ UpdateMayPublish(p, status)
    /\ Goto(r, Load("update", p, [products[p] EXCEPT !.status = status, !.base = base, !.filled = filled]))
    /\ UNCHANGED <<suspended, shipping, products, media, variants>>

(* The public API changes neither status nor price; images it names are    *)
(* replaced after the product is saved.                                    *)
updateProductForPublicApi(r, p, filled) ==
    /\ Free(r, "updateProductForPublicApi")
    /\ Live(p)
    /\ Goto(r, Load("updateProductForPublicApi", p, [products[p] EXCEPT !.filled = @ \cup filled]))
    /\ UNCHANGED <<suspended, shipping, products, media, variants>>

publish(r, p) ==
    /\ Free(r, "publish")
    /\ Live(p)
    /\ Publishable(p)
    /\ Goto(r, Load("publish", p, [products[p] EXCEPT !.status = "published"]))
    /\ UNCHANGED <<suspended, shipping, products, media, variants>>

(* The product, its images and its variants, as they were loaded.          *)
SaveProduct(r) ==
    LET p == job[r].p
        seen == job[r].variants
    IN
    /\ At(r, "save")
    /\ IF SlugIsFree(p, job[r].row.slug)
         THEN /\ IF job[r].op = "updateProductForPublicApi"
                   THEN Goto(r, [job[r] EXCEPT !.at = "images"])
                   ELSE Return(r)
              /\ products' = [products EXCEPT ![p] = job[r].row]
              /\ media' = IF job[r].media THEN media \cup {p} ELSE media
              /\ variants' = [variants EXCEPT ![p] = [v \in Variant |-> IF v \in Kept(seen) THEN seen[v] ELSE @[v]]]
         ELSE Return(r) /\ UNCHANGED <<products, media, variants>>
    /\ UNCHANGED <<suspended, shipping>>

publishMany(r, ids) ==
    /\ Free(r, "publishMany")
    /\ shipping
    /\ Goto(r, [Idle EXCEPT !.at = "query", !.op = "publishMany",
          !.ids = {p \in ids : Live(p) /\ products[p].status # "published"}])
    /\ UNCHANGED <<suspended, shipping, products, media, variants>>

QueryPublishable(r) ==
    /\ At(r, "query")
    /\ Goto(r, [job[r] EXCEPT !.at = "bulk", !.ids = @ \cap createPublishableForVendorQuery])
    /\ UNCHANGED <<suspended, shipping, products, media, variants>>

BulkUpdate(r) ==
    /\ At(r, "bulk")
    /\ products' = [p \in Product |-> IF p \in job[r].ids THEN [products[p] EXCEPT !.status = "published"] ELSE products[p]]
    /\ Return(r)
    /\ UNCHANGED <<suspended, shipping, media, variants>>

remove(r, p) ==
    /\ Free(r, "remove")
    /\ Live(p)
    /\ products' = [products EXCEPT ![p].state = "deleted"]
    /\ UNCHANGED <<suspended, shipping, media, variants, job>>

-----------------------------------------------------------------------------
(* What happens around it, as far as the catalog sees it                   *)

editVariant(r, p, v, adj, stock) ==
    /\ Free(r, "editVariant")
    /\ Live(p)
    /\ variants[p][v].state \in {"none", "active"}
    /\ variants' = [variants EXCEPT ![p][v] = [state |-> "active", adj |-> adj, stock |-> stock]]
    /\ UNCHANGED <<suspended, shipping, products, media, job>>

removeVariant(r, p, v, how) ==
    /\ Free(r, "removeVariant")
    /\ variants[p][v].state = "active"
    /\ variants' = [variants EXCEPT ![p][v].state = how]
    /\ UNCHANGED <<suspended, shipping, products, media, job>>

editMedia(r, p) ==
    /\ Free(r, "editMedia")
    /\ Live(p)
    /\ media' = IF p \in media THEN media \ {p} ELSE media \cup {p}
    /\ UNCHANGED <<suspended, shipping, products, variants, job>>

suspend(r) ==
    /\ "suspend" \in Handlers
    /\ job[r].at = "idle"
    /\ suspended' = ~suspended
    /\ UNCHANGED <<shipping, products, media, variants, job>>

shippingOptions(r) ==
    /\ "shippingOptions" \in Handlers
    /\ job[r].at = "idle"
    /\ shipping' = ~shipping
    /\ UNCHANGED <<suspended, products, media, variants, job>>

-----------------------------------------------------------------------------
(* The storefront                                                          *)

applyProductListFilters == {p \in Product : Live(p) /\ ~suspended /\ products[p].status = "published"}

(* Filters, pages and order of a list left out.                            *)
findAll == applyProductListFilters
findOnePublished(p) == Live(p) /\ products[p].status = "published" /\ ~suspended
findBySlugPublished(s) ==
    {p \in Product : Live(p) /\ products[p].slug = s /\ products[p].status = "published" /\ ~suspended}
findPublishedByIds(ids) == {p \in ids : Live(p) /\ products[p].status = "published"} \cap {p \in ids : ~suspended}

-----------------------------------------------------------------------------
ItemSets == UNION {[V -> Price] : V \in (SUBSET Variant) \ {{}}}

Next ==
    \E r \in Req :
          \/ suspend(r) \/ shippingOptions(r)
          \/ \E p \in Product :
                \/ \E filled \in SUBSET Field, base \in Price : create(r, p, filled, base)
                \/ \E items \in ItemSets : createWithVariants(r, p, items)
                \/ \E status \in Status, base \in Price, filled \in SUBSET Field : update(r, p, status, base, filled)
                \/ \E filled \in SUBSET Field : updateProductForPublicApi(r, p, filled)
                \/ publish(r, p) \/ remove(r, p) \/ editMedia(r, p)
                \/ \E v \in Variant :
                      \/ \E adj \in Adjustment, stock \in 0 .. 1 : editVariant(r, p, v, adj, stock)
                      \/ \E how \in {"retired", "deleted"} : removeVariant(r, p, v, how)
          \/ \E ids \in SUBSET Product : publishMany(r, ids)
          \/ InsertProduct(r) \/ (\E v \in Variant : AddItem(r, v)) \/ ReplaceImages(r)
          \/ SaveProduct(r) \/ QueryPublishable(r) \/ BulkUpdate(r)

Spec == Init /\ [][Next]_vars

-----------------------------------------------------------------------------
(* Properties                                                              *)

(* Every variable has its type.                                            *)
TypeOK ==
    /\ suspended \in BOOLEAN /\ shipping \in BOOLEAN
    /\ products \in [Product -> ProductRow]
    /\ media \subseteq Product
    /\ variants \in [Product -> [Variant -> VariantRow]]
    /\ job \in [Req -> Job]

(* "SQL checklist matching product-publish.validation.ts": the batch and   *)
(* the single publish accept the same products, whatever their variants,   *)
(* prices and stock.                                                       *)
ChecklistsAgree ==
    \A p \in Product : Live(p) /\ products[p].status # "published" =>
        (p \in findPublishableIdsForVendor <=> Publishable(p))

(* "rejects publishing an incomplete product": in the step that makes a    *)
(* product published, by whichever way, the checklist holds.               *)
PublishedIsComplete ==
    \A p \in Product : products'[p].status = "published" /\ products[p].status # "published" => Publishable(p)'

(* Live products of the store have different slugs, so a product page is   *)
(* one product, although the slug is chosen before the row is inserted and *)
(* a stale save may bring a deleted product back.                          *)
SlugsAreUnique == \A s \in Slug : Cardinality({p \in Product : Live(p) /\ products[p].slug = s}) <= 1

(* "can't keep managing a suspended one's products": while the store is    *)
(* suspended its catalog does not change (with one request at a time).     *)
SuspendedCatalogIsFrozen ==
    suspended => UNCHANGED <<products, media, variants>>

(* Lists, product pages and recommendations show the same products, and    *)
(* none of a suspended store (AC-001, AC-002).                             *)
PublicViewsAgree ==
    LET listed == findAll
    IN /\ suspended => listed = {}
       /\ listed = {p \in Product : findOnePublished(p)}
       /\ listed = findPublishedByIds(Product)
       /\ listed = UNION {findBySlugPublished(s) : s \in Slug}
=============================================================================
