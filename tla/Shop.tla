-------------------------------- MODULE Shop --------------------------------
(***************************************************************************)
(* What the shop sells and at what price: the catalog, carts, checkout and *)
(* fulfillment, reviews, promotions, sale campaigns and what the orders    *)
(* earn a store.                                                           *)
(*                                                                         *)
(* Where a component's rows are written by another service too, its module *)
(* has that writer as an action of its own (PlaceOrder the vendor's edits, *)
(* ProductVariants carts and orders), so a behaviour of the shop is one    *)
(* component's: part says which. Each is instantiated once with one        *)
(* request at a time, where the whole of it has to hold, and once with     *)
(* two, where only what holds in spite of a race is asked.                 *)
(* x1, x2 ... are the variables of that component.                         *)
(*                                                                         *)
(* The order is instantiated from OrderSystemProofs, the checkout, carts   *)
(* and variants from CheckoutProofs, which extend the components' modules, *)
(* so that the theorems at the end can cite their lemmas. CheckoutProofs   *)
(* is about three components: what names the other two gets values that    *)
(* do not matter.                                                          *)
(***************************************************************************)
EXTENDS Integers, FiniteSets, TLAPS

VARIABLES
    part,    \* the component this behaviour is about
    x1, x2, x3, x4, x5, x6, x7, x8, x9, x10, x11    \* its variables, in the order of its vars

vars == <<part, x1, x2, x3, x4, x5, x6, x7, x8, x9, x10, x11>>

OneSlot == {"r1"}
TwoSlots == {"r1", "r2"}

(* OrderSystem: the lines of a paid order, one handler at a time.          *)
Fulfillment == INSTANCE OrderSystemProofs WITH
    Req <- OneSlot, Stores <- {"s1", "s2"}, MaxAttempts <- 0, CheckoutMethods <- {"cod"},
    Handlers <- {"vendorPaid", "acknowledge", "ship", "tracking", "deliver", "applyHold",
        "restoreHold", "holdSla", "admin"}, AdminTargets <- {"cancelled", "refunded"},
    MaxFaults <- 1, order <- x1, returned <- x2, pay <- x3, payMethod <- x4, charge <- x5,
    amount <- x6, attempts <- x7, lock <- x8, pc <- x9, loc <- x10, faults <- x11

(* PlaceOrder: one checkout at a time, two buyers, two variants.           *)
Placing == INSTANCE CheckoutProofs WITH
    Req <- OneSlot,
    Handlers <- {"createOrder", "updateOrderStatus", "suspend", "togglePromotion"},
    Buyer <- {"ann", "bob"}, Variant <- {"v1", "v2"}, MaxLines <- 2, Repeats <- FALSE,
    StartStock <- 1, UsageLimit <- 1, PerCustomer <- 1, MaxOrders <- 2,
    BasePrices <- {100}, Adjustments <- {0}, Discounts <- {0},
    variant <- x1, basePrice <- x2, campaign <- x3, suspended <- x4, promo <- x5, order <- x6,
    returns <- x7, cart <- x8, bought <- x9, job <- x10,
    Opt <- {}, Sku <- {}, Price <- {}, Absolute <- {}, Ids <- {}, MaxRows <- 0, base <- 0, rows <- {},
    inCart <- {}, sold <- {},
    Shop <- {}, MaxStock <- 0, MaxIds <- 0, carts <- {}, cartItems <- {}, ids <- 0, stock <- {},
    sale <- {}, want <- {}

(* Two checkouts of a buyer, without a promotion.                          *)
PlacingTwo == INSTANCE CheckoutProofs WITH
    Req <- TwoSlots, Handlers <- {"createOrder"}, Buyer <- {"ann"}, Variant <- {"v1", "v2"},
    MaxLines <- 2, Repeats <- FALSE, StartStock <- 2, UsageLimit <- 0, PerCustomer <- 0,
    MaxOrders <- 2, BasePrices <- {100}, Adjustments <- {0}, Discounts <- {0},
    variant <- x1, basePrice <- x2, campaign <- x3, suspended <- x4, promo <- x5, order <- x6,
    returns <- x7, cart <- x8, bought <- x9, job <- x10,
    Opt <- {}, Sku <- {}, Price <- {}, Absolute <- {}, Ids <- {}, MaxRows <- 0, base <- 0, rows <- {},
    inCart <- {}, sold <- {},
    Shop <- {}, MaxStock <- 0, MaxIds <- 0, carts <- {}, cartItems <- {}, ids <- 0, stock <- {},
    sale <- {}, want <- {}

(* And the vendor editing variants in between.                             *)
PlacingRace == INSTANCE CheckoutProofs WITH
    Req <- TwoSlots, Handlers <- {"createOrder", "updateVariant", "retire"}, Buyer <- {"ann"},
    Variant <- {"v1"}, MaxLines <- 2, Repeats <- TRUE, StartStock <- 2, UsageLimit <- 0,
    PerCustomer <- 0, MaxOrders <- 1, BasePrices <- {100}, Adjustments <- {0, 5}, Discounts <- {0},
    variant <- x1, basePrice <- x2, campaign <- x3, suspended <- x4, promo <- x5, order <- x6,
    returns <- x7, cart <- x8, bought <- x9, job <- x10,
    Opt <- {}, Sku <- {}, Price <- {}, Absolute <- {}, Ids <- {}, MaxRows <- 0, base <- 0, rows <- {},
    inCart <- {}, sold <- {},
    Shop <- {}, MaxStock <- 0, MaxIds <- 0, carts <- {}, cartItems <- {}, ids <- 0, stock <- {},
    sale <- {}, want <- {}

(* Or the product's price and the campaigns.                               *)
PlacingSale == INSTANCE CheckoutProofs WITH
    Req <- TwoSlots, Handlers <- {"createOrder", "updateProduct", "changeSale", "retire"},
    Buyer <- {"ann"}, Variant <- {"v1"}, MaxLines <- 1, Repeats <- FALSE, StartStock <- 2,
    UsageLimit <- 0, PerCustomer <- 0, MaxOrders <- 1, BasePrices <- {100, 120},
    Adjustments <- {0}, Discounts <- {0, 10},
    variant <- x1, basePrice <- x2, campaign <- x3, suspended <- x4, promo <- x5, order <- x6,
    returns <- x7, cart <- x8, bought <- x9, job <- x10,
    Opt <- {}, Sku <- {}, Price <- {}, Absolute <- {}, Ids <- {}, MaxRows <- 0, base <- 0, rows <- {},
    inCart <- {}, sold <- {},
    Shop <- {}, MaxStock <- 0, MaxIds <- 0, carts <- {}, cartItems <- {}, ids <- 0, stock <- {},
    sale <- {}, want <- {}

(* Cart: every request and the merge of two devices.                       *)
CartOne == INSTANCE CheckoutProofs WITH
    Req <- OneSlot,
    Handlers <- {"cart", "addToCart", "updateCartItem", "removeCartItem", "mergeCart"},
    Shop <- {"sell", "withdraw"}, Variant <- {"v1"}, MaxStock <- 2, MaxIds <- 4, carts <- x1,
    cartItems <- x2, ids <- x3, stock <- x4, sale <- x5, want <- x6, job <- x7,
    Opt <- {}, Sku <- {}, Price <- {}, Absolute <- {}, Ids <- {}, MaxRows <- 0, base <- 0, rows <- {},
    inCart <- {}, sold <- {},
    Buyer <- {}, MaxLines <- 0, Repeats <- FALSE, StartStock <- 0, UsageLimit <- 0,
    PerCustomer <- 0, MaxOrders <- 0, BasePrices <- {}, Adjustments <- {}, Discounts <- {},
    variant <- {}, basePrice <- 0, campaign <- 0, suspended <- FALSE, promo <- {}, order <- {},
    returns <- {}, cart <- {}, bought <- {}

(* Two requests that change one line.                                      *)
CartUpdate == INSTANCE CheckoutProofs WITH
    Req <- TwoSlots, Handlers <- {"addToCart", "updateCartItem", "removeCartItem"},
    Shop <- {"crash"}, Variant <- {"v1"}, MaxStock <- 1, MaxIds <- 3, carts <- x1, cartItems <- x2,
    ids <- x3, stock <- x4, sale <- x5, want <- x6, job <- x7,
    Opt <- {}, Sku <- {}, Price <- {}, Absolute <- {}, Ids <- {}, MaxRows <- 0, base <- 0, rows <- {},
    inCart <- {}, sold <- {},
    Buyer <- {}, MaxLines <- 0, Repeats <- FALSE, StartStock <- 0, UsageLimit <- 0,
    PerCustomer <- 0, MaxOrders <- 0, BasePrices <- {}, Adjustments <- {}, Discounts <- {},
    variant <- {}, basePrice <- 0, campaign <- 0, suspended <- FALSE, promo <- {}, order <- {},
    returns <- {}, cart <- {}, bought <- {}

(* A login that merges the cart while another request changes it.          *)
CartMerge == INSTANCE CheckoutProofs WITH
    Req <- TwoSlots, Handlers <- {"addToCart", "removeCartItem", "mergeCart"}, Shop <- {},
    Variant <- {"v1"}, MaxStock <- 1, MaxIds <- 5, carts <- x1, cartItems <- x2, ids <- x3,
    stock <- x4, sale <- x5, want <- x6, job <- x7,
    Opt <- {}, Sku <- {}, Price <- {}, Absolute <- {}, Ids <- {}, MaxRows <- 0, base <- 0, rows <- {},
    inCart <- {}, sold <- {},
    Buyer <- {}, MaxLines <- 0, Repeats <- FALSE, StartStock <- 0, UsageLimit <- 0,
    PerCustomer <- 0, MaxOrders <- 0, BasePrices <- {}, Adjustments <- {}, Discounts <- {},
    variant <- {}, basePrice <- 0, campaign <- 0, suspended <- FALSE, promo <- {}, order <- {},
    returns <- {}, cart <- {}, bought <- {}

(* ProductVariants: a product, its carts and its orders.                   *)
Variants == INSTANCE CheckoutProofs WITH
    Req <- OneSlot,
    Handlers <- {"addVariant", "syncVariants", "removeVariant", "addToCart", "createOrder"},
    Opt <- {"small", "large"}, Sku <- {"s1", "s2"}, Price <- {1}, Absolute <- {TRUE}, Ids <- {0},
    MaxRows <- 3,
    base <- x1, rows <- x2, inCart <- x3, sold <- x4, job <- x5,
    Buyer <- {}, Variant <- {}, MaxLines <- 0, Repeats <- FALSE, StartStock <- 0, UsageLimit <- 0,
    PerCustomer <- 0, MaxOrders <- 0, BasePrices <- {}, Adjustments <- {}, Discounts <- {},
    variant <- {}, basePrice <- 0, campaign <- 0, suspended <- FALSE, promo <- {}, order <- {},
    returns <- {}, cart <- {}, bought <- {},
    Shop <- {}, MaxStock <- 0, MaxIds <- 0, carts <- {}, cartItems <- {}, ids <- 0, stock <- {},
    sale <- {}, want <- {}

(* Spreadsheets that name variants by id.                                  *)
VariantsNamed == INSTANCE CheckoutProofs WITH
    Req <- OneSlot, Handlers <- {"syncVariants", "createOrder"}, Opt <- {"small", "large"},
    Sku <- {"s1", "s2"}, Price <- {1}, Absolute <- {TRUE}, Ids <- {0, 1, 2}, MaxRows <- 2,
    base <- x1, rows <- x2, inCart <- x3, sold <- x4, job <- x5,
    Buyer <- {}, Variant <- {}, MaxLines <- 0, Repeats <- FALSE, StartStock <- 0, UsageLimit <- 0,
    PerCustomer <- 0, MaxOrders <- 0, BasePrices <- {}, Adjustments <- {}, Discounts <- {},
    variant <- {}, basePrice <- 0, campaign <- 0, suspended <- FALSE, promo <- {}, order <- {},
    returns <- {}, cart <- {}, bought <- {},
    Shop <- {}, MaxStock <- 0, MaxIds <- 0, carts <- {}, cartItems <- {}, ids <- 0, stock <- {},
    sale <- {}, want <- {}

(* Spreadsheets with prices or modifiers.                                  *)
VariantsPriced == INSTANCE CheckoutProofs WITH
    Req <- OneSlot, Handlers <- {"syncVariants"}, Opt <- {"small", "large"},
    Sku <- {"s1", "s2"}, Price <- {1, 2}, Absolute <- {TRUE, FALSE}, Ids <- {0}, MaxRows <- 2,
    base <- x1, rows <- x2, inCart <- x3, sold <- x4, job <- x5,
    Buyer <- {}, Variant <- {}, MaxLines <- 0, Repeats <- FALSE, StartStock <- 0, UsageLimit <- 0,
    PerCustomer <- 0, MaxOrders <- 0, BasePrices <- {}, Adjustments <- {}, Discounts <- {},
    variant <- {}, basePrice <- 0, campaign <- 0, suspended <- FALSE, promo <- {}, order <- {},
    returns <- {}, cart <- {}, bought <- {},
    Shop <- {}, MaxStock <- 0, MaxIds <- 0, carts <- {}, cartItems <- {}, ids <- 0, stock <- {},
    sale <- {}, want <- {}

(* Two edits of the variants at once.                                      *)
VariantsRace == INSTANCE CheckoutProofs WITH
    Req <- TwoSlots, Handlers <- {"addVariant", "syncVariants", "removeVariant", "createOrder"},
    Opt <- {"small"}, Sku <- {"s1"}, Price <- {1, 2}, Absolute <- {TRUE}, Ids <- {0}, MaxRows <- 2,
    base <- x1, rows <- x2, inCart <- x3, sold <- x4, job <- x5,
    Buyer <- {}, Variant <- {}, MaxLines <- 0, Repeats <- FALSE, StartStock <- 0, UsageLimit <- 0,
    PerCustomer <- 0, MaxOrders <- 0, BasePrices <- {}, Adjustments <- {}, Discounts <- {},
    variant <- {}, basePrice <- 0, campaign <- 0, suspended <- FALSE, promo <- {}, order <- {},
    returns <- {}, cart <- {}, bought <- {},
    Shop <- {}, MaxStock <- 0, MaxIds <- 0, carts <- {}, cartItems <- {}, ids <- 0, stock <- {},
    sale <- {}, want <- {}

(* ProductImages, without and with statements that fail.                   *)
ImagesOne == INSTANCE ProductImages WITH
    Req <- OneSlot,
    Handlers <- {"addImage", "updateImage", "setProductThumbnail", "reorderImages",
        "removeImage", "replaceImages"}, MaxImages <- 3, images <- x1, made <- x2, job <- x3

Images == INSTANCE ProductImages WITH
    Req <- OneSlot,
    Handlers <- {"addImage", "updateImage", "setProductThumbnail", "reorderImages",
        "removeImage", "replaceImages", "fail"}, MaxImages <- 3, images <- x1, made <- x2,
    job <- x3

(* ProductCatalog: publishing, the public views, suspension.               *)
CatalogOne == INSTANCE ProductCatalog WITH
    Req <- OneSlot,
    Handlers <- {"create", "createWithVariants", "updateProductForPublicApi", "update",
        "publish", "publishMany", "remove", "editVariant", "removeVariant", "editMedia",
        "suspend"}, Product <- {"p1"}, Field <- {"category"}, MaxVariants <- 1, suspended <- x1,
    shipping <- x2, products <- x3, media <- x4, variants <- x5, job <- x6

(* Publishing with two variants, shipping options coming and going.        *)
CatalogPublish == INSTANCE ProductCatalog WITH
    Req <- OneSlot,
    Handlers <- {"create", "createWithVariants", "publish", "publishMany", "editVariant",
        "removeVariant", "editMedia", "shippingOptions"}, Product <- {"p1"},
    Field <- {"category"}, MaxVariants <- 2, suspended <- x1, shipping <- x2, products <- x3,
    media <- x4, variants <- x5, job <- x6

(* Two products named alike at once.                                       *)
CatalogSlugs == INSTANCE ProductCatalog WITH
    Req <- TwoSlots, Handlers <- {"create", "update", "remove"}, Product <- {"p1", "p2"},
    Field <- {}, MaxVariants <- 0, suspended <- x1, shipping <- x2, products <- x3, media <- x4,
    variants <- x5, job <- x6

(* A store suspended while a product is made.                              *)
CatalogRace == INSTANCE ProductCatalog WITH
    Req <- TwoSlots, Handlers <- {"createWithVariants", "suspend"}, Product <- {"p1"},
    Field <- {}, MaxVariants <- 1, suspended <- x1, shipping <- x2, products <- x3, media <- x4,
    variants <- x5, job <- x6

(* ShippingOptions.                                                        *)
Shipping == INSTANCE ShippingOptions WITH
    Req <- OneSlot,
    Handlers <- {"createShippingOption", "updateShippingOption", "deleteShippingOption",
        "createShippingProvider", "updateShippingProvider", "deleteShippingProvider"},
    Option <- {"o1", "o2"}, Provider <- {"p1", "p2"}, options <- x1, providers <- x2, job <- x3

(* An option saved while its carrier is deleted.                           *)
ShippingRace == INSTANCE ShippingOptions WITH
    Req <- TwoSlots,
    Handlers <- {"createShippingOption", "updateShippingOption", "deleteShippingOption",
        "createShippingProvider", "updateShippingProvider", "deleteShippingProvider"},
    Option <- {"o1", "o2"}, Provider <- {"p1"}, options <- x1, providers <- x2, job <- x3

(* Taxonomy: categories and tags of a product.                             *)
TaxonomyOne == INSTANCE Taxonomy WITH
    Req <- OneSlot, Handlers <- {"create", "setImage", "approve", "reject", "delete", "assign"},
    Kinds <- {"category", "tag"}, Name <- {"n1"}, Product <- {"p1"}, MaxTerms <- 2, terms <- x1,
    next <- x2, products <- x3, job <- x4, answer <- x5

(* Two requests that name things alike.                                    *)
TaxonomyNames == INSTANCE Taxonomy WITH
    Req <- TwoSlots, Handlers <- {"create", "update"}, Kinds <- {"brand"}, Name <- {"n1", "n2"},
    Product <- {}, MaxTerms <- 2, terms <- x1, next <- x2, products <- x3, job <- x4,
    answer <- x5

(* A term deleted while a product takes it.                                *)
TaxonomyRace == INSTANCE Taxonomy WITH
    Req <- TwoSlots, Handlers <- {"create", "delete", "assign"}, Kinds <- {"brand"},
    Name <- {"n1"}, Product <- {"p1"}, MaxTerms <- 2, terms <- x1, next <- x2, products <- x3,
    job <- x4, answer <- x5

(* Reviews: customers, imports and decisions.                              *)
ReviewsOne == INSTANCE Reviews WITH
    Req <- OneSlot,
    Handlers <- {"createReview", "createImported", "deleteImported", "approveReview",
        "rejectReview", "backfill"}, MaxReviews <- 2, MaxTime <- 1, Order <- {"o1"}, Lines <- 1,
    WindowDays <- 1, PublicMax <- 2, orders <- x1, reviews <- x2, replies <- x3, stats <- x4,
    now <- x5, job <- x6

(* More reviews than a page holds.                                         *)
ReviewPages == INSTANCE Reviews WITH
    Req <- OneSlot, Handlers <- {"createImported", "approveReviews", "deleteImported"},
    MaxReviews <- 3, MaxTime <- 1, Order <- {}, Lines <- 1, WindowDays <- 1, PublicMax <- 2,
    orders <- x1, reviews <- x2, replies <- x3, stats <- x4, now <- x5, job <- x6

(* The days an order can be reviewed.                                      *)
ReviewWindow == INSTANCE Reviews WITH
    Req <- OneSlot, Handlers <- {"createReview"}, MaxReviews <- 2, MaxTime <- 4,
    Order <- {"o1"}, Lines <- 1, WindowDays <- 2, PublicMax <- 2, orders <- x1, reviews <- x2,
    replies <- x3, stats <- x4, now <- x5, job <- x6

(* Imports, backfill, replies and decisions at once.                       *)
ReviewsRace == INSTANCE Reviews WITH
    Req <- TwoSlots,
    Handlers <- {"createImported", "approveReview", "approveReviews", "deleteImported",
        "createReviewReply", "updateReviewReply", "backfill"}, MaxReviews <- 1, MaxTime <- 1,
    Order <- {}, Lines <- 1, WindowDays <- 1, PublicMax <- 2, orders <- x1, reviews <- x2,
    replies <- x3, stats <- x4, now <- x5, job <- x6

(* PromotionRules: the four groups of cases.                               *)
PromoValue == INSTANCE PromotionRules WITH
    Kind <- "value", MaxUnits <- 5, MaxLines <- 3, in <- x1, out <- x2

PromoGates == INSTANCE PromotionRules WITH
    Kind <- "gates", MaxUnits <- 5, MaxLines <- 3, in <- x1, out <- x2

PromoBxgy == INSTANCE PromotionRules WITH
    Kind <- "bxgy", MaxUnits <- 4, MaxLines <- 3, in <- x1, out <- x2

PromoStack == INSTANCE PromotionRules WITH
    Kind <- "stack", MaxUnits <- 5, MaxLines <- 3, in <- x1, out <- x2

(* Promotions: a promotion from creation to its last use.                  *)
PromoRows == INSTANCE Promotions WITH
    Req <- OneSlot,
    Handlers <- {"createPromotion", "updatePromotion", "togglePromotion", "deletePromotion",
        "order"}, Promotion <- {"p1"}, Code <- {"c1", "c2"}, Values <- {50, 500}, MaxTime <- 2,
    MaxOrders <- 2, promos <- x1, usages <- x2, now <- x3, job <- x4

(* Two administrators and one code.                                        *)
PromoRace == INSTANCE Promotions WITH
    Req <- TwoSlots, Handlers <- {"createPromotion", "updatePromotion", "deletePromotion"},
    Promotion <- {"p1", "p2"}, Code <- {"c1"}, Values <- {50, 500}, MaxTime <- 1,
    MaxOrders <- 0, promos <- x1, usages <- x2, now <- x3, job <- x4

(* SaleCampaigns: edits of two campaigns.                                  *)
Campaigns == INSTANCE SaleCampaigns WITH
    Req <- OneSlot,
    Handlers <- {"createSaleCampaign", "updateSaleCampaign", "toggleSaleCampaign",
        "deleteSaleCampaign"}, MaxCampaigns <- 2, MaxEdits <- 2, MaxTime <- 1,
    Variant <- {"v1"}, Percent <- {20}, Catalog <- {0, 1, 9000, 27900}, campaigns <- x1,
    items <- x2, edits <- x3, now <- x4, job <- x5

(* Overlapping campaigns on two variants.                                  *)
CampaignPrices == INSTANCE SaleCampaigns WITH
    Req <- OneSlot, Handlers <- {"createSaleCampaign"}, MaxCampaigns <- 2, MaxEdits <- 2,
    MaxTime <- 1, Variant <- {"v1", "v2"}, Percent <- {33}, Catalog <- {0}, campaigns <- x1,
    items <- x2, edits <- x3, now <- x4, job <- x5

(* Prices at the edges, with two requests at once.                         *)
CampaignRace == INSTANCE SaleCampaigns WITH
    Req <- TwoSlots,
    Handlers <- {"createSaleCampaign", "toggleSaleCampaign", "deleteSaleCampaign"},
    MaxCampaigns <- 1, MaxEdits <- 1, MaxTime <- 1, Variant <- {"v1"}, Percent <- {1, 33, 99},
    Catalog <- {0, 1, 50, 51, 149, 27900}, campaigns <- x1, items <- x2, edits <- x3, now <- x4,
    job <- x5

(* PayoutLedger: partial payouts while the rate changes.                   *)
Ledger == INSTANCE PayoutLedger WITH
    Products <- {3, 8}, Shippings <- {2}, Discounts <- {0}, Rates <- {7, 20}, DefaultRate <- 20,
    Progress <- FALSE, Partial <- TRUE, MaxOrders <- 2, MaxPayouts <- 2, orders <- x1,
    payouts <- x2, commissionRate <- x3

(* Orders that move on between payouts.                                    *)
LedgerMoving == INSTANCE PayoutLedger WITH
    Products <- {5}, Shippings <- {1}, Discounts <- {0}, Rates <- {10}, DefaultRate <- 10,
    Progress <- TRUE, Partial <- FALSE, MaxOrders <- 3, MaxPayouts <- 2, orders <- x1,
    payouts <- x2, commissionRate <- x3

ASSUME InstancesAreLegal ==
    /\ Fulfillment!OrderStateAssumption
    /\ Placing!PlaceOrderAssumption
    /\ PlacingTwo!PlaceOrderAssumption
    /\ PlacingRace!PlaceOrderAssumption
    /\ PlacingSale!PlaceOrderAssumption
    /\ CartOne!Carts!CartAssumption
    /\ CartUpdate!Carts!CartAssumption
    /\ CartMerge!Carts!CartAssumption
    /\ Variants!Shelf!VariantsAssumption
    /\ VariantsNamed!Shelf!VariantsAssumption
    /\ VariantsPriced!Shelf!VariantsAssumption
    /\ VariantsRace!Shelf!VariantsAssumption
    /\ ImagesOne!ImagesAssumption
    /\ Images!ImagesAssumption
    /\ CatalogOne!CatalogAssumption
    /\ CatalogPublish!CatalogAssumption
    /\ CatalogSlugs!CatalogAssumption
    /\ CatalogRace!CatalogAssumption
    /\ Shipping!ShippingAssumption
    /\ ShippingRace!ShippingAssumption
    /\ TaxonomyOne!TaxonomyAssumption
    /\ TaxonomyNames!TaxonomyAssumption
    /\ TaxonomyRace!TaxonomyAssumption
    /\ ReviewsOne!ReviewsAssumption
    /\ ReviewPages!ReviewsAssumption
    /\ ReviewWindow!ReviewsAssumption
    /\ ReviewsRace!ReviewsAssumption
    /\ PromoValue!RulesAssumption
    /\ PromoGates!RulesAssumption
    /\ PromoBxgy!RulesAssumption
    /\ PromoStack!RulesAssumption
    /\ PromoRows!PromotionsAssumption
    /\ PromoRace!PromotionsAssumption
    /\ Campaigns!CampaignsAssumption
    /\ CampaignPrices!CampaignsAssumption
    /\ CampaignRace!CampaignsAssumption
    /\ Ledger!LedgerAssumption
    /\ LedgerMoving!LedgerAssumption

-----------------------------------------------------------------------------
Free3 == x3 = 0 /\ x4 = 0 /\ x5 = 0 /\ x6 = 0 /\ x7 = 0 /\ x8 = 0 /\ x9 = 0 /\ x10 = 0 /\ x11 = 0
Free4 == x4 = 0 /\ x5 = 0 /\ x6 = 0 /\ x7 = 0 /\ x8 = 0 /\ x9 = 0 /\ x10 = 0 /\ x11 = 0
Free5 == x5 = 0 /\ x6 = 0 /\ x7 = 0 /\ x8 = 0 /\ x9 = 0 /\ x10 = 0 /\ x11 = 0
Free6 == x6 = 0 /\ x7 = 0 /\ x8 = 0 /\ x9 = 0 /\ x10 = 0 /\ x11 = 0
Free7 == x7 = 0 /\ x8 = 0 /\ x9 = 0 /\ x10 = 0 /\ x11 = 0
Free8 == x8 = 0 /\ x9 = 0 /\ x10 = 0 /\ x11 = 0
Free11 == x11 = 0

rest3 == <<part, x3, x4, x5, x6, x7, x8, x9, x10, x11>>
rest4 == <<part, x4, x5, x6, x7, x8, x9, x10, x11>>
rest5 == <<part, x5, x6, x7, x8, x9, x10, x11>>
rest6 == <<part, x6, x7, x8, x9, x10, x11>>
rest7 == <<part, x7, x8, x9, x10, x11>>
rest8 == <<part, x8, x9, x10, x11>>
rest11 == <<part, x11>>
rest12 == <<part>>

Init ==
    \/ part = "fulfillment" /\ Fulfillment!Init
    \/ part = "placing" /\ Placing!Init /\ Free11
    \/ part = "placingTwo" /\ PlacingTwo!Init /\ Free11
    \/ part = "placingRace" /\ PlacingRace!Init /\ Free11
    \/ part = "placingSale" /\ PlacingSale!Init /\ Free11
    \/ part = "cartOne" /\ CartOne!Carts!Init /\ Free8
    \/ part = "cartUpdate" /\ CartUpdate!Carts!Init /\ Free8
    \/ part = "cartMerge" /\ CartMerge!Carts!Init /\ Free8
    \/ part = "variants" /\ Variants!Shelf!Init /\ Free6
    \/ part = "variantsNamed" /\ VariantsNamed!Shelf!Init /\ Free6
    \/ part = "variantsPriced" /\ VariantsPriced!Shelf!Init /\ Free6
    \/ part = "variantsRace" /\ VariantsRace!Shelf!Init /\ Free6
    \/ part = "imagesOne" /\ ImagesOne!Init /\ Free4
    \/ part = "images" /\ Images!Init /\ Free4
    \/ part = "catalogOne" /\ CatalogOne!Init /\ Free7
    \/ part = "catalogPublish" /\ CatalogPublish!Init /\ Free7
    \/ part = "catalogSlugs" /\ CatalogSlugs!Init /\ Free7
    \/ part = "catalogRace" /\ CatalogRace!Init /\ Free7
    \/ part = "shipping" /\ Shipping!Init /\ Free4
    \/ part = "shippingRace" /\ ShippingRace!Init /\ Free4
    \/ part = "taxonomyOne" /\ TaxonomyOne!Init /\ Free6
    \/ part = "taxonomyNames" /\ TaxonomyNames!Init /\ Free6
    \/ part = "taxonomyRace" /\ TaxonomyRace!Init /\ Free6
    \/ part = "reviewsOne" /\ ReviewsOne!Init /\ Free7
    \/ part = "reviewPages" /\ ReviewPages!Init /\ Free7
    \/ part = "reviewWindow" /\ ReviewWindow!Init /\ Free7
    \/ part = "reviewsRace" /\ ReviewsRace!Init /\ Free7
    \/ part = "promoValue" /\ PromoValue!Init /\ Free3
    \/ part = "promoGates" /\ PromoGates!Init /\ Free3
    \/ part = "promoBxgy" /\ PromoBxgy!Init /\ Free3
    \/ part = "promoStack" /\ PromoStack!Init /\ Free3
    \/ part = "promoRows" /\ PromoRows!Init /\ Free5
    \/ part = "promoRace" /\ PromoRace!Init /\ Free5
    \/ part = "campaigns" /\ Campaigns!Init /\ Free6
    \/ part = "campaignPrices" /\ CampaignPrices!Init /\ Free6
    \/ part = "campaignRace" /\ CampaignRace!Init /\ Free6
    \/ part = "ledger" /\ Ledger!Init /\ Free4
    \/ part = "ledgerMoving" /\ LedgerMoving!Init /\ Free4

FulfillmentNext == part = "fulfillment" /\ Fulfillment!Next /\ UNCHANGED rest12
PlacingNext == part = "placing" /\ Placing!Next /\ UNCHANGED rest11
PlacingTwoNext == part = "placingTwo" /\ PlacingTwo!Next /\ UNCHANGED rest11
PlacingRaceNext == part = "placingRace" /\ PlacingRace!Next /\ UNCHANGED rest11
PlacingSaleNext == part = "placingSale" /\ PlacingSale!Next /\ UNCHANGED rest11
CartOneNext == part = "cartOne" /\ CartOne!Carts!Next /\ UNCHANGED rest8
CartUpdateNext == part = "cartUpdate" /\ CartUpdate!Carts!Next /\ UNCHANGED rest8
CartMergeNext == part = "cartMerge" /\ CartMerge!Carts!Next /\ UNCHANGED rest8
VariantsNext == part = "variants" /\ Variants!Shelf!Next /\ UNCHANGED rest6
VariantsNamedNext == part = "variantsNamed" /\ VariantsNamed!Shelf!Next /\ UNCHANGED rest6
VariantsPricedNext == part = "variantsPriced" /\ VariantsPriced!Shelf!Next /\ UNCHANGED rest6
VariantsRaceNext == part = "variantsRace" /\ VariantsRace!Shelf!Next /\ UNCHANGED rest6
ImagesOneNext == part = "imagesOne" /\ ImagesOne!Next /\ UNCHANGED rest4
ImagesNext == part = "images" /\ Images!Next /\ UNCHANGED rest4
CatalogOneNext == part = "catalogOne" /\ CatalogOne!Next /\ UNCHANGED rest7
CatalogPublishNext == part = "catalogPublish" /\ CatalogPublish!Next /\ UNCHANGED rest7
CatalogSlugsNext == part = "catalogSlugs" /\ CatalogSlugs!Next /\ UNCHANGED rest7
CatalogRaceNext == part = "catalogRace" /\ CatalogRace!Next /\ UNCHANGED rest7
ShippingNext == part = "shipping" /\ Shipping!Next /\ UNCHANGED rest4
ShippingRaceNext == part = "shippingRace" /\ ShippingRace!Next /\ UNCHANGED rest4
TaxonomyOneNext == part = "taxonomyOne" /\ TaxonomyOne!Next /\ UNCHANGED rest6
TaxonomyNamesNext == part = "taxonomyNames" /\ TaxonomyNames!Next /\ UNCHANGED rest6
TaxonomyRaceNext == part = "taxonomyRace" /\ TaxonomyRace!Next /\ UNCHANGED rest6
ReviewsOneNext == part = "reviewsOne" /\ ReviewsOne!Next /\ UNCHANGED rest7
ReviewPagesNext == part = "reviewPages" /\ ReviewPages!Next /\ UNCHANGED rest7
ReviewWindowNext == part = "reviewWindow" /\ ReviewWindow!Next /\ UNCHANGED rest7
ReviewsRaceNext == part = "reviewsRace" /\ ReviewsRace!Next /\ UNCHANGED rest7
PromoValueNext == part = "promoValue" /\ PromoValue!Next /\ UNCHANGED rest3
PromoGatesNext == part = "promoGates" /\ PromoGates!Next /\ UNCHANGED rest3
PromoBxgyNext == part = "promoBxgy" /\ PromoBxgy!Next /\ UNCHANGED rest3
PromoStackNext == part = "promoStack" /\ PromoStack!Next /\ UNCHANGED rest3
PromoRowsNext == part = "promoRows" /\ PromoRows!Next /\ UNCHANGED rest5
PromoRaceNext == part = "promoRace" /\ PromoRace!Next /\ UNCHANGED rest5
CampaignsNext == part = "campaigns" /\ Campaigns!Next /\ UNCHANGED rest6
CampaignPricesNext == part = "campaignPrices" /\ CampaignPrices!Next /\ UNCHANGED rest6
CampaignRaceNext == part = "campaignRace" /\ CampaignRace!Next /\ UNCHANGED rest6
LedgerNext == part = "ledger" /\ Ledger!Next /\ UNCHANGED rest4
LedgerMovingNext == part = "ledgerMoving" /\ LedgerMoving!Next /\ UNCHANGED rest4

Next ==
    \/ FulfillmentNext \/ PlacingNext \/ PlacingTwoNext \/ PlacingRaceNext
    \/ PlacingSaleNext \/ CartOneNext \/ CartUpdateNext \/ CartMergeNext
    \/ VariantsNext \/ VariantsNamedNext \/ VariantsPricedNext
    \/ VariantsRaceNext \/ ImagesOneNext \/ ImagesNext \/ CatalogOneNext
    \/ CatalogPublishNext \/ CatalogSlugsNext \/ CatalogRaceNext \/ ShippingNext
    \/ ShippingRaceNext \/ TaxonomyOneNext \/ TaxonomyNamesNext \/ TaxonomyRaceNext
    \/ ReviewsOneNext \/ ReviewPagesNext \/ ReviewWindowNext \/ ReviewsRaceNext
    \/ PromoValueNext \/ PromoGatesNext \/ PromoBxgyNext \/ PromoStackNext
    \/ PromoRowsNext \/ PromoRaceNext \/ CampaignsNext \/ CampaignPricesNext
    \/ CampaignRaceNext \/ LedgerNext \/ LedgerMovingNext

Spec == Init /\ [][Next]_vars


-----------------------------------------------------------------------------
(* Properties                                                              *)

(* updateFulfillmentStatus, holds and the SLA job, one at a time: the      *)
(* order's status is the one its lines derive (see OrderSystem).           *)
HeaderFollowsItems == part = "fulfillment" => Fulfillment!HeaderFollowsItems

(* Every row of every component holds what its columns may hold.           *)
TypeOK ==
    /\ part = "placing" => Placing!TypeOK
    /\ part = "placingTwo" => PlacingTwo!TypeOK
    /\ part = "placingRace" => PlacingRace!TypeOK
    /\ part = "placingSale" => PlacingSale!TypeOK
    /\ part = "cartOne" => CartOne!Carts!TypeOK
    /\ part = "cartUpdate" => CartUpdate!Carts!TypeOK
    /\ part = "cartMerge" => CartMerge!Carts!TypeOK
    /\ part = "variants" => Variants!Shelf!TypeOK
    /\ part = "variantsNamed" => VariantsNamed!Shelf!TypeOK
    /\ part = "variantsPriced" => VariantsPriced!Shelf!TypeOK
    /\ part = "variantsRace" => VariantsRace!Shelf!TypeOK
    /\ part = "imagesOne" => ImagesOne!TypeOK
    /\ part = "images" => Images!TypeOK
    /\ part = "catalogOne" => CatalogOne!TypeOK
    /\ part = "catalogPublish" => CatalogPublish!TypeOK
    /\ part = "catalogSlugs" => CatalogSlugs!TypeOK
    /\ part = "catalogRace" => CatalogRace!TypeOK
    /\ part = "shipping" => Shipping!TypeOK
    /\ part = "shippingRace" => ShippingRace!TypeOK
    /\ part = "taxonomyOne" => TaxonomyOne!TypeOK
    /\ part = "taxonomyNames" => TaxonomyNames!TypeOK
    /\ part = "taxonomyRace" => TaxonomyRace!TypeOK
    /\ part = "reviewsOne" => ReviewsOne!TypeOK
    /\ part = "promoRows" => PromoRows!TypeOK
    /\ part = "promoRace" => PromoRace!TypeOK
    /\ part = "campaigns" => Campaigns!TypeOK
    /\ part = "ledger" => Ledger!TypeOK

(* createOrder: what left the shelf is what live orders hold, also when    *)
(* two checkouts interleave; one at a time, a promotion is used within its *)
(* limits, its counter says how often, and a cart line is bought once.     *)
PlacedOrdersAddUp ==
    /\ part = "placing" => /\ Placing!StockAccounted /\ Placing!UsageWithinLimits
                           /\ Placing!UsageCountIsTrue /\ Placing!CartLineBoughtOnce
    /\ part = "placingTwo" => PlacingTwo!StockAccounted

(* A new order has nothing of a suspended store and no retired variant,    *)
(* whatever is edited meanwhile, and what its variants cost more or less   *)
(* than the product is that of the commit. (What the product costs and the *)
(* campaigns take off need not be: see PlaceOrder!PricesAreCurrent.)       *)
(* The cart that mergeCart and the cart query answer with can be bought as *)
(* it stands.                                                              *)
OffersAreReal ==
    [][/\ part = "placing" => Placing!SuspendedSellsNothing
       /\ part = "placingRace" => PlacingRace!PricesAreCurrent /\ PlacingRace!RetiredIsNotSold
       /\ part = "placingSale" => PlacingSale!RetiredIsNotSold
       /\ part = "cartOne" => CartOne!Carts!AnswerIsBuyable]_vars

(* Nothing a customer put into a cart is lost, on any device or when carts *)
(* are merged; two requests of one customer leave whole lines.             *)
CartLosesNothing ==
    /\ part = "cartOne" => CartOne!Carts!NothingLost
    /\ part = "cartUpdate" => CartUpdate!Carts!LinesAreWhole
    /\ part = "cartMerge" => CartMerge!Carts!LinesAreWhole

(* A variant that an order or a cart names is never deleted, and two edits *)
(* of a product never give two live variants one SKU.                      *)
VariantsStayReferenced ==
    /\ part = "variants" => Variants!Shelf!SoldVariantIsKept /\ Variants!Shelf!CartHoldsKeptVariants
    /\ part = "variantsRace" => VariantsRace!Shelf!SkusAreUnique

(* The checklists of publish and of the vendor's page agree, every public  *)
(* view shows the same products, live slugs are unique and a product has   *)
(* one thumbnail, at most one if a statement failed; an option's carrier   *)
(* exists.                                                                 *)
ShelvesAreConsistent ==
    /\ part = "catalogOne" => CatalogOne!ChecklistsAgree /\ CatalogOne!PublicViewsAgree
    /\ part = "catalogSlugs" => CatalogSlugs!SlugsAreUnique
    /\ part = "imagesOne" => ImagesOne!OneThumbnail
    /\ part = "images" => Images!AtMostOneThumbnail
    /\ part = "shippingRace" => ShippingRace!CarrierExists

(* Steps no handler takes: to publish what is incomplete, to change the    *)
(* catalog of a suspended store, to end syncVariants with a variant not as *)
(* it was last asked for (or with other options on sale than asked for, if *)
(* no item moves options from one variant to another), to delete the last  *)
(* shipping option, to take a product's only category away, to turn a      *)
(* decision on a review round.                                             *)
ShopKeepsItsWord ==
    [][/\ part = "catalogOne" => CatalogOne!SuspendedCatalogIsFrozen
       /\ part = "catalogPublish" => CatalogPublish!PublishedIsComplete
       /\ part = "variants" => Variants!Shelf!SyncDelivers
       /\ part = "variantsNamed" => VariantsNamed!Shelf!SyncDelivers
       /\ part = "variantsPriced" => VariantsPriced!Shelf!SyncDelivers
       /\ part = "shipping" => Shipping!StoreKeepsShipping
       /\ part = "taxonomyOne" => TaxonomyOne!ProductKeepsItsCategory
       /\ part = "reviewsOne" => ReviewsOne!DecisionIsFinal]_vars

(* Tags on a product carry their names, a proposed category is shown with  *)
(* a picture only, and however two requests name things alike, a slug      *)
(* finds one term and the loser of the race gets a conflict.               *)
TermsAreFound ==
    /\ part = "taxonomyOne" => TaxonomyOne!LabelsFollow /\ TaxonomyOne!ProposedHasImage
    /\ part = "taxonomyNames" => TaxonomyNames!SlugFindsTerm /\ TaxonomyNames!ConflictIsClean

(* The count and the average on the product are those of the reviews its   *)
(* page shows, the pages hold each of them once, an order is reviewed      *)
(* once, what the customer is offered to review can be reviewed, and no    *)
(* imported picture is left on a foreign server.                           *)
ReviewsAddUp ==
    /\ part = "reviewsOne" => ReviewsOne!StatsMatch /\ ReviewsOne!OneReviewPerOrder
    /\ part = "reviewPages" => ReviewPages!StatsMatch /\ ReviewPages!PagesCoverTheList
    /\ part = "reviewWindow" => ReviewWindow!ListedCanBeReviewed
    /\ part = "reviewsRace" => ReviewsRace!ImportsAreStored

(* A discount stays within what it is taken from, the preview and the      *)
(* checkout agree, buy-x-get-y gives the cheapest away, a stack adds up to *)
(* what the order records; listed promotions can be used, uses are         *)
(* counted, and two edits leave valid rows with codes of their own.        *)
DiscountsAreFair ==
    /\ part = "promoValue" => PromoValue!DiscountWithinBase
    /\ part = "promoGates" => PromoGates!PreviewMatchesCheckout /\ PromoGates!NewCustomersOnly
    /\ part = "promoBxgy" => PromoBxgy!CheapestAreFree
    /\ part = "promoStack" => PromoStack!StackIsAccounted
    /\ part = "promoRows" => PromoRows!ListedIsUsable /\ PromoRows!UsageIsCounted
    /\ part = "promoRace" => PromoRace!RowsAreValid /\ PromoRace!CodesAreUnique

(* The price shown is the price charged, of overlapping campaigns the best *)
(* one wins, a sale price is below the price it is compared with and a     *)
(* campaign's items come from one edit.                                    *)
SalePricesAreFair ==
    /\ part = "campaigns" => Campaigns!ItemsAreOneEdit
    /\ part = "campaignPrices" => CampaignPrices!ShownIsCharged /\ CampaignPrices!WinnerIsBest
    /\ part = "campaignRace" => CampaignRace!SalePriceIsFair /\ CampaignRace!WasPriceIsHonest

(* A payout takes the greatest part of the ledger that the amount pays     *)
(* for, its commission passes the service's own check, and however payouts *)
(* are split, rates change and orders move on, neither product nor         *)
(* shipping is paid out twice.                                             *)
LedgerPaysOnce ==
    /\ part = "ledger" => /\ Ledger!SearchIsGreatest /\ Ledger!PaysWhatWasAsked
                          /\ Ledger!CommissionFormulaHolds /\ Ledger!ShippingPaidOnce
    /\ part = "ledgerMoving" => LedgerMoving!ProductPaidOnce
-----------------------------------------------------------------------------
(* What the theorems of OrderSystemProofs and CheckoutProofs say of the    *)
(* shop, whose components are instances of the modules with their proofs.  *)

(* A step stays with its component, and is one of its own.                 *)
LEMMA StepOfPart ==
  ASSUME [Next]_vars
  PROVE  /\ part' = part
         /\ part = "fulfillment" => FulfillmentNext \/ UNCHANGED vars
         /\ part = "placing" => PlacingNext \/ UNCHANGED vars
         /\ part = "placingTwo" => PlacingTwoNext \/ UNCHANGED vars
         /\ part = "placingRace" => PlacingRaceNext \/ UNCHANGED vars
         /\ part = "placingSale" => PlacingSaleNext \/ UNCHANGED vars
         /\ part = "cartOne" => CartOneNext \/ UNCHANGED vars
         /\ part = "cartUpdate" => CartUpdateNext \/ UNCHANGED vars
         /\ part = "cartMerge" => CartMergeNext \/ UNCHANGED vars
         /\ part = "variants" => VariantsNext \/ UNCHANGED vars
         /\ part = "variantsRace" => VariantsRaceNext \/ UNCHANGED vars
  BY DEF Next, vars, rest3, rest4, rest5, rest6, rest7, rest8, rest11, rest12,
       FulfillmentNext, PlacingNext, PlacingTwoNext, PlacingRaceNext, PlacingSaleNext, CartOneNext,
       CartUpdateNext, CartMergeNext, VariantsNext, VariantsNamedNext, VariantsPricedNext,
       VariantsRaceNext, ImagesOneNext,
       ImagesNext, CatalogOneNext, CatalogPublishNext, CatalogSlugsNext, CatalogRaceNext,
       ShippingNext, ShippingRaceNext, TaxonomyOneNext, TaxonomyNamesNext,
       TaxonomyRaceNext, ReviewsOneNext, ReviewPagesNext, ReviewWindowNext,
       ReviewsRaceNext, PromoValueNext, PromoGatesNext, PromoBxgyNext, PromoStackNext,
       PromoRowsNext, PromoRaceNext, CampaignsNext, CampaignPricesNext,
       CampaignRaceNext, LedgerNext, LedgerMovingNext

(* Two stores, one handler at a time, an admin who cancels or refunds only *)
(* and no webhook.                                                         *)
LEMMA FulfillmentIsSerial ==
  /\ Fulfillment!OrderStateAssumption
  /\ Fulfillment!Serial
  BY InstancesAreLegal DEF Fulfillment!Serial, Fulfillment!TERMINAL_ORDER_STATUSES, OneSlot

FulfillmentInv == part = "fulfillment" => Fulfillment!SerialInv /\ Fulfillment!HeaderInv

(* The header of the shop's order follows its lines, as they are paid for, *)
(* acknowledged, shipped, delivered, held, restored and cancelled.         *)
THEOREM OrderHeaderFollows == Spec => []HeaderFollowsItems
<1>1. Init => FulfillmentInv
  <2> SUFFICES ASSUME Init, part = "fulfillment"
               PROVE  Fulfillment!SerialInv /\ Fulfillment!HeaderInv
    BY DEF FulfillmentInv
  <2>1. Fulfillment!Init
    BY DEF Init
  <2>2. QED
    BY <2>1, FulfillmentIsSerial, Fulfillment!SerialInit, Fulfillment!HeaderInit
<1>2. FulfillmentInv /\ [Next]_vars => FulfillmentInv'
  <2> SUFFICES ASSUME FulfillmentInv, [Next]_vars, part = "fulfillment"
               PROVE  Fulfillment!SerialInv' /\ Fulfillment!HeaderInv'
    BY StepOfPart DEF FulfillmentInv
  <2>1. [Fulfillment!Next]_(Fulfillment!vars)
    BY StepOfPart DEF FulfillmentNext, vars, Fulfillment!vars
  <2>2. Fulfillment!SerialInv'
    BY <2>1, FulfillmentIsSerial, Fulfillment!SerialNext DEF FulfillmentInv
  <2>3. Fulfillment!HeaderInv'
    BY <2>1, <2>2, FulfillmentIsSerial, Fulfillment!HeaderNext DEF FulfillmentInv
  <2>4. QED
    BY <2>2, <2>3
<1>3. FulfillmentInv => HeaderFollowsItems
  BY DEF FulfillmentInv, HeaderFollowsItems, Fulfillment!HeaderInv
<1>4. QED
  BY <1>1, <1>2, <1>3, PTL DEF Spec

-----------------------------------------------------------------------------
(* The constants of the checkouts: one request, or handlers that neither   *)
(* load a variant to save it nor edit the promotion.                       *)
LEMMA PlacingIsSound ==
  /\ Placing!PlaceOrderAssumption /\ Placing!OneRequest
  /\ Placing!StockAlone /\ Placing!CountAlone /\ Placing!LinesAreApart
  /\ PlacingTwo!PlaceOrderAssumption /\ PlacingTwo!StockAlone /\ PlacingTwo!LinesAreApart
  /\ PlacingRace!PlaceOrderAssumption /\ PlacingRace!PricesAlone /\ PlacingSale!PlaceOrderAssumption
  BY InstancesAreLegal DEF Placing!OneRequest, Placing!StockAlone, Placing!CountAlone,
     Placing!LinesAreApart, PlacingTwo!StockAlone, PlacingTwo!LinesAreApart, PlacingRace!PricesAlone, OneSlot

(* The inductive invariants of the checkouts.                              *)
PlacingInv ==
    /\ part = "placing" => /\ Placing!CheckoutInv /\ Placing!LocksInv /\ Placing!StockInv
                           /\ Placing!CountInv /\ Placing!LimitsInv
    /\ part = "placingTwo" => PlacingTwo!CheckoutInv /\ PlacingTwo!LocksInv /\ PlacingTwo!StockInv

(* The checkouts start in their invariants.                                *)
LEMMA PlacingStart == Init => PlacingInv
<1> SUFFICES ASSUME Init PROVE PlacingInv OBVIOUS
<1>1. CASE part = "placing"
  <2>1. Placing!Init BY <1>1, ZenonT(40) DEF Init
  <2>2. Placing!CheckoutInv /\ Placing!LocksInv /\ Placing!StockInv
    BY <2>1, PlacingIsSound, Placing!CheckoutInit, Placing!LocksInit, Placing!StockInit
  <2>3. Placing!CountInv /\ Placing!LimitsInv
    BY <2>1, PlacingIsSound, Placing!CountInit, Placing!LimitsInit
  <2> QED BY <1>1, <2>2, <2>3 DEF PlacingInv
<1>2. CASE part = "placingTwo"
  <2>1. PlacingTwo!Init BY <1>2, ZenonT(40) DEF Init
  <2>2. PlacingTwo!CheckoutInv /\ PlacingTwo!LocksInv /\ PlacingTwo!StockInv
    BY <2>1, PlacingIsSound, PlacingTwo!CheckoutInit, PlacingTwo!LocksInit, PlacingTwo!StockInit
  <2> QED BY <1>2, <2>2 DEF PlacingInv
<1> QED BY <1>1, <1>2 DEF PlacingInv

(* A step of the shop keeps the invariants of the checkouts.               *)
LEMMA PlacingGoesOn == ASSUME PlacingInv, [Next]_vars PROVE PlacingInv'
<1>1. CASE part = "placing"
  <2>1. [Placing!Next]_(Placing!vars) BY <1>1, StepOfPart DEF PlacingNext, vars, Placing!vars
  <2>2. /\ Placing!CheckoutInv /\ Placing!LocksInv /\ Placing!StockInv
        /\ Placing!CountInv /\ Placing!LimitsInv
    BY <1>1 DEF PlacingInv
  <2>3. Placing!CheckoutInv' BY <2>1, <2>2, PlacingIsSound, Placing!CheckoutNext
  <2>4. Placing!LocksInv' BY <2>1, <2>2, PlacingIsSound, Placing!LocksNext
  <2>5. Placing!StockInv' BY <2>1, <2>2, PlacingIsSound, Placing!StockNext
  <2>6. Placing!CountInv' BY <2>1, <2>2, PlacingIsSound, Placing!CountNext
  <2>7. Placing!LimitsInv' BY <2>1, <2>2, PlacingIsSound, Placing!LimitsNext
  <2> QED BY <1>1, <2>3, <2>4, <2>5, <2>6, <2>7, StepOfPart DEF PlacingInv
<1>2. CASE part = "placingTwo"
  <2>1. [PlacingTwo!Next]_(PlacingTwo!vars) BY <1>2, StepOfPart DEF PlacingTwoNext, vars, PlacingTwo!vars
  <2>2. PlacingTwo!CheckoutInv /\ PlacingTwo!LocksInv /\ PlacingTwo!StockInv BY <1>2 DEF PlacingInv
  <2>3. PlacingTwo!CheckoutInv' BY <2>1, <2>2, PlacingIsSound, PlacingTwo!CheckoutNext
  <2>4. PlacingTwo!LocksInv' BY <2>1, <2>2, PlacingIsSound, PlacingTwo!LocksNext
  <2>5. PlacingTwo!StockInv' BY <2>1, <2>2, PlacingIsSound, PlacingTwo!StockNext
  <2> QED BY <1>2, <2>3, <2>4, <2>5, StepOfPart DEF PlacingInv
<1> QED BY <1>1, <1>2, StepOfPart DEF PlacingInv

(* Stock, uses of the promotion and cart lines add up: in Shop, from the   *)
(* theorems of CheckoutProofs.                                             *)
THEOREM PlacedOrdersHold == Spec => []PlacedOrdersAddUp
<1>1. PlacingInv => PlacedOrdersAddUp
  <2>1. /\ Placing!StockInv => Placing!StockAccounted
        /\ PlacingTwo!StockInv => PlacingTwo!StockAccounted
    BY DEF Placing!StockInv, PlacingTwo!StockInv
  <2>2. /\ Placing!CountInv => Placing!UsageCountIsTrue
        /\ Placing!LimitsInv => Placing!UsageWithinLimits /\ Placing!CartLineBoughtOnce
    BY DEF Placing!CountInv, Placing!LimitsInv
  <2> QED BY <2>1, <2>2 DEF PlacingInv, PlacedOrdersAddUp
<1> QED BY <1>1, PlacingStart, PlacingGoesOn, PTL DEF Spec

-----------------------------------------------------------------------------
(* Variants are edited by one request at a time in the first instance.     *)
LEMMA VariantsAreSound == Variants!OneRequest
  BY DEF Variants!OneRequest, OneSlot

(* The inductive invariants of the variants.                               *)
VariantsInv ==
    /\ part = "variants" => Variants!ShelfInv /\ Variants!NamedAreKept
    /\ part = "variantsRace" => VariantsRace!ShelfInv

(* What orders and carts name is kept, and SKUs are unique however edits   *)
(* overlap: in Shop, from the theorems of CheckoutProofs.                  *)
THEOREM VariantsAreKept == Spec => []VariantsStayReferenced
<1>1. Init => VariantsInv
  <2> SUFFICES ASSUME Init PROVE VariantsInv OBVIOUS
  <2>1. CASE part = "variants"
    <3>1. Variants!Shelf!Init BY <2>1, ZenonT(40) DEF Init
    <3> QED BY <2>1, <3>1, Variants!ShelfInit DEF VariantsInv
  <2>2. CASE part = "variantsRace"
    <3>1. VariantsRace!Shelf!Init BY <2>2, ZenonT(40) DEF Init
    <3> QED BY <2>2, <3>1, VariantsRace!ShelfInit DEF VariantsInv
  <2> QED BY <2>1, <2>2 DEF VariantsInv
<1>2. VariantsInv /\ [Next]_vars => VariantsInv'
  <2> SUFFICES ASSUME VariantsInv, [Next]_vars PROVE VariantsInv' OBVIOUS
  <2>1. CASE part = "variants"
    <3>1. [Variants!Shelf!Next]_(Variants!Shelf!vars)
      BY <2>1, StepOfPart DEF VariantsNext, vars, Variants!Shelf!vars
    <3>2. Variants!ShelfInv /\ Variants!NamedAreKept BY <2>1 DEF VariantsInv
    <3>3. Variants!ShelfInv' /\ Variants!NamedAreKept'
      BY <3>1, <3>2, VariantsAreSound, Variants!ShelfNext
    <3> QED BY <2>1, <3>3, StepOfPart DEF VariantsInv
  <2>2. CASE part = "variantsRace"
    <3>1. [VariantsRace!Shelf!Next]_(VariantsRace!Shelf!vars)
      BY <2>2, StepOfPart DEF VariantsRaceNext, vars, VariantsRace!Shelf!vars
    <3>2. VariantsRace!ShelfInv BY <2>2 DEF VariantsInv
    <3>3. VariantsRace!ShelfInv' BY <3>1, <3>2, VariantsRace!ShelfNext
    <3> QED BY <2>2, <3>3, StepOfPart DEF VariantsInv
  <2> QED BY <2>1, <2>2, StepOfPart DEF VariantsInv
<1>3. VariantsInv => VariantsStayReferenced
  <2>1. Variants!NamedAreKept => Variants!Shelf!SoldVariantIsKept /\ Variants!Shelf!CartHoldsKeptVariants
    BY Variants!KeptGives
  <2>2. VariantsRace!ShelfInv => VariantsRace!Shelf!SkusAreUnique
    BY DEF VariantsRace!ShelfInv
  <2> QED BY <2>1, <2>2 DEF VariantsInv, VariantsStayReferenced
<1> QED BY <1>1, <1>2, <1>3, PTL DEF Spec

-----------------------------------------------------------------------------
(* The constants of the carts.                                             *)
LEMMA CartsAreSound ==
  /\ CartOne!Carts!CartAssumption /\ CartUpdate!Carts!CartAssumption /\ CartMerge!Carts!CartAssumption
  /\ CartOne!OneRequest /\ "crash" \notin {"sell", "withdraw"}
  BY InstancesAreLegal DEF CartOne!OneRequest, OneSlot

(* The inductive invariants of the carts.                                  *)
CartsInv ==
    /\ part = "cartOne" => CartOne!CartInv /\ CartOne!OneCartInv
    /\ part = "cartUpdate" => CartUpdate!CartInv
    /\ part = "cartMerge" => CartMerge!CartInv

(* The carts start in their invariants.                                    *)
LEMMA CartsStart == Init => CartsInv
<1> SUFFICES ASSUME Init PROVE CartsInv OBVIOUS
<1>1. CASE part = "cartOne"
  <2>1. CartOne!Carts!Init BY <1>1, ZenonT(40) DEF Init
  <2> QED BY <1>1, <2>1, CartsAreSound, CartOne!CartStart DEF CartsInv
<1>2. CASE part = "cartUpdate"
  <2>1. CartUpdate!Carts!Init BY <1>2, ZenonT(40) DEF Init
  <2> QED BY <1>2, <2>1, CartsAreSound, CartUpdate!CartStart DEF CartsInv
<1>3. CASE part = "cartMerge"
  <2>1. CartMerge!Carts!Init BY <1>3, ZenonT(40) DEF Init
  <2> QED BY <1>3, <2>1, CartsAreSound, CartMerge!CartStart DEF CartsInv
<1> QED BY <1>1, <1>2, <1>3 DEF CartsInv

(* A step of the shop keeps the invariants of the carts.                   *)
LEMMA CartsGoOn == ASSUME CartsInv, [Next]_vars PROVE CartsInv'
<1>1. CASE part = "cartOne"
  <2>1. [CartOne!Carts!Next]_(CartOne!Carts!vars)
    BY <1>1, StepOfPart DEF CartOneNext, vars, CartOne!Carts!vars
  <2>2. CartOne!CartInv /\ CartOne!OneCartInv BY <1>1 DEF CartsInv
  <2>3. CartOne!CartInv' /\ CartOne!OneCartInv' BY <2>1, <2>2, CartsAreSound, CartOne!CartNext
  <2> QED BY <1>1, <2>3, StepOfPart DEF CartsInv
<1>2. CASE part = "cartUpdate"
  <2>1. [CartUpdate!Carts!Next]_(CartUpdate!Carts!vars)
    BY <1>2, StepOfPart DEF CartUpdateNext, vars, CartUpdate!Carts!vars
  <2>2. CartUpdate!CartInv BY <1>2 DEF CartsInv
  <2>3. CartUpdate!CartInv' BY <2>1, <2>2, CartsAreSound, CartUpdate!CartNext
  <2> QED BY <1>2, <2>3, StepOfPart DEF CartsInv
<1>3. CASE part = "cartMerge"
  <2>1. [CartMerge!Carts!Next]_(CartMerge!Carts!vars)
    BY <1>3, StepOfPart DEF CartMergeNext, vars, CartMerge!Carts!vars
  <2>2. CartMerge!CartInv BY <1>3 DEF CartsInv
  <2>3. CartMerge!CartInv' BY <2>1, <2>2, CartsAreSound, CartMerge!CartNext
  <2> QED BY <1>3, <2>3, StepOfPart DEF CartsInv
<1> QED BY <1>1, <1>2, <1>3, StepOfPart DEF CartsInv

(* Nothing is lost or doubled in a cart, and lines are whole: in Shop,     *)
(* from the theorems of CheckoutProofs.                                    *)
THEOREM CartsLoseNothing == Spec => []CartLosesNothing
<1>1. CartsInv => CartLosesNothing
  <2>1. CartOne!OneCartInv => CartOne!Carts!NothingLost
    BY DEF CartOne!OneCartInv
  <2>2. CartUpdate!CartInv => CartUpdate!Carts!LinesAreWhole
    BY CartUpdate!CartGives
  <2>3. CartMerge!CartInv => CartMerge!Carts!LinesAreWhole
    BY CartMerge!CartGives
  <2> QED BY <2>1, <2>2, <2>3 DEF CartsInv, CartLosesNothing
<1> QED BY <1>1, CartsStart, CartsGoOn, PTL DEF Spec

-----------------------------------------------------------------------------
(* Checkouts beside edits of the vendor.                                   *)
RaceInv ==
    /\ part = "placingRace" => PlacingRace!CheckoutInv /\ PlacingRace!LocksInv /\ PlacingRace!PricesInv
    /\ part = "placingSale" => PlacingSale!CheckoutInv /\ PlacingSale!LocksInv

(* They start in their invariants.                                         *)
LEMMA RaceStart == Init => RaceInv
<1> SUFFICES ASSUME Init PROVE RaceInv OBVIOUS
<1>1. CASE part = "placingRace"
  <2>1. PlacingRace!Init BY <1>1, ZenonT(40) DEF Init
  <2>2. PlacingRace!CheckoutInv /\ PlacingRace!LocksInv /\ PlacingRace!PricesInv
    BY <2>1, PlacingIsSound, PlacingRace!CheckoutInit, PlacingRace!LocksInit, PlacingRace!PricesInit
  <2> QED BY <1>1, <2>2 DEF RaceInv
<1>2. CASE part = "placingSale"
  <2>1. PlacingSale!Init BY <1>2, ZenonT(40) DEF Init
  <2>2. PlacingSale!CheckoutInv /\ PlacingSale!LocksInv
    BY <2>1, PlacingIsSound, PlacingSale!CheckoutInit, PlacingSale!LocksInit
  <2> QED BY <1>2, <2>2 DEF RaceInv
<1> QED BY <1>1, <1>2 DEF RaceInv

(* A step of the shop keeps them.                                          *)
LEMMA RaceGoesOn == ASSUME RaceInv, [Next]_vars PROVE RaceInv'
<1>1. CASE part = "placingRace"
  <2>1. [PlacingRace!Next]_(PlacingRace!vars) BY <1>1, StepOfPart DEF PlacingRaceNext, vars, PlacingRace!vars
  <2>2. PlacingRace!CheckoutInv /\ PlacingRace!LocksInv /\ PlacingRace!PricesInv BY <1>1 DEF RaceInv
  <2>3. PlacingRace!CheckoutInv' BY <2>1, <2>2, PlacingIsSound, PlacingRace!CheckoutNext
  <2>4. PlacingRace!LocksInv' BY <2>1, <2>2, PlacingIsSound, PlacingRace!LocksNext
  <2>5. PlacingRace!PricesInv' BY <2>1, <2>2, PlacingIsSound, PlacingRace!PricesNext
  <2> QED BY <1>1, <2>3, <2>4, <2>5, StepOfPart DEF RaceInv
<1>2. CASE part = "placingSale"
  <2>1. [PlacingSale!Next]_(PlacingSale!vars) BY <1>2, StepOfPart DEF PlacingSaleNext, vars, PlacingSale!vars
  <2>2. PlacingSale!CheckoutInv /\ PlacingSale!LocksInv BY <1>2 DEF RaceInv
  <2>3. PlacingSale!CheckoutInv' BY <2>1, <2>2, PlacingIsSound, PlacingSale!CheckoutNext
  <2>4. PlacingSale!LocksInv' BY <2>1, <2>2, PlacingIsSound, PlacingSale!LocksNext
  <2> QED BY <1>2, <2>3, <2>4, StepOfPart DEF RaceInv
<1> QED BY <1>1, <1>2, StepOfPart DEF RaceInv

(* No order is placed in a suspended store, one request at a time; none    *)
(* has a retired variant, whatever the vendor edits beside the checkout;   *)
(* while the product's price and the campaigns stay, an order has the      *)
(* prices of its commit; and the cart a customer is answered with can be   *)
(* bought: in Shop, from the theorems of CheckoutProofs.                   *)
THEOREM OffersHold == Spec => OffersAreReal
<1> DEFINE Inv == PlacingInv /\ CartsInv /\ RaceInv
           Real == /\ part = "placing" => Placing!SuspendedSellsNothing
                   /\ part = "placingRace" => PlacingRace!PricesAreCurrent /\ PlacingRace!RetiredIsNotSold
                   /\ part = "placingSale" => PlacingSale!RetiredIsNotSold
                   /\ part = "cartOne" => CartOne!Carts!AnswerIsBuyable
<1>1. Init => Inv
  BY PlacingStart, CartsStart, RaceStart
<1>2. Inv /\ [Next]_vars => Inv'
  BY PlacingGoesOn, CartsGoOn, RaceGoesOn
<1>3. ASSUME Inv, [Next]_vars PROVE Real
  <2>1. CASE part = "placing"
    <3>1. [Placing!Next]_(Placing!vars) BY <1>3, <2>1, StepOfPart DEF PlacingNext, vars, Placing!vars
    <3>2. Placing!CheckoutInv /\ Placing!LimitsInv BY <1>3, <2>1 DEF PlacingInv
    <3>3. Placing!SuspendedSellsNothing BY <3>1, <3>2, PlacingIsSound, Placing!OrderIsOfOpenStore
    <3> QED BY <2>1, <3>3
  <2>2. CASE part = "placingRace"
    <3>1. [PlacingRace!Next]_(PlacingRace!vars)
      BY <1>3, <2>2, StepOfPart DEF PlacingRaceNext, vars, PlacingRace!vars
    <3>2. PlacingRace!CheckoutInv /\ PlacingRace!LocksInv /\ PlacingRace!PricesInv BY <1>3, <2>2 DEF RaceInv
    <3>3. PlacingRace!PricesAreCurrent BY <3>1, <3>2, PlacingIsSound, PlacingRace!SoldAtThePrice
    <3>4. PlacingRace!RetiredIsNotSold BY <3>1, <3>2, PlacingIsSound, PlacingRace!SoldIsKept
    <3> QED BY <2>2, <3>3, <3>4
  <2>3. CASE part = "placingSale"
    <3>1. [PlacingSale!Next]_(PlacingSale!vars)
      BY <1>3, <2>3, StepOfPart DEF PlacingSaleNext, vars, PlacingSale!vars
    <3>2. PlacingSale!CheckoutInv /\ PlacingSale!LocksInv BY <1>3, <2>3 DEF RaceInv
    <3>3. PlacingSale!RetiredIsNotSold BY <3>1, <3>2, PlacingIsSound, PlacingSale!SoldIsKept
    <3> QED BY <2>3, <3>3
  <2>4. CASE part = "cartOne"
    <3>1. [CartOne!Carts!Next]_(CartOne!Carts!vars)
      BY <1>3, <2>4, StepOfPart DEF CartOneNext, vars, CartOne!Carts!vars
    <3>2. CartOne!CartInv /\ CartOne!OneCartInv BY <1>3, <2>4 DEF CartsInv
    <3>3. CartOne!Carts!AnswerIsBuyable BY <3>1, <3>2, CartsAreSound, CartOne!CartIsAnswered
    <3> QED BY <2>4, <3>3
  <2> QED BY <2>1, <2>2, <2>3, <2>4
<1>4. Inv /\ [Next]_vars => Real
  BY <1>3
<1> HIDE DEF Inv
<1> QED BY <1>1, <1>2, <1>4, PTL DEF Spec, OffersAreReal
=============================================================================
